---------------------------- MODULE MCReading ----------------------------
(* Reading on a small instance: two tabs of one sign-in, and another client. *)
(* Contacts, which mail fills too and which shares no state with it, is      *)
(* checked in the same run: which of the two moves is chosen at the start.   *)
EXTENDS Reading, Contacts, TLC

Interchangeable == Permutations(Tabs)

VARIABLE part

MailInit ==
    /\ part \in {"reading", "contacts"}
    /\ Init /\ (part # "reading" => cap = "MOVE")
    /\ BookInit

MailNext ==
    /\ UNCHANGED part
    /\ \/ part = "reading" /\ Next /\ UNCHANGED bookVars
       \/ part = "contacts" /\ BookNext /\ UNCHANGED vars

MailSpec == MailInit /\ [][MailNext]_<<part, vars, bookVars>>
=============================================================================
