----------------------------- MODULE MCAccounts -----------------------------
(* Two browsers, one username, two accounts in a row under it, and a server  *)
(* restarted between two files that name different superusers.  The screens  *)
(* of the assistants, which share no state with the accounts, are checked in *)
(* the same run: which of the two moves is chosen at the start.              *)
EXTENDS Accounts, Assistants, TLC

CONSTANTS b1, b2, n1, p1, p2, root, boss

MCConfigs == {[super |-> root, allowed |-> {b1, b2}],
              [super |-> boss, allowed |-> {b1}]}

Symmetric == Permutations({p1, p2})

VARIABLE part

ScreensInit ==
    /\ part \in {"accounts", "assistants"}
    /\ Init /\ AssistantsInit
    /\ part = "accounts" => hasKey
    /\ part = "assistants" => config.super = root

ScreensNext ==
    /\ UNCHANGED part
    /\ \/ part = "accounts" /\ Next /\ UNCHANGED assistantVars
       \/ part = "assistants" /\ AssistantsNext /\ UNCHANGED vars

ScreensSpec == ScreensInit /\ [][ScreensNext]_<<part, vars, assistantVars>>

=============================================================================
