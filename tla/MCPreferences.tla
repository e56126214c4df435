--------------------------- MODULE MCPreferences ---------------------------
(* Preferences on a small instance. *)
EXTENDS Preferences, TLC

Interchangeable ==
    Permutations(Addr) \union Permutations(Users) \union Permutations(Reqs)

\* One direct session at a time; accounts write beside it.
AtMostOneDoor == \A a, b \in door : a = b
=============================================================================
