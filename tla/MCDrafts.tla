---------------------------- MODULE MCDrafts ----------------------------
(* Drafts on a small instance: two composers, two requests at once. *)
EXTENDS Drafts, TLC

Interchangeable == Permutations(Requests)
=============================================================================
