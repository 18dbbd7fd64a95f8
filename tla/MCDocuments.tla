---------------------------- MODULE MCDocuments -----------------------------
(* Small instances of Documents. *)
EXTENDS Documents, TLC

Symmetry == Permutations(Requests)
=============================================================================
