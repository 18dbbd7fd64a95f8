----------------------------- MODULE MCAccess -------------------------------
(* Small instances of Access. *)
EXTENDS Access, TLC

Symmetry == Permutations(Clients) \cup Permutations(Emails) \cup Permutations(Tokens)
=============================================================================
