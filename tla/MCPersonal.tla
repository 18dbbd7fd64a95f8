---------------------------- MODULE MCPersonal -------------------------------
(* Small instances of Personal: an account for the lines of budgets, one   *)
(* for links to name, and one that is still to be created.                 *)
EXTENDS Personal, TLC

CONSTANTS e1, a1

MCSeeded == [t \in {"expense", "asset", "liability"} |->
               CASE t = "expense" -> {e1} [] t = "asset" -> {a1} [] OTHER -> {}]

Symmetry == Permutations(Clients)
=============================================================================
