----------------------------- MODULE MCJournal ------------------------------
(* Small instances of Journal. *)
EXTENDS Journal, TLC

CONSTANTS a1, a2

(* A balanced draft, one that does not balance, and one whose first line   *)
(* has two sides and is refused.                                           *)
MCPayloads == {
  <<[account |-> a1, debit |-> 1, credit |-> 0], [account |-> a2, debit |-> 0, credit |-> 1]>>,
  <<[account |-> a1, debit |-> 1, credit |-> 0], [account |-> a2, debit |-> 0, credit |-> 2]>>,
  <<[account |-> a1, debit |-> 1, credit |-> 1], [account |-> a2, debit |-> 0, credit |-> 1]>> }

Symmetry == Permutations(Requests)
=============================================================================
