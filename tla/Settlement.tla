----------------------------- MODULE Settlement -----------------------------
(***************************************************************************)
(* What an invoice or a bill promises the one who issued it, with no       *)
(* requests, lines or ledger in sight: once issued it asks for a fixed     *)
(* sum; every payment received takes exactly its amount off what is        *)
(* outstanding, never more than that; it is settled when, and only when,   *)
(* nothing is outstanding, and nothing is received on it afterwards.       *)
(* Module Billing is what the handlers do.                                 *)
(***************************************************************************)
EXTENDS Naturals

CONSTANT Documents

VARIABLES phase,         \* phase[d]: has it been issued, has it been settled
          outstanding,   \* outstanding[d]: what it still asks for
          received       \* received[d]: the sum of the payments on it

vars == <<phase, outstanding, received>>

Init == /\ phase = [d \in Documents |-> "unissued"]
        /\ outstanding = [d \in Documents |-> 0]
        /\ received = [d \in Documents |-> 0]

(* The document is issued for some sum. *)
Issue(d) ==
  /\ phase[d] = "unissued"
  /\ outstanding'[d] > 0
  /\ phase' = [phase EXCEPT ![d] = "open"]
  /\ outstanding' = [outstanding EXCEPT ![d] = outstanding'[d]]
  /\ UNCHANGED received

(* A payment arrives, and settles the document or leaves it open. *)
Receive(d) ==
  LET n == received'[d] - received[d] IN
  /\ phase[d] = "open"
  /\ received'[d] > received[d]
  /\ n <= outstanding[d]
  /\ received' = [received EXCEPT ![d] = received'[d]]
  /\ outstanding' = [outstanding EXCEPT ![d] = @ - n]
  /\ phase' = [phase EXCEPT ![d] = IF n = outstanding[d] THEN "settled" ELSE "open"]

Next == \E d \in Documents : Issue(d) \/ Receive(d)

Spec == Init /\ [][Next]_vars
=============================================================================
