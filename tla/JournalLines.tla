---------------------------- MODULE JournalLines ----------------------------
(***************************************************************************)
(* Journal lines and the arithmetic the ledger does on them                *)
(* (services/journal.py, models/journal.py).                               *)
(*                                                                         *)
(* A request inserts all the lines it writes on an entry together, and     *)
(* later requests delete them together, so the rows of one entry are kept  *)
(* as batches: lines[q] is the sequence of lines request q inserted and    *)
(* nobody has deleted, <<>> when there is none.  Amounts are whole cents.  *)
(***************************************************************************)
EXTENDS Integers, Sequences, FiniteSets, Sums

CONSTANTS Requests,   \* the identities of requests, and of the entries they insert
          Accounts    \* the chart of accounts of one entity

(* Whatever is summed over the rows of a table is a finite sum. *)
ASSUME RequestsAssumption == IsFiniteSet(Requests)

Line == [account : Accounts, debit : Nat, credit : Nat]

Batch == Seq(Line)

Lines == [Requests -> Batch]

NoLines == [q \in Requests |-> <<>>]

DebitsOf(b)  == SumOver([i \in DOMAIN b |-> b[i].debit])
CreditsOf(b) == SumOver([i \in DOMAIN b |-> b[i].credit])

TotalDebit(ls)  == SumOver([q \in DOMAIN ls |-> DebitsOf(ls[q])])
TotalCredit(ls) == SumOver([q \in DOMAIN ls |-> CreditsOf(ls[q])])

(* Each line has exactly one of debit and credit above zero. *)
SingleSided(b) == \A i \in DOMAIN b : (b[i].debit > 0) # (b[i].credit > 0)

(* _validate_balance on an entry's lines: an empty entry has total zero. *)
Balanced(ls) == /\ \A q \in DOMAIN ls : SingleSided(ls[q])
                /\ TotalDebit(ls) # 0
                /\ TotalDebit(ls) = TotalCredit(ls)

(* A reversal by negative amounts. *)
NegateSides(b) == [i \in DOMAIN b |-> [account |-> b[i].account,
                                       debit   |-> -b[i].debit,
                                       credit  |-> -b[i].credit]]

(* The lines of a reversal: every line again, its sides exchanged. *)
SwapSides(b) == [i \in DOMAIN b |-> [account |-> b[i].account,
                                     debit   |-> b[i].credit,
                                     credit  |-> b[i].debit]]
Reversed(ls) == [q \in DOMAIN ls |-> SwapSides(ls[q])]

(* What the lines move into account a: debits less credits. *)
Net(ls, a) ==
  SumOver([q \in DOMAIN ls |->
    SumOver([i \in DOMAIN ls[q] |-> IF ls[q][i].account = a
                                    THEN ls[q][i].debit - ls[q][i].credit ELSE 0])])
=============================================================================
