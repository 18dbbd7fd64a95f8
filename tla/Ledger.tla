------------------------------- MODULE Ledger -------------------------------
(***************************************************************************)
(* What the books promise, with no requests, sessions or transactions in   *)
(* sight: a draft may be written and rewritten at will or thrown away; an  *)
(* entry enters the books only balanced and is frozen from then on; the    *)
(* one thing that may still happen to it is to be voided, which in the     *)
(* same step books its mirror image.  The promise is the docstring of      *)
(* services/journal.py; module Journal is what the handlers do.            *)
(***************************************************************************)
EXTENDS JournalLines

CONSTANT None   \* no entry, no reference

VARIABLE entries   \* entries[e] is the committed row e, None if there is none

Statuses == {"draft", "posted", "voided"}

Entry == [status   : Statuses,
          header   : Requests,              \* the request that last wrote the header
          lines    : Lines,
          voids    : Requests \cup {None},  \* the entry this one reverses
          voidedBy : Requests \cup {None}]  \* the entry that reverses this one

ASSUME NoneAssumption == None \notin Requests /\ None \notin Entry

Exists(e) == entries[e] # None
Booked(e) == Exists(e) /\ entries[e].status # "draft"

IsDraft(x) == x \in Entry /\ x.status = "draft" /\ x.voids = None /\ x.voidedBy = None

LedgerInit == entries = [e \in Requests |-> None]

(* A draft appears, changes or disappears. *)
WriteDraft(e) ==
  /\ ~Booked(e)
  /\ entries'[e] = None \/ IsDraft(entries'[e])
  /\ entries' = [entries EXCEPT ![e] = entries'[e]]

(* The draft is booked as it stands, provided it balances. *)
Book(e) ==
  /\ Exists(e)
  /\ entries[e].status = "draft"
  /\ Balanced(entries[e].lines)
  /\ entries' = [entries EXCEPT ![e].status = "posted"]

(* An entry is written and booked in one commit. *)
Enter(e) ==
  /\ ~Exists(e)
  /\ entries'[e] \in Entry
  /\ entries'[e].status = "posted"
  /\ Balanced(entries'[e].lines)
  /\ entries'[e].voids = None
  /\ entries'[e].voidedBy = None
  /\ entries' = [entries EXCEPT ![e] = entries'[e]]

(* Entry e is voided and its reversal r booked, each naming the other. *)
Reverse(e, r) ==
  /\ Exists(e)
  /\ entries[e].status = "posted"
  /\ ~Exists(r)
  /\ entries' = [entries EXCEPT
       ![e] = [@ EXCEPT !.status = "voided", !.voidedBy = r],
       ![r] = [status |-> "posted", header |-> r, lines |-> Reversed(entries[e].lines),
               voids |-> e, voidedBy |-> None]]

LedgerNext == \/ \E e \in Requests : WriteDraft(e) \/ Book(e) \/ Enter(e)
              \/ \E e, r \in Requests : Reverse(e, r)

LedgerSpec == LedgerInit /\ [][LedgerNext]_entries

LedgerTypeOK == entries \in [Requests -> Entry \cup {None}]

-----------------------------------------------------------------------------
(* What the reports read: services/trial_balance.py and services/ledger.py. *)

(* Reports leave voided entries out. *)
CountedUnvoided == {e \in Requests : Exists(e) /\ entries[e].status = "posted"}

(* The entries whose lines a report sums: posted and voided ones. *)
Counted == {e \in Requests : Booked(e)}

(* The balance of account a in the trial balance. *)
AccountBalance(a) == SumOver([e \in Counted |-> Net(entries[e].lines, a)])

-----------------------------------------------------------------------------
(* Every entry in the books balances and is not empty: posting checks it,  *)
(* no later edit may undo it (journal.py:5, MIAF.md "Every posted journal  *)
(* entry must balance").                                                   *)
BooksBalance == \A e \in Requests : Booked(e) => Balanced(entries[e].lines)

(* A voided entry and its reversal name each other, and the reversal       *)
(* carries the same lines with the sides exchanged, so that the two cancel *)
(* in every report that counts both.                                       *)
ReversalMirrors ==
  \A e \in Requests : Exists(e) /\ entries[e].status = "voided" =>
    LET r == entries[e].voidedBy IN
      /\ r # None
      /\ Booked(r)
      /\ entries[r].voids = e
      /\ entries[r].lines = Reversed(entries[e].lines)

(* An entry is reversed once: two entries never reverse the same one, and  *)
(* what a reversal names is voided (an entry already voided is refused).   *)
OneReversal ==
  \A r \in Requests : Exists(r) /\ entries[r].voids # None =>
    LET e == entries[r].voids IN
      Exists(e) /\ entries[e].status = "voided" /\ entries[e].voidedBy = r

(* Only a voided entry names its reversal, and a draft reverses nothing. *)
LinksMatchStatus ==
  \A e \in Requests : Exists(e) =>
    /\ entries[e].status # "voided" => entries[e].voidedBy = None
    /\ entries[e].status = "draft" => entries[e].voids = None

(* The inductive invariant of LedgerSpec. *)
LedgerInv == LedgerTypeOK /\ BooksBalance /\ ReversalMirrors /\ OneReversal /\ LinksMatchStatus

(* A posted entry is immutable: the only change it ever sees is being      *)
(* voided, and a voided entry sees none; neither disappears.               *)
FrozenOnceBooked ==
  [][\A e \in Requests : Booked(e) =>
       /\ entries'[e] # None
       /\ entries'[e].header = entries[e].header
       /\ entries'[e].lines = entries[e].lines
       /\ entries'[e].voids = entries[e].voids
       /\ \/ entries'[e].status = entries[e].status /\ entries'[e].voidedBy = entries[e].voidedBy
          \/ entries[e].status = "posted" /\ entries'[e].status = "voided"]_entries

(* Voiding an entry takes exactly what it had moved out of every account   *)
(* balance, whatever else is in the books, because reports keep counting   *)
(* the voided entry beside its reversal.                                   *)
VoidingUndoes ==
  [][\A e \in Requests :
       Booked(e) /\ entries[e].status = "posted" /\ entries'[e].status = "voided" =>
         \A a \in Accounts :
           AccountBalance(a)' = AccountBalance(a) - Net(entries[e].lines, a)]_entries
=============================================================================
