------------------------------ MODULE Billing -------------------------------
(***************************************************************************)
(* Invoices, bills and their payments (services/business.py), over the     *)
(* same books as Journal and under the same rules: one transaction per     *)
(* request, READ COMMITTED, no locks.  A document is read as a row and     *)
(* then its lines; posting it and paying it each draft and post a journal  *)
(* entry in the request's own transaction (create_draft, post_entry).      *)
(*                                                                         *)
(* Invoices and bills have the same code twice; kind tells them apart.     *)
(* Every revenue (expense) line goes to one account, and the lines a       *)
(* request inserts together are kept as their sum.                         *)
(***************************************************************************)
EXTENDS Ledger

CONSTANTS Kinds,                           \* which of "invoice" and "bill" there are
          Amounts,                         \* in cents, the sums a client may send
          Cash, Receivable, Payable, Revenue, Expense,
          Serial    \* TRUE: no two requests in flight name the same document

ASSUME KindsAssumption == Kinds \subseteq {"invoice", "bill"}
ASSUME AmountsAssumption == Amounts \subseteq Nat
ASSUME ChartAssumption == {Cash, Receivable, Payable, Revenue, Expense} \subseteq Accounts

(* Codes are unique, an invoice is billed to income accounts, a bill to    *)
(* accounts of expense or assets (so 1200 itself is not excluded).         *)
ASSUME ControlAssumption == /\ Receivable \notin {Cash, Payable, Revenue}
                            /\ Payable \notin {Cash, Revenue, Expense}
ASSUME SerialAssumption == Serial \in BOOLEAN

VARIABLES requests,   \* how far each request is and what it has read
          docs,       \* docs[d]: the invoice or bill request d created
          payments    \* payments[p]: the payment request p recorded

vars == <<entries, requests, docs, payments>>

Doc == [kind   : Kinds,
        status : {"draft", "posted", "partial", "paid"},
        total  : Nat,
        due    : Nat,
        lines  : [Requests -> Nat],       \* by the request that inserted them
        entry  : Requests \cup {None}]    \* posted_entry_id

Payment == [doc : Requests, amount : Nat]

ASSUME NoRowAssumption == None \notin Doc /\ None \notin Payment

Request == [phase : {"new", "reading", "ready", "committed", "rolledback"},
            doc   : Requests \cup {None},
            read  : Doc \cup {None}]

Fresh == [phase |-> "new", doc |-> None, read |-> None]

InFlight(r) == requests[r].phase \in {"reading", "ready"}

Init == /\ LedgerInit
        /\ requests = [r \in Requests |-> Fresh]
        /\ docs = [d \in Requests |-> None]
        /\ payments = [p \in Requests |-> None]

Finish(r, phase) == requests' = [requests EXCEPT ![r] = [Fresh EXCEPT !.phase = phase]]

-----------------------------------------------------------------------------
(* get_invoice, get_bill: the row. *)
ReadDoc(r, d) ==
  /\ requests[r].phase = "new"
  /\ docs[d] # None
  /\ Serial => \A q \in Requests : InFlight(q) => requests[q].doc # d
  /\ requests' = [requests EXCEPT ![r] = [phase |-> "reading", doc |-> d, read |-> docs[d]]]
  /\ UNCHANGED <<entries, docs, payments>>

(* get_invoice, get_bill: selectinload of the lines, a statement later. *)
ReadLines(r) ==
  LET read == [requests[r].read EXCEPT !.lines = docs[requests[r].doc].lines] IN
  /\ requests[r].phase = "reading"
  /\ requests' = [requests EXCEPT ![r] = [@ EXCEPT !.phase = "ready", !.read = read]]
  /\ UNCHANGED <<entries, docs, payments>>

(* create_invoice, create_bill. *)
Create(r) ==
  /\ requests[r].phase = "new"
  /\ \E kind \in Kinds, n \in Amounts :
       docs' = [docs EXCEPT ![r] =
         [kind |-> kind, status |-> "draft", total |-> n, due |-> n,
          lines |-> [q \in Requests |-> IF q = r THEN n ELSE 0], entry |-> None]]
  /\ Finish(r, "committed")
  /\ UNCHANGED <<entries, payments>>

(* The session writes a column only if the handler changed what it read. *)
Column(read, new, current) == IF new = read THEN current ELSE new

(* The status check lets a posted document be edited. *)
MayUpdatePosted(r) == requests[r].phase = "ready" /\ requests[r].read.status # "paid"

MayUpdate(r) == requests[r].phase = "ready" /\ requests[r].read.status = "draft"

(* The lines that were read are deleted, the new ones inserted, and the    *)
(* totals follow them.                                                     *)
Rewritten(doc, read, r, n) ==
  [doc EXCEPT !.total = Column(read.total, n, doc.total),
              !.due   = Column(read.due, n, doc.due),
              !.lines = [q \in Requests |-> IF q = r THEN n
                                            ELSE IF read.lines[q] > 0 THEN 0 ELSE doc.lines[q]]]

(* update_invoice, update_bill with new lines. *)
Update(r) ==
  LET d == requests[r].doc IN
  /\ MayUpdate(r)
  /\ \E n \in Amounts : docs' = [docs EXCEPT ![d] = Rewritten(@, requests[r].read, r, n)]
  /\ Finish(r, "committed")
  /\ UNCHANGED <<entries, payments>>

-----------------------------------------------------------------------------
Dr(a, n) == [account |-> a, debit |-> n, credit |-> 0]
Cr(a, n) == [account |-> a, debit |-> 0, credit |-> n]

(* The lines of the entry a document posts: its total, as the row had it,  *)
(* against a copy of its lines, kept under the request that wrote them.    *)
PostingLines(r, doc) ==
  [q \in Requests |->
     CASE q = r -> IF doc.kind = "invoice" THEN <<Dr(Receivable, doc.total)>>
                                           ELSE <<Cr(Payable, doc.total)>>
       [] q # r /\ doc.lines[q] > 0 ->
            IF doc.kind = "invoice" THEN <<Cr(Revenue, doc.lines[q])>>
                                    ELSE <<Dr(Expense, doc.lines[q])>>
       [] OTHER -> <<>>]

(* The lines of the entry a payment posts. *)
PaymentLines(r, kind, n) ==
  [NoLines EXCEPT ![r] = IF kind = "invoice" THEN <<Dr(Cash, n), Cr(Receivable, n)>>
                                             ELSE <<Dr(Payable, n), Cr(Cash, n)>>]

EntryOf(r, ls) == [status |-> "posted", header |-> r, lines |-> ls,
                   voids |-> None, voidedBy |-> None]

(* The entry is posted without the balance check. *)
EnterUnchecked(r, ls) == entries' = [entries EXCEPT ![r] = EntryOf(r, ls)]

(* create_draft and post_entry on the request's own new entry. *)
EnterPosted(r, ls) == Balanced(ls) /\ entries' = [entries EXCEPT ![r] = EntryOf(r, ls)]

(* Posting does not check the status. *)
MayPostAgain(r) == requests[r].phase = "ready"

MayPost(r) == requests[r].phase = "ready" /\ requests[r].read.status = "draft"

Posted(doc, r) == [doc EXCEPT !.status = "posted", !.entry = r]

(* post_invoice, post_bill. *)
Post(r) ==
  LET d == requests[r].doc IN
  /\ MayPost(r)
  /\ EnterPosted(r, PostingLines(r, requests[r].read))
  /\ docs' = [docs EXCEPT ![d] = Posted(@, r)]
  /\ Finish(r, "committed")
  /\ UNCHANGED payments

(* The amount is not compared with the balance. *)
MayPayAny(r, n) == /\ requests[r].phase = "ready"
                   /\ requests[r].read.status \in {"posted", "partial"}
                   /\ n > 0

MayPay(r, n) == /\ requests[r].phase = "ready"
                /\ requests[r].read.status \in {"posted", "partial"}
                /\ n > 0 /\ n <= requests[r].read.due

(* The balance is not reduced. *)
PaidNothing(doc, read, n) ==
  [doc EXCEPT !.status = Column(read.status, IF read.due = n THEN "paid" ELSE "partial", doc.status)]

(* The balance a payment leaves is computed from the one it read. *)
PaidDown(doc, read, n) ==
  [doc EXCEPT
     !.due    = read.due - n,
     !.status = Column(read.status, IF read.due = n THEN "paid" ELSE "partial", doc.status)]

(* record_payment. *)
Pay(r) ==
  LET d == requests[r].doc
      read == requests[r].read IN
  \E n \in Amounts :
    /\ MayPay(r, n)
    /\ EnterPosted(r, PaymentLines(r, read.kind, n))
    /\ payments' = [payments EXCEPT ![r] = [doc |-> d, amount |-> n]]
    /\ docs' = [docs EXCEPT ![d] = PaidDown(@, read, n)]
    /\ Finish(r, "committed")

(* The journal's void endpoint on an entry a document or payment posted;   *)
(* nothing here reacts to it.  In one step: Journal has its interleavings. *)
VoidEntry(r, e) ==
  /\ requests[r].phase = "new"
  /\ Reverse(e, r)
  /\ Finish(r, "committed")
  /\ UNCHANGED <<docs, payments>>

(* A refusal, a database error or a crash before the commit. *)
Rollback(r) ==
  /\ InFlight(r)
  /\ Finish(r, "rolledback")
  /\ UNCHANGED <<entries, docs, payments>>

Next == \E r \in Requests :
          \/ \E d \in Requests : ReadDoc(r, d)
          \/ ReadLines(r)
          \/ Create(r) \/ Update(r) \/ Post(r) \/ Pay(r)
          \/ \E e \in Requests : VoidEntry(r, e)
          \/ Rollback(r)

Spec == Init /\ [][Next]_vars

-----------------------------------------------------------------------------
TypeOK == /\ entries \in [Requests -> Entry \cup {None}]
          /\ requests \in [Requests -> Request]
          /\ \A r \in Requests : InFlight(r) =>
               requests[r].doc \in Requests /\ docs[requests[r].doc] # None
                                            /\ requests[r].read # None
          /\ docs \in [Requests -> Doc \cup {None}]
          /\ payments \in [Requests -> Payment \cup {None}]

Issued(d) == docs[d] # None /\ docs[d].status # "draft"

PaidOn(d) == SumOver([p \in {p \in Requests : payments[p] # None /\ payments[p].doc = d}
                        |-> payments[p].amount])

(* ar_aging, ap_aging: what the open documents of a kind still owe. *)
OpenBalance(kind) ==
  SumOver([d \in {d \in Requests : docs[d] # None /\ docs[d].kind = kind
                                   /\ docs[d].status \in {"posted", "partial"}} |-> docs[d].due])

NothingVoided == \A e \in Requests : Exists(e) => entries[e].status # "voided"

(* While nobody voids their entries, the control accounts of the ledger    *)
(* and the aging reports agree: what customers owe is the balance of 1200, *)
(* what is owed to vendors that of 2100.                                   *)
ControlAgrees ==
  NothingVoided => /\ AccountBalance(Receivable) = OpenBalance("invoice")
                   /\ AccountBalance(Payable) = -OpenBalance("bill")

(* The billing this module does, as Settlement sees it: under Serial an    *)
(* issued document never changes what it asks for but by the payments      *)
(* received, which never exceed it and settle it exactly (record_payment). *)
PhaseOf(d) == IF ~Issued(d) THEN "unissued"
              ELSE IF docs[d].status = "paid" THEN "settled" ELSE "open"

Settled == INSTANCE Settlement WITH
             Documents   <- Requests,
             phase       <- [d \in Requests |-> PhaseOf(d)],
             outstanding <- [d \in Requests |-> IF Issued(d) THEN docs[d].due ELSE 0],
             received    <- [d \in Requests |-> PaidOn(d)]

ImplementsSettlement == Settled!Spec

(* Every entry these handlers booked is the one its document or payment    *)
(* names: none is left in the books that nothing accounts for.             *)
EveryEntryClaimed ==
  \A e \in Requests : Booked(e) /\ entries[e].voids = None =>
    \/ payments[e] # None
    \/ \E d \in Requests : docs[d] # None /\ docs[d].entry = e

(* The identity of a request that has not committed names no row yet. *)
NoIdReuse == \A r \in Requests : requests[r].phase # "committed" => ~Exists(r)
=============================================================================
