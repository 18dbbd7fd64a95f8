---------------------------- MODULE BillingProofs ---------------------------
(***************************************************************************)
(* Whatever the requests on invoices, bills and payments do to one         *)
(* another, the books they leave are the books Ledger promises: every      *)
(* entry is entered whole, balanced and by its own request.  When they     *)
(* come one after the other for each document, documents and payments keep *)
(* in step with the books, too: every entry is named by one of them, they  *)
(* implement Settlement, and the control accounts hold what is open.       *)
(***************************************************************************)
EXTENDS Billing, LedgerProofs

(* The inductive invariant. *)
BillingInv == TypeOK /\ NoIdReuse /\ LedgerInv

LEMMA BillingInit == Init => BillingInv
<1> SUFFICES ASSUME Init PROVE BillingInv
  OBVIOUS
<1>1. LedgerInv
  BY LedgerInvInit DEF Init
<1>2. TypeOK
  BY DEF Init, LedgerInit, TypeOK, Fresh, Request, InFlight
<1>3. NoIdReuse
  BY DEF Init, LedgerInit, NoIdReuse, Exists
<1>4. QED
  BY <1>1, <1>2, <1>3 DEF BillingInv

LEMMA LineTypes ==
  ASSUME NEW n \in Nat
  PROVE  /\ Dr(Cash, n) \in Line /\ Dr(Receivable, n) \in Line
         /\ Dr(Payable, n) \in Line /\ Dr(Expense, n) \in Line
         /\ Cr(Cash, n) \in Line /\ Cr(Receivable, n) \in Line
         /\ Cr(Payable, n) \in Line /\ Cr(Revenue, n) \in Line
BY ChartAssumption DEF Dr, Cr, Line

LEMMA PostingLinesType ==
  ASSUME NEW r \in Requests, NEW doc \in Doc
  PROVE  PostingLines(r, doc) \in Lines
<1>1. doc.total \in Nat /\ \A q \in Requests : doc.lines[q] \in Nat
  BY DEF Doc
<1>2. ASSUME NEW q \in Requests
      PROVE  PostingLines(r, doc)[q] \in Batch
  BY <1>1, LineTypes DEF PostingLines, Batch
<1>3. QED
  BY <1>2 DEF PostingLines, Lines

LEMMA PaymentLinesType ==
  ASSUME NEW r \in Requests, NEW kind, NEW n \in Nat
  PROVE  PaymentLines(r, kind, n) \in Lines
<1>1. /\ <<Dr(Cash, n), Cr(Receivable, n)>> \in Batch
      /\ <<Dr(Payable, n), Cr(Cash, n)>> \in Batch
      /\ <<>> \in Batch
  BY LineTypes DEF Batch
<1>2. QED
  BY <1>1 DEF PaymentLines, NoLines, Lines

(* A request enters its own entry, which was not there. *)
LEMMA EnterPostedEnters ==
  ASSUME BillingInv, NEW r \in Requests, NEW ls \in Lines,
         requests[r].phase # "committed", EnterPosted(r, ls)
  PROVE  Enter(r)
<1>1. entries[r] = None
  BY DEF BillingInv, NoIdReuse, Exists
<1>2. entries' = [entries EXCEPT ![r] = EntryOf(r, ls)] /\ entries'[r] = EntryOf(r, ls)
  BY DEF EnterPosted, BillingInv, TypeOK
<1>3. EntryOf(r, ls) \in Entry
  BY DEF EntryOf, Entry, Statuses
<1>4. /\ entries'[r].status = "posted" /\ entries'[r].lines = ls
      /\ entries'[r].voids = None /\ entries'[r].voidedBy = None
  BY <1>2 DEF EntryOf
<1>5. entries' = [entries EXCEPT ![r] = entries'[r]]
  BY <1>2
<1>6. QED
  BY <1>1, <1>2, <1>3, <1>4, <1>5 DEF Enter, EnterPosted, Exists

(* What a request in flight has read is a document. *)
LEMMA ReadIsDoc ==
  ASSUME TypeOK, NEW r \in Requests, InFlight(r)
  PROVE  requests[r].read \in Doc /\ requests[r].doc \in Requests
BY DEF TypeOK, Request

LEMMA PostEnters ==
  ASSUME BillingInv, NEW r \in Requests, Post(r)
  PROVE  Enter(r)
<1>1. requests[r].read \in Doc /\ requests[r].phase = "ready"
  BY ReadIsDoc DEF Post, MayPost, InFlight, BillingInv
<1>2. PostingLines(r, requests[r].read) \in Lines
  BY <1>1, PostingLinesType
<1>3. QED
  BY <1>1, <1>2, EnterPostedEnters DEF Post

LEMMA PayEnters ==
  ASSUME BillingInv, NEW r \in Requests, Pay(r)
  PROVE  Enter(r)
<1>1. PICK n \in Amounts : /\ MayPay(r, n)
                           /\ EnterPosted(r, PaymentLines(r, requests[r].read.kind, n))
  BY DEF Pay
<1>2. requests[r].phase = "ready"
  BY <1>1 DEF MayPay
<1>3. PaymentLines(r, requests[r].read.kind, n) \in Lines
  BY PaymentLinesType, AmountsAssumption
<1>4. QED
  BY <1>1, <1>2, <1>3, EnterPostedEnters

LEMMA BillingStepRefines ==
  ASSUME BillingInv, [Next]_vars
  PROVE  [LedgerNext]_entries
<1>1. ASSUME NEW r \in Requests, Post(r) \/ Pay(r) \/ \E e \in Requests : VoidEntry(r, e)
      PROVE  LedgerNext
  BY <1>1, PostEnters, PayEnters DEF LedgerNext, VoidEntry
<1>2. ASSUME NEW r \in Requests,
             (\E d \in Requests : ReadDoc(r, d)) \/ ReadLines(r)
               \/ Create(r) \/ Update(r) \/ Rollback(r)
      PROVE  UNCHANGED entries
  BY <1>2 DEF ReadDoc, ReadLines, Create, Update, Rollback
<1>3. CASE UNCHANGED vars
  BY <1>3 DEF vars
<1>4. QED
  BY <1>1, <1>2, <1>3 DEF Next

-----------------------------------------------------------------------------
(* One lemma per action: the types of what it writes. *)

LEMMA FinishType ==
  ASSUME TypeOK, NEW r \in Requests, NEW phase \in {"committed", "rolledback"}, Finish(r, phase)
  PROVE  /\ requests' \in [Requests -> Request]
         /\ requests'[r].phase = phase
         /\ \A q \in Requests : q # r => requests'[q] = requests[q]
         /\ \A q \in Requests : InFlight(q)' =>
              /\ requests[q].doc \in Requests /\ docs[requests[q].doc] # None
              /\ requests'[q].doc = requests[q].doc
              /\ requests'[q].read # None
<1>1. [Fresh EXCEPT !.phase = phase] \in Request /\ [Fresh EXCEPT !.phase = phase].phase = phase
  BY DEF Fresh, Request
<1>2. /\ requests' \in [Requests -> Request]
      /\ requests'[r].phase = phase
      /\ \A q \in Requests : q # r => requests'[q] = requests[q]
  BY <1>1 DEF Finish, TypeOK
<1>3. QED
  BY <1>2 DEF TypeOK, InFlight

LEMMA ReadsKeep ==
  ASSUME BillingInv, NEW r \in Requests,
         (\E d \in Requests : ReadDoc(r, d)) \/ ReadLines(r)
  PROVE  TypeOK' /\ NoIdReuse'
<1>1. ASSUME NEW d \in Requests, ReadDoc(r, d)
      PROVE  TypeOK' /\ NoIdReuse'
  <2>1. docs[d] \in Doc /\ docs[d] # None
    BY <1>1 DEF ReadDoc, BillingInv, TypeOK
  <2>2. [phase |-> "reading", doc |-> d, read |-> docs[d]] \in Request
    BY <2>1 DEF Request
  <2>3. QED
    BY <1>1, <2>1, <2>2 DEF ReadDoc, BillingInv, TypeOK, InFlight, NoIdReuse, Exists
<1>2. ASSUME ReadLines(r)
      PROVE  TypeOK' /\ NoIdReuse'
  <2>1. requests[r].read \in Doc /\ requests[r].doc \in Requests
    BY <1>2, ReadIsDoc DEF ReadLines, InFlight, BillingInv
  <2>2. docs[requests[r].doc] \in Doc
    BY <1>2 DEF ReadLines, InFlight, BillingInv, TypeOK
  <2> DEFINE read == [requests[r].read EXCEPT !.lines = docs[requests[r].doc].lines]
  <2>3. read \in Doc
    BY <2>1, <2>2 DEF Doc
  <2>4. requests[r] \in Request
    BY DEF BillingInv, TypeOK
  <2>5. /\ requests' = [requests EXCEPT ![r] = [requests[r] EXCEPT !.phase = "ready", !.read = read]]
        /\ UNCHANGED <<entries, docs, payments>>
        /\ requests[r].phase = "reading"
    BY <1>2, <2>4 DEF ReadLines
  <2> HIDE DEF read
  <2>6. /\ [requests[r] EXCEPT !.phase = "ready", !.read = read] \in Request
        /\ [requests[r] EXCEPT !.phase = "ready", !.read = read].doc = requests[r].doc
        /\ [requests[r] EXCEPT !.phase = "ready", !.read = read].read = read
    BY <2>3, <2>4 DEF Request
  <2>7. read # None
    BY <2>3, NoRowAssumption
  <2>8. QED
    BY <2>1, <2>2, <2>5, <2>6, <2>7 DEF BillingInv, TypeOK, InFlight, NoIdReuse, Exists
<1>3. QED
  BY <1>1, <1>2

(* A commit: the types of its writes are enough, nobody else moves, and a  *)
(* document that is there stays.                                           *)
LEMMA CommitKeeps ==
  ASSUME BillingInv, NEW r \in Requests, NEW phase \in {"committed", "rolledback"},
         Finish(r, phase),
         entries' \in [Requests -> Entry \cup {None}],
         \A x \in Requests : x # r /\ entries[x] = None => entries'[x] = None,
         phase = "rolledback" => entries' = entries,
         docs' \in [Requests -> Doc \cup {None}],
         \A d \in Requests : docs[d] # None => docs'[d] # None,
         payments' \in [Requests -> Payment \cup {None}],
         requests[r].phase # "committed"
  PROVE  TypeOK' /\ NoIdReuse'
<1>1. /\ requests' \in [Requests -> Request]
      /\ requests'[r].phase = phase
      /\ \A q \in Requests : q # r => requests'[q] = requests[q]
      /\ \A q \in Requests : InFlight(q)' =>
           /\ requests[q].doc \in Requests /\ docs[requests[q].doc] # None
           /\ requests'[q].doc = requests[q].doc
           /\ requests'[q].read # None
  BY FinishType DEF BillingInv
<1>2. TypeOK'
  BY <1>1 DEF TypeOK
<1>3. NoIdReuse'
  BY <1>1 DEF BillingInv, NoIdReuse, Exists
<1>4. QED
  BY <1>2, <1>3

LEMMA CreateDoc ==
  ASSUME BillingInv, NEW r \in Requests, Create(r)
  PROVE  /\ docs' \in [Requests -> Doc \cup {None}]
         /\ \A d \in Requests : docs[d] # None => docs'[d] # None
<1>1. PICK kind \in Kinds, n \in Amounts :
        docs' = [docs EXCEPT ![r] =
         [kind |-> kind, status |-> "draft", total |-> n, due |-> n,
          lines |-> [q \in Requests |-> IF q = r THEN n ELSE 0], entry |-> None]]
  BY DEF Create
<1> DEFINE doc == [kind |-> kind, status |-> "draft", total |-> n, due |-> n,
                   lines |-> [q \in Requests |-> IF q = r THEN n ELSE 0], entry |-> None]
<1>2. n \in Nat
  BY AmountsAssumption
<1>3. doc \in Doc
  BY <1>2 DEF Doc
<1>4. docs' = [docs EXCEPT ![r] = doc]
  BY <1>1
<1> HIDE DEF doc
<1>5. QED
  BY <1>3, <1>4, NoRowAssumption DEF BillingInv, TypeOK

(* The one document a commit writes keeps its type. *)
LEMMA DocWritten ==
  ASSUME BillingInv, NEW d \in Requests, NEW doc \in Doc, docs' = [docs EXCEPT ![d] = doc]
  PROVE  /\ docs' \in [Requests -> Doc \cup {None}]
         /\ \A c \in Requests : docs[c] # None => docs'[c] # None
BY NoRowAssumption DEF BillingInv, TypeOK

(* A request about to commit: the row it read, and the row that is there. *)
LEMMA ReadyDocs ==
  ASSUME BillingInv, NEW r \in Requests, requests[r].phase = "ready"
  PROVE  /\ requests[r].read \in Doc
         /\ requests[r].doc \in Requests
         /\ docs[requests[r].doc] \in Doc
BY ReadIsDoc DEF BillingInv, TypeOK, InFlight

LEMMA UpdateDoc ==
  ASSUME BillingInv, NEW r \in Requests, Update(r)
  PROVE  /\ docs' \in [Requests -> Doc \cup {None}]
         /\ \A c \in Requests : docs[c] # None => docs'[c] # None
<1>1. requests[r].phase = "ready"
  BY DEF Update, MayUpdate
<1>2. PICK read \in Doc, d \in Requests, old \in Doc :
        read = requests[r].read /\ d = requests[r].doc /\ old = docs[d]
  BY <1>1, ReadyDocs
<1>3. PICK n \in Nat : docs' = [docs EXCEPT ![d] = Rewritten(old, read, r, n)]
  BY <1>2, AmountsAssumption DEF Update
<1>4. /\ Column(read.total, n, old.total) \in Nat
      /\ Column(read.due, n, old.due) \in Nat
      /\ [q \in Requests |-> IF q = r THEN n ELSE IF read.lines[q] > 0 THEN 0 ELSE old.lines[q]]
           \in [Requests -> Nat]
  BY DEF Doc, Column
<1>5. Rewritten(old, read, r, n) \in Doc
  BY <1>4 DEF Doc, Rewritten
<1>6. QED
  BY <1>3, <1>5, DocWritten

LEMMA PostDoc ==
  ASSUME BillingInv, NEW r \in Requests, Post(r)
  PROVE  /\ docs' \in [Requests -> Doc \cup {None}]
         /\ \A c \in Requests : docs[c] # None => docs'[c] # None
<1>1. PICK d \in Requests, old \in Doc : d = requests[r].doc /\ old = docs[d]
  BY ReadyDocs DEF Post, MayPost
<1>2. Posted(old, r) \in Doc
  BY DEF Posted, Doc
<1>3. docs' = [docs EXCEPT ![d] = Posted(old, r)]
  BY <1>1 DEF Post
<1>4. QED
  BY <1>2, <1>3, DocWritten

LEMMA PayDoc ==
  ASSUME BillingInv, NEW r \in Requests, Pay(r)
  PROVE  /\ docs' \in [Requests -> Doc \cup {None}]
         /\ \A c \in Requests : docs[c] # None => docs'[c] # None
         /\ payments' \in [Requests -> Payment \cup {None}]
<1>1. PICK n \in Amounts :
        /\ MayPay(r, n)
        /\ payments' = [payments EXCEPT ![r] = [doc |-> requests[r].doc, amount |-> n]]
        /\ docs' = [docs EXCEPT ![requests[r].doc] = PaidDown(@, requests[r].read, n)]
  BY DEF Pay
<1>2. PICK read \in Doc, d \in Requests, old \in Doc :
        read = requests[r].read /\ d = requests[r].doc /\ old = docs[d]
  BY <1>1, ReadyDocs DEF MayPay
<1>3. read.due - n \in Nat /\ n \in Nat
  BY <1>1, <1>2, AmountsAssumption DEF MayPay, Doc
<1>4. PaidDown(old, read, n) \in Doc
  BY <1>3 DEF Doc, PaidDown, Column
<1>5. docs' = [docs EXCEPT ![d] = PaidDown(old, read, n)]
  BY <1>1, <1>2
<1>6. payments' \in [Requests -> Payment \cup {None}]
  BY <1>1, <1>2, <1>3 DEF BillingInv, TypeOK, Payment
<1>7. QED
  BY <1>4, <1>5, <1>6, DocWritten

(* An entry appears only under the identity of the request that commits. *)
LEMMA OwnEntryOnly ==
  ASSUME BillingInv, NEW r \in Requests,
         Post(r) \/ Pay(r) \/ \E e \in Requests : VoidEntry(r, e)
  PROVE  \A x \in Requests : x # r /\ entries[x] = None => entries'[x] = None
<1>1. CASE Post(r) \/ Pay(r)
  BY <1>1, PostEnters, PayEnters DEF Enter, BillingInv, TypeOK
<1>2. CASE \E e \in Requests : VoidEntry(r, e)
  BY <1>2 DEF VoidEntry, Reverse, Exists, BillingInv, TypeOK
<1>3. QED
  BY <1>1, <1>2

LEMMA BillingStep ==
  ASSUME BillingInv, [Next]_vars
  PROVE  BillingInv'
<1>1. LedgerInv' /\ entries' \in [Requests -> Entry \cup {None}]
  BY BillingStepRefines, LedgerInvStep DEF BillingInv, LedgerInv, LedgerTypeOK
<1>2. ASSUME NEW r \in Requests, Create(r)
      PROVE  TypeOK' /\ NoIdReuse'
  BY <1>1, <1>2, CreateDoc, CommitKeeps DEF Create, BillingInv, TypeOK
<1>3. ASSUME NEW r \in Requests, Update(r)
      PROVE  TypeOK' /\ NoIdReuse'
  BY <1>1, <1>3, UpdateDoc, CommitKeeps DEF Update, MayUpdate, BillingInv, TypeOK
<1>4. ASSUME NEW r \in Requests, Post(r)
      PROVE  TypeOK' /\ NoIdReuse'
  BY <1>1, <1>4, PostDoc, OwnEntryOnly, CommitKeeps DEF Post, MayPost, BillingInv, TypeOK
<1>5. ASSUME NEW r \in Requests, Pay(r)
      PROVE  TypeOK' /\ NoIdReuse'
  BY <1>1, <1>5, PayDoc, OwnEntryOnly, CommitKeeps DEF Pay, MayPay
<1>6. ASSUME NEW r \in Requests, NEW e \in Requests, VoidEntry(r, e)
      PROVE  TypeOK' /\ NoIdReuse'
  BY <1>1, <1>6, OwnEntryOnly, CommitKeeps DEF VoidEntry, BillingInv, TypeOK
<1>7. ASSUME NEW r \in Requests, Rollback(r)
      PROVE  TypeOK' /\ NoIdReuse'
  BY <1>1, <1>7, CommitKeeps DEF Rollback, InFlight, BillingInv, TypeOK
<1>8. ASSUME UNCHANGED vars
      PROVE  TypeOK' /\ NoIdReuse'
  <2>1. TypeOK'
    BY <1>8 DEF vars, BillingInv, TypeOK, InFlight
  <2>2. NoIdReuse'
    BY <1>8 DEF vars, BillingInv, NoIdReuse, Exists
  <2>3. QED
    BY <2>1, <2>2
<1>9. TypeOK' /\ NoIdReuse'
  <2>1. CASE Next
    BY <2>1, <1>2, <1>3, <1>4, <1>5, <1>6, <1>7, ReadsKeep DEF Next
  <2>2. QED
    BY <2>1, <1>8
<1>10. QED
  BY <1>1, <1>9 DEF BillingInv

-----------------------------------------------------------------------------
(* For any number of requests, in any interleaving and for any amounts,    *)
(* the tables keep their types and the books balance: a stale read may     *)
(* post a document twice or pay it too often, but never out of balance.    *)
THEOREM BillingSafe == Spec => [](TypeOK /\ BooksBalance)
<1>1. BillingInv => TypeOK /\ BooksBalance
  BY DEF BillingInv, LedgerInv
<1>2. QED
  BY BillingInit, BillingStep, <1>1, PTL DEF Spec

(* The endpoints implement the books, requests overlapping or not.         *)
THEOREM BillingImplementsLedger == Spec => LedgerSpec
<1>1. Init => LedgerInit
  BY DEF Init
<1>2. QED
  BY BillingInit, BillingStep, BillingStepRefines, <1>1, PTL DEF Spec, LedgerSpec

(* What a document or a payment posted is frozen like any other entry.     *)
THEOREM BillingFreezes == Spec => FrozenOnceBooked
BY BillingImplementsLedger, LedgerFrozen

-----------------------------------------------------------------------------
(* Requests on a document one after the other. *)

(* No two requests in flight name the same document, so what one has read  *)
(* is what is there when it commits.                                       *)
OneAtATime == \A q, r \in Requests :
  InFlight(q) /\ InFlight(r) /\ q # r => requests[q].doc # requests[r].doc

ReadsCurrent == \A r \in Requests : InFlight(r) => requests[r].read = docs[requests[r].doc]

(* A request that has not committed left no rows. *)
FreshRows == \A r \in Requests :
  requests[r].phase # "committed" => docs[r] = None /\ payments[r] = None

(* A draft owes its total and names no entry. *)
DraftsUnposted == \A d \in Requests :
  docs[d] # None /\ docs[d].status = "draft" => docs[d].due = docs[d].total /\ docs[d].entry = None

(* The inductive invariant under Serial. *)
SerialInv == /\ BillingInv /\ OneAtATime /\ ReadsCurrent /\ FreshRows
             /\ DraftsUnposted /\ EveryEntryClaimed

LEMMA SerialInit == Init => SerialInv
<1> SUFFICES ASSUME Init PROVE SerialInv
  OBVIOUS
<1>1. \A r \in Requests : requests[r].phase = "new" /\ docs[r] = None /\ payments[r] = None
                                                   /\ entries[r] = None
  BY DEF Init, LedgerInit, Fresh
<1>2. QED
  BY <1>1, BillingInit DEF SerialInv, OneAtATime, ReadsCurrent, FreshRows, DraftsUnposted,
    EveryEntryClaimed, InFlight, Booked, Exists

(* The row a request is about to write is the one it read. *)
LEMMA ReadyIsCurrent ==
  ASSUME SerialInv, NEW r \in Requests, requests[r].phase = "ready"
  PROVE  \E d \in Requests, doc \in Doc :
           d = requests[r].doc /\ doc = docs[d] /\ doc = requests[r].read
BY ReadyDocs DEF SerialInv, ReadsCurrent, InFlight

(* A commit disturbs nobody else's document and leaves rows only under     *)
(* identities that have committed.                                         *)
LEMMA SerialCommit ==
  ASSUME SerialInv, NEW r \in Requests, NEW phase \in {"committed", "rolledback"},
         Finish(r, phase), requests[r].phase # "committed",
         \A q \in Requests : q # r /\ InFlight(q) => docs'[requests[q].doc] = docs[requests[q].doc],
         \A x \in Requests : x # r /\ docs[x] = None => docs'[x] = None,
         \A x \in Requests : x # r => payments'[x] = payments[x],
         phase = "rolledback" => docs' = docs /\ payments' = payments
  PROVE  OneAtATime' /\ ReadsCurrent' /\ FreshRows'
<1>1. /\ requests'[r].phase = phase
      /\ \A q \in Requests : q # r => requests'[q] = requests[q]
  BY FinishType DEF SerialInv, BillingInv
<1>2. \A q \in Requests : InFlight(q)' => q # r /\ InFlight(q) /\ requests'[q] = requests[q]
  BY <1>1 DEF InFlight
<1>3. OneAtATime'
  BY <1>2 DEF OneAtATime, SerialInv
<1>4. ReadsCurrent'
  BY <1>2 DEF ReadsCurrent, SerialInv
<1>5. FreshRows'
  BY <1>1 DEF FreshRows, SerialInv
<1>6. QED
  BY <1>3, <1>4, <1>5

(* The same for the commit of a request on document d, which nobody else   *)
(* has read.                                                               *)
LEMMA SerialCommitDoc ==
  ASSUME SerialInv, NEW r \in Requests, requests[r].phase = "ready",
         Finish(r, "committed"), NEW doc \in Doc,
         docs' = [docs EXCEPT ![requests[r].doc] = doc],
         \A x \in Requests : x # r => payments'[x] = payments[x]
  PROVE  OneAtATime' /\ ReadsCurrent' /\ FreshRows'
<1>1. PICK d \in Requests : d = requests[r].doc /\ docs[d] \in Doc
  BY ReadyIsCurrent
<1>2. \A x \in Requests : x # d => docs'[x] = docs[x]
  BY <1>1 DEF SerialInv, BillingInv, TypeOK
<1>3. \A q \in Requests : q # r /\ InFlight(q) =>
        requests[q].doc \in Requests /\ requests[q].doc # d
  BY <1>1 DEF SerialInv, BillingInv, TypeOK, OneAtATime, InFlight
<1>4. QED
  BY <1>1, <1>2, <1>3, NoRowAssumption, SerialCommit

LEMMA SerialReads ==
  ASSUME Serial, SerialInv, NEW r \in Requests,
         (\E d \in Requests : ReadDoc(r, d)) \/ ReadLines(r)
  PROVE  SerialInv'
<1>1. UNCHANGED <<entries, docs, payments>>
  BY DEF ReadDoc, ReadLines
<1>2. requests \in [Requests -> Request]
  BY DEF SerialInv, BillingInv, TypeOK
<1>3. BillingInv'
  BY BillingStep DEF SerialInv, Next
<1>4. DraftsUnposted' /\ EveryEntryClaimed'
  BY <1>1 DEF SerialInv, DraftsUnposted, EveryEntryClaimed, Booked, Exists
<1>5. ASSUME NEW d \in Requests, ReadDoc(r, d)
      PROVE  OneAtATime' /\ ReadsCurrent' /\ FreshRows'
  <2>1. /\ requests'[r] = [phase |-> "reading", doc |-> d, read |-> docs[d]]
        /\ \A q \in Requests : q # r => requests'[q] = requests[q]
        /\ requests[r].phase = "new"
        /\ \A q \in Requests : InFlight(q) => requests[q].doc # d
    BY <1>2, <1>5 DEF ReadDoc
  <2>2. OneAtATime'
    BY <2>1 DEF OneAtATime, SerialInv, InFlight
  <2>3. ReadsCurrent'
    BY <1>1, <2>1 DEF ReadsCurrent, SerialInv, InFlight
  <2>4. FreshRows'
    BY <1>1, <2>1 DEF FreshRows, SerialInv
  <2>5. QED
    BY <2>2, <2>3, <2>4
<1>6. ASSUME ReadLines(r)
      PROVE  OneAtATime' /\ ReadsCurrent' /\ FreshRows'
  <2>1. requests[r].phase = "reading" /\ InFlight(r) /\ requests[r] \in Request
    BY <1>2, <1>6 DEF ReadLines, InFlight
  <2>2. PICK d \in Requests, doc \in Doc :
          d = requests[r].doc /\ doc = docs[d] /\ doc = requests[r].read
    BY <2>1, ReadIsDoc DEF SerialInv, BillingInv, ReadsCurrent
  <2>3. [doc EXCEPT !.lines = doc.lines] = doc
    BY DEF Doc
  <2>4. requests' = [requests EXCEPT ![r] = [requests[r] EXCEPT !.phase = "ready", !.read = doc]]
    BY <1>6, <2>2, <2>3 DEF ReadLines
  <2>5. /\ requests'[r].phase = "ready" /\ requests'[r].doc = d /\ requests'[r].read = doc
        /\ \A q \in Requests : q # r => requests'[q] = requests[q]
    BY <1>2, <2>1, <2>2, <2>4 DEF Request
  <2>6. OneAtATime'
    BY <2>1, <2>2, <2>5 DEF OneAtATime, SerialInv, InFlight
  <2>7. ReadsCurrent'
    BY <1>1, <2>2, <2>5 DEF ReadsCurrent, SerialInv, InFlight
  <2>8. FreshRows'
    BY <1>1, <2>1, <2>5 DEF FreshRows, SerialInv
  <2>9. QED
    BY <2>6, <2>7, <2>8
<1>7. QED
  BY <1>3, <1>4, <1>5, <1>6 DEF SerialInv

LEMMA SerialCreate ==
  ASSUME SerialInv, NEW r \in Requests, Create(r)
  PROVE  /\ OneAtATime' /\ ReadsCurrent' /\ FreshRows' /\ DraftsUnposted' /\ EveryEntryClaimed'
         /\ docs[r] = None /\ docs'[r] # None /\ docs'[r].status = "draft"
         /\ \A d \in Requests : d # r => docs'[d] = docs[d]
         /\ UNCHANGED payments
<1>1. PICK kind \in Kinds, n \in Amounts :
        docs' = [docs EXCEPT ![r] =
         [kind |-> kind, status |-> "draft", total |-> n, due |-> n,
          lines |-> [q \in Requests |-> IF q = r THEN n ELSE 0], entry |-> None]]
  BY DEF Create
<1>2. /\ \A d \in Requests : d # r => docs'[d] = docs[d]
      /\ docs'[r].status = "draft" /\ docs'[r].due = docs'[r].total /\ docs'[r].entry = None
      /\ docs'[r] # None
  <2>1. n \in Nat
    BY AmountsAssumption
  <2>2. [kind |-> kind, status |-> "draft", total |-> n, due |-> n,
         lines |-> [q \in Requests |-> IF q = r THEN n ELSE 0], entry |-> None] \in Doc
    BY <2>1 DEF Doc
  <2>3. QED
    BY <1>1, <2>2, NoRowAssumption DEF SerialInv, BillingInv, TypeOK
<1>3. docs[r] = None /\ payments[r] = None /\ requests[r].phase = "new" /\ UNCHANGED <<entries, payments>>
  BY DEF Create, SerialInv, FreshRows
<1>4. \A q \in Requests : InFlight(q) => requests[q].doc \in Requests /\ requests[q].doc # r
  BY <1>3 DEF SerialInv, BillingInv, TypeOK
<1>5. OneAtATime' /\ ReadsCurrent' /\ FreshRows'
  BY <1>2, <1>3, <1>4, SerialCommit DEF Create
<1>6. DraftsUnposted'
  BY <1>2 DEF DraftsUnposted, SerialInv
<1>7. EveryEntryClaimed'
  BY <1>2, <1>3 DEF EveryEntryClaimed, SerialInv, Booked, Exists
<1>8. QED
  BY <1>2, <1>3, <1>5, <1>6, <1>7

LEMMA SerialUpdate ==
  ASSUME SerialInv, NEW r \in Requests, Update(r)
  PROVE  /\ OneAtATime' /\ ReadsCurrent' /\ FreshRows' /\ DraftsUnposted' /\ EveryEntryClaimed'
         /\ \E d \in Requests :
              /\ docs[d] # None /\ docs[d].status = "draft"
              /\ docs'[d] # None /\ docs'[d].status = "draft"
              /\ \A c \in Requests : c # d => docs'[c] = docs[c]
         /\ UNCHANGED payments
<1>1. requests[r].phase = "ready" /\ requests[r].read.status = "draft"
      /\ UNCHANGED <<entries, payments>>
  BY DEF Update, MayUpdate
<1>2. PICK d \in Requests, old \in Doc : d = requests[r].doc /\ old = docs[d] /\ old = requests[r].read
  BY <1>1, ReadyIsCurrent
<1>3. old.status = "draft" /\ old.due = old.total /\ old.entry = None
  BY <1>1, <1>2, NoRowAssumption DEF SerialInv, DraftsUnposted
<1>4. PICK n \in Nat : docs' = [docs EXCEPT ![d] = Rewritten(old, old, r, n)]
  BY <1>2, AmountsAssumption DEF Update
<1>5. PICK doc \in Doc : /\ doc = Rewritten(old, old, r, n)
                         /\ doc.status = "draft" /\ doc.due = doc.total /\ doc.entry = None
  <2>1. [q \in Requests |-> IF q = r THEN n ELSE IF old.lines[q] > 0 THEN 0 ELSE old.lines[q]]
           \in [Requests -> Nat]
    BY DEF Doc
  <2>2. Column(old.total, n, old.total) = n /\ Column(old.due, n, old.due) = n
    BY DEF Column
  <2>3. Rewritten(old, old, r, n) \in Doc
    BY <2>1, <2>2 DEF Doc, Rewritten
  <2>4. /\ Rewritten(old, old, r, n).status = old.status
        /\ Rewritten(old, old, r, n).entry = old.entry
        /\ Rewritten(old, old, r, n).due = n /\ Rewritten(old, old, r, n).total = n
    BY <2>2 DEF Doc, Rewritten
  <2>5. QED
    BY <1>3, <2>3, <2>4
<1>6. docs' = [docs EXCEPT ![d] = doc]
  BY <1>4, <1>5
<1>7. docs'[d] = doc /\ doc # None /\ old # None /\ \A c \in Requests : c # d => docs'[c] = docs[c]
  BY <1>6, NoRowAssumption DEF SerialInv, BillingInv, TypeOK
<1>8. OneAtATime' /\ ReadsCurrent' /\ FreshRows'
  BY <1>1, <1>2, <1>6, SerialCommitDoc DEF Update
<1>9. DraftsUnposted'
  BY <1>5, <1>7 DEF DraftsUnposted, SerialInv
<1>10. EveryEntryClaimed'
  <2>1. \A c, e \in Requests : docs[c] # None /\ docs[c].entry = e => c # d
    BY <1>2, <1>3, NoneAssumption
  <2>2. \A c \in Requests : c # d => docs'[c] = docs[c]
    BY <1>7
  <2>3. QED
    BY <1>1, <2>1, <2>2 DEF EveryEntryClaimed, SerialInv, Booked, Exists
<1>11. QED
  BY <1>1, <1>2, <1>3, <1>5, <1>7, <1>8, <1>9, <1>10

(* Posting a document names the entry in it, and a draft named none. *)
LEMMA SerialPost ==
  ASSUME SerialInv, NEW r \in Requests, Post(r)
  PROVE  /\ OneAtATime' /\ ReadsCurrent' /\ FreshRows' /\ DraftsUnposted' /\ EveryEntryClaimed'
         /\ \E d \in Requests, doc \in Doc :
              /\ doc = docs[d] /\ doc.status = "draft" /\ doc.due = doc.total
              /\ docs' = [docs EXCEPT ![d] = Posted(doc, r)]
              /\ EnterPosted(r, PostingLines(r, doc))
              /\ requests[r].phase = "ready"
         /\ UNCHANGED payments
<1>1. requests[r].phase = "ready" /\ requests[r].read.status = "draft" /\ UNCHANGED payments
  BY DEF Post, MayPost
<1>2. PICK d \in Requests, old \in Doc : d = requests[r].doc /\ old = docs[d] /\ old = requests[r].read
  BY <1>1, ReadyIsCurrent
<1>3. old.status = "draft" /\ old.due = old.total /\ old.entry = None
  BY <1>1, <1>2, NoRowAssumption DEF SerialInv, DraftsUnposted
<1>4. PICK doc \in Doc : /\ doc = Posted(old, r) /\ doc.status = "posted" /\ doc.entry = r
  <2>1. Posted(old, r) \in Doc
    BY DEF Doc, Posted
  <2>2. Posted(old, r).status = "posted" /\ Posted(old, r).entry = r
    BY DEF Doc, Posted
  <2>3. QED
    BY <2>1, <2>2
<1>5. docs' = [docs EXCEPT ![d] = doc] /\ EnterPosted(r, PostingLines(r, old))
  BY <1>2, <1>4 DEF Post
<1>6. docs'[d] = doc /\ doc # None /\ \A c \in Requests : c # d => docs'[c] = docs[c]
  BY <1>5, NoRowAssumption DEF SerialInv, BillingInv, TypeOK
<1>7. OneAtATime' /\ ReadsCurrent' /\ FreshRows'
  BY <1>1, <1>2, <1>5, SerialCommitDoc DEF Post
<1>8. DraftsUnposted'
  BY <1>4, <1>6 DEF DraftsUnposted, SerialInv
<1>9. EveryEntryClaimed'
  <2>1. \A c, e \in Requests : docs[c] # None /\ docs[c].entry = e => c # d
    BY <1>2, <1>3, NoneAssumption
  <2>2. \A e \in Requests : e # r => entries'[e] = entries[e]
    BY PostEnters DEF SerialInv, BillingInv, TypeOK, Enter
  <2>3. docs'[d] # None /\ docs'[d].entry = r
    BY <1>4, <1>6
  <2>4. SUFFICES ASSUME NEW e \in Requests, e # r, entries[e] # None, entries[e].status # "draft",
                        entries[e].voids = None
                 PROVE  \/ payments[e] # None
                        \/ \E c \in Requests : docs'[c] # None /\ docs'[c].entry = e
    BY <1>1, <2>2, <2>3 DEF EveryEntryClaimed, Booked, Exists
  <2>5. payments[e] # None \/ \E c \in Requests : docs[c] # None /\ docs[c].entry = e
    BY <2>4 DEF SerialInv, EveryEntryClaimed, Booked, Exists
  <2>6. QED
    BY <1>6, <2>1, <2>5
<1>10. QED
  BY <1>1, <1>2, <1>3, <1>4, <1>5, <1>7, <1>8, <1>9

LEMMA SerialPay ==
  ASSUME SerialInv, NEW r \in Requests, Pay(r)
  PROVE  /\ OneAtATime' /\ ReadsCurrent' /\ FreshRows' /\ DraftsUnposted' /\ EveryEntryClaimed'
         /\ \E d \in Requests, doc, new \in Doc, n \in Nat :
              /\ doc = docs[d] /\ doc.status \in {"posted", "partial"}
              /\ n > 0 /\ n <= doc.due
              /\ docs' = [docs EXCEPT ![d] = new]
              /\ new.due = doc.due - n /\ new.kind = doc.kind
              /\ new.status = IF n = doc.due THEN "paid" ELSE "partial"
              /\ payments[r] = None
              /\ payments' = [payments EXCEPT ![r] = [doc |-> d, amount |-> n]]
              /\ EnterPosted(r, PaymentLines(r, doc.kind, n))
<1>1. PICK n \in Amounts :
        /\ MayPay(r, n)
        /\ EnterPosted(r, PaymentLines(r, requests[r].read.kind, n))
        /\ payments' = [payments EXCEPT ![r] = [doc |-> requests[r].doc, amount |-> n]]
        /\ docs' = [docs EXCEPT ![requests[r].doc] = PaidDown(@, requests[r].read, n)]
        /\ Finish(r, "committed")
  BY DEF Pay
<1>2. requests[r].phase = "ready"
  BY <1>1 DEF MayPay
<1>3. PICK d \in Requests, old \in Doc : d = requests[r].doc /\ old = docs[d] /\ old = requests[r].read
  BY <1>2, ReadyIsCurrent
<1>4. n \in Nat /\ n > 0 /\ n <= old.due /\ old.status \in {"posted", "partial"} /\ old.due \in Nat
  BY <1>1, <1>3, AmountsAssumption DEF MayPay, Doc
<1>5. PICK new \in Doc : /\ new = PaidDown(old, old, n)
                         /\ new.due = old.due - n /\ new.kind = old.kind /\ new.entry = old.entry
                         /\ new.status = IF n = old.due THEN "paid" ELSE "partial"
  <2>1. old.due - n \in Nat
    BY <1>4
  <2>2. PaidDown(old, old, n) \in Doc
    BY <2>1 DEF Doc, PaidDown, Column
  <2>3. /\ PaidDown(old, old, n).due = old.due - n
        /\ PaidDown(old, old, n).kind = old.kind
        /\ PaidDown(old, old, n).entry = old.entry
    BY DEF Doc, PaidDown
  <2>4. PaidDown(old, old, n).status = IF n = old.due THEN "paid" ELSE "partial"
    BY <1>4 DEF Doc, PaidDown, Column
  <2>5. QED
    BY <2>2, <2>3, <2>4
<1>6. docs' = [docs EXCEPT ![d] = new]
  BY <1>1, <1>3, <1>5
<1>7. docs'[d] = new /\ old # None /\ new # None /\ \A c \in Requests : c # d => docs'[c] = docs[c]
  BY <1>6, NoRowAssumption DEF SerialInv, BillingInv, TypeOK
<1>8. /\ payments' = [payments EXCEPT ![r] = [doc |-> d, amount |-> n]]
      /\ EnterPosted(r, PaymentLines(r, old.kind, n))
  BY <1>1, <1>3
<1>9. payments[r] = None /\ payments'[r] # None /\ \A x \in Requests : x # r => payments'[x] = payments[x]
  <2>1. [doc |-> d, amount |-> n] \in Payment
    BY <1>4 DEF Payment
  <2>2. QED
    BY <1>2, <1>8, <2>1, NoRowAssumption DEF SerialInv, FreshRows, BillingInv, TypeOK
<1>10. OneAtATime' /\ ReadsCurrent' /\ FreshRows'
  BY <1>1, <1>2, <1>3, <1>6, <1>9, SerialCommitDoc
<1>11. DraftsUnposted'
  BY <1>4, <1>5, <1>7 DEF DraftsUnposted, SerialInv
<1>12. EveryEntryClaimed'
  <2>1. \A e \in Requests : e # r => entries'[e] = entries[e]
    BY PayEnters DEF SerialInv, BillingInv, TypeOK, Enter
  <2>2. SUFFICES ASSUME NEW e \in Requests, e # r, entries[e] # None, entries[e].status # "draft",
                        entries[e].voids = None
                 PROVE  \/ payments'[e] # None
                        \/ \E c \in Requests : docs'[c] # None /\ docs'[c].entry = e
    BY <1>9, <2>1 DEF EveryEntryClaimed, Booked, Exists
  <2>3. payments[e] # None \/ \E c \in Requests : docs[c] # None /\ docs[c].entry = e
    BY <2>2 DEF SerialInv, EveryEntryClaimed, Booked, Exists
  <2>4. \A c \in Requests : docs[c] # None => docs'[c] # None /\ docs'[c].entry = docs[c].entry
    BY <1>3, <1>5, <1>7
  <2>5. QED
    BY <1>9, <2>2, <2>3, <2>4
<1>13. QED
  BY <1>3, <1>4, <1>5, <1>6, <1>8, <1>9, <1>10, <1>11, <1>12

LEMMA SerialVoid ==
  ASSUME SerialInv, NEW r \in Requests, NEW e \in Requests, VoidEntry(r, e)
  PROVE  OneAtATime' /\ ReadsCurrent' /\ FreshRows' /\ DraftsUnposted' /\ EveryEntryClaimed'
<1>1. UNCHANGED <<docs, payments>> /\ requests[r].phase = "new" /\ Finish(r, "committed")
      /\ Reverse(e, r)
  BY DEF VoidEntry
<1>2. OneAtATime' /\ ReadsCurrent' /\ FreshRows'
  BY <1>1, SerialCommit
<1>3. DraftsUnposted'
  BY <1>1 DEF DraftsUnposted, SerialInv
<1>4. entries[e] \in Entry /\ entries[e] # None /\ e # r /\ entries[e].status = "posted"
  BY <1>1 DEF Reverse, Exists, SerialInv, BillingInv, TypeOK
<1>5. /\ entries'[e] = [entries[e] EXCEPT !.status = "voided", !.voidedBy = r]
      /\ entries'[r].voids = e
      /\ \A x \in Requests : x # e /\ x # r => entries'[x] = entries[x]
  BY <1>1, <1>4 DEF Reverse, SerialInv, BillingInv, TypeOK
<1>6. entries'[e].voids = entries[e].voids
  BY <1>4, <1>5 DEF Entry
<1>7. EveryEntryClaimed'
  <2>1. \A x \in Requests : x # r /\ entries'[x] # None /\ entries'[x].status # "draft"
                                  /\ entries'[x].voids = None =>
          entries[x] # None /\ entries[x].status # "draft" /\ entries[x].voids = None
    BY <1>4, <1>5, <1>6
  <2>2. entries'[r].voids # None
    BY <1>5, NoneAssumption
  <2>3. \A x \in Requests : entries[x] # None /\ entries[x].status # "draft"
                                  /\ entries[x].voids = None =>
          payments[x] # None \/ \E c \in Requests : docs[c] # None /\ docs[c].entry = x
    BY DEF EveryEntryClaimed, SerialInv, Booked, Exists
  <2>4. QED
    BY <1>1, <2>1, <2>2, <2>3 DEF EveryEntryClaimed, Booked, Exists
<1>8. QED
  BY <1>2, <1>3, <1>7

LEMMA SerialRollback ==
  ASSUME SerialInv, NEW r \in Requests, Rollback(r)
  PROVE  OneAtATime' /\ ReadsCurrent' /\ FreshRows' /\ DraftsUnposted' /\ EveryEntryClaimed'
<1>1. UNCHANGED <<entries, docs, payments>> /\ Finish(r, "rolledback") /\ requests[r].phase # "committed"
  BY DEF Rollback, InFlight
<1>2. OneAtATime' /\ ReadsCurrent' /\ FreshRows'
  BY <1>1, SerialCommit
<1>3. QED
  BY <1>1, <1>2 DEF SerialInv, DraftsUnposted, EveryEntryClaimed, Booked, Exists

LEMMA SerialStep ==
  ASSUME Serial, SerialInv, [Next]_vars
  PROVE  SerialInv'
<1>1. BillingInv'
  BY BillingStep DEF SerialInv
<1>2. CASE UNCHANGED vars
  BY <1>1, <1>2 DEF vars, SerialInv, OneAtATime, ReadsCurrent, FreshRows, DraftsUnposted,
    EveryEntryClaimed, InFlight, Booked, Exists
<1>3. CASE Next
  <2>1. PICK r \in Requests :
          \/ \E d \in Requests : ReadDoc(r, d)
          \/ ReadLines(r)
          \/ Create(r) \/ Update(r) \/ Post(r) \/ Pay(r)
          \/ \E e \in Requests : VoidEntry(r, e)
          \/ Rollback(r)
    BY <1>3 DEF Next
  <2>2. CASE Create(r) \/ Update(r) \/ Post(r) \/ Pay(r)
                       \/ (\E e \in Requests : VoidEntry(r, e)) \/ Rollback(r)
    <3>1. OneAtATime' /\ ReadsCurrent' /\ FreshRows' /\ DraftsUnposted' /\ EveryEntryClaimed'
      BY <2>2, SerialCreate, SerialUpdate, SerialPost, SerialPay, SerialVoid, SerialRollback
    <3>2. QED
      BY <1>1, <3>1 DEF SerialInv
  <2>3. QED
    BY <2>1, <2>2, SerialReads
<1>4. QED
  BY <1>2, <1>3

(* With the requests on a document one after the other, however many there *)
(* are and whatever they send, no entry is left in the books that no       *)
(* document or payment names (posted_entry_id).                            *)
THEOREM BillingClaimsEntries ==
  ASSUME Serial
  PROVE  Spec => []EveryEntryClaimed
<1>1. SerialInv /\ [Next]_vars => SerialInv'
  BY SerialStep
<1>2. SerialInv => EveryEntryClaimed
  BY DEF SerialInv
<1>3. QED
  BY SerialInit, <1>1, <1>2, PTL DEF Spec

-----------------------------------------------------------------------------
(* Billing implements Settlement. *)

(* What Settlement sees of document d. *)
Asks(d) == IF Issued(d) THEN docs[d].due ELSE 0

LEMMA NothingSeen ==
  ASSUME \A d \in Requests : PhaseOf(d)' = PhaseOf(d) /\ Asks(d)' = Asks(d) /\ PaidOn(d)' = PaidOn(d)
  PROVE  UNCHANGED Settled!vars
<1>1. [d \in Requests |-> PhaseOf(d)]' = [d \in Requests |-> PhaseOf(d)]
  OBVIOUS
<1>2. [d \in Requests |-> Asks(d)]' = [d \in Requests |-> Asks(d)]
  OBVIOUS
<1>3. [d \in Requests |-> PaidOn(d)]' = [d \in Requests |-> PaidOn(d)]
  OBVIOUS
<1>4. QED
  BY <1>1, <1>2, <1>3 DEF Settled!vars, Asks

(* Who posts a document issues it, for more than nothing: the line that    *)
(* carries its total must have one side.                                   *)
LEMMA PostIssues ==
  ASSUME SerialInv, NEW r \in Requests, Post(r)
  PROVE  Settled!Next
<1>1. PICK d \in Requests, doc \in Doc :
        /\ doc = docs[d] /\ doc.status = "draft" /\ doc.due = doc.total
        /\ docs' = [docs EXCEPT ![d] = Posted(doc, r)]
        /\ EnterPosted(r, PostingLines(r, doc))
  BY SerialPost
<1>2. UNCHANGED payments
  BY DEF Post
<1>3. doc.total > 0
  <2>1. SingleSided(PostingLines(r, doc)[r])
    BY <1>1 DEF EnterPosted, Balanced, PostingLines
  <2>2. doc.total \in Nat
    BY DEF Doc
  <2>3. \/ PostingLines(r, doc)[r] = <<Dr(Receivable, doc.total)>>
        \/ PostingLines(r, doc)[r] = <<Cr(Payable, doc.total)>>
    BY DEF PostingLines
  <2>4. QED
    BY <2>1, <2>2, <2>3 DEF SingleSided, Dr, Cr
<1>4. PICK new \in Doc : docs'[d] = new /\ new.status = "posted" /\ new.due = doc.due
  <2>1. Posted(doc, r) \in Doc
    BY DEF Doc, Posted
  <2>2. Posted(doc, r).status = "posted" /\ Posted(doc, r).due = doc.due
    BY DEF Doc, Posted
  <2>3. QED
    BY <1>1, <2>1, <2>2 DEF SerialInv, BillingInv, TypeOK
<1>5. \A c \in Requests : c # d => docs'[c] = docs[c]
  BY <1>1 DEF SerialInv, BillingInv, TypeOK
<1>6. doc # None /\ new # None
  BY NoRowAssumption
<1>7. PhaseOf(d) = "unissued" /\ PhaseOf(d)' = "open" /\ Asks(d)' = doc.due /\ doc.due > 0
  BY <1>1, <1>3, <1>4, <1>6 DEF PhaseOf, Issued, Asks
<1>8. \A c \in Requests : c # d => PhaseOf(c)' = PhaseOf(c) /\ Asks(c)' = Asks(c)
  BY <1>5 DEF PhaseOf, Issued, Asks
<1>9. \A c \in Requests : PaidOn(c)' = PaidOn(c)
  BY <1>2 DEF PaidOn
<1>10. Settled!Issue(d)
  <2>1. [c \in Requests |-> PhaseOf(c)]' = [[c \in Requests |-> PhaseOf(c)] EXCEPT ![d] = "open"]
    BY <1>7, <1>8
  <2>2. [c \in Requests |-> Asks(c)]' =
          [[c \in Requests |-> Asks(c)] EXCEPT ![d] = [c \in Requests |-> Asks(c)]'[d]]
    BY <1>8
  <2>3. [c \in Requests |-> PaidOn(c)]' = [c \in Requests |-> PaidOn(c)]
    BY <1>9
  <2>4. [c \in Requests |-> PhaseOf(c)][d] = "unissued" /\ [c \in Requests |-> Asks(c)]'[d] > 0
    BY <1>7
  <2>5. QED
    BY <2>1, <2>2, <2>3, <2>4 DEF Settled!Issue, Asks
<1>11. QED
  BY <1>10 DEF Settled!Next

(* Every payment has its amount. *)
LEMMA PaymentTerms ==
  ASSUME TypeOK, NEW d
  PROVE  LET P == {p \in Requests : payments[p] # None /\ payments[p].doc = d} IN
           /\ IsFiniteSet(P)
           /\ [p \in P |-> payments[p].amount] \in [P -> Nat]
           /\ PaidOn(d) \in Nat
<1> DEFINE P == {p \in Requests : payments[p] # None /\ payments[p].doc = d}
<1>1. IsFiniteSet(P)
  BY RequestsAssumption, FS_Subset
<1>2. [p \in P |-> payments[p].amount] \in [P -> Nat]
  BY DEF TypeOK, Payment
<1>3. PaidOn(d) = SumOver([p \in P |-> payments[p].amount])
  BY DEF PaidOn
<1> HIDE DEF P
<1>4. PaidOn(d) \in Nat
  BY <1>1, <1>2, <1>3, SumNat
<1>5. QED
  BY <1>1, <1>2, <1>4 DEF P

(* A payment adds its amount to what was received on its document.         *)
LEMMA PaymentAdds ==
  ASSUME TypeOK, TypeOK', NEW r \in Requests, NEW d \in Requests, NEW n \in Nat,
         payments[r] = None, payments' = [payments EXCEPT ![r] = [doc |-> d, amount |-> n]]
  PROVE  /\ PaidOn(d)' = PaidOn(d) + n
         /\ \A c \in Requests : c # d => PaidOn(c)' = PaidOn(c)
<1>1. /\ payments'[r] = [doc |-> d, amount |-> n]
      /\ \A p \in Requests : p # r => payments'[p] = payments[p]
  BY DEF TypeOK
<1>2. payments'[r] # None
  <2>1. [doc |-> d, amount |-> n] \in Payment
    BY DEF Payment
  <2>2. QED
    BY <1>1, <2>1, NoRowAssumption
<1>3. ASSUME NEW c \in Requests, c # d
      PROVE  PaidOn(c)' = PaidOn(c)
  <2>1. {p \in Requests : payments'[p] # None /\ payments'[p].doc = c}
          = {p \in Requests : payments[p] # None /\ payments[p].doc = c}
    BY <1>1, <1>3
  <2>2. [p \in {p \in Requests : payments'[p] # None /\ payments'[p].doc = c} |-> payments'[p].amount]
          = [p \in {p \in Requests : payments[p] # None /\ payments[p].doc = c} |-> payments[p].amount]
    BY <1>1, <1>3, <2>1
  <2>3. QED
    BY <2>2 DEF PaidOn
<1>4. PaidOn(d)' = PaidOn(d) + n
  <2>1. PICK P : P = {p \in Requests : payments[p] # None /\ payments[p].doc = d}
    OBVIOUS
  <2>2. PICK Q : Q = {p \in Requests : payments'[p] # None /\ payments'[p].doc = d}
    OBVIOUS
  <2>3. Q = P \cup {r} /\ r \notin P
    BY <1>1, <1>2, <2>1, <2>2
  <2>4. PICK f : f = [p \in P |-> payments[p].amount] /\ PaidOn(d) = SumOver(f)
    BY <2>1 DEF PaidOn
  <2>5. PICK g : g = [p \in Q |-> payments'[p].amount] /\ PaidOn(d)' = SumOver(g)
    BY <2>2 DEF PaidOn
  <2>6. IsFiniteSet(Q)
    BY <2>2, RequestsAssumption, FS_Subset
  <2>7. g \in [Q -> Int] /\ g[r] = n
    BY <1>1, <2>2, <2>3, <2>5 DEF TypeOK, Payment
  <2>8. Without(g, r) = f
    BY <1>1, <2>1, <2>3, <2>4, <2>5 DEF Without
  <2>9. PICK m \in Int : m = SumOver(Without(g, r)) /\ SumOver(g) = g[r] + m
    BY <2>3, <2>6, <2>7, SumWithout
  <2>10. QED
    BY <2>4, <2>5, <2>7, <2>8, <2>9
<1>5. QED
  BY <1>3, <1>4

LEMMA PayReceives ==
  ASSUME SerialInv, TypeOK', NEW r \in Requests, Pay(r)
  PROVE  Settled!Next
<1>1. PICK d \in Requests, doc, new \in Doc, n \in Nat :
        /\ doc = docs[d] /\ doc.status \in {"posted", "partial"}
        /\ n > 0 /\ n <= doc.due
        /\ docs' = [docs EXCEPT ![d] = new]
        /\ new.due = doc.due - n
        /\ new.status = IF n = doc.due THEN "paid" ELSE "partial"
        /\ payments[r] = None
        /\ payments' = [payments EXCEPT ![r] = [doc |-> d, amount |-> n]]
  BY SerialPay
<1>2. docs'[d] = new /\ \A c \in Requests : c # d => docs'[c] = docs[c]
  BY <1>1 DEF SerialInv, BillingInv, TypeOK
<1>3. doc # None /\ new # None
  BY NoRowAssumption
<1>4. /\ PhaseOf(d) = "open" /\ Asks(d) = doc.due
      /\ PhaseOf(d)' = IF n = doc.due THEN "settled" ELSE "open"
      /\ Asks(d)' = doc.due - n
  BY <1>1, <1>2, <1>3 DEF PhaseOf, Issued, Asks
<1>5. \A c \in Requests : c # d => PhaseOf(c)' = PhaseOf(c) /\ Asks(c)' = Asks(c)
  BY <1>2 DEF PhaseOf, Issued, Asks
<1>6. PaidOn(d)' = PaidOn(d) + n /\ \A c \in Requests : c # d => PaidOn(c)' = PaidOn(c)
  BY <1>1, PaymentAdds DEF SerialInv, BillingInv
<1>7. PaidOn(d) \in Nat
  BY PaymentTerms DEF SerialInv, BillingInv
<1>8. PaidOn(d)' - PaidOn(d) = n /\ PaidOn(d)' > PaidOn(d)
  BY <1>1, <1>6, <1>7
<1>9. Settled!Receive(d)
  <2>1. [c \in Requests |-> PhaseOf(c)]' =
          [[c \in Requests |-> PhaseOf(c)] EXCEPT ![d] = IF n = Asks(d) THEN "settled" ELSE "open"]
    BY <1>4, <1>5
  <2>2. [c \in Requests |-> Asks(c)]' = [[c \in Requests |-> Asks(c)] EXCEPT ![d] = @ - n]
    BY <1>4, <1>5
  <2>3. [c \in Requests |-> PaidOn(c)]' =
          [[c \in Requests |-> PaidOn(c)] EXCEPT ![d] = [c \in Requests |-> PaidOn(c)]'[d]]
    BY <1>6
  <2>4. /\ [c \in Requests |-> PhaseOf(c)][d] = "open"
        /\ [c \in Requests |-> Asks(c)][d] = Asks(d)
        /\ [c \in Requests |-> PaidOn(c)]'[d] = PaidOn(d)'
        /\ [c \in Requests |-> PaidOn(c)][d] = PaidOn(d)
        /\ n <= Asks(d)
    BY <1>1, <1>4
  <2>5. QED
    BY <1>8, <2>1, <2>2, <2>3, <2>4 DEF Settled!Receive, Asks
<1>10. QED
  BY <1>9 DEF Settled!Next

LEMMA SettledInit == Init => Settled!Init
<1> SUFFICES ASSUME Init PROVE Settled!Init
  OBVIOUS
<1>1. \A d \in Requests : docs[d] = None /\ payments[d] = None
  BY DEF Init
<1>2. \A d \in Requests : PhaseOf(d) = "unissued" /\ Asks(d) = 0
  BY <1>1 DEF PhaseOf, Issued, Asks
<1>3. \A d \in Requests : PaidOn(d) = 0
  <2>1. SUFFICES ASSUME NEW d \in Requests PROVE PaidOn(d) = 0
    OBVIOUS
  <2>2. PICK P : P = {p \in Requests : payments[p] # None /\ payments[p].doc = d}
    OBVIOUS
  <2>3. P = {}
    BY <1>1, <2>2
  <2>4. PaidOn(d) = SumOver([p \in P |-> payments[p].amount])
    BY <2>2 DEF PaidOn
  <2>5. QED
    BY <2>3, <2>4, SumOfNone
<1>4. QED
  BY <1>2, <1>3 DEF Settled!Init, Asks

LEMMA SettledStep ==
  ASSUME SerialInv, SerialInv', [Next]_vars
  PROVE  [Settled!Next]_(Settled!vars)
<1>1. ASSUME UNCHANGED <<docs, payments>>
      PROVE  UNCHANGED Settled!vars
  <2>1. \A d \in Requests : PhaseOf(d)' = PhaseOf(d) /\ Asks(d)' = Asks(d) /\ PaidOn(d)' = PaidOn(d)
    BY <1>1 DEF PhaseOf, Asks, Issued, PaidOn
  <2>2. QED
    BY <2>1, NothingSeen
<1>2. ASSUME NEW r \in Requests, Create(r) \/ Update(r)
      PROVE  UNCHANGED Settled!vars
  <2>1. PICK d \in Requests :
          /\ docs[d] = None \/ docs[d].status = "draft"
          /\ docs'[d] # None /\ docs'[d].status = "draft"
          /\ \A c \in Requests : c # d => docs'[c] = docs[c]
          /\ UNCHANGED payments
    BY <1>2, SerialCreate, SerialUpdate
  <2>2. \A c \in Requests : PhaseOf(c)' = PhaseOf(c) /\ Asks(c)' = Asks(c) /\ PaidOn(c)' = PaidOn(c)
    BY <2>1 DEF PhaseOf, Asks, Issued, PaidOn
  <2>3. QED
    BY <2>2, NothingSeen
<1>3. ASSUME NEW r \in Requests, Post(r) \/ Pay(r)
      PROVE  Settled!Next
  BY <1>3, PostIssues, PayReceives DEF SerialInv, BillingInv
<1>4. ASSUME NEW r \in Requests,
             \/ \E d \in Requests : ReadDoc(r, d)
             \/ ReadLines(r)
             \/ \E e \in Requests : VoidEntry(r, e)
             \/ Rollback(r)
      PROVE  UNCHANGED <<docs, payments>>
  BY <1>4 DEF ReadDoc, ReadLines, VoidEntry, Rollback
<1>5. CASE UNCHANGED vars
  BY <1>1, <1>5 DEF vars
<1>6. QED
  BY <1>1, <1>2, <1>3, <1>4, <1>5 DEF Next

(* With the requests on a document one after the other the handlers keep   *)
(* what Settlement promises: once posted, a document asks for what it was  *)
(* posted for, less the payments received; they never exceed it, and it is *)
(* paid exactly when they reach it (record_payment), for any number of     *)
(* documents and payments of any amounts, voided entries notwithstanding.  *)
THEOREM BillingSettles ==
  ASSUME Serial
  PROVE  Spec => ImplementsSettlement
<1>1. SerialInv /\ [Next]_vars => SerialInv'
  BY SerialStep
<1>2. SerialInv /\ SerialInv' /\ [Next]_vars => [Settled!Next]_(Settled!vars)
  BY SettledStep
<1>3. QED
  BY SerialInit, SettledInit, <1>1, <1>2, PTL DEF Spec, Settled!Spec, ImplementsSettlement

-----------------------------------------------------------------------------
(* The control accounts. *)

(* A request's new posted entry adds what its lines move. *)
LEMMA EnterAdds ==
  ASSUME BillingInv, NEW r \in Requests, NEW ls \in Lines, entries[r] = None,
         EnterPosted(r, ls), NEW a
  PROVE  AccountBalance(a)' = AccountBalance(a) + Net(ls, a)
<1>1. /\ entries'[r] = EntryOf(r, ls)
      /\ \A x \in Requests : x # r => entries'[x] = entries[x]
  BY DEF EnterPosted, BillingInv, TypeOK
<1>2. EntryOf(r, ls) # None /\ EntryOf(r, ls).status = "posted" /\ EntryOf(r, ls).lines = ls
  <2>1. EntryOf(r, ls) \in Entry
    BY DEF EntryOf, Entry, Statuses
  <2>2. QED
    BY <2>1, NoneAssumption DEF EntryOf
<1>3. Counted' = Counted \cup {r} /\ r \notin Counted
  BY <1>1, <1>2 DEF Counted, Booked, Exists
<1>4. PICK f : f = [x \in Counted |-> Net(entries[x].lines, a)] /\ AccountBalance(a) = SumOver(f)
  BY DEF AccountBalance
<1>5. PICK g : g = [x \in Counted' |-> Net(entries'[x].lines, a)] /\ AccountBalance(a)' = SumOver(g)
  BY DEF AccountBalance
<1>6. f \in [Counted -> Int] /\ IsFiniteSet(Counted)
  BY <1>4, BalanceTerms DEF BillingInv
<1>7. \A x \in Counted : g[x] = f[x]
  BY <1>1, <1>3, <1>4, <1>5 DEF Counted
<1>8. g[r] = Net(ls, a) /\ Net(ls, a) \in Int
  BY <1>1, <1>2, <1>3, <1>5, NetInt
<1>9. DOMAIN g = Counted \cup {r} /\ g \in [Counted \cup {r} -> Int]
  BY <1>3, <1>5, <1>6, <1>7, <1>8
<1>10. IsFiniteSet(Counted \cup {r})
  BY <1>6, FS_AddElement
<1>11. Without(g, r) = f
  BY <1>3, <1>4, <1>7, <1>9 DEF Without
<1>12. PICK n \in Int : n = SumOver(Without(g, r)) /\ SumOver(g) = g[r] + n
  BY <1>9, <1>10, SumWithout
<1>13. QED
  BY <1>4, <1>5, <1>8, <1>11, <1>12

(* What a document still owes, if it is open and of this kind. *)
Owes(doc, kind) ==
  IF doc # None /\ doc.kind = kind /\ doc.status \in {"posted", "partial"} THEN doc.due ELSE 0

LEMMA OwedBy ==
  ASSUME NEW D \in [Requests -> Doc \cup {None}], NEW kind
  PROVE  /\ SumOver([d \in {d \in Requests : D[d] # None /\ D[d].kind = kind
                                             /\ D[d].status \in {"posted", "partial"}} |-> D[d].due])
              = SumOver([d \in Requests |-> Owes(D[d], kind)])
         /\ [d \in Requests |-> Owes(D[d], kind)] \in [Requests -> Int]
<1>1. PICK T : T = {d \in Requests : D[d] # None /\ D[d].kind = kind
                                     /\ D[d].status \in {"posted", "partial"}}
  OBVIOUS
<1>2. PICK f : f = [d \in T |-> D[d].due]
  OBVIOUS
<1>3. PICK g : g = [d \in Requests |-> Owes(D[d], kind)]
  OBVIOUS
<1>4. T \in SUBSET Requests /\ f \in [T -> Int]
  BY <1>1, <1>2 DEF Doc
<1>5. g \in [Requests -> Int]
  BY <1>3 DEF Owes, Doc
<1>6. \A d \in Requests : g[d] = IF d \in T THEN f[d] ELSE 0
  BY <1>1, <1>2, <1>3 DEF Owes
<1>7. SumOver(f) = SumOver(g)
  BY <1>4, <1>5, <1>6, SumExtended, RequestsAssumption
<1>8. QED
  BY <1>1, <1>2, <1>3, <1>5, <1>7

(* Writing one document changes the sum by what it owes more. *)
LEMMA OpenBalanceChange ==
  ASSUME TypeOK, TypeOK', NEW d \in Requests,
         \A c \in Requests : c # d => docs'[c] = docs[c], NEW kind
  PROVE  OpenBalance(kind)' = OpenBalance(kind) - Owes(docs[d], kind) + Owes(docs'[d], kind)
<1>1. PICK f : f = [c \in Requests |-> Owes(docs[c], kind)]
  OBVIOUS
<1>2. PICK g : g = [c \in Requests |-> Owes(docs'[c], kind)]
  OBVIOUS
<1>3. OpenBalance(kind) = SumOver(f) /\ f \in [Requests -> Int]
  BY <1>1, OwedBy DEF TypeOK, OpenBalance
<1>4. docs' \in [Requests -> Doc \cup {None}]
  BY DEF TypeOK
<1>5. g \in [Requests -> Int]
  BY <1>2, <1>4, OwedBy
<1>6. OpenBalance(kind)' = SumOver(g)
  BY <1>2, <1>4, OwedBy DEF OpenBalance
<1>7. \A c \in Requests : c # d => g[c] = f[c]
  BY <1>1, <1>2
<1>8. SumOver(g) = SumOver(f) - f[d] + g[d]
  BY <1>3, <1>5, <1>7, SumChange, RequestsAssumption
<1>9. QED
  BY <1>1, <1>2, <1>3, <1>6, <1>8

(* Lines that touch account a in one batch only, by its one line there. *)
LEMMA NetOfNothing ==
  ASSUME NEW ls \in Lines, NEW a,
         \A q \in Requests : \A i \in DOMAIN ls[q] : ls[q][i].account # a
  PROVE  Net(ls, a) = 0
<1>1. \A q \in Requests : SumOver(MovedBy(ls[q], a)) = 0
  <2>1. SUFFICES ASSUME NEW q \in Requests
                 PROVE  SumOver(MovedBy(ls[q], a)) = 0
    OBVIOUS
  <2>2. ls[q] \in Batch
    BY DEF Lines
  <2>3. MovedBy(ls[q], a) \in [DOMAIN ls[q] -> Int] /\ IsFiniteSet(DOMAIN ls[q])
    BY <2>2, MovedByInt, LineIndices
  <2>4. \A i \in DOMAIN ls[q] : MovedBy(ls[q], a)[i] = 0
    BY DEF MovedBy
  <2>5. QED
    BY <2>3, <2>4, SumZero
<1>2. Net(ls, a) = SumOver([q \in Requests |-> SumOver(MovedBy(ls[q], a))])
  BY NetInt
<1>3. [q \in Requests |-> SumOver(MovedBy(ls[q], a))] \in [Requests -> Int]
  BY NetInt
<1>4. QED
  BY <1>1, <1>2, <1>3, SumZero, RequestsAssumption

LEMMA NetOfOne ==
  ASSUME NEW ls \in Lines, NEW a, NEW r \in Requests, NEW i \in DOMAIN ls[r],
         ls[r][i].account = a,
         \A j \in DOMAIN ls[r] : j # i => ls[r][j].account # a,
         \A q \in Requests : q # r => \A j \in DOMAIN ls[q] : ls[q][j].account # a
  PROVE  Net(ls, a) = ls[r][i].debit - ls[r][i].credit
<1> DEFINE m == [q \in Requests |-> SumOver(MovedBy(ls[q], a))]
<1>1. m \in [Requests -> Int] /\ Net(ls, a) = SumOver(m)
  BY NetInt
<1>2. \A q \in Requests : ls[q] \in Batch
  BY DEF Lines
<1>3. m[r] = ls[r][i].debit - ls[r][i].credit
  <2>1. MovedBy(ls[r], a) \in [DOMAIN ls[r] -> Int] /\ IsFiniteSet(DOMAIN ls[r])
    BY <1>2, MovedByInt, LineIndices
  <2>2. \A j \in DOMAIN ls[r] : j # i => MovedBy(ls[r], a)[j] = 0
    BY DEF MovedBy
  <2>3. MovedBy(ls[r], a)[i] = ls[r][i].debit - ls[r][i].credit
    BY DEF MovedBy
  <2>4. SumOver(MovedBy(ls[r], a)) = MovedBy(ls[r], a)[i]
    BY <2>1, <2>2, SumOnly
  <2>5. QED
    BY <2>3, <2>4
<1>4. ASSUME NEW q \in Requests, q # r
      PROVE  m[q] = 0
  <2>1. MovedBy(ls[q], a) \in [DOMAIN ls[q] -> Int] /\ IsFiniteSet(DOMAIN ls[q])
    BY <1>2, MovedByInt, LineIndices
  <2>2. \A j \in DOMAIN ls[q] : MovedBy(ls[q], a)[j] = 0
    BY <1>4 DEF MovedBy
  <2>3. QED
    BY <2>1, <2>2, SumZero
<1> HIDE DEF m
<1>5. SumOver(m) = m[r]
  BY <1>1, <1>4, SumOnly, RequestsAssumption
<1>6. QED
  BY <1>1, <1>3, <1>5

(* What posting a document, and paying one, moves into the two accounts.   *)
LEMMA PostingMoves ==
  ASSUME NEW r \in Requests, NEW doc \in Doc, Expense # Receivable
  PROVE  /\ Net(PostingLines(r, doc), Receivable) = IF doc.kind = "invoice" THEN doc.total ELSE 0
         /\ Net(PostingLines(r, doc), Payable) = IF doc.kind = "bill" THEN -doc.total ELSE 0
<1> DEFINE ls == PostingLines(r, doc)
<1> USE ControlAssumption
<1>1. ls \in Lines /\ doc.total \in Nat /\ doc.kind \in {"invoice", "bill"}
  BY PostingLinesType, KindsAssumption DEF Doc
<1>2. ASSUME NEW q \in Requests, q # r
      PROVE  \A i \in DOMAIN ls[q] :
               ls[q][i].account = IF doc.kind = "invoice" THEN Revenue ELSE Expense
  BY <1>2 DEF PostingLines, Cr, Dr
<1>3. ls[r] = IF doc.kind = "invoice" THEN <<Dr(Receivable, doc.total)>>
                                      ELSE <<Cr(Payable, doc.total)>>
  BY DEF PostingLines
<1> HIDE DEF ls
<1>4. CASE doc.kind = "invoice"
  <2>1. 1 \in DOMAIN ls[r] /\ DOMAIN ls[r] = {1} /\ ls[r][1] = Dr(Receivable, doc.total)
    BY <1>3, <1>4
  <2>2. ls[r][1].account = Receivable /\ ls[r][1].debit = doc.total /\ ls[r][1].credit = 0
    BY <2>1 DEF Dr
  <2>3. Net(ls, Receivable) = ls[r][1].debit - ls[r][1].credit
    BY <1>1, <1>2, <1>4, <2>1, <2>2, NetOfOne
  <2>4. Net(ls, Payable) = 0
    <3>1. \A q \in Requests : \A i \in DOMAIN ls[q] : ls[q][i].account # Payable
      BY <1>2, <1>4, <2>1, <2>2
    <3>2. QED
      BY <1>1, <3>1, NetOfNothing
  <2>5. QED
    BY <1>1, <1>4, <2>2, <2>3, <2>4 DEF ls
<1>5. CASE doc.kind = "bill"
  <2>1. 1 \in DOMAIN ls[r] /\ DOMAIN ls[r] = {1} /\ ls[r][1] = Cr(Payable, doc.total)
    BY <1>3, <1>5
  <2>2. ls[r][1].account = Payable /\ ls[r][1].debit = 0 /\ ls[r][1].credit = doc.total
    BY <2>1 DEF Cr
  <2>3. Net(ls, Payable) = ls[r][1].debit - ls[r][1].credit
    BY <1>1, <1>2, <1>5, <2>1, <2>2, NetOfOne
  <2>4. Net(ls, Receivable) = 0
    <3>1. \A q \in Requests : \A i \in DOMAIN ls[q] : ls[q][i].account # Receivable
      BY <1>2, <1>5, <2>1, <2>2
    <3>2. QED
      BY <1>1, <3>1, NetOfNothing
  <2>5. QED
    BY <1>1, <1>5, <2>2, <2>3, <2>4 DEF ls
<1>6. QED
  BY <1>1, <1>4, <1>5

LEMMA PaymentMoves ==
  ASSUME NEW r \in Requests, NEW kind \in {"invoice", "bill"}, NEW n \in Nat
  PROVE  /\ Net(PaymentLines(r, kind, n), Receivable) = IF kind = "invoice" THEN -n ELSE 0
         /\ Net(PaymentLines(r, kind, n), Payable) = IF kind = "bill" THEN n ELSE 0
<1> DEFINE ls == PaymentLines(r, kind, n)
<1> USE ControlAssumption
<1>1. ls \in Lines
  BY PaymentLinesType
<1>2. \A q \in Requests : q # r => ls[q] = <<>>
  BY DEF PaymentLines, NoLines
<1>3. ls[r] = IF kind = "invoice" THEN <<Dr(Cash, n), Cr(Receivable, n)>>
                                  ELSE <<Dr(Payable, n), Cr(Cash, n)>>
  BY DEF PaymentLines, NoLines
<1>4. \A q \in Requests : q # r => DOMAIN ls[q] = {}
  BY <1>2
<1> HIDE DEF ls
<1>5. CASE kind = "invoice"
  <2>1. DOMAIN ls[r] = {1, 2} /\ ls[r][1] = Dr(Cash, n) /\ ls[r][2] = Cr(Receivable, n)
    BY <1>3, <1>5
  <2>2. /\ ls[r][1].account = Cash /\ ls[r][2].account = Receivable
        /\ ls[r][2].debit = 0 /\ ls[r][2].credit = n
    BY <2>1 DEF Dr, Cr
  <2>3. Net(ls, Receivable) = ls[r][2].debit - ls[r][2].credit
    BY <1>1, <1>4, <2>1, <2>2, NetOfOne
  <2>4. Net(ls, Payable) = 0
    <3>1. \A q \in Requests : \A i \in DOMAIN ls[q] : ls[q][i].account # Payable
      BY <1>4, <2>1, <2>2
    <3>2. QED
      BY <1>1, <3>1, NetOfNothing
  <2>5. QED
    BY <1>5, <2>2, <2>3, <2>4 DEF ls
<1>6. CASE kind = "bill"
  <2>1. DOMAIN ls[r] = {1, 2} /\ ls[r][1] = Dr(Payable, n) /\ ls[r][2] = Cr(Cash, n)
    BY <1>3, <1>6
  <2>2. /\ ls[r][1].account = Payable /\ ls[r][2].account = Cash
        /\ ls[r][1].debit = n /\ ls[r][1].credit = 0
    BY <2>1 DEF Dr, Cr
  <2>3. Net(ls, Payable) = ls[r][1].debit - ls[r][1].credit
    BY <1>1, <1>4, <2>1, <2>2, NetOfOne
  <2>4. Net(ls, Receivable) = 0
    <3>1. \A q \in Requests : \A i \in DOMAIN ls[q] : ls[q][i].account # Receivable
      BY <1>4, <2>1, <2>2
    <3>2. QED
      BY <1>1, <3>1, NetOfNothing
  <2>5. QED
    BY <1>6, <2>2, <2>3, <2>4 DEF ls
<1>7. QED
  BY <1>5, <1>6

LEMMA BalancesInt ==
  ASSUME BillingInv
  PROVE  /\ \A a : AccountBalance(a) \in Int
         /\ \A kind : OpenBalance(kind) \in Int
<1>1. ASSUME NEW a PROVE AccountBalance(a) \in Int
  BY BalanceTerms, SumInt DEF AccountBalance, BillingInv
<1>2. ASSUME NEW kind PROVE OpenBalance(kind) \in Int
  <2>1. OpenBalance(kind) = SumOver([d \in Requests |-> Owes(docs[d], kind)])
    BY OwedBy DEF OpenBalance, BillingInv, TypeOK
  <2>2. [d \in Requests |-> Owes(docs[d], kind)] \in [Requests -> Int]
    BY OwedBy DEF BillingInv, TypeOK
  <2>3. QED
    BY <2>1, <2>2, SumInt, RequestsAssumption
<1>3. QED
  BY <1>1, <1>2

(* A new posted entry voids nothing. *)
LEMMA EnterVoidsNothing ==
  ASSUME BillingInv, NEW r \in Requests, Enter(r), NothingVoided'
  PROVE  NothingVoided /\ entries[r] = None
BY DEF Enter, Exists, NothingVoided, BillingInv, TypeOK

LEMMA ControlPost ==
  ASSUME SerialInv, SerialInv', Expense # Receivable, ControlAgrees, NEW r \in Requests, Post(r)
  PROVE  ControlAgrees'
<1>1. SUFFICES ASSUME NothingVoided'
               PROVE  /\ AccountBalance(Receivable)' = OpenBalance("invoice")'
                      /\ AccountBalance(Payable)' = -OpenBalance("bill")'
  BY DEF ControlAgrees
<1>2. /\ AccountBalance(Receivable) = OpenBalance("invoice")
      /\ AccountBalance(Payable) = -OpenBalance("bill")
      /\ entries[r] = None
  BY <1>1, PostEnters, EnterVoidsNothing DEF ControlAgrees, SerialInv
<1>3. PICK d \in Requests, doc \in Doc :
        /\ doc = docs[d] /\ doc.status = "draft" /\ doc.due = doc.total
        /\ docs' = [docs EXCEPT ![d] = Posted(doc, r)]
        /\ EnterPosted(r, PostingLines(r, doc))
  BY SerialPost
<1>4. PICK new \in Doc : /\ docs'[d] = new /\ new.status = "posted" /\ new.due = doc.due
                         /\ new.kind = doc.kind
  <2>1. Posted(doc, r) \in Doc
    BY DEF Doc, Posted
  <2>2. Posted(doc, r).status = "posted" /\ Posted(doc, r).due = doc.due /\ Posted(doc, r).kind = doc.kind
    BY DEF Doc, Posted
  <2>3. QED
    BY <1>3, <2>1, <2>2 DEF SerialInv, BillingInv, TypeOK
<1>5. \A c \in Requests : c # d => docs'[c] = docs[c]
  BY <1>3 DEF SerialInv, BillingInv, TypeOK
<1>6. \A kind : OpenBalance(kind)' = OpenBalance(kind) - Owes(docs[d], kind) + Owes(docs'[d], kind)
  BY <1>5, OpenBalanceChange DEF SerialInv, BillingInv
<1>7. \A kind : /\ Owes(docs[d], kind) = 0
                /\ Owes(docs'[d], kind) = IF doc.kind = kind THEN doc.total ELSE 0
  BY <1>3, <1>4, NoRowAssumption DEF Owes
<1>8. PostingLines(r, doc) \in Lines /\ doc.total \in Nat /\ doc.kind \in {"invoice", "bill"}
  BY PostingLinesType, KindsAssumption DEF Doc
<1>9. \A a : AccountBalance(a)' = AccountBalance(a) + Net(PostingLines(r, doc), a)
  BY <1>2, <1>3, <1>8, EnterAdds DEF SerialInv
<1>10. PICK i, b \in Int : i = OpenBalance("invoice") /\ b = OpenBalance("bill")
  BY BalancesInt DEF SerialInv
<1>11. /\ AccountBalance(Receivable)' = i + IF doc.kind = "invoice" THEN doc.total ELSE 0
       /\ AccountBalance(Payable)' = -b + IF doc.kind = "bill" THEN -doc.total ELSE 0
  BY <1>2, <1>9, <1>10, PostingMoves
<1>12. /\ OpenBalance("invoice")' = i - 0 + IF doc.kind = "invoice" THEN doc.total ELSE 0
       /\ OpenBalance("bill")' = b - 0 + IF doc.kind = "bill" THEN doc.total ELSE 0
  BY <1>6, <1>7, <1>10
<1>13. QED
  BY <1>8, <1>10, <1>11, <1>12

LEMMA ControlPay ==
  ASSUME SerialInv, SerialInv', ControlAgrees, NEW r \in Requests, Pay(r)
  PROVE  ControlAgrees'
<1>1. SUFFICES ASSUME NothingVoided'
               PROVE  /\ AccountBalance(Receivable)' = OpenBalance("invoice")'
                      /\ AccountBalance(Payable)' = -OpenBalance("bill")'
  BY DEF ControlAgrees
<1>2. /\ AccountBalance(Receivable) = OpenBalance("invoice")
      /\ AccountBalance(Payable) = -OpenBalance("bill")
      /\ entries[r] = None
  BY <1>1, PayEnters, EnterVoidsNothing DEF ControlAgrees, SerialInv
<1>3. PICK d \in Requests, doc, new \in Doc, n \in Nat :
        /\ doc = docs[d] /\ doc.status \in {"posted", "partial"}
        /\ n > 0 /\ n <= doc.due
        /\ docs' = [docs EXCEPT ![d] = new]
        /\ new.due = doc.due - n /\ new.kind = doc.kind
        /\ new.status = IF n = doc.due THEN "paid" ELSE "partial"
        /\ EnterPosted(r, PaymentLines(r, doc.kind, n))
  BY SerialPay
<1>4. docs'[d] = new /\ \A c \in Requests : c # d => docs'[c] = docs[c]
  BY <1>3 DEF SerialInv, BillingInv, TypeOK
<1>5. \A kind : OpenBalance(kind)' = OpenBalance(kind) - Owes(docs[d], kind) + Owes(docs'[d], kind)
  BY <1>4, OpenBalanceChange DEF SerialInv, BillingInv
<1>6. doc.due \in Nat /\ doc.kind \in {"invoice", "bill"}
  BY KindsAssumption DEF Doc
<1>7. \A kind : /\ Owes(docs[d], kind) = IF doc.kind = kind THEN doc.due ELSE 0
                /\ Owes(docs'[d], kind) = IF doc.kind = kind THEN doc.due - n ELSE 0
  BY <1>3, <1>4, <1>6, NoRowAssumption DEF Owes
<1>8. PaymentLines(r, doc.kind, n) \in Lines
  BY PaymentLinesType
<1>9. \A a : AccountBalance(a)' = AccountBalance(a) + Net(PaymentLines(r, doc.kind, n), a)
  BY <1>2, <1>3, <1>8, EnterAdds DEF SerialInv
<1>10. PICK i, b \in Int : i = OpenBalance("invoice") /\ b = OpenBalance("bill")
  BY BalancesInt DEF SerialInv
<1>11. /\ AccountBalance(Receivable)' = i + IF doc.kind = "invoice" THEN -n ELSE 0
       /\ AccountBalance(Payable)' = -b + IF doc.kind = "bill" THEN n ELSE 0
  BY <1>2, <1>6, <1>9, <1>10, PaymentMoves
<1>12. CASE doc.kind = "invoice"
  <2>1. OpenBalance("invoice")' = i - doc.due + (doc.due - n) /\ OpenBalance("bill")' = b - 0 + 0
    BY <1>5, <1>7, <1>10, <1>12
  <2>2. QED
    BY <1>6, <1>10, <1>11, <1>12, <2>1
<1>13. CASE doc.kind = "bill"
  <2>1. OpenBalance("bill")' = b - doc.due + (doc.due - n) /\ OpenBalance("invoice")' = i - 0 + 0
    BY <1>5, <1>7, <1>10, <1>13
  <2>2. QED
    BY <1>6, <1>10, <1>11, <1>13, <2>1
<1>14. QED
  BY <1>6, <1>12, <1>13

LEMMA ControlStep ==
  ASSUME SerialInv, SerialInv', Expense # Receivable, ControlAgrees, [Next]_vars
  PROVE  ControlAgrees'
<1>1. ASSUME UNCHANGED <<entries, docs>>
      PROVE  ControlAgrees'
  <2>1. NothingVoided' = NothingVoided
    BY <1>1 DEF NothingVoided, Exists
  <2>2. \A a : AccountBalance(a)' = AccountBalance(a)
    BY <1>1 DEF AccountBalance, Counted, Booked, Exists
  <2>3. \A kind : OpenBalance(kind)' = OpenBalance(kind)
    BY <1>1 DEF OpenBalance
  <2>4. QED
    BY <2>1, <2>2, <2>3 DEF ControlAgrees
<1>2. ASSUME NEW r \in Requests, Create(r) \/ Update(r)
      PROVE  ControlAgrees'
  <2>1. PICK d \in Requests :
          /\ docs[d] = None \/ docs[d].status = "draft"
          /\ docs'[d] # None /\ docs'[d].status = "draft"
          /\ \A c \in Requests : c # d => docs'[c] = docs[c]
    BY <1>2, SerialCreate, SerialUpdate
  <2>2. \A kind : Owes(docs[d], kind) = 0 /\ Owes(docs'[d], kind) = 0
    BY <2>1 DEF Owes
  <2>3. \A kind : OpenBalance(kind)' = OpenBalance(kind) - Owes(docs[d], kind) + Owes(docs'[d], kind)
    BY <2>1, OpenBalanceChange DEF SerialInv, BillingInv
  <2>4. \A kind : OpenBalance(kind)' = OpenBalance(kind)
    <3>1. ASSUME NEW kind PROVE OpenBalance(kind)' = OpenBalance(kind)
      <4>1. PICK n \in Int : n = OpenBalance(kind)
        BY BalancesInt DEF SerialInv
      <4>2. OpenBalance(kind)' = n - 0 + 0
        BY <2>2, <2>3, <4>1
      <4>3. QED
        BY <4>1, <4>2
    <3>2. QED
      BY <3>1
  <2>5. UNCHANGED entries
    BY <1>2 DEF Create, Update
  <2>6. NothingVoided' = NothingVoided /\ \A a : AccountBalance(a)' = AccountBalance(a)
    BY <2>5 DEF NothingVoided, AccountBalance, Counted, Booked, Exists
  <2>7. QED
    BY <2>4, <2>6 DEF ControlAgrees
<1>3. ASSUME NEW r \in Requests, NEW e \in Requests, VoidEntry(r, e)
      PROVE  ControlAgrees'
  <2>1. Reverse(e, r)
    BY <1>3 DEF VoidEntry
  <2>2. entries'[e].status = "voided" /\ entries'[e] # None
    <3>1. entries[e] \in Entry /\ e # r
      BY <2>1 DEF Reverse, Exists, SerialInv, BillingInv, TypeOK
    <3>2. entries'[e] = [entries[e] EXCEPT !.status = "voided", !.voidedBy = r]
      BY <2>1, <3>1 DEF Reverse, SerialInv, BillingInv, TypeOK
    <3>3. entries'[e] \in Entry /\ entries'[e].status = "voided"
      BY <3>1, <3>2 DEF Entry, Statuses
    <3>4. QED
      BY <3>3, NoneAssumption
  <2>3. QED
    BY <2>2 DEF ControlAgrees, NothingVoided, Exists
<1>4. ASSUME NEW r \in Requests,
             (\E d \in Requests : ReadDoc(r, d)) \/ ReadLines(r) \/ Rollback(r)
      PROVE  UNCHANGED <<entries, docs>>
  BY <1>4 DEF ReadDoc, ReadLines, Rollback
<1>5. CASE UNCHANGED vars
  BY <1>1, <1>5 DEF vars
<1>6. QED
  BY <1>1, <1>2, <1>3, <1>4, <1>5, ControlPost, ControlPay DEF Next

LEMMA ControlInit == Init => ControlAgrees
<1> SUFFICES ASSUME Init PROVE ControlAgrees
  OBVIOUS
<1>1. \A x \in Requests : entries[x] = None /\ docs[x] = None
  BY DEF Init, LedgerInit
<1>2. \A a : AccountBalance(a) = 0
  <2>1. Counted = {}
    BY <1>1 DEF Counted, Booked, Exists
  <2>2. \A a : DOMAIN [x \in Counted |-> Net(entries[x].lines, a)] = {}
    BY <2>1
  <2>3. QED
    BY <2>2, SumOfNone DEF AccountBalance
<1>3. \A kind : OpenBalance(kind) = 0
  <2>1. SUFFICES ASSUME NEW kind PROVE OpenBalance(kind) = 0
    OBVIOUS
  <2>2. PICK T : T = {d \in Requests : docs[d] # None /\ docs[d].kind = kind
                                       /\ docs[d].status \in {"posted", "partial"}}
    OBVIOUS
  <2>3. T = {}
    BY <1>1, <2>2
  <2>4. OpenBalance(kind) = SumOver([d \in T |-> docs[d].due])
    BY <2>2 DEF OpenBalance
  <2>5. QED
    BY <2>3, <2>4, SumOfNone
<1>4. QED
  BY <1>2, <1>3 DEF ControlAgrees

(* With the requests on a document one after the other, and unless a bill  *)
(* was charged to the receivable account itself (which create_bill and     *)
(* update_bill allow), the control accounts hold what the aging reports    *)
(* say is open until an entry is voided behind a document's back           *)
(* (ar_aging, ap_aging, balance_sheet).                                    *)
THEOREM BillingControlAgrees ==
  ASSUME Serial, Expense # Receivable
  PROVE  Spec => []ControlAgrees
<1>1. SerialInv /\ [Next]_vars => SerialInv'
  BY SerialStep
<1>2. SerialInv /\ SerialInv' /\ ControlAgrees /\ [Next]_vars => ControlAgrees'
  BY ControlStep
<1>3. QED
  BY SerialInit, ControlInit, <1>1, <1>2, PTL DEF Spec
=============================================================================
