----------------------------- MODULE BooksProofs ----------------------------
(***************************************************************************)
(* Two results about the journal endpoints.  When no two requests in       *)
(* flight name the same entry they implement Ledger, so everything         *)
(* LedgerProofs shows of the books holds of the tables                     *)
(* (JournalImplementsLedger).  When they do overlap, what the endpoints    *)
(* still promise, and OverlapInv the reason (JournalOverlapSafe).          *)
(*                                                                         *)
(* Three about the reports over the books, in the second half: what a      *)
(* stored net worth differs by, what the lists of documents agree with,    *)
(* and that the statements do not contradict each other.  Each report is a *)
(* sum over the entries, so these rest on the lemmas about sums.           *)
(***************************************************************************)
EXTENDS Journal, Reports, LedgerProofs, SequenceTheorems, NaturalsInduction

-----------------------------------------------------------------------------
(* The journal endpoints. *)

(* Any set of requests, any lines a client may send. *)
LEMMA NoLinesType == NoLines \in Lines /\ <<>> \in Batch
BY DEF NoLines, Lines, Batch

LEMMA FreshType ==
  ASSUME NEW phase \in Phases
  PROVE  [Fresh EXCEPT !.phase = phase] \in Request
BY NoLinesType DEF Fresh, Request, Phases

(* The row update_draft leaves is a row, with the same status and links. *)
LEMMA ReplacedType ==
  ASSUME NEW current \in Lines, NEW read \in Lines, NEW r \in Requests, NEW p \in Batch
  PROVE  Replaced(current, read, r, p) \in Lines
BY NoLinesType DEF Replaced, Lines

LEMMA CreateRow ==
  ASSUME TypeOK, NEW r \in Requests, Create(r)
  PROVE  /\ entries' \in [Requests -> Entry \cup {None}]
         /\ IsDraft(entries'[r])
         /\ entries'[r] # None
         /\ \A x \in Requests : x # r => entries'[x] = entries[x]
<1> USE NoneAssumption
<1>1. PICK p \in Payloads :
        entries' = [entries EXCEPT ![r] =
            [status |-> "draft", header |-> r, lines |-> [NoLines EXCEPT ![r] = p],
             voids |-> None, voidedBy |-> None]]
  BY DEF Create
<1>2. [NoLines EXCEPT ![r] = p] \in Lines
  BY PayloadsAssumption, NoLinesType DEF Lines
<1>3. entries'[r] = [status |-> "draft", header |-> r, lines |-> [NoLines EXCEPT ![r] = p],
                     voids |-> None, voidedBy |-> None]
  BY <1>1 DEF TypeOK
<1>4. entries'[r] \in Entry
  BY <1>2, <1>3 DEF Entry, Statuses
<1>5. QED
  BY <1>1, <1>3, <1>4 DEF TypeOK, IsDraft

LEMMA UpdateRow ==
  ASSUME TypeOK, NEW r \in Requests, Update(r), requests[r].entry \in Requests
  PROVE  LET e == requests[r].entry IN
         /\ entries' \in [Requests -> Entry \cup {None}]
         /\ entries'[e] \in Entry
         /\ entries'[e].status = entries[e].status
         /\ entries'[e].voids = entries[e].voids
         /\ entries'[e].voidedBy = entries[e].voidedBy
         /\ \A x \in Requests : x # e => entries'[x] = entries[x]
         /\ entries' = [entries EXCEPT ![e] = entries'[e]]
<1> USE NoneAssumption
<1> DEFINE e == requests[r].entry
<1>1. PICK newHeader \in BOOLEAN, p \in Payloads \cup {<<>>} :
        entries' = [entries EXCEPT
            ![e].header = IF newHeader THEN r ELSE @,
            ![e].lines  = IF p = <<>> THEN @ ELSE Replaced(@, requests[r].lines, r, p)]
  BY DEF Update, MayUpdate
<1>2. entries[e] \in Entry /\ requests[r].lines \in Lines /\ p \in Batch
  BY PayloadsAssumption, NoLinesType DEF Update, MayUpdate, Exists, TypeOK, Request
<1>3. Replaced(entries[e].lines, requests[r].lines, r, p) \in Lines
  BY <1>2, ReplacedType DEF Entry
<1>4. entries'[e] = [entries[e] EXCEPT
        !.header = IF newHeader THEN r ELSE entries[e].header,
        !.lines  = IF p = <<>> THEN entries[e].lines
                   ELSE Replaced(entries[e].lines, requests[r].lines, r, p)]
  BY <1>1, <1>2 DEF TypeOK, Entry
<1>5. /\ entries'[e] \in Entry
      /\ entries'[e].status = entries[e].status
      /\ entries'[e].voids = entries[e].voids
      /\ entries'[e].voidedBy = entries[e].voidedBy
  BY <1>2, <1>3, <1>4 DEF Entry
<1>6. \A x \in Requests : x # e => entries'[x] = entries[x]
  BY <1>1 DEF TypeOK
<1>7. QED
  BY <1>1, <1>5, <1>6, ZenonT(60) DEF TypeOK

LEMMA PostRow ==
  ASSUME TypeOK, NEW r \in Requests, Post(r), requests[r].entry \in Requests
  PROVE  LET e == requests[r].entry IN
         /\ entries' \in [Requests -> Entry \cup {None}]
         /\ entries'[e] \in Entry
         /\ entries'[e].status = "posted"
         /\ entries'[e].lines = entries[e].lines
         /\ entries'[e].header = entries[e].header
         /\ entries'[e].voids = entries[e].voids
         /\ entries'[e].voidedBy = entries[e].voidedBy
         /\ \A x \in Requests : x # e => entries'[x] = entries[x]
<1> USE NoneAssumption
<1> DEFINE e == requests[r].entry
<1>1. entries[e] \in Entry /\ entries' = [entries EXCEPT ![e].status = "posted"]
  BY DEF Post, MayPost, Exists, TypeOK
<1>2. entries'[e] = [entries[e] EXCEPT !.status = "posted"]
  BY <1>1 DEF TypeOK
<1>3. /\ entries'[e] \in Entry
      /\ entries'[e].status = "posted"
      /\ entries'[e].lines = entries[e].lines
      /\ entries'[e].header = entries[e].header
      /\ entries'[e].voids = entries[e].voids
      /\ entries'[e].voidedBy = entries[e].voidedBy
  BY <1>1, <1>2 DEF Entry, Statuses
<1>4. QED
  BY <1>1, <1>3 DEF TypeOK

LEMMA VoidRows ==
  ASSUME TypeOK, NEW r \in Requests, Void(r), NEW e \in Requests, e = requests[r].entry, e # r
  PROVE  /\ entries' \in [Requests -> Entry \cup {None}]
         /\ entries'[e] \in Entry
         /\ entries'[e].status = "voided"
         /\ entries'[e].lines = entries[e].lines
         /\ entries'[e].header = entries[e].header
         /\ entries'[e].voids = entries[e].voids
         /\ entries'[e].voidedBy = r
         /\ entries'[r] \in Entry
         /\ entries'[r].status = "posted"
         /\ entries'[r].lines = Reversed(requests[r].lines)
         /\ entries'[r].voids = e
         /\ \A x \in Requests : x # e /\ x # r => entries'[x] = entries[x]
<1> USE NoneAssumption
<1>1. /\ entries[e] \in Entry
      /\ requests[r].lines \in Lines
      /\ entries' = [entries EXCEPT
           ![e] = [@ EXCEPT !.status = "voided", !.voidedBy = r],
           ![r] = [status |-> "posted", header |-> r, lines |-> Reversed(requests[r].lines),
                   voids |-> e, voidedBy |-> None]]
  BY DEF Void, MayVoid, ReversalRow, Exists, TypeOK, Request
<1>2. /\ entries'[e] = [entries[e] EXCEPT !.status = "voided", !.voidedBy = r]
      /\ entries'[r] = [status |-> "posted", header |-> r, lines |-> Reversed(requests[r].lines),
                        voids |-> e, voidedBy |-> None]
  BY <1>1 DEF TypeOK
<1>3. Reversed(requests[r].lines) \in Lines
  BY <1>1, ReversedType
<1>4. entries'[r] \in Entry
  BY <1>2, <1>3 DEF Entry, Statuses
<1>5. entries[e] \in Entry
  BY <1>1
<1>6. entries'[e] = [entries[e] EXCEPT !.status = "voided", !.voidedBy = r]
  BY <1>2
<1>7. entries'[e] \in Entry
  BY <1>5, <1>6 DEF Entry, Statuses
<1>8. /\ entries'[e].status = "voided"
      /\ entries'[e].lines = entries[e].lines
      /\ entries'[e].header = entries[e].header
      /\ entries'[e].voids = entries[e].voids
      /\ entries'[e].voidedBy = r
  BY <1>5, <1>6, <1>7 DEF Entry
<1>9. QED
  BY <1>1, <1>2, <1>4, <1>7, <1>8 DEF TypeOK

LEMMA DeleteRows ==
  ASSUME TypeOK, NEW r \in Requests, Delete(r), requests[r].entry \in Requests
  PROVE  LET e == requests[r].entry IN
         /\ entries' \in [Requests -> Entry \cup {None}]
         /\ entries'[e] = None
         /\ \A x \in Requests : x # e /\ entries[x] = None => entries'[x] = None
         /\ \A x \in Requests : x # e /\ entries[x] # None =>
              /\ entries'[x] \in Entry
              /\ entries'[x].status = entries[x].status
              /\ entries'[x].lines = entries[x].lines
              /\ entries'[x].header = entries[x].header
              /\ entries'[x].voids = IF entries[x].voids = e THEN None ELSE entries[x].voids
              /\ entries'[x].voidedBy =
                   IF entries[x].voidedBy = e THEN None ELSE entries[x].voidedBy
<1> USE NoneAssumption
<1> DEFINE e == requests[r].entry
<1>1. entries' = Removed(e)
  BY DEF Delete, MayDelete
<1>2. entries'[e] = None /\ \A x \in Requests : x # e /\ entries[x] = None => entries'[x] = None
  BY <1>1 DEF Removed, Exists
<1>3. ASSUME NEW x \in Requests, x # e, entries[x] # None
      PROVE  /\ entries'[x] \in Entry
             /\ entries'[x].status = entries[x].status
             /\ entries'[x].lines = entries[x].lines
             /\ entries'[x].header = entries[x].header
             /\ entries'[x].voids = IF entries[x].voids = e THEN None ELSE entries[x].voids
             /\ entries'[x].voidedBy =
                  IF entries[x].voidedBy = e THEN None ELSE entries[x].voidedBy
  <2>1. entries'[x] = [entries[x] EXCEPT
           !.voids    = IF entries[x].voids = e THEN None ELSE entries[x].voids,
           !.voidedBy = IF entries[x].voidedBy = e THEN None ELSE entries[x].voidedBy]
    BY <1>1, <1>3 DEF Removed, Exists, TypeOK, Entry
  <2>2. entries[x] \in Entry
    BY <1>3 DEF TypeOK
  <2>3. QED
    BY <2>1, <2>2 DEF Entry
<1>4. entries' \in [Requests -> Entry \cup {None}]
  <2>1. \A x \in Requests : entries'[x] \in Entry \cup {None}
    BY <1>2, <1>3
  <2>2. QED
    BY <2>1, <1>1 DEF Removed
<1>5. QED
  BY <1>2, <1>3, <1>4

-----------------------------------------------------------------------------
(* Type correctness. *)

LEMMA InitType == Init => TypeOK
BY NoLinesType DEF Init, TypeOK, LedgerInit, Fresh, Request, Phases, InFlight

(* What the reads leave behind has the type of a request. *)
LEMMA ReadsType ==
  ASSUME TypeOK, NEW r \in Requests
  PROVE  /\ \A e \in Requests : ReadEntry(r, e) => TypeOK'
         /\ ReadLines(r) => TypeOK'
         /\ Rollback(r) => TypeOK'
<1> USE NoneAssumption
<1>1. ASSUME NEW e \in Requests, ReadEntry(r, e)
      PROVE  TypeOK'
  <2>1. entries[e] \in Entry
    BY <1>1 DEF ReadEntry, TypeOK, Exists
  <2>2. [phase |-> "reading", entry |-> e, status |-> entries[e].status, lines |-> NoLines]
          \in Request
    BY <2>1, NoLinesType DEF Request, Phases, Entry
  <2>3. QED
    BY <1>1, <2>2 DEF ReadEntry, TypeOK, InFlight
<1>2. ASSUME ReadLines(r)
      PROVE  TypeOK'
  <2> DEFINE ls == IF Exists(requests[r].entry) THEN entries[requests[r].entry].lines ELSE NoLines
  <2>1. requests[r].entry \in Requests
    BY <1>2 DEF ReadLines, TypeOK, InFlight
  <2>2. ls \in Lines
    BY <2>1, NoLinesType DEF TypeOK, Entry, Exists
  <2>3. /\ [requests[r] EXCEPT !.phase = "ready", !.lines = ls] \in Request
        /\ [requests[r] EXCEPT !.phase = "ready", !.lines = ls].entry = requests[r].entry
    BY <2>2 DEF TypeOK, Request, Phases
  <2>4. requests' = [requests EXCEPT ![r] = [requests[r] EXCEPT !.phase = "ready", !.lines = ls]]
    BY <1>2 DEF ReadLines, TypeOK, Request
  <2>5. QED
    BY <1>2, <2>1, <2>3, <2>4 DEF ReadLines, TypeOK, InFlight
<1>3. ASSUME Rollback(r)
      PROVE  TypeOK'
  <2>1. /\ [Fresh EXCEPT !.phase = "rolledback"] \in Request
        /\ [Fresh EXCEPT !.phase = "rolledback"].phase = "rolledback"
    BY FreshType DEF Phases, Request
  <2>2. QED
    BY <1>3, <2>1 DEF Rollback, Finish, TypeOK, InFlight
<1>4. QED
  BY <1>1, <1>2, <1>3

(* The request that commits is out of flight; the others are as they were. *)
LEMMA CommitRequests ==
  ASSUME TypeOK, NEW r \in Requests, Finish(r, "committed")
  PROVE  /\ requests' \in [Requests -> Request]
         /\ requests'[r].phase = "committed"
         /\ \A q \in Requests : q # r => requests'[q] = requests[q]
<1>1. /\ [Fresh EXCEPT !.phase = "committed"] \in Request
      /\ [Fresh EXCEPT !.phase = "committed"].phase = "committed"
  BY FreshType DEF Phases, Request
<1>2. QED
  BY <1>1 DEF Finish, TypeOK

(* Each commit records one audit row. *)
LEMMA RecordType ==
  ASSUME TypeOK, NEW r \in Requests, NEW e \in Requests,
         NEW act \in {"create", "update", "delete", "post", "void"}, Record(r, act, e)
  PROVE  audit' \subseteq AuditRow
BY DEF Record, AuditRow, TypeOK

LEMMA CommitType ==
  ASSUME TypeOK, NEW r \in Requests, NEW e \in Requests,
         NEW act \in {"create", "update", "delete", "post", "void"},
         entries' \in [Requests -> Entry \cup {None}],
         Record(r, act, e), Finish(r, "committed")
  PROVE  TypeOK'
<1>1. audit' \subseteq AuditRow
  BY RecordType
<1>2. QED
  BY <1>1, CommitRequests DEF TypeOK, InFlight

LEMMA NextType ==
  ASSUME TypeOK, NoIdReuse, [Next]_vars
  PROVE  TypeOK'
<1>1. CASE UNCHANGED vars
  BY <1>1 DEF vars, TypeOK, InFlight
<1>2. ASSUME NEW r \in Requests, Create(r)
      PROVE  TypeOK'
  BY <1>2, CreateRow, CommitType DEF Create
<1>3. ASSUME NEW r \in Requests, Update(r)
      PROVE  TypeOK'
  BY <1>3, UpdateRow, CommitType DEF Update, MayUpdate, TypeOK, InFlight
<1>4. ASSUME NEW r \in Requests, Delete(r)
      PROVE  TypeOK'
  BY <1>4, DeleteRows, CommitType DEF Delete, MayDelete, TypeOK, InFlight
<1>5. ASSUME NEW r \in Requests, Post(r)
      PROVE  TypeOK'
  BY <1>5, PostRow, CommitType DEF Post, MayPost, TypeOK, InFlight
<1>6. ASSUME NEW r \in Requests, Void(r)
      PROVE  TypeOK'
  <2>1. requests[r].entry \in Requests /\ requests[r].entry # r
    BY <1>6 DEF Void, MayVoid, ReversalRow, TypeOK, InFlight, NoIdReuse
  <2>2. QED
    BY <1>6, <2>1, VoidRows, CommitType DEF Void, MayVoid, ReversalRow
<1>7. QED
  BY <1>1, <1>2, <1>3, <1>4, <1>5, <1>6, ReadsType DEF Next

-----------------------------------------------------------------------------
(* Requests that do not overlap implement Ledger. *)

LEMMA InitSerial == Init => SerialInv
<1> SUFFICES ASSUME Init PROVE SerialInv
  OBVIOUS
<1>1. TypeOK /\ LedgerInv
  BY InitType, LedgerInvInit DEF Init
<1>2. QED
  BY <1>1 DEF SerialInv, Init, LedgerInit, NoIdReuse, OneAtATime, ReadsCurrent, InFlight,
    Fresh, Exists

(* A request about to commit has read its entry as it is, and its own      *)
(* identity names no row yet.                                              *)
LEMMA ReadyFacts ==
  ASSUME SerialInv, NEW r \in Requests, requests[r].phase = "ready"
  PROVE  LET e == requests[r].entry IN
         /\ e \in Requests /\ e # r
         /\ entries[e] \in Entry /\ entries[e] # None /\ entries[r] = None
         /\ requests[r].status = entries[e].status
         /\ requests[r].lines = entries[e].lines
         /\ InFlight(r)
BY NoneAssumption DEF SerialInv, NoIdReuse, ReadsCurrent, InFlight, Exists, TypeOK

LEMMA CreateSerial ==
  ASSUME SerialInv, NEW r \in Requests, Create(r)
  PROVE  WriteDraft(r)
<1>1. /\ IsDraft(entries'[r])
      /\ \A x \in Requests : x # r => entries'[x] = entries[x]
      /\ entries' \in [Requests -> Entry \cup {None}]
  BY CreateRow DEF SerialInv
<1>2. entries[r] = None
  BY DEF SerialInv, NoIdReuse, Create, Exists
<1>3. entries' = [entries EXCEPT ![r] = entries'[r]]
  BY <1>1 DEF SerialInv, TypeOK
<1>4. QED
  BY <1>1, <1>2, <1>3 DEF WriteDraft, Booked, Exists

LEMMA UpdateSerial ==
  ASSUME SerialInv, NEW r \in Requests, Update(r)
  PROVE  WriteDraft(requests[r].entry)
<1>1. requests[r].phase = "ready" /\ requests[r].status = "draft"
  BY DEF Update, MayUpdate
<1> DEFINE e == requests[r].entry
<1>2. e \in Requests /\ entries[e] # None /\ entries[e].status = "draft"
  BY <1>1, ReadyFacts
<1>3. /\ entries'[e] \in Entry
      /\ entries'[e].status = entries[e].status
      /\ entries'[e].voids = entries[e].voids
      /\ entries'[e].voidedBy = entries[e].voidedBy
      /\ entries' = [entries EXCEPT ![e] = entries'[e]]
  BY <1>2, UpdateRow DEF SerialInv
<1>4. entries[e].voids = None /\ entries[e].voidedBy = None
  BY <1>2 DEF SerialInv, LedgerInv, LinksMatchStatus, Exists
<1>5. QED
  BY <1>2, <1>3, <1>4 DEF WriteDraft, IsDraft, Booked, Exists

(* A draft is named by no other entry: only its own row goes. *)
LEMMA DeleteSerial ==
  ASSUME SerialInv, NEW r \in Requests, Delete(r)
  PROVE  WriteDraft(requests[r].entry)
<1> USE NoneAssumption
<1>1. requests[r].phase = "ready" /\ requests[r].status = "draft"
  BY DEF Delete, MayDelete
<1> DEFINE e == requests[r].entry
<1>2. e \in Requests /\ entries[e] # None /\ entries[e].status = "draft"
  BY <1>1, ReadyFacts
<1>3. ASSUME NEW x \in Requests, entries[x] # None
      PROVE  /\ entries[x] \in Entry
             /\ entries[x].voids # e
             /\ entries[x].voidedBy # e
  <2>1. entries[x] \in Entry
    BY <1>3 DEF SerialInv, TypeOK
  <2>2. entries[x].voids # e
    BY <1>2, <1>3 DEF SerialInv, LedgerInv, OneReversal, Exists
  <2>3. entries[x].voidedBy # e
    BY <1>2, <1>3 DEF SerialInv, LedgerInv, ReversalMirrors, LinksMatchStatus, Exists, Booked
  <2>4. QED
    BY <2>1, <2>2, <2>3
<1>4. ASSUME NEW x \in Requests, x # e
      PROVE  Removed(e)[x] = entries[x]
  <2>1. CASE entries[x] = None
    BY <1>4, <2>1 DEF Removed, Exists
  <2>2. CASE entries[x] # None
    BY <1>3, <1>4, <2>2 DEF Removed, Exists, Entry
  <2>3. QED
    BY <2>1, <2>2
<1>5. Removed(e) = [entries EXCEPT ![e] = None]
  <2> HIDE DEF e
  <2>1. DOMAIN Removed(e) = Requests /\ Removed(e) = [x \in Requests |-> Removed(e)[x]]
    BY DEF Removed
  <2>2. Removed(e)[e] = None
    BY <1>2 DEF Removed
  <2>3. \A x \in Requests : Removed(e)[x] = IF x = e THEN None ELSE entries[x]
    BY <1>4, <2>2
  <2>4. entries \in [Requests -> Entry \cup {None}]
    BY DEF SerialInv, TypeOK
  <2>5. [entries EXCEPT ![e] = None] = [x \in Requests |-> IF x = e THEN None ELSE entries[x]]
    BY <2>4
  <2>6. QED
    BY <2>1, <2>3, <2>5
<1>6. entries' = [entries EXCEPT ![e] = None]
  BY <1>5 DEF Delete, MayDelete
<1>7. QED
  BY <1>2, <1>6 DEF WriteDraft, Booked, Exists, SerialInv, TypeOK

LEMMA PostSerial ==
  ASSUME SerialInv, NEW r \in Requests, Post(r)
  PROVE  Book(requests[r].entry)
BY ReadyFacts DEF Post, MayPost, Book, Exists

LEMMA VoidSerial ==
  ASSUME SerialInv, NEW r \in Requests, Void(r)
  PROVE  Reverse(requests[r].entry, r)
BY ReadyFacts DEF Void, MayVoid, ReversalRow, Reverse, Exists

(* Every step of the endpoints is a step of the books or none at all. *)
LEMMA SerialStepRefines ==
  ASSUME SerialInv, [Next]_vars
  PROVE  [LedgerNext]_entries
<1>1. ASSUME NEW r \in Requests, requests[r].phase = "ready"
      PROVE  requests[r].entry \in Requests
  BY <1>1, ReadyFacts
<1>2. ASSUME NEW r \in Requests, Create(r) \/ Update(r) \/ Delete(r) \/ Post(r) \/ Void(r)
      PROVE  LedgerNext
  <2>1. CASE Create(r)
    BY <2>1, CreateSerial DEF LedgerNext
  <2>2. CASE Update(r)
    BY <2>2, <1>1, UpdateSerial DEF LedgerNext, Update, MayUpdate
  <2>3. CASE Delete(r)
    BY <2>3, <1>1, DeleteSerial DEF LedgerNext, Delete, MayDelete
  <2>4. CASE Post(r)
    BY <2>4, <1>1, PostSerial DEF LedgerNext, Post, MayPost
  <2>5. CASE Void(r)
    BY <2>5, <1>1, VoidSerial DEF LedgerNext, Void, MayVoid, ReversalRow
  <2>6. QED
    BY <1>2, <2>1, <2>2, <2>3, <2>4, <2>5
<1>3. ASSUME NEW r \in Requests,
             (\E e \in Requests : ReadEntry(r, e)) \/ ReadLines(r) \/ Rollback(r)
      PROVE  UNCHANGED entries
  BY <1>3 DEF ReadEntry, ReadLines, Rollback
<1>4. CASE Next
  BY <1>2, <1>3, <1>4 DEF Next
<1>5. CASE UNCHANGED vars
  BY <1>5 DEF vars
<1>6. QED
  BY <1>4, <1>5

(* A commit disturbs no other request's reading: it writes its own row and *)
(* the row it read, and no other request in flight reads either.           *)
LEMMA CommitKeepsReads ==
  ASSUME SerialInv, NEW r \in Requests, NEW e \in Requests,
         e = r \/ (InFlight(r) /\ e = requests[r].entry),
         entries[r] = None,
         \A x \in Requests : x # e /\ x # r => entries'[x] = entries[x],
         Finish(r, "committed")
  PROVE  NoIdReuse' /\ OneAtATime' /\ ReadsCurrent'
<1>1. /\ requests'[r].phase = "committed"
      /\ \A q \in Requests : q # r => requests'[q] = requests[q]
  BY CommitRequests DEF SerialInv
<1>2. e # r => entries[e] # None
  BY DEF SerialInv, ReadsCurrent, Exists
<1>3. NoIdReuse'
  BY <1>1, <1>2 DEF SerialInv, NoIdReuse, Exists
<1>4. OneAtATime'
  BY <1>1 DEF SerialInv, OneAtATime, InFlight
<1>5. ASSUME NEW q \in Requests, InFlight(q)'
      PROVE  /\ requests'[q] = requests[q]
             /\ InFlight(q)
             /\ requests[q].entry \in Requests
             /\ entries'[requests[q].entry] = entries[requests[q].entry]
  <2>1. q # r /\ requests'[q] = requests[q] /\ InFlight(q)
    BY <1>1, <1>5 DEF InFlight
  <2>2. requests[q].entry \in Requests /\ entries[requests[q].entry] # None
    BY <2>1 DEF SerialInv, ReadsCurrent, Exists
  <2>3. requests[q].entry # r /\ requests[q].entry # e
    BY <2>1, <2>2 DEF SerialInv, OneAtATime
  <2>4. QED
    BY <2>1, <2>2, <2>3
<1>6. ReadsCurrent'
  BY <1>5 DEF SerialInv, ReadsCurrent, Exists
<1>7. QED
  BY <1>3, <1>4, <1>6

LEMMA CommitSerial ==
  ASSUME SerialInv, NEW r \in Requests,
         Create(r) \/ Update(r) \/ Delete(r) \/ Post(r) \/ Void(r)
  PROVE  NoIdReuse' /\ OneAtATime' /\ ReadsCurrent'
<1> DEFINE e == requests[r].entry
<1>1. CASE Create(r)
  <2>1. entries[r] = None
    BY <1>1 DEF SerialInv, NoIdReuse, Create, Exists
  <2>2. \A x \in Requests : x # r => entries'[x] = entries[x]
    BY <1>1, CreateRow DEF SerialInv
  <2>3. Finish(r, "committed")
    BY <1>1 DEF Create
  <2>4. QED
    BY <2>1, <2>2, <2>3, CommitKeepsReads
<1>2. ASSUME Update(r) \/ Delete(r) \/ Post(r) \/ Void(r)
      PROVE  NoIdReuse' /\ OneAtATime' /\ ReadsCurrent'
  <2>1. requests[r].phase = "ready" /\ Finish(r, "committed")
    BY <1>2 DEF Update, MayUpdate, Delete, MayDelete, Post, MayPost, Void, MayVoid, ReversalRow
  <2>2. e \in Requests /\ e # r /\ entries[r] = None /\ InFlight(r)
    BY <2>1, ReadyFacts
  <2>3. ASSUME WriteDraft(e) \/ Book(e) \/ Reverse(e, r), NEW x \in Requests, x # e, x # r
        PROVE  entries'[x] = entries[x]
    <3> HIDE DEF e
    <3>1. entries \in [Requests -> Entry \cup {None}]
      BY DEF SerialInv, TypeOK
    <3>2. CASE WriteDraft(e)
      <4>1. entries' = [entries EXCEPT ![e] = entries'[e]]
        BY <3>2 DEF WriteDraft
      <4>2. QED
        BY <2>3, <3>1, <4>1
    <3>3. CASE Book(e)
      BY <2>3, <3>1, <3>3 DEF Book
    <3>4. CASE Reverse(e, r)
      BY <2>3, <3>1, <3>4 DEF Reverse
    <3>5. QED
      BY <2>3, <3>2, <3>3, <3>4
  <2>4. WriteDraft(e) \/ Book(e) \/ Reverse(e, r)
    BY <1>2, UpdateSerial, DeleteSerial, PostSerial, VoidSerial
  <2>5. \A x \in Requests : x # e /\ x # r => entries'[x] = entries[x]
    BY <2>3, <2>4
  <2> HIDE DEF e
  <2>6. e = requests[r].entry
    BY DEF e
  <2>7. QED
    BY <2>1, <2>2, <2>5, <2>6, CommitKeepsReads
<1>3. QED
  BY <1>1, <1>2

(* Reading adds one request to those in flight, on an entry none of them   *)
(* names, with what the entry is now.                                      *)
LEMMA ReadsSerial ==
  ASSUME SerialInv, Serial, NEW r \in Requests,
         (\E e \in Requests : ReadEntry(r, e)) \/ ReadLines(r) \/ Rollback(r)
  PROVE  NoIdReuse' /\ OneAtATime' /\ ReadsCurrent'
<1>0. requests \in [Requests -> Request] /\ UNCHANGED entries
  BY DEF SerialInv, TypeOK, ReadEntry, ReadLines, Rollback
<1>1. ASSUME NEW e \in Requests, ReadEntry(r, e)
      PROVE  NoIdReuse' /\ OneAtATime' /\ ReadsCurrent'
  <2>1. /\ requests'[r].phase = "reading"
        /\ requests'[r].entry = e
        /\ requests'[r].status = entries[e].status
        /\ \A q \in Requests : q # r => requests'[q] = requests[q]
        /\ Exists(e)
        /\ requests[r].phase = "new"
        /\ \A q \in Requests : InFlight(q) => requests[q].entry # e
    BY <1>0, <1>1 DEF ReadEntry
  <2>2. NoIdReuse'
    BY <1>0, <2>1 DEF SerialInv, NoIdReuse, Exists
  <2>3. OneAtATime'
    BY <2>1 DEF SerialInv, OneAtATime, InFlight
  <2>4. ReadsCurrent'
    BY <1>0, <2>1 DEF SerialInv, ReadsCurrent, InFlight, Exists
  <2>5. QED
    BY <2>2, <2>3, <2>4
<1>2. ASSUME ReadLines(r)
      PROVE  NoIdReuse' /\ OneAtATime' /\ ReadsCurrent'
  <2> DEFINE e == requests[r].entry
  <2>1. e \in Requests /\ Exists(e) /\ requests[r].status = entries[e].status /\ InFlight(r)
    BY <1>2 DEF ReadLines, SerialInv, ReadsCurrent, InFlight
  <2>2. /\ requests'[r].phase = "ready"
        /\ requests'[r].entry = e
        /\ requests'[r].status = requests[r].status
        /\ requests'[r].lines = entries[e].lines
        /\ \A q \in Requests : q # r => requests'[q] = requests[q]
    BY <1>0, <1>2, <2>1 DEF ReadLines, Request
  <2>3. NoIdReuse'
    BY <1>0, <1>2, <2>2 DEF SerialInv, NoIdReuse, Exists, ReadLines
  <2>4. OneAtATime'
    BY <2>1, <2>2 DEF SerialInv, OneAtATime, InFlight
  <2>5. ReadsCurrent'
    BY <1>0, <2>1, <2>2 DEF SerialInv, ReadsCurrent, InFlight, Exists
  <2>6. QED
    BY <2>3, <2>4, <2>5
<1>3. ASSUME Rollback(r)
      PROVE  NoIdReuse' /\ OneAtATime' /\ ReadsCurrent'
  <2>1. /\ requests'[r].phase = "rolledback"
        /\ \A q \in Requests : q # r => requests'[q] = requests[q]
        /\ requests[r].phase # "committed"
    BY <1>0, <1>3 DEF Rollback, Finish, InFlight, Fresh
  <2>2. QED
    BY <1>0, <2>1 DEF SerialInv, NoIdReuse, OneAtATime, ReadsCurrent, InFlight, Exists
<1>4. QED
  BY <1>1, <1>2, <1>3

LEMMA SerialInvStep ==
  ASSUME SerialInv, Serial, [Next]_vars
  PROVE  SerialInv'
<1>1. TypeOK'
  BY NextType DEF SerialInv
<1>2. LedgerInv'
  BY SerialStepRefines, LedgerInvStep DEF SerialInv
<1>3. NoIdReuse' /\ OneAtATime' /\ ReadsCurrent'
  <2>1. CASE Next
    BY <2>1, CommitSerial, ReadsSerial DEF Next
  <2>2. CASE UNCHANGED vars
    BY <2>2 DEF vars, SerialInv, NoIdReuse, OneAtATime, ReadsCurrent, InFlight, Exists
  <2>3. QED
    BY <2>1, <2>2
<1>4. QED
  BY <1>1, <1>2, <1>3 DEF SerialInv

(* However many requests and accounts there are and whatever lines are     *)
(* sent: while no two requests in flight name the same entry, the tables   *)
(* satisfy everything the books promise (journal.py's docstring).          *)
THEOREM JournalSafe ==
  ASSUME Serial
  PROVE  Spec => [](TypeOK /\ BooksBalance /\ ReversalMirrors /\ OneReversal)
<1>1. SerialInv /\ [Next]_vars => SerialInv'
  BY SerialInvStep
<1>2. SerialInv => TypeOK /\ BooksBalance /\ ReversalMirrors /\ OneReversal
  BY DEF SerialInv, LedgerInv
<1>3. QED
  BY InitSerial, <1>1, <1>2, PTL DEF Spec

(* Under the same condition the journal endpoints implement Ledger: every  *)
(* commit is one step of the books.                                        *)
THEOREM JournalImplementsLedger ==
  ASSUME Serial
  PROVE  Spec => LedgerSpec
<1>1. SerialInv /\ [Next]_vars => SerialInv'
  BY SerialInvStep
<1>2. SerialInv /\ [Next]_vars => [LedgerNext]_entries
  BY SerialStepRefines
<1>3. Init => LedgerInit
  BY DEF Init
<1>4. QED
  BY InitSerial, <1>1, <1>2, <1>3, PTL DEF Spec, LedgerSpec

(* And so what is posted stays as it was posted, apart from being voided   *)
(* ("Posted entries are immutable", journal.py:4).                         *)
THEOREM JournalFreezes ==
  ASSUME Serial
  PROVE  Spec => FrozenOnceBooked
BY JournalImplementsLedger, LedgerFrozen

(* And voiding a posted entry takes exactly what it had moved out of every *)
(* account balance, however many lines and entries there are (void_entry). *)
THEOREM JournalVoidingUndoes ==
  ASSUME Serial
  PROVE  Spec => VoidingUndoes
BY JournalImplementsLedger, LedgerVoidingUndoes
-----------------------------------------------------------------------------
(* Requests that overlap.                                                  *)

(* What one more audit row adds to what the log says. *)
LEMMA RecordSays ==
  ASSUME NEW r \in Requests, NEW e \in Requests, NEW act, Record(r, act, e)
  PROVE  /\ \A a, x : Did(a, x)' <=> Did(a, x) \/ (a = act /\ x = e)
         /\ \A x : IsReversal(x)' <=> IsReversal(x) \/ (act = "void" /\ x = r)
         /\ Unedited' <=> Unedited /\ act # "update"
<1> DEFINE row == [id |-> r, action |-> act, object |-> e]
<1>1. \A x : x \in audit' <=> x \in audit \/ x = row
  BY DEF Record
<1>2. row.id = r /\ row.action = act /\ row.object = e
  OBVIOUS
<1> HIDE DEF row
<1>3. \A a, x : Did(a, x)' <=> Did(a, x) \/ (a = act /\ x = e)
  BY <1>1, <1>2 DEF Did
<1>4. \A x : IsReversal(x)' <=> IsReversal(x) \/ (act = "void" /\ x = r)
  BY <1>1, <1>2 DEF IsReversal
<1>5. Unedited' <=> Unedited /\ act # "update"
  BY <1>1, <1>2 DEF Unedited
<1>6. QED
  BY <1>3, <1>4, <1>5

LEMMA InitOverlap == Init => OverlapInv
<1> SUFFICES ASSUME Init PROVE OverlapInv
  OBVIOUS
<1>1. TypeOK
  BY InitType
<1>2. \A e \in Requests : ~Exists(e)
  BY DEF Init, LedgerInit, Exists
<1>3. audit = {} /\ \A r \in Requests : ~InFlight(r)
  BY DEF Init, Fresh, InFlight
<1>4. QED
  BY <1>1, <1>2, <1>3 DEF OverlapInv, NoIdReuse, AuditOfCommitted, ReadsLag, ReversalsBooked,
    VoidedByReversal, AuditExplains, UneditedBooksBalance, BooksBalance, Booked, IsReversal, Did

(* A row that is there was committed, and if it reverses it is booked. *)
LEMMA ThereIsCommitted ==
  ASSUME OverlapInv, NEW e \in Requests, Exists(e)
  PROVE  requests[e].phase = "committed"
BY DEF OverlapInv, NoIdReuse

(* Reading changes neither the books nor the log. *)
LEMMA ReadsOverlap ==
  ASSUME OverlapInv, NEW r \in Requests,
         (\E e \in Requests : ReadEntry(r, e)) \/ ReadLines(r) \/ Rollback(r)
  PROVE  OverlapInv'
<1>0. requests \in [Requests -> Request] /\ UNCHANGED <<entries, audit>>
  BY DEF OverlapInv, TypeOK, ReadEntry, ReadLines, Rollback
<1>1. TypeOK'
  BY ReadsType DEF OverlapInv
<1>2. ReversalsBooked' /\ VoidedByReversal' /\ AuditExplains' /\ UneditedBooksBalance'
  BY <1>0 DEF OverlapInv, ReversalsBooked, VoidedByReversal, AuditExplains, UneditedBooksBalance,
    BooksBalance, Booked, Exists, IsReversal, Did, Unedited
<1>3. /\ requests[r].phase # "committed" /\ requests'[r].phase # "committed"
      /\ \A q \in Requests : q # r => requests'[q] = requests[q]
  BY <1>0 DEF ReadEntry, ReadLines, Rollback, Finish, InFlight, Fresh, Request
<1>4. NoIdReuse' /\ AuditOfCommitted'
  <2>1. \A row \in audit : row.id \in Requests
    BY DEF OverlapInv, TypeOK, AuditRow
  <2>2. QED
    BY <1>0, <1>3, <2>1 DEF OverlapInv, NoIdReuse, AuditOfCommitted, Exists
<1>5. \A e \in Requests : requests[e].phase = "committed" => requests'[e].phase = "committed"
  BY <1>3
<1>6. ASSUME NEW q \in Requests, q # r, InFlight(q)'
      PROVE  /\ InFlight(q) /\ requests'[q] = requests[q]
             /\ requests[q].entry \in Requests
             /\ requests[requests[q].entry].phase = "committed"
  BY <1>3, <1>6 DEF OverlapInv, ReadsLag, InFlight
<1>7. ASSUME NEW e \in Requests, ReadEntry(r, e)
      PROVE  ReadsLag'
  <2>1. /\ Exists(e)
        /\ requests'[r] = [phase |-> "reading", entry |-> e, status |-> entries[e].status,
                           lines |-> NoLines]
    BY <1>0, <1>7 DEF ReadEntry
  <2>2. requests'[e].phase = "committed"
    BY <2>1, <1>5, ThereIsCommitted
  <2>3. entries[e].status = "draft" => ~IsReversal(e)
    BY DEF OverlapInv, ReversalsBooked, Booked
  <2>4. QED
    BY <1>0, <1>5, <1>6, <2>1, <2>2, <2>3
      DEF OverlapInv, ReadsLag, Exists, Booked, IsReversal, Unedited
<1>8. ASSUME ReadLines(r)
      PROVE  ReadsLag'
  <2> DEFINE e == requests[r].entry
  <2>1. InFlight(r) /\ e \in Requests /\ requests[e].phase = "committed"
    BY <1>8 DEF ReadLines, InFlight, OverlapInv, ReadsLag
  <2>2. /\ requests'[r].entry = e /\ requests'[r].status = requests[r].status
        /\ Exists(e) => requests'[r].lines = entries[e].lines
    BY <1>0, <1>8 DEF ReadLines, Request
  <2>3. QED
    BY <1>0, <1>5, <1>6, <2>1, <2>2
      DEF OverlapInv, ReadsLag, Exists, Booked, IsReversal, Unedited
<1>9. ASSUME Rollback(r)
      PROVE  ReadsLag'
  <2>1. ~InFlight(r)'
    BY <1>0, <1>9 DEF Rollback, Finish, InFlight, Fresh
  <2>2. QED
    BY <1>0, <1>5, <1>6, <2>1
      DEF OverlapInv, ReadsLag, Exists, Booked, IsReversal, Unedited
<1>10. ReadsLag'
  BY <1>7, <1>8, <1>9
<1>11. QED
  BY <1>1, <1>2, <1>4, <1>10 DEF OverlapInv

(* What a commit leaves of the other rows: none appears, a booked one      *)
(* stays booked if it stays, and only an edit changes lines.               *)
LEMMA CommitLag ==
  ASSUME OverlapInv, NEW r \in Requests, NEW e \in Requests, NEW act,
         Record(r, act, e), Finish(r, "committed"), requests[r].phase # "committed",
         \A x \in Requests : x # r /\ entries'[x] # None =>
           /\ entries[x] # None
           /\ entries[x].status # "draft" => entries'[x].status # "draft"
           /\ act # "update" => entries'[x].lines = entries[x].lines
  PROVE  NoIdReuse' /\ AuditOfCommitted' /\ ReadsLag'
<1>1. /\ requests'[r].phase = "committed"
      /\ \A q \in Requests : q # r => requests'[q] = requests[q]
  BY CommitRequests DEF OverlapInv
<1>2. NoIdReuse'
  BY <1>1 DEF OverlapInv, NoIdReuse, Exists
<1>3. AuditOfCommitted'
  <2>1. \A row \in audit : row.id \in Requests /\ requests[row.id].phase = "committed"
    BY DEF OverlapInv, TypeOK, AuditRow, AuditOfCommitted
  <2>2. QED
    BY <1>1, <2>1 DEF AuditOfCommitted, Record
<1>4. ASSUME NEW q \in Requests, InFlight(q)'
      PROVE  \E x \in Requests :
               /\ x = requests'[q].entry
               /\ requests'[x].phase = "committed"
               /\ requests'[q].status = "draft" => ~IsReversal(x)'
               /\ requests'[q].status # "draft" /\ Exists(x)' => Booked(x)'
               /\ Unedited' /\ requests'[q].phase = "ready" /\ Exists(x)' =>
                    requests'[q].lines = entries'[x].lines
  <2>1. q # r /\ requests'[q] = requests[q] /\ InFlight(q)
    BY <1>1, <1>4 DEF InFlight
  <2>2. PICK x \in Requests : x = requests[q].entry
    BY <2>1 DEF OverlapInv, ReadsLag
  <2>3. requests[x].phase = "committed" /\ x # r
    BY <2>1, <2>2 DEF OverlapInv, ReadsLag
  <2>4. requests'[x].phase = "committed"
    BY <1>1, <2>3
  <2>5. requests[q].status = "draft" => ~IsReversal(x)'
    BY <2>1, <2>2, <2>3, RecordSays DEF OverlapInv, ReadsLag
  <2>6. requests[q].status # "draft" /\ Exists(x)' => Booked(x)'
    BY <2>1, <2>2, <2>3 DEF OverlapInv, ReadsLag, Exists, Booked
  <2>7. Unedited' /\ requests[q].phase = "ready" /\ Exists(x)' => requests[q].lines = entries'[x].lines
    BY <2>1, <2>2, <2>3, RecordSays DEF OverlapInv, ReadsLag, Exists
  <2>8. QED
    BY <2>1, <2>2, <2>4, <2>5, <2>6, <2>7
<1>5. ReadsLag'
  BY <1>4 DEF ReadsLag, IsReversal, Exists, Booked
<1>6. QED
  BY <1>2, <1>3, <1>5

(* A request about to commit: what ReadsLag says of what it read. *)
LEMMA ReadyLag ==
  ASSUME OverlapInv, NEW r \in Requests, requests[r].phase = "ready"
  PROVE  LET e == requests[r].entry IN
         /\ e \in Requests /\ e # r
         /\ entries[r] = None
         /\ requests[r].status = "draft" => ~IsReversal(e)
         /\ requests[r].status # "draft" /\ Exists(e) => Booked(e)
         /\ Unedited /\ Exists(e) => requests[r].lines = entries[e].lines
BY DEF OverlapInv, ReadsLag, InFlight, NoIdReuse, Exists

(* The part of the invariant that speaks of the books and the log alone. *)
BooksAndLog == ReversalsBooked /\ VoidedByReversal /\ AuditExplains /\ UneditedBooksBalance

LEMMA CreateOverlap ==
  ASSUME OverlapInv, NEW r \in Requests, Create(r)
  PROVE  NoIdReuse' /\ AuditOfCommitted' /\ ReadsLag' /\ BooksAndLog'
<1> USE NoneAssumption
<1>1. /\ IsDraft(entries'[r]) /\ entries'[r] # None
      /\ \A x \in Requests : x # r => entries'[x] = entries[x]
      /\ entries[r] = None
      /\ Record(r, "create", r) /\ Finish(r, "committed") /\ requests[r].phase # "committed"
  BY CreateRow DEF OverlapInv, Create, NoIdReuse, Exists
<1>2. NoIdReuse' /\ AuditOfCommitted' /\ ReadsLag'
  BY <1>1, CommitLag
<1>3. /\ \A a, x : Did(a, x)' <=> Did(a, x) \/ (a = "create" /\ x = r)
      /\ \A x : IsReversal(x)' <=> IsReversal(x)
      /\ Unedited' <=> Unedited
  BY <1>1, RecordSays
<1>4. \A x \in Requests : /\ Booked(x)' <=> Booked(x)
                          /\ Exists(x)' <=> Exists(x) \/ x = r
                          /\ Exists(x) => entries'[x] = entries[x]
  BY <1>1 DEF Booked, Exists, IsDraft
<1>5. ReversalsBooked'
  BY <1>3, <1>4 DEF OverlapInv, ReversalsBooked
<1>6. VoidedByReversal'
  <2>1. SUFFICES ASSUME NEW x \in Requests, Exists(x)', entries'[x].status = "voided"
                 PROVE  \E q \in Requests : q = entries'[x].voidedBy /\ IsReversal(q)'
                                            /\ entries'[q].voids = x
    BY DEF VoidedByReversal, IsReversal
  <2>2. Exists(x) /\ entries'[x] = entries[x]
    BY <1>1, <1>4, <2>1 DEF IsDraft
  <2>3. PICK q \in Requests : q = entries[x].voidedBy /\ IsReversal(q) /\ entries[q].voids = x
    BY <2>1, <2>2 DEF OverlapInv, VoidedByReversal
  <2>4. Exists(q)
    BY <2>3 DEF OverlapInv, ReversalsBooked, Booked
  <2>5. QED
    BY <1>3, <1>4, <2>2, <2>3, <2>4
<1>7. AuditExplains'
  BY <1>1, <1>3, <1>4 DEF OverlapInv, AuditExplains, IsDraft, Exists
<1>8. UneditedBooksBalance'
  BY <1>3, <1>4 DEF OverlapInv, UneditedBooksBalance, BooksBalance, Booked
<1>9. QED
  BY <1>2, <1>5, <1>6, <1>7, <1>8 DEF BooksAndLog

LEMMA UpdateOverlap ==
  ASSUME OverlapInv, NEW r \in Requests, Update(r)
  PROVE  NoIdReuse' /\ AuditOfCommitted' /\ ReadsLag' /\ BooksAndLog'
<1> USE NoneAssumption
<1>1. requests[r].phase = "ready"
  BY DEF Update, MayUpdate
<1>2. PICK e \in Requests : e = requests[r].entry /\ e # r
  BY <1>1, ReadyLag
<1>3. /\ Record(r, "update", e) /\ Finish(r, "committed") /\ Exists(e)
      /\ entries'[e] \in Entry
      /\ entries'[e].status = entries[e].status
      /\ entries'[e].voids = entries[e].voids
      /\ entries'[e].voidedBy = entries[e].voidedBy
      /\ \A x \in Requests : x # e => entries'[x] = entries[x]
  BY <1>2, UpdateRow DEF OverlapInv, Update
<1>4. /\ \A a, x : Did(a, x) => Did(a, x)'
      /\ \A x : Did("create", x)' => Did("create", x)
      /\ \A x : IsReversal(x)' <=> IsReversal(x)
      /\ ~Unedited'
  BY <1>3, RecordSays
<1>5. \A x \in Requests : /\ Exists(x)' <=> Exists(x)
                          /\ entries'[x].status = entries[x].status
                          /\ entries'[x].voids = entries[x].voids
                          /\ entries'[x].voidedBy = entries[x].voidedBy
  BY <1>3 DEF Exists
<1>6. NoIdReuse' /\ AuditOfCommitted' /\ ReadsLag'
  BY <1>1, <1>3, <1>5, CommitLag DEF Exists
<1>7. \A x \in Requests : Booked(x)' <=> Booked(x)
  BY <1>5 DEF Booked
<1>8. ReversalsBooked'
  BY <1>4, <1>7 DEF OverlapInv, ReversalsBooked
<1>9. VoidedByReversal'
  BY <1>4, <1>5 DEF OverlapInv, VoidedByReversal
<1>10. AuditExplains'
  BY <1>4, <1>5, <1>7 DEF OverlapInv, AuditExplains
<1>11. UneditedBooksBalance'
  BY <1>4 DEF UneditedBooksBalance
<1>12. QED
  BY <1>6, <1>8, <1>9, <1>10, <1>11 DEF BooksAndLog

(* The request read a draft; by now the entry may be posted or voided, but *)
(* it reverses nothing, so that no voided entry loses its reversal.        *)
LEMMA DeleteOverlap ==
  ASSUME OverlapInv, NEW r \in Requests, Delete(r)
  PROVE  NoIdReuse' /\ AuditOfCommitted' /\ ReadsLag' /\ BooksAndLog'
<1> USE NoneAssumption
<1>1. requests[r].phase = "ready" /\ requests[r].status = "draft"
  BY DEF Delete, MayDelete
<1>2. PICK e \in Requests : e = requests[r].entry /\ e # r /\ ~IsReversal(e)
  BY <1>1, ReadyLag
<1>3. /\ Record(r, "delete", e) /\ Finish(r, "committed")
      /\ entries'[e] = None
      /\ \A x \in Requests : x # e /\ entries[x] = None => entries'[x] = None
      /\ \A x \in Requests : x # e /\ entries[x] # None =>
           /\ entries'[x] \in Entry
           /\ entries'[x].status = entries[x].status
           /\ entries'[x].lines = entries[x].lines
           /\ entries'[x].voids = IF entries[x].voids = e THEN None ELSE entries[x].voids
           /\ entries'[x].voidedBy = IF entries[x].voidedBy = e THEN None ELSE entries[x].voidedBy
  BY <1>2, DeleteRows DEF OverlapInv, Delete
<1>4. /\ \A a, x : Did(a, x)' <=> Did(a, x) \/ (a = "delete" /\ x = e)
      /\ \A x : IsReversal(x)' <=> IsReversal(x)
      /\ Unedited' <=> Unedited
  BY <1>3, RecordSays
<1>5. \A x \in Requests : Exists(x)' <=> Exists(x) /\ x # e
  BY <1>3 DEF Exists
<1>6. \A x \in Requests : Booked(x)' <=> Booked(x) /\ x # e
  BY <1>3, <1>5 DEF Booked, Exists
<1>7. NoIdReuse' /\ AuditOfCommitted' /\ ReadsLag'
  BY <1>1, <1>3, CommitLag
<1>8. ReversalsBooked'
  BY <1>2, <1>4, <1>6 DEF OverlapInv, ReversalsBooked
<1>9. VoidedByReversal'
  <2>1. SUFFICES ASSUME NEW x \in Requests, Exists(x)', entries'[x].status = "voided"
                 PROVE  \E q \in Requests : q = entries'[x].voidedBy /\ IsReversal(q)'
                                            /\ entries'[q].voids = x
    BY DEF VoidedByReversal, IsReversal
  <2>2. Exists(x) /\ x # e /\ entries[x].status = "voided"
    BY <1>3, <1>5, <2>1 DEF Exists
  <2>3. PICK q \in Requests : q = entries[x].voidedBy /\ IsReversal(q) /\ entries[q].voids = x
    BY <2>2 DEF OverlapInv, VoidedByReversal
  <2>4. q # e /\ Exists(q)
    BY <1>2, <2>3 DEF OverlapInv, ReversalsBooked, Booked
  <2>5. entries'[x].voidedBy = q /\ entries'[q].voids = x
    BY <1>3, <2>2, <2>3, <2>4 DEF Exists
  <2>6. QED
    BY <1>4, <2>3, <2>5
<1>10. AuditExplains'
  BY <1>3, <1>4, <1>5, <1>6 DEF OverlapInv, AuditExplains, Exists
<1>11. UneditedBooksBalance'
  BY <1>3, <1>4, <1>6 DEF OverlapInv, UneditedBooksBalance, BooksBalance, Booked, Exists
<1>12. QED
  BY <1>7, <1>8, <1>9, <1>10, <1>11 DEF BooksAndLog

(* The entry may have been posted, even voided, since it was read; its     *)
(* lines are those whose balance was checked unless there was an edit.     *)
LEMMA PostOverlap ==
  ASSUME OverlapInv, NEW r \in Requests, Post(r)
  PROVE  NoIdReuse' /\ AuditOfCommitted' /\ ReadsLag' /\ BooksAndLog'
<1> USE NoneAssumption
<1>1. requests[r].phase = "ready" /\ Balanced(requests[r].lines)
  BY DEF Post, MayPost
<1>2. PICK e \in Requests : /\ e = requests[r].entry /\ e # r
                            /\ Unedited /\ Exists(e) => requests[r].lines = entries[e].lines
  BY <1>1, ReadyLag
<1>3. /\ Record(r, "post", e) /\ Finish(r, "committed") /\ Exists(e)
      /\ entries'[e] \in Entry
      /\ entries'[e].status = "posted"
      /\ entries'[e].lines = entries[e].lines
      /\ entries'[e].voids = entries[e].voids
      /\ \A x \in Requests : x # e => entries'[x] = entries[x]
  BY <1>2, PostRow DEF OverlapInv, Post
<1>4. /\ \A a, x : Did(a, x)' <=> Did(a, x) \/ (a = "post" /\ x = e)
      /\ \A x : IsReversal(x)' <=> IsReversal(x)
      /\ Unedited' <=> Unedited
  BY <1>3, RecordSays
<1>5. \A x \in Requests : /\ Exists(x)' <=> Exists(x)
                          /\ entries'[x].lines = entries[x].lines
                          /\ entries'[x].voids = entries[x].voids
  BY <1>3 DEF Exists
<1>6. \A x \in Requests : Booked(x)' <=> Booked(x) \/ x = e
  BY <1>3, <1>5 DEF Booked, Exists
<1>7. NoIdReuse' /\ AuditOfCommitted' /\ ReadsLag'
  BY <1>1, <1>3, <1>5, CommitLag DEF Exists
<1>8. ReversalsBooked'
  BY <1>4, <1>6 DEF OverlapInv, ReversalsBooked
<1>9. VoidedByReversal'
  BY <1>3, <1>4, <1>5 DEF OverlapInv, VoidedByReversal
<1>10. AuditExplains'
  <2>1. \A x \in Requests : Exists(x)' /\ entries'[x].status = "voided" =>
          Exists(x) /\ entries[x].status = "voided"
    BY <1>3, <1>5
  <2>2. QED
    BY <1>4, <1>5, <1>6, <2>1 DEF OverlapInv, AuditExplains
<1>11. UneditedBooksBalance'
  BY <1>1, <1>2, <1>3, <1>4, <1>5, <1>6 DEF OverlapInv, UneditedBooksBalance, BooksBalance
<1>12. QED
  BY <1>7, <1>8, <1>9, <1>10, <1>11 DEF BooksAndLog

(* The entry may have been voided since it was read; then it names the     *)
(* later of its two reversals.                                             *)
LEMMA VoidOverlap ==
  ASSUME OverlapInv, NEW r \in Requests, Void(r)
  PROVE  NoIdReuse' /\ AuditOfCommitted' /\ ReadsLag' /\ BooksAndLog'
<1> USE NoneAssumption
<1>1. requests[r].phase = "ready" /\ requests[r].status = "posted" /\ Exists(requests[r].entry)
  BY DEF Void, MayVoid, ReversalRow
<1>2. PICK e \in Requests : /\ e = requests[r].entry /\ e # r /\ Booked(e) /\ Exists(e)
                            /\ Unedited => requests[r].lines = entries[e].lines
  BY <1>1, ReadyLag
<1>3. /\ Record(r, "void", e) /\ Finish(r, "committed") /\ entries[r] = None
      /\ entries'[e] \in Entry
      /\ entries'[e].status = "voided"
      /\ entries'[e].lines = entries[e].lines
      /\ entries'[e].voids = entries[e].voids
      /\ entries'[e].voidedBy = r
      /\ entries'[r] \in Entry
      /\ entries'[r].status = "posted"
      /\ entries'[r].lines = Reversed(requests[r].lines)
      /\ entries'[r].voids = e
      /\ \A x \in Requests : x # e /\ x # r => entries'[x] = entries[x]
  <2>1. entries[r] = None
    BY <1>1, ReadyLag
  <2>2. Record(r, "void", e) /\ Finish(r, "committed")
    BY <1>2 DEF Void
  <2>3. TypeOK /\ requests[r].entry # r
    BY <1>2 DEF OverlapInv
  <2>4. QED
    BY <1>1, <1>2, <2>1, <2>2, <2>3, VoidRows
<1>4. /\ \A a, x : Did(a, x)' <=> Did(a, x) \/ (a = "void" /\ x = e)
      /\ \A x : IsReversal(x)' <=> IsReversal(x) \/ x = r
      /\ Unedited' <=> Unedited
  BY <1>3, RecordSays
<1>5. \A x \in Requests : /\ Exists(x)' <=> Exists(x) \/ x = r
                          /\ Booked(x)' <=> Booked(x) \/ x = r
  BY <1>2, <1>3 DEF Booked, Exists
<1>6. \A x \in Requests : x # r =>
        entries'[x].lines = entries[x].lines /\ entries'[x].voids = entries[x].voids
  BY <1>3
<1>7. NoIdReuse' /\ AuditOfCommitted' /\ ReadsLag'
  <2>1. \A x \in Requests : x # r /\ entries'[x] # None =>
          /\ entries[x] # None
          /\ entries[x].status # "draft" => entries'[x].status # "draft"
          /\ entries'[x].lines = entries[x].lines
    BY <1>2, <1>3 DEF Exists
  <2>2. QED
    BY <1>1, <1>3, <2>1, CommitLag
<1>8. ReversalsBooked'
  BY <1>4, <1>5 DEF OverlapInv, ReversalsBooked
<1>9. VoidedByReversal'
  <2>1. SUFFICES ASSUME NEW x \in Requests, Exists(x)', entries'[x].status = "voided"
                 PROVE  \E q \in Requests : q = entries'[x].voidedBy /\ IsReversal(q)'
                                            /\ entries'[q].voids = x
    BY DEF VoidedByReversal, IsReversal
  <2>2. CASE x = e
    BY <1>3, <1>4, <2>2
  <2>3. CASE x # e
    <3>1. x # r /\ Exists(x) /\ entries'[x] = entries[x]
      BY <1>3, <1>5, <2>1, <2>3
    <3>2. PICK q \in Requests : q = entries[x].voidedBy /\ IsReversal(q) /\ entries[q].voids = x
      BY <2>1, <3>1 DEF OverlapInv, VoidedByReversal
    <3>3. q # r
      BY <1>3, <3>2 DEF OverlapInv, ReversalsBooked, Booked, Exists
    <3>4. QED
      BY <1>4, <1>6, <3>1, <3>2, <3>3
  <2>4. QED
    BY <2>2, <2>3
<1>10. AuditExplains'
  <2>1. \A x \in Requests : Exists(x)' /\ entries'[x].status = "voided" =>
          x = e \/ (Exists(x) /\ entries[x].status = "voided")
    BY <1>3, <1>5
  <2>2. QED
    BY <1>4, <1>5, <2>1 DEF OverlapInv, AuditExplains
<1>11. UneditedBooksBalance'
  <2>1. Unedited => Balanced(entries[e].lines)
    BY <1>2 DEF OverlapInv, UneditedBooksBalance, BooksBalance
  <2>2. entries[e].lines \in Lines
    BY <1>2 DEF OverlapInv, TypeOK, Exists, Entry
  <2>3. Unedited => Balanced(entries'[r].lines)
    BY <1>2, <1>3, <2>1, <2>2, ReversedBalanced
  <2>4. QED
    BY <1>4, <1>5, <1>6, <2>3 DEF OverlapInv, UneditedBooksBalance, BooksBalance
<1>12. QED
  BY <1>7, <1>8, <1>9, <1>10, <1>11 DEF BooksAndLog

LEMMA OverlapStep ==
  ASSUME OverlapInv, [Next]_vars
  PROVE  OverlapInv'
<1>1. TypeOK'
  BY NextType DEF OverlapInv
<1>2. ASSUME NEW r \in Requests,
             Create(r) \/ Update(r) \/ Delete(r) \/ Post(r) \/ Void(r)
      PROVE  OverlapInv'
  BY <1>1, <1>2, CreateOverlap, UpdateOverlap, DeleteOverlap, PostOverlap, VoidOverlap
    DEF OverlapInv, BooksAndLog
<1>3. CASE UNCHANGED vars
  BY <1>1, <1>3 DEF vars, OverlapInv, NoIdReuse, AuditOfCommitted, ReadsLag, ReversalsBooked,
    VoidedByReversal, AuditExplains, UneditedBooksBalance, BooksBalance, Booked, Exists, InFlight,
    IsReversal, Did, Unedited
<1>4. QED
  BY <1>2, <1>3, ReadsOverlap DEF Next

(* However many requests there are, on whichever entries and however they  *)
(* overlap: a voided entry keeps its reversal, the audit log accounts for  *)
(* what became of every entry, and the books balance as long as nobody has *)
(* edited a draft.  The handlers lock nothing (services/journal.py); what  *)
(* holds the links together is that a reversal is never read as a draft.   *)
THEOREM JournalOverlapSafe ==
  Spec => [](TypeOK /\ VoidedHasReversal /\ AuditExplains /\ UneditedBooksBalance)
<1>1. OverlapInv => VoidedHasReversal
  BY NoneAssumption
    DEF OverlapInv, VoidedHasReversal, VoidedByReversal, ReversalsBooked
<1>2. OverlapInv => TypeOK /\ AuditExplains /\ UneditedBooksBalance
  BY DEF OverlapInv
<1>3. OverlapInv /\ [Next]_vars => OverlapInv'
  BY OverlapStep
<1>4. QED
  BY InitOverlap, <1>1, <1>2, <1>3, PTL DEF Spec

-----------------------------------------------------------------------------
(* The reports. *)

(* One term more. *)
LEMMA SumAppended ==
  ASSUME NEW n \in Nat, NEW f \in [1..n -> Int], NEW g \in [1..(n + 1) -> Int],
         \A k \in 1..n : g[k] = f[k]
  PROVE  SumOver(g) = SumOver(f) + g[n + 1]
<1>1. IsFiniteSet(1..(n + 1)) /\ n + 1 \in 1..(n + 1)
  BY FS_Interval
<1>2. PICK m \in Int : m = SumOver(Without(g, n + 1)) /\ SumOver(g) = g[n + 1] + m
  BY <1>1, SumWithout
<1>3. Without(g, n + 1) = f
  <2>1. (1..(n + 1)) \ {n + 1} = 1..n
    OBVIOUS
  <2>2. Without(g, n + 1) = [y \in 1..n |-> g[y]]
    BY <2>1 DEF Without
  <2>3. QED
    BY <2>2
<1>4. g[n + 1] \in Int
  BY <1>1
<1>5. QED
  BY <1>2, <1>3, <1>4

(* A double sum may be taken in either order. *)
LEMMA SumsExchanged ==
  ASSUME NEW S, IsFiniteSet(S), NEW T, IsFiniteSet(T), NEW f \in [S -> [T -> Int]]
  PROVE  SumOver([x \in S |-> SumOver(f[x])]) = SumOver([y \in T |-> SumOver([x \in S |-> f[x][y]])])
<1> DEFINE rows == [x \in S |-> SumOver(f[x])]
           col(y) == [x \in S |-> f[x][y]]
           left(s) == SumOn(rows, s)
           right(s) == [y \in T |-> SumOn(col(y), s)]
           Bad == {s \in SUBSET S : left(s) # SumOver(right(s))}
<1>1. rows \in [S -> Int]
  <2>1. ASSUME NEW x \in S PROVE SumOver(f[x]) \in Int
    BY SumInt
  <2>2. QED
    BY <2>1
<1>2. \A y \in T : col(y) \in [S -> Int]
  OBVIOUS
<1>3. \A x \in S : rows[x] = SumOver(f[x]) /\ \A y \in T : col(y)[x] = f[x][y]
  OBVIOUS
<1> HIDE DEF rows, col
<1>4. /\ SumOver(rows) = left(S) /\ left({}) = 0
      /\ \A s \in SUBSET S : left(s) \in Int
      /\ \A s \in SUBSET S : \A x \in s : left(s) = rows[x] + left(s \ {x})
  <2>1. DOMAIN rows = S /\ \A x \in DOMAIN rows : rows[x] \in Int
    BY <1>1
  <2>2. QED
    BY <2>1, SumOnIs, SumOnInt, SumOnWithout
<1>5. ASSUME NEW y \in T
      PROVE  /\ SumOver(col(y)) = SumOn(col(y), S) /\ SumOn(col(y), {}) = 0
             /\ \A s \in SUBSET S : SumOn(col(y), s) \in Int
             /\ \A s \in SUBSET S : \A x \in s : SumOn(col(y), s) = f[x][y] + SumOn(col(y), s \ {x})
  <2>1. PICK c : c = col(y)
    OBVIOUS
  <2>2. DOMAIN c = S /\ \A x \in DOMAIN c : c[x] \in Int
    <3>1. c \in [S -> Int]
      <4> HIDE DEF right, left, Bad
      <4>1. QED
        BY <1>2, <2>1
    <3>2. QED
      BY <3>1
  <2>3. /\ SumOver(c) = SumOn(c, S) /\ SumOn(c, {}) = 0
        /\ \A s \in SUBSET S : SumOn(c, s) \in Int
        /\ \A s \in SUBSET S : \A x \in s : SumOn(c, s) = c[x] + SumOn(c, s \ {x})
    BY <2>2, SumOnIs, SumOnInt, SumOnWithout
  <2>4. QED
    BY <1>3, <2>1, <2>3
<1>6. \A s \in SUBSET S : right(s) \in [T -> Int]
  BY <1>5
<1>7. ASSUME Bad # {} PROVE FALSE
  <2>1. PICK s \in Bad : \A t \in Bad : t \subseteq s => t = s
    <3>1. Bad \in SUBSET (SUBSET S)
      OBVIOUS
    <3> HIDE DEF Bad
    <3>2. QED
      BY <1>7, <3>1, LeastSubset
  <2>2. CASE s = {}
    <3>1. \A y \in T : right(s)[y] = 0
      BY <1>5, <2>2
    <3>2. SumOver(right(s)) = 0
      <4>1. PICK r \in [T -> Int] : r = right(s)
        BY <1>6
      <4>2. QED
        BY <3>1, <4>1, SumZero
    <3>3. QED
      BY <1>4, <2>1, <2>2, <3>2
  <2>3. CASE s # {}
    <3>1. PICK x \in s : TRUE
      BY <2>3
    <3>2. PICK t \in SUBSET S : t = s \ {x}
      OBVIOUS
    <3>3. left(t) = SumOver(right(t))
      <4> HIDE DEF left, right
      <4>1. t \notin Bad
        BY <2>1, <3>1, <3>2
      <4>2. QED
        BY <4>1
    <3>4. PICK h \in [T -> Int], r \in [T -> Int] : h = right(s) /\ r = right(t)
      BY <1>6
    <3>5. \A y \in T : h[y] = f[x][y] + r[y]
      BY <1>5, <3>2, <3>4
    <3>6. f[x] \in [T -> Int]
      OBVIOUS
    <3>7. SumOver(h) = SumOver(f[x]) + SumOver(r)
      BY <3>4, <3>5, <3>6, SumPlus
    <3>8. left(s) = rows[x] + left(t)
      BY <1>4, <3>2
    <3>9. QED
      BY <1>3, <2>1, <3>3, <3>4, <3>7, <3>8
  <2>4. QED
    BY <2>2, <2>3
<1>8. left(S) = SumOver(right(S))
  BY <1>7
<1>9. right(S) = [y \in T |-> SumOver(col(y))]
  BY <1>5
<1>10. QED
  BY <1>4, <1>8, <1>9 DEF rows, col

-----------------------------------------------------------------------------
(* Entries and what they move. *)

LEMMA BookedAt ==
  ASSUME ReportsTypeOK
  PROVE  /\ books \in Seq(BookEntry) /\ Len(books) \in Nat /\ DOMAIN books = 1..Len(books)
         /\ IsFiniteSet(DOMAIN books)
         /\ \A k \in DOMAIN books : books[k] \in BookEntry
<1>1. books \in Seq(BookEntry)
  BY DEF ReportsTypeOK
<1>2. Len(books) \in Nat /\ DOMAIN books = 1..Len(books)
  BY <1>1, LenProperties
<1>3. IsFiniteSet(1..Len(books))
  BY <1>2, FS_Interval
<1>4. \A k \in DOMAIN books : books[k] \in BookEntry
  BY <1>1, <1>2, ElementOfSeq
<1>5. QED
  BY <1>1, <1>2, <1>3, <1>4

LEMMA EntryIs ==
  ASSUME NEW e \in BookEntry
  PROVE  /\ e.debit \in ChartAccounts /\ e.credit \in ChartAccounts
         /\ e.amount \in Nat \ {0} /\ e.day \in Nat \ {0} /\ e.day \in Days
         /\ e.doc \in Nat /\ InReports(e)
         /\ \A a : Signed(a, e.amount) \in {e.amount, -e.amount} /\ Signed(a, e.amount) \in Int
         /\ \A accts : Effect(e, accts) \in Int
<1>1. /\ e.debit \in ChartAccounts /\ e.credit \in ChartAccounts
      /\ e.amount \in Nat \ {0} /\ e.day \in Days /\ e.doc \in 0..MaxDocs
  BY DEF BookEntry
<1>6. InReports(e)
  BY DEF BookEntry, InReports
<1>2. e.day \in Nat \ {0} /\ e.doc \in Nat
  <2>1. Days \subseteq Nat \ {0} /\ MaxDocs \in Nat
    BY ReportsAssumption
  <2>2. e.day \in Nat \ {0}
    BY <1>1, <2>1
  <2>3. e.doc \in Nat
    BY <1>1, <2>1
  <2>4. QED
    BY <2>2, <2>3
<1>3. \A a : Signed(a, e.amount) \in {e.amount, -e.amount} /\ Signed(a, e.amount) \in Int
  BY <1>1 DEF Signed
<1>4. ASSUME NEW accts PROVE Effect(e, accts) \in Int
  <2>1. PICK x \in Int, y \in Int : x = Signed(e.debit, e.amount) /\ y = Signed(e.credit, e.amount)
    BY <1>3
  <2>2. Effect(e, accts) = (IF e.debit \in accts THEN x ELSE 0) - (IF e.credit \in accts THEN y ELSE 0)
    BY <2>1 DEF Effect
  <2>3. QED
    BY <2>2
<1>5. QED
  BY <1>1, <1>2, <1>3, <1>4, <1>6

LEMMA FirstIs ==
  ASSUME NEW d \in Days
  PROVE  First \in Days /\ First \in Nat \ {0} /\ \A x \in Days : First <= x
<1>1. Days \in SUBSET Nat /\ Days \subseteq Nat \ {0}
  BY ReportsAssumption
<1>2. PICK n \in Days : \A m \in Days : n <= m
  <2>1. ASSUME NEW T \in SUBSET Nat, T # {}
        PROVE  \E n \in T : \A m \in T : n <= m
    <3> DEFINE R == OpToRel(<, Nat)
    <3>1. IsWellFoundedOn(R, Nat)
      BY NatLessThanWellFounded
    <3> HIDE DEF R
    <3>2. PICK n \in T : \A m \in T : ~(<<m, n>> \in R)
      BY <2>1, <3>1, WFMin
    <3>3. \A m \in T : ~(m < n)
      BY <3>2 DEF R, OpToRel
    <3>4. QED
      BY <3>3
  <2>2. QED
    BY <1>1, <2>1
<1>3. First = CHOOSE x \in Days : \A y \in Days : x <= y
  BY DEF First, Min
<1>4. QED
  BY <1>1, <1>2, <1>3

(* The terms of a total. *)
Moves(accts, from, to) ==
  [k \in DOMAIN books |-> IF Within(books[k], from, to) THEN Effect(books[k], accts) ELSE 0]

LEMMA TotalIs ==
  ASSUME ReportsTypeOK, NEW accts, NEW from, NEW to
  PROVE  /\ Moves(accts, from, to) \in [DOMAIN books -> Int]
         /\ Total(accts, from, to) = SumOver(Moves(accts, from, to))
         /\ Total(accts, from, to) \in Int
<1>1. \A k \in DOMAIN books : Effect(books[k], accts) \in Int /\ InReports(books[k])
  <2>1. TAKE k \in DOMAIN books
  <2>2. books[k] \in BookEntry
    BY BookedAt
  <2>3. QED
    BY <2>2, EntryIs
<1>2. Moves(accts, from, to) \in [DOMAIN books -> Int]
  <2>1. ASSUME NEW k \in DOMAIN books
        PROVE  (IF Within(books[k], from, to) THEN Effect(books[k], accts) ELSE 0) \in Int
    <3>1. CASE Within(books[k], from, to)
      BY <1>1, <3>1
    <3>2. CASE ~Within(books[k], from, to)
      BY <3>2
    <3>3. QED
      BY <3>1, <3>2
  <2>2. QED
    BY <2>1 DEF Moves
<1>3. Total(accts, from, to) = SumOver(Moves(accts, from, to))
  <2>1. Moves(accts, from, to) = [k \in DOMAIN books |->
             IF InReports(books[k]) /\ Within(books[k], from, to) THEN Effect(books[k], accts) ELSE 0]
    BY <1>1 DEF Moves
  <2>2. Total(accts, from, to) = SumOver(Moves(accts, from, to))
    BY <2>1 DEF Total
  <2>3. QED
    BY <2>2
<1>4. SumOver(Moves(accts, from, to)) \in Int
  BY <1>2, BookedAt, SumInt
<1>5. QED
  BY <1>2, <1>3, <1>4

(* Totals of accounts that are moved together. *)
LEMMA TotalsAdd ==
  ASSUME ReportsTypeOK, NEW accts, NEW bs, NEW cs, NEW from, NEW to,
         \A e \in BookEntry : Effect(e, cs) = Effect(e, accts) + Effect(e, bs)
  PROVE  Total(cs, from, to) = Total(accts, from, to) + Total(bs, from, to)
<1>1. PICK f, g, h : f = Moves(accts, from, to) /\ g = Moves(bs, from, to) /\ h = Moves(cs, from, to)
  OBVIOUS
<1>2. f \in [DOMAIN books -> Int] /\ g \in [DOMAIN books -> Int] /\ h \in [DOMAIN books -> Int]
  BY <1>1, TotalIs
<1>3. \A k \in DOMAIN books : h[k] = f[k] + g[k]
  <2>1. TAKE k \in DOMAIN books
  <2>2. Effect(books[k], cs) = Effect(books[k], accts) + Effect(books[k], bs)
    BY BookedAt
  <2>3. CASE Within(books[k], from, to)
    BY <1>1, <2>2, <2>3 DEF Moves
  <2>4. CASE ~Within(books[k], from, to)
    BY <1>1, <2>4 DEF Moves
  <2>5. QED
    BY <2>3, <2>4
<1>4. SumOver(h) = SumOver(f) + SumOver(g)
  <2>1. PICK D : D = DOMAIN books /\ IsFiniteSet(D)
    BY BookedAt
  <2>2. f \in [D -> Int] /\ g \in [D -> Int] /\ h \in [D -> Int] /\ \A k \in D : h[k] = f[k] + g[k]
    BY <1>2, <1>3, <2>1
  <2>3. QED
    BY <2>1, <2>2, SumPlus
<1>5. QED
  BY <1>1, <1>4, TotalIs

LEMMA PeriodsAdd ==
  ASSUME ReportsTypeOK, NEW accts, NEW from \in Int, NEW mid \in Int, NEW to \in Int,
         from <= mid, mid < to
  PROVE  Total(accts, from, to) = Total(accts, from, mid) + Total(accts, mid + 1, to)
<1>1. PICK f, g, h : f = Moves(accts, from, mid) /\ g = Moves(accts, mid + 1, to) /\ h = Moves(accts, from, to)
  OBVIOUS
<1>2. f \in [DOMAIN books -> Int] /\ g \in [DOMAIN books -> Int] /\ h \in [DOMAIN books -> Int]
  BY <1>1, TotalIs
<1>3. \A k \in DOMAIN books : h[k] = f[k] + g[k]
  <2>1. TAKE k \in DOMAIN books
  <2>2. PICK e \in BookEntry : e = books[k]
    BY BookedAt
  <2>3. PICK x \in Int, n \in Nat : x = Effect(e, accts) /\ n = e.day
    BY EntryIs
  <2>4. /\ h[k] = IF from <= n /\ n <= to THEN x ELSE 0
        /\ f[k] = IF from <= n /\ n <= mid THEN x ELSE 0
        /\ g[k] = IF mid + 1 <= n /\ n <= to THEN x ELSE 0
    BY <1>1, <2>2, <2>3 DEF Moves, Within
  <2>5. QED
    BY <2>4
<1>4. SumOver(h) = SumOver(f) + SumOver(g)
  <2>1. PICK D : D = DOMAIN books /\ IsFiniteSet(D)
    BY BookedAt
  <2>2. f \in [D -> Int] /\ g \in [D -> Int] /\ h \in [D -> Int] /\ \A k \in D : h[k] = f[k] + g[k]
    BY <1>2, <1>3, <2>1
  <2>3. QED
    BY <2>1, <2>2, SumPlus
<1>5. QED
  BY <1>1, <1>4, TotalIs

LEMMA DisjointAdd ==
  ASSUME NEW accts, NEW bs, accts \cap bs = {}, NEW e \in BookEntry
  PROVE  Effect(e, accts \cup bs) = Effect(e, accts) + Effect(e, bs)
<1>1. PICK x \in Int, y \in Int : x = Signed(e.debit, e.amount) /\ y = Signed(e.credit, e.amount)
  BY EntryIs
<1>2. \A cs : Effect(e, cs) = (IF e.debit \in cs THEN x ELSE 0) - (IF e.credit \in cs THEN y ELSE 0)
  BY <1>1 DEF Effect
<1>3. /\ Effect(e, accts) = (IF e.debit \in accts THEN x ELSE 0) - (IF e.credit \in accts THEN y ELSE 0)
      /\ Effect(e, bs) = (IF e.debit \in bs THEN x ELSE 0) - (IF e.credit \in bs THEN y ELSE 0)
      /\ Effect(e, accts \cup bs) = (IF e.debit \in accts \/ e.debit \in bs THEN x ELSE 0)
                                     - (IF e.credit \in accts \/ e.credit \in bs THEN y ELSE 0)
  BY <1>2
<1>4. ~(e.debit \in accts /\ e.debit \in bs) /\ ~(e.credit \in accts /\ e.credit \in bs)
  OBVIOUS
<1>5. QED
  BY <1>3, <1>4

(* An entry moves as much into assets as into what they are owed to.       *)
LEMMA EntryBalances ==
  ASSUME NEW e \in BookEntry
  PROVE  Effect(e, OfType["asset"]) + Effect(e, OfType["expense"]) =
           Effect(e, OfType["liability"]) + Effect(e, OfType["equity"])
             + Effect(e, OfType["income"])
<1> DEFINE part(a, t) == IF a \in OfType[t] THEN Signed(a, e.amount) ELSE 0
<1>1. ASSUME NEW a \in ChartAccounts
      PROVE  /\ \A t \in Types : part(a, t) \in Int
             /\ part(a, "asset") + part(a, "expense") =
                  part(a, "liability") + part(a, "equity") + part(a, "income") + e.amount
  <2>1. Chart[a].type \in Types
    BY ReportsAssumption
  <2>2. e.amount \in Nat
    BY EntryIs
  <2>3. \A t \in Types : part(a, t) = IF Chart[a].type = t THEN Signed(a, e.amount) ELSE 0
    BY DEF OfType
  <2>4. Signed(a, e.amount) = IF Chart[a].type \in {"asset", "expense"} THEN e.amount ELSE -e.amount
    BY DEF Signed
  <2> HIDE DEF part
  <2>5. QED
    BY <2>1, <2>2, <2>3, <2>4 DEF Types
<1>2. \A t : Effect(e, OfType[t]) = part(e.debit, t) - part(e.credit, t)
  BY DEF Effect
<1>3. e.debit \in ChartAccounts /\ e.credit \in ChartAccounts /\ e.amount \in Int
  BY EntryIs
<1> HIDE DEF part
<1>4. QED
  BY <1>1, <1>2, <1>3 DEF Types

LEMMA BooksBalanced ==
  ASSUME ReportsTypeOK, NEW from, NEW to
  PROVE  Total(OfType["asset"], from, to) + Total(OfType["expense"], from, to) =
           Total(OfType["liability"], from, to) + Total(OfType["equity"], from, to)
             + Total(OfType["income"], from, to)
<1> DEFINE f(t) == Moves(OfType[t], from, to)
           D == DOMAIN books
<1>1. PICK a, x, l, q, i : /\ a = f("asset") /\ x = f("expense") /\ l = f("liability")
                           /\ q = f("equity") /\ i = f("income")
  OBVIOUS
<1>2. /\ a \in [D -> Int] /\ x \in [D -> Int] /\ l \in [D -> Int] /\ q \in [D -> Int] /\ i \in [D -> Int]
      /\ IsFiniteSet(D)
  BY <1>1, TotalIs, BookedAt
<1>3. \A k \in D : a[k] + x[k] = l[k] + q[k] + i[k]
  <2>1. TAKE k \in D
  <2>2. books[k] \in BookEntry
    BY BookedAt
  <2>3. CASE Within(books[k], from, to)
    BY <1>1, <2>2, <2>3, EntryBalances DEF Moves
  <2>4. CASE ~Within(books[k], from, to)
    BY <1>1, <2>4 DEF Moves
  <2>5. QED
    BY <2>3, <2>4
<1> HIDE DEF f, D
<1>4. PICK u \in [D -> Int] : \A k \in D : u[k] = a[k] + x[k]
  <2>1. [k \in D |-> a[k] + x[k]] \in [D -> Int]
    BY <1>2
  <2>2. QED
    BY <2>1
<1>5. PICK v \in [D -> Int] : \A k \in D : v[k] = l[k] + q[k]
  <2>1. [k \in D |-> l[k] + q[k]] \in [D -> Int]
    BY <1>2
  <2>2. QED
    BY <2>1
<1>6. SumOver(u) = SumOver(a) + SumOver(x)
  BY <1>2, <1>4, SumPlus
<1>7. SumOver(v) = SumOver(l) + SumOver(q)
  BY <1>2, <1>5, SumPlus
<1>8. \A k \in D : u[k] = v[k] + i[k]
  BY <1>3, <1>4, <1>5
<1>9. SumOver(u) = SumOver(v) + SumOver(i)
  BY <1>2, <1>8, SumPlus
<1>10. /\ Total(OfType["asset"], from, to) = SumOver(a)
       /\ Total(OfType["expense"], from, to) = SumOver(x)
       /\ Total(OfType["liability"], from, to) = SumOver(l)
       /\ Total(OfType["equity"], from, to) = SumOver(q)
       /\ Total(OfType["income"], from, to) = SumOver(i)
  BY <1>1, TotalIs DEF f
<1>11. QED
  BY <1>6, <1>7, <1>9, <1>10

-----------------------------------------------------------------------------
(* How the books grow. *)

Kept(x, y) ==
  /\ y.day = x.day /\ y.debit = x.debit /\ y.credit = x.credit /\ y.amount = x.amount /\ y.doc = x.doc
  /\ y.status \in {x.status, "voided"}

(* One entry more; of the others, some may be marked voided. *)
GrowsBy(e) ==
  /\ e \in BookEntry /\ Len(books) < MaxEntries
  /\ books' \in Seq(BookEntry) /\ Len(books') = Len(books) + 1
  /\ books'[Len(books) + 1] = e
  /\ \A k \in 1..Len(books) : Kept(books[k], books'[k])

LEMMA AppendGrows ==
  ASSUME ReportsTypeOK, NEW e \in BookEntry, Len(books) < MaxEntries, books' = Append(books, e)
  PROVE  GrowsBy(e)
<1>1. books \in Seq(BookEntry)
  BY DEF ReportsTypeOK
<1>2. /\ Append(books, e) \in Seq(BookEntry) /\ Len(Append(books, e)) = Len(books) + 1
      /\ \A k \in 1..Len(books) : Append(books, e)[k] = books[k]
      /\ Append(books, e)[Len(books) + 1] = e
  BY <1>1, AppendProperties
<1>3. QED
  BY <1>2 DEF GrowsBy, Kept

LEMMA BookGrows ==
  ASSUME ReportsTypeOK, NEW day \in Days, NEW m \in Manual, BookByHand(day, m)
  PROVE  GrowsBy([day |-> day, debit |-> m[1], credit |-> m[2], amount |-> m[3], doc |-> 0, status |-> "posted"])
<1>1. m[1] \in ChartAccounts /\ m[2] \in ChartAccounts /\ m[3] \in Nat \ {0} /\ 0 \in 0..MaxDocs
  BY ReportsAssumption
<1>2. [day |-> day, debit |-> m[1], credit |-> m[2], amount |-> m[3], doc |-> 0, status |-> "posted"]
        \in BookEntry
  BY <1>1 DEF BookEntry
<1>3. QED
  BY <1>2, AppendGrows DEF BookByHand, WithEntry

LEMMA PaperAt ==
  ASSUME ReportsTypeOK
  PROVE  /\ docs \in Seq(Doc) /\ Len(docs) \in Nat /\ DOMAIN docs = 1..Len(docs)
         /\ IsFiniteSet(DOMAIN docs)
         /\ \A i \in DOMAIN docs : docs[i] \in Doc /\ i \in (0..MaxDocs) \ {0}
<1>1. docs \in Seq(Doc) /\ Len(docs) <= MaxDocs
  BY DEF ReportsTypeOK
<1>2. Len(docs) \in Nat /\ DOMAIN docs = 1..Len(docs)
  BY <1>1, LenProperties
<1>3. IsFiniteSet(1..Len(docs))
  BY <1>2, FS_Interval
<1>4. \A i \in DOMAIN docs : docs[i] \in Doc
  BY <1>1, <1>2, ElementOfSeq
<1>5. MaxDocs \in Nat
  BY ReportsAssumption
<1>6. QED
  BY <1>1, <1>2, <1>3, <1>4, <1>5

LEMMA PaperIs ==
  ASSUME NEW x \in Doc
  PROVE  /\ x.kind \in {"invoice", "bill"} /\ x.day \in Days /\ x.due \in Days
         /\ x.total \in Nat \ {0} /\ x.balance \in Nat /\ x.day \in Nat /\ x.due \in Nat
         /\ x.status \in {"draft", "posted", "partial", "paid"}
<1>1. Days \subseteq Nat \ {0} /\ Totals \subseteq Nat \ {0}
  BY ReportsAssumption
<1>2. QED
  BY <1>1 DEF Doc, Kinds

(* The entry that posting document i on account a books, and the one that  *)
(* paying it books.                                                        *)
PostingOf(i, a) ==
  [day |-> docs[i].day,
   debit |-> IF docs[i].kind = "invoice" THEN "1200" ELSE a,
   credit |-> IF docs[i].kind = "invoice" THEN a ELSE "2100",
   amount |-> docs[i].total, doc |-> i, status |-> "posted"]

ReceiptOf(i, day, n) ==
  [day |-> day,
   debit |-> IF docs[i].kind = "invoice" THEN "1110" ELSE "2100",
   credit |-> IF docs[i].kind = "invoice" THEN "1200" ELSE "1110",
   amount |-> n, doc |-> i, status |-> "posted"]

LEMMA PostGrows ==
  ASSUME ReportsTypeOK, NEW i \in DOMAIN docs, NEW a \in ChartAccounts,
         PostDocument(i, a)
  PROVE  GrowsBy(PostingOf(i, a))
<1>1. docs[i] \in Doc /\ i \in 0..MaxDocs
  BY PaperAt
<1>2. "1200" \in ChartAccounts /\ "2100" \in ChartAccounts
  BY ReportsAssumption
<1>3. docs[i].day \in Days /\ docs[i].total \in Nat \ {0}
  BY <1>1, PaperIs
<1>4. PostingOf(i, a) \in BookEntry
  BY <1>1, <1>2, <1>3 DEF BookEntry, PostingOf
<1>5. books' = Append(books, PostingOf(i, a)) /\ Len(books) < MaxEntries
  BY DEF PostDocument, WithEntry, PostingOf
<1>6. QED
  BY <1>4, <1>5, AppendGrows

LEMMA PayGrows ==
  ASSUME ReportsTypeOK, NEW i \in DOMAIN docs, NEW day \in Days, NEW n \in Amounts,
         Pay(i, day, n)
  PROVE  GrowsBy(ReceiptOf(i, day, n))
<1>1. docs[i] \in Doc /\ i \in 0..MaxDocs
  BY PaperAt
<1>2. /\ "1200" \in ChartAccounts /\ "2100" \in ChartAccounts /\ "1110" \in ChartAccounts
      /\ n \in Nat \ {0}
  BY ReportsAssumption
<1>3. ReceiptOf(i, day, n) \in BookEntry
  BY <1>1, <1>2 DEF BookEntry, ReceiptOf
<1>4. books' = Append(books, ReceiptOf(i, day, n)) /\ Len(books) < MaxEntries
  BY DEF Pay, WithEntry, ReceiptOf
<1>5. QED
  BY <1>3, <1>4, AppendGrows

MirrorOf(k, day) ==
  [books[k] EXCEPT !.day = day, !.debit = books[k].credit, !.credit = books[k].debit]

LEMMA VoidGrows ==
  ASSUME ReportsTypeOK, NEW k \in DOMAIN books, NEW day \in Days, VoidEntry(k, day)
  PROVE  GrowsBy(MirrorOf(k, day)) /\ books'[k].status = "voided" /\ books'[k].doc = books[k].doc
<1>1. books[k] \in BookEntry /\ books \in Seq(BookEntry) /\ k \in 1..Len(books)
  BY BookedAt
<1>2. [books[k] EXCEPT !.status = "voided"] \in BookEntry
  BY <1>1 DEF BookEntry
<1>3. MirrorOf(k, day) \in BookEntry
  BY <1>1 DEF BookEntry, MirrorOf
<1>4. PICK s : s = [books EXCEPT ![k] = [books[k] EXCEPT !.status = "voided"]]
  OBVIOUS
<1>5. /\ s \in Seq(BookEntry) /\ Len(s) = Len(books)
      /\ \A j \in 1..Len(books) : s[j] = IF j = k THEN [books[k] EXCEPT !.status = "voided"] ELSE books[j]
  BY <1>1, <1>2, <1>4, ExceptSeq
<1>6. PICK m \in BookEntry : m = MirrorOf(k, day)
  BY <1>3
<1>7. /\ books' = Append(s, m) /\ Len(books) < MaxEntries
      /\ Append(s, m) \in Seq(BookEntry) /\ Len(Append(s, m)) = Len(s) + 1
      /\ \A j \in 1..Len(s) : Append(s, m)[j] = s[j]
      /\ Append(s, m)[Len(s) + 1] = m
  <2>1. books' = Append(s, m) /\ Len(books) < MaxEntries
    BY <1>4, <1>6 DEF VoidEntry, MirrorOf
  <2>2. QED
    BY <1>5, <2>1, AppendProperties
<1>8. \A j \in 1..Len(books) : Kept(books[j], s[j]) /\ books'[j] = s[j]
  <2>1. TAKE j \in 1..Len(books)
  <2>2. books'[j] = s[j]
    BY <1>5, <1>7
  <2>3. CASE j = k
    BY <1>1, <1>5, <2>2, <2>3 DEF Kept, BookEntry
  <2>4. CASE j # k
    BY <1>5, <2>2, <2>4 DEF Kept
  <2>5. QED
    BY <2>2, <2>3, <2>4
<1>9. books'[k] = [books[k] EXCEPT !.status = "voided"]
  BY <1>1, <1>5, <1>8
<1>10. books'[k].status = "voided" /\ books'[k].doc = books[k].doc
  BY <1>1, <1>9 DEF BookEntry
<1>11. QED
  BY <1>5, <1>6, <1>7, <1>8, <1>10 DEF GrowsBy

LEMMA CreateAdds ==
  ASSUME ReportsTypeOK, NEW kind \in Kinds, NEW day \in Days, NEW due \in Days,
         NEW n \in Totals, CreateDocument(kind, day, due, n)
  PROVE  /\ UNCHANGED <<books, snapshots>>
         /\ docs' \in Seq(Doc) /\ Len(docs') = Len(docs) + 1 /\ Len(docs) < MaxDocs
         /\ docs'[Len(docs) + 1] =
              [kind |-> kind, day |-> day, due |-> due, total |-> n, balance |-> n, status |-> "draft"]
         /\ \A i \in 1..Len(docs) : docs'[i] = docs[i]
<1>1. PICK x : x = [kind |-> kind, day |-> day, due |-> due, total |-> n, balance |-> n, status |-> "draft"]
  OBVIOUS
<1>2. x \in Doc
  <2>1. n \in Nat
    BY ReportsAssumption
  <2>2. QED
    BY <1>1, <2>1 DEF Doc
<1>3. docs \in Seq(Doc)
  BY DEF ReportsTypeOK
<1>4. /\ docs' = Append(docs, x) /\ Len(docs) < MaxDocs
      /\ books' = books /\ snapshots' = snapshots
  BY <1>1 DEF CreateDocument
<1>5. /\ Append(docs, x) \in Seq(Doc) /\ Len(Append(docs, x)) = Len(docs) + 1
      /\ \A i \in 1..Len(docs) : Append(docs, x)[i] = docs[i]
      /\ Append(docs, x)[Len(docs) + 1] = x
  BY <1>2, <1>3, AppendProperties
<1>6. QED
  BY <1>1, <1>4, <1>5

(* Posting and paying change one document. *)
Changed(i, x) ==
  /\ docs' \in Seq(Doc) /\ Len(docs') = Len(docs)
  /\ \A j \in 1..Len(docs) : docs'[j] = IF j = i THEN x ELSE docs[j]

LEMMA PostChanges ==
  ASSUME ReportsTypeOK, NEW i \in DOMAIN docs, NEW a \in ChartAccounts,
         PostDocument(i, a)
  PROVE  /\ Changed(i, [docs[i] EXCEPT !.status = "posted"]) /\ UNCHANGED snapshots
         /\ docs[i].status = "draft" /\ a \in Other(docs[i].kind)
<1>1. docs \in Seq(Doc) /\ i \in 1..Len(docs) /\ docs[i] \in Doc
  BY PaperAt
<1>2. PICK x \in Doc : x = [docs[i] EXCEPT !.status = "posted"]
  BY <1>1 DEF Doc
<1>3. /\ docs' = [docs EXCEPT ![i] = x] /\ snapshots' = snapshots
      /\ docs[i].status = "draft" /\ a \in Other(docs[i].kind)
  BY <1>2 DEF PostDocument
<1>4. Changed(i, x)
  BY <1>1, <1>3, ExceptSeq DEF Changed
<1>5. QED
  BY <1>2, <1>3, <1>4

LEMMA PayChanges ==
  ASSUME ReportsTypeOK, NEW i \in DOMAIN docs, NEW day \in Days, NEW n \in Amounts,
         Pay(i, day, n)
  PROVE  /\ Changed(i, Paid(docs[i], n)) /\ UNCHANGED snapshots
         /\ docs[i].status \in {"posted", "partial"} /\ n \in Nat \ {0} /\ n <= docs[i].balance
<1>1. docs \in Seq(Doc) /\ i \in 1..Len(docs) /\ docs[i] \in Doc
  BY PaperAt
<1>2. /\ docs' = [docs EXCEPT ![i] = Paid(docs[i], n)] /\ snapshots' = snapshots
      /\ docs[i].status \in {"posted", "partial"} /\ n <= docs[i].balance
  BY DEF Pay, MayPay, Open
<1>3. n \in Nat \ {0}
  BY ReportsAssumption
<1>4. PICK x \in Doc : x = Paid(docs[i], n)
  <2>1. docs[i].balance \in Nat
    BY <1>1, PaperIs
  <2>2. docs[i].balance - n \in Nat
    BY <1>2, <1>3, <2>1
  <2>3. Paid(docs[i], n) \in Doc
    BY <1>1, <2>2 DEF Paid, Doc
  <2>4. QED
    BY <2>3
<1>5. Changed(i, x)
  BY <1>1, <1>2, <1>4, ExceptSeq DEF Changed
<1>6. QED
  BY <1>2, <1>3, <1>4, <1>5

LEMMA SnapshotTaken ==
  ASSUME ReportsTypeOK, NEW d \in Days, TakeSnapshot(d)
  PROVE  /\ UNCHANGED <<books, docs>> /\ snapshots' \in [Days -> Snapshot \cup {NoSnapshot}]
         /\ snapshots'[d] = [worth |-> NetWorth(d), seen |-> Len(books)]
         /\ \A x \in Days : x # d => snapshots'[x] = snapshots[x]
<1>1. NetWorth(d) \in Int
  BY TotalIs DEF NetWorth
<1>2. Len(books) \in 0..MaxEntries
  <2>1. Len(books) \in Nat /\ Len(books) <= MaxEntries /\ MaxEntries \in Nat
    BY ReportsAssumption, BookedAt DEF ReportsTypeOK
  <2>2. QED
    BY <2>1
<1>3. PICK s \in Snapshot : s = [worth |-> NetWorth(d), seen |-> Len(books)]
  BY <1>1, <1>2 DEF Snapshot
<1>4. snapshots' = [snapshots EXCEPT ![d] = s] /\ books' = books /\ docs' = docs
  BY <1>3 DEF TakeSnapshot
<1>5. snapshots \in [Days -> Snapshot \cup {NoSnapshot}]
  BY DEF ReportsTypeOK
<1>6. QED
  BY <1>3, <1>4, <1>5

(* What a step does: it adds an entry, a document or a snapshot. *)
LEMMA ReportsType ==
  ASSUME ReportsTypeOK, [ReportsNext]_reportsVars
  PROVE  /\ ReportsTypeOK'
         /\ UNCHANGED books \/ ((\E e : GrowsBy(e)) /\ UNCHANGED snapshots)
<1>1. MaxEntries \in Nat /\ MaxDocs \in Nat /\ Len(books) \in Nat /\ Len(docs) \in Nat
  BY ReportsAssumption, BookedAt, PaperAt
<1>2. ASSUME NEW e, GrowsBy(e) PROVE books' \in Seq(BookEntry) /\ Len(books') <= MaxEntries
  BY <1>1, <1>2 DEF GrowsBy
<1>3. ASSUME NEW i, NEW x, Changed(i, x) PROVE docs' \in Seq(Doc) /\ Len(docs') <= MaxDocs
  BY <1>3 DEF Changed, ReportsTypeOK
<1>4. CASE UNCHANGED reportsVars
  BY <1>4 DEF reportsVars, ReportsTypeOK
<1>5. ASSUME NEW day \in Days, NEW m \in Manual, BookByHand(day, m)
      PROVE  ReportsTypeOK' /\ (\E e : GrowsBy(e)) /\ UNCHANGED snapshots
  BY <1>2, <1>5, BookGrows DEF BookByHand, ReportsTypeOK
<1>6. ASSUME NEW kind \in Kinds, NEW day \in Days, NEW due \in Days, NEW n \in Totals,
             CreateDocument(kind, day, due, n)
      PROVE  ReportsTypeOK' /\ UNCHANGED books
  <2>1. /\ UNCHANGED <<books, snapshots>> /\ docs' \in Seq(Doc)
        /\ Len(docs') = Len(docs) + 1 /\ Len(docs) < MaxDocs
    BY <1>6, CreateAdds
  <2>2. QED
    BY <1>1, <2>1 DEF ReportsTypeOK
<1>7. ASSUME NEW i \in DOMAIN docs, NEW day \in Days, NEW n \in Amounts, Pay(i, day, n)
      PROVE  ReportsTypeOK' /\ (\E e : GrowsBy(e)) /\ UNCHANGED snapshots
  BY <1>2, <1>3, <1>7, PayGrows, PayChanges DEF ReportsTypeOK
<1>8. ASSUME NEW i \in DOMAIN docs, NEW a \in ChartAccounts, PostDocument(i, a)
      PROVE  ReportsTypeOK' /\ (\E e : GrowsBy(e)) /\ UNCHANGED snapshots
  BY <1>2, <1>3, <1>8, PostGrows, PostChanges DEF ReportsTypeOK
<1>9. ASSUME NEW k \in DOMAIN books, NEW day \in Days, VoidEntry(k, day)
      PROVE  ReportsTypeOK' /\ (\E e : GrowsBy(e)) /\ UNCHANGED snapshots
  BY <1>2, <1>9, VoidGrows DEF VoidEntry, ReportsTypeOK
<1>10. ASSUME NEW d \in Days, TakeSnapshot(d)
       PROVE  ReportsTypeOK' /\ UNCHANGED books
  BY <1>10, SnapshotTaken DEF ReportsTypeOK
<1>11. QED
  BY <1>4, <1>5, <1>6, <1>7, <1>8, <1>9, <1>10 DEF ReportsNext

LEMMA GrowsTo ==
  ASSUME ReportsTypeOK, NEW e, GrowsBy(e)
  PROVE  /\ DOMAIN books = 1..Len(books) /\ DOMAIN books' = 1..(Len(books) + 1) /\ Len(books) \in Nat
         /\ books'[Len(books) + 1] = e /\ e \in BookEntry /\ InReports(e)
         /\ \A k \in DOMAIN books' : books'[k] \in BookEntry /\ InReports(books'[k])
         /\ \A k \in DOMAIN books : /\ k \in DOMAIN books' /\ k # Len(books) + 1 /\ k <= Len(books)
                                     /\ books[k] \in BookEntry /\ Kept(books[k], books'[k])
<1>1. /\ books' \in Seq(BookEntry) /\ Len(books') = Len(books) + 1 /\ books'[Len(books) + 1] = e
      /\ e \in BookEntry /\ \A k \in 1..Len(books) : Kept(books[k], books'[k])
  BY DEF GrowsBy
<1>2. /\ Len(books) \in Nat /\ DOMAIN books = 1..Len(books)
      /\ \A k \in DOMAIN books : books[k] \in BookEntry
  BY BookedAt
<1>3. DOMAIN books' = 1..(Len(books) + 1)
  <2>1. PICK s \in Seq(BookEntry) : s = books'
    BY <1>1
  <2>2. DOMAIN s = 1..Len(s)
    BY <2>1, LenProperties
  <2>3. QED
    BY <1>1, <2>1, <2>2
<1>4. \A k \in DOMAIN books' : books'[k] \in BookEntry
  <2>1. PICK s \in Seq(BookEntry) : s = books'
    BY <1>1
  <2>2. \A k \in 1..Len(s) : s[k] \in BookEntry
    BY <2>1, ElementOfSeq
  <2>3. QED
    BY <1>1, <1>3, <2>1, <2>2
<1>5. \A x \in BookEntry : InReports(x)
  BY EntryIs
<1>6. QED
  BY <1>1, <1>2, <1>3, <1>4, <1>5

LEMMA MovesOne ==
  ASSUME NEW e \in BookEntry, NEW x \in BookEntry, Kept(e, x)
  PROVE  /\ \A from, to : Within(x, from, to) <=> Within(e, from, to)
         /\ \A accts : Effect(x, accts) = Effect(e, accts)
         /\ x.day = e.day /\ x.doc = e.doc
BY DEF Kept, Within, Effect

(* A new entry adds what it moves to every total that its day is part of. *)
LEMMA TotalGrows ==
  ASSUME ReportsTypeOK, NEW e, GrowsBy(e), NEW accts, NEW from, NEW to
  PROVE  Total(accts, from, to)' =
           Total(accts, from, to) + (IF Within(e, from, to) THEN Effect(e, accts) ELSE 0)
<1>1. PICK n, f : n = Len(books) /\ f = Moves(accts, from, to)
  OBVIOUS
<1> n \in Nat /\ f \in [1..n -> Int]
  BY <1>1, TotalIs, BookedAt
<1>2. PICK g : g = [k \in DOMAIN books' |->
                      IF InReports(books'[k]) /\ Within(books'[k], from, to)
                      THEN Effect(books'[k], accts) ELSE 0]
  OBVIOUS
<1>3. Total(accts, from, to)' = SumOver(g)
  BY <1>2 DEF Total
<1>4. ASSUME NEW k \in DOMAIN books'
      PROVE  g[k] = (IF Within(books'[k], from, to) THEN Effect(books'[k], accts) ELSE 0)
  <2>1. InReports(books'[k])
    BY GrowsTo
  <2>2. QED
    BY <1>2, <2>1
<1>5. g \in [1..(n + 1) -> Int]
  <2>1. \A k \in DOMAIN books' : Effect(books'[k], accts) \in Int
    BY GrowsTo, EntryIs
  <2>2. \A k \in DOMAIN books' : g[k] \in Int
    BY <1>4, <2>1
  <2>3. DOMAIN books' = 1..(n + 1)
    BY <1>1, GrowsTo
  <2>4. QED
    BY <1>2, <2>2, <2>3
<1>6. \A k \in 1..n : g[k] = f[k]
  <2>1. TAKE k \in 1..n
  <2>2. k \in DOMAIN books /\ k \in DOMAIN books' /\ Kept(books[k], books'[k])
        /\ books[k] \in BookEntry /\ books'[k] \in BookEntry
    BY <1>1, GrowsTo
  <2>3. /\ Within(books'[k], from, to) <=> Within(books[k], from, to)
        /\ Effect(books'[k], accts) = Effect(books[k], accts)
    BY <2>2, MovesOne
  <2>4. f[k] = (IF Within(books[k], from, to) THEN Effect(books[k], accts) ELSE 0)
    BY <1>1, <2>2 DEF Moves
  <2>5. QED
    BY <1>4, <2>2, <2>3, <2>4
<1>7. SumOver(g) = SumOver(f) + g[n + 1]
  BY <1>5, <1>6, SumAppended
<1>8. g[n + 1] = (IF Within(e, from, to) THEN Effect(e, accts) ELSE 0)
  <2>1. n + 1 \in DOMAIN books' /\ books'[n + 1] = e
    BY <1>1, GrowsTo
  <2>2. QED
    BY <1>4, <2>1
<1>9. QED
  BY <1>1, <1>3, <1>7, <1>8, TotalIs

-----------------------------------------------------------------------------
(* Snapshots. *)

(* What the entries after the first n add to the net worth of day d. *)
Since(n, d) ==
  SumOver([k \in DOMAIN books |->
     IF k > n /\ books[k].day <= d
     THEN Effect(books[k], OfType["asset"]) - Effect(books[k], OfType["liability"]) ELSE 0])

LEMMA SinceGrows ==
  ASSUME ReportsTypeOK, NEW e, GrowsBy(e), NEW n \in Nat, n <= Len(books), NEW d \in Days
  PROVE  /\ Since(n, d)' = Since(n, d) +
              (IF e.day <= d THEN Effect(e, OfType["asset"]) - Effect(e, OfType["liability"])
                             ELSE 0)
         /\ Since(n, d) \in Int
<1> DEFINE worth(x) == Effect(x, OfType["asset"]) - Effect(x, OfType["liability"])
           term(k, x) == IF k > n /\ x.day <= d THEN worth(x) ELSE 0
<1>1. \A x \in BookEntry : worth(x) \in Int /\ x.day \in Nat
  BY EntryIs
<1>2. ASSUME NEW x \in BookEntry, NEW y \in BookEntry, Kept(x, y)
      PROVE  worth(y) = worth(x) /\ y.day = x.day
  BY <1>2, MovesOne
<1> HIDE DEF worth
<1>3. PICK f : f = [k \in DOMAIN books |-> term(k, books[k])]
  OBVIOUS
<1>4. PICK g : g = [k \in DOMAIN books' |-> term(k, books'[k])]
  OBVIOUS
<1>5. Since(n, d) = SumOver(f) /\ Since(n, d)' = SumOver(g)
  BY <1>3, <1>4 DEF Since, worth
<1>6. PICK m \in Nat : m = Len(books)
  BY BookedAt
<1>7. f \in [1..m -> Int]
  BY <1>1, <1>3, <1>6, GrowsTo
<1>8. g \in [1..(m + 1) -> Int]
  BY <1>1, <1>4, <1>6, GrowsTo
<1>9. \A k \in 1..m : g[k] = f[k]
  <2>1. TAKE k \in 1..m
  <2>2. k \in DOMAIN books /\ k \in DOMAIN books' /\ Kept(books[k], books'[k])
        /\ books[k] \in BookEntry /\ books'[k] \in BookEntry
    BY <1>6, GrowsTo
  <2>3. QED
    BY <1>2, <1>3, <1>4, <2>2
<1>10. SumOver(g) = SumOver(f) + g[m + 1]
  BY <1>7, <1>8, <1>9, SumAppended
<1>11. g[m + 1] = IF e.day <= d THEN worth(e) ELSE 0
  <2>1. m + 1 \in DOMAIN books' /\ books'[m + 1] = e /\ m + 1 > n
    BY <1>6, GrowsTo
  <2>2. QED
    BY <1>4, <2>1
<1>12. SumOver(f) \in Int
  <2>1. IsFiniteSet(1..m)
    BY FS_Interval
  <2>2. QED
    BY <1>7, <2>1, SumInt
<1>13. QED
  BY <1>5, <1>10, <1>11, <1>12 DEF worth

(* Nothing is missing from a snapshot that is taken now. *)
LEMMA SinceNow ==
  ASSUME ReportsTypeOK, NEW d \in Days
  PROVE  Since(Len(books), d) = 0
<1>1. PICK f : f = [k \in DOMAIN books |->
     IF k > Len(books) /\ books[k].day <= d
     THEN Effect(books[k], OfType["asset"]) - Effect(books[k], OfType["liability"]) ELSE 0]
  OBVIOUS
<1>2. \A k \in DOMAIN books : f[k] = 0
  BY <1>1, BookedAt
<1>3. f \in [DOMAIN books -> Int]
  BY <1>1, <1>2
<1>4. SumOver(f) = 0
  BY <1>2, <1>3, BookedAt, SumZero
<1>5. QED
  BY <1>1, <1>4 DEF Since

(* What is stored for a day and what is computed now differ by the entries *)
(* since, and there were no more entries then than now.                    *)
SnapshotsInv ==
  \A d \in Days : snapshots[d] # NoSnapshot =>
    /\ snapshots[d].worth \in Int /\ snapshots[d].seen \in Nat /\ snapshots[d].seen <= Len(books)
    /\ NetWorth(d) - snapshots[d].worth = Since(snapshots[d].seen, d)

LEMMA SnapshotsInit == ReportsInit => SnapshotsInv
BY DEF ReportsInit, SnapshotsInv

LEMMA SnapshotsKept ==
  ASSUME ReportsTypeOK, SnapshotsInv, NEW e, GrowsBy(e), UNCHANGED snapshots
  PROVE  SnapshotsInv'
<1>1. SUFFICES ASSUME NEW d \in Days, snapshots[d] # NoSnapshot
               PROVE  /\ snapshots[d].worth \in Int /\ snapshots[d].seen \in Nat
                      /\ snapshots[d].seen <= Len(books')
                      /\ NetWorth(d)' - snapshots[d].worth = Since(snapshots[d].seen, d)'
  BY DEF SnapshotsInv
<1>2. PICK n \in Nat, w \in Int : n = snapshots[d].seen /\ w = snapshots[d].worth
  BY <1>1 DEF SnapshotsInv
<1>3. n <= Len(books) /\ NetWorth(d) - w = Since(n, d)
  BY <1>1, <1>2 DEF SnapshotsInv
<1>4. PICK a \in Int, l \in Int : /\ a = Effect(e, OfType["asset"])
                                  /\ l = Effect(e, OfType["liability"])
  BY GrowsTo, EntryIs
<1>5. Within(e, First, d) <=> e.day <= d
  BY GrowsTo, EntryIs, FirstIs DEF Within
<1>6. /\ Total(OfType["asset"], First, d)' =
           Total(OfType["asset"], First, d) + (IF e.day <= d THEN a ELSE 0)
      /\ Total(OfType["liability"], First, d)' =
           Total(OfType["liability"], First, d) + (IF e.day <= d THEN l ELSE 0)
  BY <1>4, <1>5, TotalGrows
<1>7. /\ Total(OfType["asset"], First, d) \in Int
      /\ Total(OfType["liability"], First, d) \in Int
  BY TotalIs
<1>8. Since(n, d)' = Since(n, d) + (IF e.day <= d THEN a - l ELSE 0) /\ Since(n, d) \in Int
  BY <1>3, <1>4, SinceGrows
<1>9. NetWorth(d)' - w = Since(n, d)'
  BY <1>3, <1>6, <1>7, <1>8 DEF NetWorth
<1>10. Len(books') = Len(books) + 1 /\ Len(books) \in Nat
  BY BookedAt DEF GrowsBy
<1>11. Since(n, d)' = Since(snapshots[d].seen, d)'
  BY <1>2
<1>12. QED
  BY <1>2, <1>3, <1>9, <1>10, <1>11

LEMMA SnapshotsTaken ==
  ASSUME ReportsTypeOK, SnapshotsInv, NEW d \in Days, TakeSnapshot(d)
  PROVE  SnapshotsInv'
<1>1. SUFFICES ASSUME NEW x \in Days, snapshots'[x] # NoSnapshot
               PROVE  /\ snapshots'[x].worth \in Int /\ snapshots'[x].seen \in Nat
                      /\ snapshots'[x].seen <= Len(books')
                      /\ NetWorth(x)' - snapshots'[x].worth = Since(snapshots[x].seen, x)'
  BY DEF SnapshotsInv
<1>2. books' = books /\ snapshots'[d] = [worth |-> NetWorth(d), seen |-> Len(books)]
      /\ \A y \in Days : y # d => snapshots'[y] = snapshots[y]
  BY SnapshotTaken
<1>3. NetWorth(x)' = NetWorth(x)
  BY <1>2 DEF NetWorth, Total
<1>4. PICK n : n = snapshots'[x].seen
  OBVIOUS
<1>5. Since(snapshots[x].seen, x)' = Since(n, x)
  BY <1>2, <1>4 DEF Since
<1>6. NetWorth(d) \in Int /\ Len(books) \in Nat
  BY TotalIs, BookedAt DEF NetWorth
<1>7. CASE x = d
  <2>1. snapshots'[x].worth = NetWorth(x) /\ n = Len(books)
    BY <1>2, <1>4, <1>7
  <2>2. NetWorth(x) - NetWorth(x) = 0
    BY <1>6, <1>7
  <2>3. Since(n, x) = 0
    BY <2>1, SinceNow
  <2>4. QED
    BY <1>2, <1>3, <1>4, <1>5, <1>6, <1>7, <2>1, <2>2, <2>3
<1>8. CASE x # d
  <2>1. snapshots'[x] = snapshots[x]
    BY <1>2, <1>8
  <2>2. /\ snapshots[x].worth \in Int /\ n \in Nat /\ n <= Len(books)
        /\ NetWorth(x) - snapshots[x].worth = Since(n, x)
    BY <1>1, <1>4, <2>1 DEF SnapshotsInv
  <2>3. QED
    BY <1>2, <1>3, <1>4, <1>5, <2>1, <2>2
<1>9. QED
  BY <1>7, <1>8

LEMMA SnapshotsStep ==
  ASSUME ReportsTypeOK, SnapshotsInv, [ReportsNext]_reportsVars
  PROVE  SnapshotsInv'
<1>1. CASE UNCHANGED <<books, snapshots>>
  BY <1>1 DEF SnapshotsInv, Since, NetWorth, Total
<1>2. ASSUME NEW d \in Days, TakeSnapshot(d) PROVE SnapshotsInv'
  BY <1>2, SnapshotsTaken
<1>3. ASSUME NEW e, GrowsBy(e), UNCHANGED snapshots PROVE SnapshotsInv'
  BY <1>3, SnapshotsKept
<1>4. \/ UNCHANGED <<books, snapshots>>
      \/ \E d \in Days : TakeSnapshot(d)
      \/ (\E e : GrowsBy(e)) /\ UNCHANGED snapshots
  <2>1. CASE UNCHANGED books
    <3>1. \/ UNCHANGED reportsVars
          \/ \E d \in Days : TakeSnapshot(d)
          \/ UNCHANGED snapshots
      BY DEF ReportsNext, BookByHand, CreateDocument, Pay, PostDocument, VoidEntry
    <3>2. QED
      BY <2>1, <3>1 DEF reportsVars
  <2>2. QED
    BY <2>1, ReportsType
<1>5. QED
  BY <1>1, <1>2, <1>3, <1>4

LEMMA SnapshotsSay ==
  ASSUME SnapshotsInv
  PROVE  SnapshotsExplained
<1>1. SUFFICES ASSUME NEW d \in Days, snapshots[d] # NoSnapshot
               PROVE  NetWorth(d) - snapshots[d].worth =
                        SumOver([k \in DOMAIN books |->
                          IF k > snapshots[d].seen /\ books[k].day <= d
                          THEN Effect(books[k], OfType["asset"])
                             - Effect(books[k], OfType["liability"]) ELSE 0])
  BY DEF SnapshotsExplained
<1>2. NetWorth(d) - snapshots[d].worth = Since(snapshots[d].seen, d)
  BY <1>1 DEF SnapshotsInv
<1>3. QED
  BY <1>2 DEF Since

LEMMA ReportsStart == ReportsInit => ReportsTypeOK
BY ReportsAssumption, EmptySeq DEF ReportsInit, ReportsTypeOK

(* The net worth that was stored for a day is explained: it differs from   *)
(* the one computed now by what was booked since, voiding included         *)
(* (create_net_worth_snapshot, explain_net_worth_change).                  *)
THEOREM ReportsSnapshotsExplained ==
  ReportsSpec => [](ReportsTypeOK /\ SnapshotsExplained)
<1>1. ReportsInit => ReportsTypeOK /\ SnapshotsInv
  BY ReportsStart, SnapshotsInit
<1>2. ReportsTypeOK /\ SnapshotsInv /\ [ReportsNext]_reportsVars => ReportsTypeOK' /\ SnapshotsInv'
  BY ReportsType, SnapshotsStep
<1>3. ReportsTypeOK /\ SnapshotsInv => ReportsTypeOK /\ SnapshotsExplained
  BY SnapshotsSay
<1>4. QED
  BY <1>1, <1>2, <1>3, PTL DEF ReportsSpec

-----------------------------------------------------------------------------
(* Lists of documents. *)

(* What a document adds to the aging and to the billing reports. *)
OpenPart(x, kind) == IF x.kind = kind /\ Open(x) THEN x.balance ELSE 0
BilledPart(x, kind, from, to) ==
  IF x.kind = kind /\ x.status # "draft" /\ from <= x.day /\ x.day <= to THEN x.total ELSE 0

LEMMA PartsInt ==
  ASSUME NEW x \in Doc, NEW kind
  PROVE  /\ OpenPart(x, kind) \in Int
         /\ \A from, to : BilledPart(x, kind, from, to) \in Int
<1>1. x.balance \in Int /\ x.total \in Int
  BY PaperIs
<1>2. QED
  BY <1>1 DEF OpenPart, BilledPart

LEMMA AgingIs ==
  ASSUME NEW kind
  PROVE  /\ AgingTotal(kind) = SumOver([i \in DOMAIN docs |-> OpenPart(docs[i], kind)])
         /\ AgingTotal(kind)' = SumOver([i \in DOMAIN docs' |-> OpenPart(docs'[i], kind)])
BY DEF AgingTotal, SumOfDocs, OpenPart

LEMMA BilledIs ==
  ASSUME NEW kind, NEW from, NEW to
  PROVE  /\ Billed(kind, from, to) =
              SumOver([i \in DOMAIN docs |-> BilledPart(docs[i], kind, from, to)])
         /\ Billed(kind, from, to)' =
              SumOver([i \in DOMAIN docs' |-> BilledPart(docs'[i], kind, from, to)])
BY DEF Billed, SumOfDocs, BilledPart

(* The sums over documents when one is changed, or added. *)
LEMMA OneChanges ==
  ASSUME ReportsTypeOK, NEW i \in DOMAIN docs, NEW x, Changed(i, x),
         NEW part \in [Doc -> Int]
  PROVE  /\ SumOver([j \in DOMAIN docs' |-> part[docs'[j]]]) =
              SumOver([j \in DOMAIN docs |-> part[docs[j]]]) - part[docs[i]] + part[x]
         /\ SumOver([j \in DOMAIN docs |-> part[docs[j]]]) \in Int
         /\ x \in Doc /\ DOMAIN docs' = DOMAIN docs /\ docs'[i] = x
         /\ \A j \in DOMAIN docs : docs'[j] \in Doc
<1>1. PICK t \in Seq(Doc) : t = docs' /\ Len(t) = Len(docs)
  BY DEF Changed
<1>2. PICK s, D : s = docs /\ D = DOMAIN docs
  OBVIOUS
<1>3. IsFiniteSet(D) /\ D = 1..Len(docs) /\ s \in [D -> Doc] /\ i \in D
  BY <1>2, PaperAt, LenProperties
<1>4. t \in [D -> Doc] /\ DOMAIN t = D
  BY <1>1, <1>3, LenProperties
<1>5. t[i] = x /\ \A j \in D : j # i => t[j] = s[j]
  BY <1>1, <1>2, <1>3 DEF Changed
<1>6. PICK f, g : f = [j \in D |-> part[s[j]]] /\ g = [j \in D |-> part[t[j]]]
  OBVIOUS
<1>7. /\ IsFiniteSet(D) /\ i \in D /\ f \in [D -> Int] /\ g \in [D -> Int]
      /\ \A j \in D : j # i => g[j] = f[j]
  BY <1>3, <1>4, <1>5, <1>6
<1>8. SumOver(g) = SumOver(f) - f[i] + g[i] /\ SumOver(f) \in Int
  <2>1. SumOver(g) = SumOver(f) - f[i] + g[i]
    BY <1>7, SumChange
  <2>2. SumOver(f) \in Int
    BY <1>7, SumInt
  <2>3. QED
    BY <2>1, <2>2
<1>9. f[i] = part[s[i]] /\ g[i] = part[t[i]]
  BY <1>6, <1>7
<1>10. x \in Doc
  BY <1>3, <1>4, <1>5
<1>11. \A j \in D : t[j] \in Doc
  BY <1>4
<1>12. QED
  BY <1>1, <1>2, <1>4, <1>5, <1>6, <1>7, <1>8, <1>9, <1>10, <1>11

LEMMA OneMore ==
  ASSUME ReportsTypeOK, NEW x \in Doc,
         docs' \in Seq(Doc), Len(docs') = Len(docs) + 1, docs'[Len(docs) + 1] = x,
         \A j \in 1..Len(docs) : docs'[j] = docs[j],
         NEW part \in [Doc -> Int]
  PROVE  /\ SumOver([j \in DOMAIN docs' |-> part[docs'[j]]]) =
              SumOver([j \in DOMAIN docs |-> part[docs[j]]]) + part[x]
         /\ SumOver([j \in DOMAIN docs |-> part[docs[j]]]) \in Int
         /\ \A j \in DOMAIN docs' : docs'[j] \in Doc
<1>1. PICK s \in Seq(Doc) : s = docs'
  OBVIOUS
<1>2. PICK n \in Nat : n = Len(docs) /\ DOMAIN docs = 1..n /\ \A j \in 1..n : docs[j] \in Doc
  BY PaperAt
<1>3. DOMAIN docs' = 1..(n + 1) /\ \A j \in 1..(n + 1) : docs'[j] \in Doc
  BY <1>1, <1>2, LenProperties, ElementOfSeq
<1>4. PICK f, g : /\ f = [j \in 1..n |-> part[docs[j]]]
                  /\ g = [j \in 1..(n + 1) |-> part[docs'[j]]]
  OBVIOUS
<1>5. f \in [1..n -> Int] /\ g \in [1..(n + 1) -> Int] /\ \A j \in 1..n : g[j] = f[j]
  BY <1>2, <1>3, <1>4
<1>6. SumOver(g) = SumOver(f) + g[n + 1]
  BY <1>5, SumAppended
<1>7. n + 1 \in 1..(n + 1)
  OBVIOUS
<1>8. SumOver(f) \in Int
  <2>1. IsFiniteSet(1..n)
    BY FS_Interval
  <2>2. QED
    BY <1>5, <2>1, SumInt
<1>9. QED
  BY <1>2, <1>3, <1>4, <1>6, <1>7, <1>8

LEMMA EntriesSum ==
  ASSUME ReportsTypeOK, NEW e, GrowsBy(e),
         NEW f \in [DOMAIN books -> Int], NEW g, g \in [DOMAIN books' -> Int],
         \A k \in DOMAIN books : g[k] = f[k]
  PROVE  SumOver(g) = SumOver(f) + g[Len(books) + 1] /\ SumOver(f) \in Int /\ g[Len(books) + 1] \in Int
<1>1. PICK n \in Nat : n = Len(books)
  BY BookedAt
<1>2. DOMAIN books = 1..n /\ DOMAIN books' = 1..(n + 1) /\ n + 1 \in 1..(n + 1)
  BY <1>1, GrowsTo
<1>3. SumOver(g) = SumOver(f) + g[n + 1]
  <2>1. f \in [1..n -> Int] /\ g \in [1..(n + 1) -> Int] /\ \A k \in 1..n : g[k] = f[k]
    BY <1>2
  <2>2. QED
    BY <2>1, SumAppended
<1>4. SumOver(f) \in Int
  BY BookedAt, SumInt
<1>5. QED
  BY <1>1, <1>2, <1>3, <1>4

-----------------------------------------------------------------------------
(* The subledgers. *)

LEMMA Controls ==
  /\ Control("invoice") = "1200" /\ Control("bill") = "2100" /\ Kinds = {"invoice", "bill"}
         /\ Chart["1200"].type = "asset" /\ Chart["1110"].type = "asset" /\ Chart["2100"].type = "liability"
         /\ Other("invoice") = OfType["income"]
         /\ Other("bill") = OfType["expense"] \cup OfType["asset"]
         /\ \A a : /\ a \in OfType["income"] => Chart[a].type = "income" /\ a \in ChartAccounts
                   /\ a \in OfType["expense"] <=> a \in ChartAccounts /\ Chart[a].type = "expense"
                   /\ a \in OfType["asset"] <=> a \in ChartAccounts /\ Chart[a].type = "asset"
                   /\ a \in OfType["income"] <=> a \in ChartAccounts /\ Chart[a].type = "income"
BY ReportsAssumption DEF Control, Kinds, Other, OfType, Types

(* Entries name documents that exist, and a draft is not paid. *)
PapersInv ==
  /\ \A k \in DOMAIN books : books[k].doc <= Len(docs)
  /\ \A i \in DOMAIN docs : docs[i].status = "draft" => docs[i].balance = docs[i].total

(* An entry is that of a document, or that of its payment, or of none. *)
Touches(e, kind) == Control(kind) \in {e.debit, e.credit}

LEMMA Untouched ==
  ASSUME NEW e \in BookEntry, NEW kind, ~Touches(e, kind)
  PROVE  Effect(e, {Control(kind)}) = 0
BY DEF Touches, Effect

(* What documents are, of whatever was billed and paid meanwhile. *)
PapersKept ==
  /\ \A i \in DOMAIN docs : i \in DOMAIN docs' /\ docs'[i].kind = docs[i].kind
  /\ Len(docs) <= Len(docs')

LEMMA OwnBefore ==
  ASSUME ReportsTypeOK, PapersInv, PapersKept, OwnControls',
         UNCHANGED books \/ \E e : GrowsBy(e)
  PROVE  OwnControls
<1>1. \A k \in DOMAIN books : /\ k \in DOMAIN books' /\ books[k] \in BookEntry
                               /\ Kept(books[k], books'[k])
  <2>1. CASE UNCHANGED books
    BY <2>1, BookedAt DEF Kept
  <2>2. ASSUME NEW e, GrowsBy(e)
        PROVE  \A k \in DOMAIN books : /\ k \in DOMAIN books' /\ books[k] \in BookEntry
                                        /\ Kept(books[k], books'[k])
    BY <2>2, GrowsTo
  <2>3. QED
    BY <2>1, <2>2
<1>2. SUFFICES ASSUME NEW k \in DOMAIN books
               PROVE  /\ books[k].status = "voided" => books[k].doc = 0
                      /\ \A kind \in Kinds : Control(kind) \in {books[k].debit, books[k].credit} =>
                           books[k].doc # 0 /\ docs[books[k].doc].kind = kind
  BY DEF OwnControls
<1>3. /\ books'[k].status = "voided" => books'[k].doc = 0
      /\ \A kind \in Kinds : Control(kind) \in {books'[k].debit, books'[k].credit} =>
           books'[k].doc # 0 /\ docs'[books'[k].doc].kind = kind
  BY <1>1 DEF OwnControls
<1>4. /\ books'[k].debit = books[k].debit /\ books'[k].credit = books[k].credit
      /\ books'[k].doc = books[k].doc /\ books'[k].status \in {books[k].status, "voided"}
  BY <1>1 DEF Kept
<1>5. books[k].doc # 0 => books[k].doc \in DOMAIN docs
  <2>1. books[k].doc \in Nat /\ books[k].doc <= Len(docs)
    BY <1>1, EntryIs DEF PapersInv
  <2>2. QED
    BY <2>1, PaperAt
<1>6. books[k].doc # 0 => docs'[books[k].doc].kind = docs[books[k].doc].kind
  BY <1>5 DEF PapersKept
<1>7. QED
  BY <1>3, <1>4, <1>6

(* What documents are open is what the control accounts hold, and what was *)
(* billed is what the entries of documents say.                            *)
HeldBy(kind) == SumOver([k \in DOMAIN books |-> Effect(books[k], {Control(kind)})])

BookedPart(k, kind, from, to) ==
  IF Bills(books[k], kind) /\ Within(books[k], from, to)
  THEN Effect(books[k], Other(kind)) ELSE 0

BilledBy(kind, from, to) == SumOver([k \in DOMAIN books |-> BookedPart(k, kind, from, to)])

Agrees ==
  \A kind \in Kinds :
    /\ AgingTotal(kind) = HeldBy(kind)
    /\ \A from, to \in Days : Billed(kind, from, to) = BilledBy(kind, from, to)

SubledgersInv == PapersInv /\ (OwnControls => Agrees)

LEMMA HeldGrows ==
  ASSUME ReportsTypeOK, NEW e, GrowsBy(e), NEW kind
  PROVE  /\ HeldBy(kind)' = HeldBy(kind) + Effect(e, {Control(kind)})
         /\ HeldBy(kind) \in Int
<1>1. PICK f, g : /\ f = [k \in DOMAIN books |-> Effect(books[k], {Control(kind)})]
                  /\ g = [k \in DOMAIN books' |-> Effect(books'[k], {Control(kind)})]
  OBVIOUS
<1>2. f \in [DOMAIN books -> Int] /\ g \in [DOMAIN books' -> Int]
  BY <1>1, GrowsTo, EntryIs
<1>3. \A k \in DOMAIN books : g[k] = f[k]
  <2>1. TAKE k \in DOMAIN books
  <2>2. Effect(books'[k], {Control(kind)}) = Effect(books[k], {Control(kind)})
    BY GrowsTo, MovesOne
  <2>3. k \in DOMAIN books'
    BY GrowsTo
  <2>4. QED
    BY <1>1, <2>2, <2>3
<1>4. SumOver(g) = SumOver(f) + g[Len(books) + 1] /\ SumOver(f) \in Int
  BY <1>2, <1>3, EntriesSum
<1>5. g[Len(books) + 1] = Effect(e, {Control(kind)})
  <2>1. Len(books) + 1 \in DOMAIN books' /\ books'[Len(books) + 1] = e
    BY GrowsTo
  <2>2. QED
    BY <1>1, <2>1
<1>6. HeldBy(kind) = SumOver(f) /\ HeldBy(kind)' = SumOver(g)
  BY <1>1 DEF HeldBy
<1>7. QED
  BY <1>4, <1>5, <1>6

(* Which documents entries are for does not change. *)
LEMMA BillsKept ==
  ASSUME ReportsTypeOK, PapersInv, PapersKept, NEW k \in DOMAIN books,
         k \in DOMAIN books', Kept(books[k], books'[k]), books'[k] \in BookEntry,
         NEW kind, NEW from, NEW to
  PROVE  /\ BookedPart(k, kind, from, to)' = BookedPart(k, kind, from, to)
         /\ BookedPart(k, kind, from, to) \in Int
<1>1. PICK x \in BookEntry, y \in BookEntry : x = books[k] /\ y = books'[k]
  BY BookedAt
<1>2. y.doc = x.doc /\ y.debit = x.debit /\ y.credit = x.credit
  BY <1>1 DEF Kept
<1>3. x.doc # 0 => x.doc \in DOMAIN docs
  <2>1. x.doc \in Nat /\ x.doc <= Len(docs)
    BY <1>1, EntryIs DEF PapersInv
  <2>2. QED
    BY <2>1, PaperAt
<1>4. Bills(books[k], kind)' <=> Bills(books[k], kind)
  BY <1>1, <1>2, <1>3 DEF Bills, PapersKept
<1>5. /\ Within(y, from, to) <=> Within(x, from, to)
      /\ Effect(y, Other(kind)) = Effect(x, Other(kind))
  BY <1>1, MovesOne
<1>6. Effect(x, Other(kind)) \in Int
  BY EntryIs
<1>7. BookedPart(k, kind, from, to) \in Int
  BY <1>1, <1>6 DEF BookedPart
<1>8. Within(books[k], from, to)' <=> Within(books[k], from, to)
  BY <1>1, <1>5
<1>9. Effect(books[k], Other(kind))' = Effect(books[k], Other(kind))
  BY <1>1, <1>5
<1>10. QED
  BY <1>4, <1>7, <1>8, <1>9 DEF BookedPart

LEMMA BilledGrows ==
  ASSUME ReportsTypeOK, PapersInv, PapersKept, NEW e, GrowsBy(e),
         NEW kind, NEW from, NEW to, NEW n \in Int,
         n = (IF Bills(e, kind)' /\ Within(e, from, to) THEN Effect(e, Other(kind)) ELSE 0)
  PROVE  /\ BilledBy(kind, from, to)' = BilledBy(kind, from, to) + n
         /\ BilledBy(kind, from, to) \in Int
<1>1. PICK f, g : /\ f = [k \in DOMAIN books |-> BookedPart(k, kind, from, to)]
                  /\ g = [k \in DOMAIN books' |-> BookedPart(k, kind, from, to)']
  OBVIOUS
<1>2. PICK l \in Nat : l = Len(books) + 1
  BY BookedAt
<1>3. l \in DOMAIN books' /\ books'[l] = e /\ DOMAIN books' = DOMAIN books \cup {l}
  <2>1. DOMAIN books = 1..(l - 1) /\ DOMAIN books' = 1..l /\ books'[l] = e /\ l - 1 \in Nat
    BY <1>2, GrowsTo
  <2>2. QED
    BY <2>1
<1>4. \A k \in DOMAIN books : /\ BookedPart(k, kind, from, to)' = BookedPart(k, kind, from, to)
                               /\ BookedPart(k, kind, from, to) \in Int
  BY GrowsTo, BillsKept
<1>5. BookedPart(l, kind, from, to)' = n
  BY <1>3 DEF BookedPart
<1>6. f \in [DOMAIN books -> Int] /\ \A k \in DOMAIN books : f[k] = BookedPart(k, kind, from, to)
  BY <1>1, <1>4
<1>7. (\A k \in DOMAIN books : g[k] = f[k]) /\ g[l] = n
  BY <1>1, <1>3, <1>4, <1>5
<1>8. g \in [DOMAIN books' -> Int]
  <2>1. \A k \in DOMAIN books' : g[k] \in Int
    BY <1>3, <1>6, <1>7
  <2>2. QED
    BY <1>1, <2>1
<1>9. SumOver(g) = SumOver(f) + g[l] /\ SumOver(f) \in Int
  BY <1>2, <1>6, <1>7, <1>8, EntriesSum
<1>10. BilledBy(kind, from, to) = SumOver(f) /\ BilledBy(kind, from, to)' = SumOver(g)
  BY <1>1 DEF BilledBy
<1>11. QED
  BY <1>7, <1>9, <1>10

(* What a document's own entries do to the control accounts. *)
LEMMA PostingMovesTo ==
  ASSUME ReportsTypeOK, NEW i \in DOMAIN docs, NEW a \in ChartAccounts,
         a \in Other(docs[i].kind), NEW kind, kind = docs[i].kind
  PROVE  /\ Effect(PostingOf(i, a), {Control(kind)}) = docs[i].total
         /\ Effect(PostingOf(i, a), Other(kind)) = docs[i].total
         /\ Touches(PostingOf(i, a), kind) /\ PostingOf(i, a).doc = i /\ PostingOf(i, a).day = docs[i].day
         /\ IF kind = "invoice" THEN PostingOf(i, a).debit = "1200" ELSE PostingOf(i, a).credit = "2100"
<1>1. kind \in {"invoice", "bill"} /\ docs[i].total \in Int
  BY PaperAt, PaperIs
<1>2. PICK e, n : e = PostingOf(i, a) /\ n = docs[i].total
  OBVIOUS
<1> n \in Int
  BY <1>1, <1>2
<1>3. CASE kind = "invoice"
  <2>1. /\ e.debit = "1200" /\ e.credit = a /\ e.amount = n /\ e.doc = i /\ e.day = docs[i].day
    BY <1>2, <1>3 DEF PostingOf
  <2>2. Chart[a].type = "income" /\ a # "1200" /\ a \in OfType["income"] /\ "1200" \notin OfType["income"]
    BY <1>3, Controls
  <2>3. Signed("1200", n) = n /\ Signed(a, n) = -n
    BY <2>2, Controls DEF Signed
  <2>4. Control(kind) = "1200" /\ Other(kind) = OfType["income"]
    BY <1>3, Controls
  <2>5. Effect(e, {"1200"}) = n /\ Effect(e, OfType["income"]) = n
    BY <2>1, <2>2, <2>3 DEF Effect
  <2>6. QED
    BY <1>2, <1>3, <2>1, <2>4, <2>5 DEF Touches
<1>4. CASE kind = "bill"
  <2>1. /\ e.debit = a /\ e.credit = "2100" /\ e.amount = n /\ e.doc = i /\ e.day = docs[i].day
    BY <1>2, <1>4 DEF PostingOf
  <2>2. /\ Chart[a].type \in {"expense", "asset"} /\ a # "2100"
        /\ a \in OfType["expense"] \cup OfType["asset"]
        /\ "2100" \notin OfType["expense"] \cup OfType["asset"]
    BY <1>4, Controls
  <2>3. Signed("2100", n) = -n /\ Signed(a, n) = n
    BY <2>2, Controls DEF Signed
  <2>4. Control(kind) = "2100" /\ Other(kind) = OfType["expense"] \cup OfType["asset"]
    BY <1>4, Controls
  <2>5. Effect(e, {"2100"}) = n /\ Effect(e, OfType["expense"] \cup OfType["asset"]) = n
    BY <2>1, <2>2, <2>3 DEF Effect
  <2>6. QED
    BY <1>2, <1>4, <2>1, <2>4, <2>5 DEF Touches
<1>5. QED
  BY <1>1, <1>3, <1>4

LEMMA ReceiptMovesTo ==
  ASSUME ReportsTypeOK, NEW i \in DOMAIN docs, NEW day, NEW n \in Int,
         NEW kind, kind = docs[i].kind
  PROVE  /\ Effect(ReceiptOf(i, day, n), {Control(kind)}) = -n
         /\ Touches(ReceiptOf(i, day, n), kind) /\ ReceiptOf(i, day, n).doc = i
         /\ IF kind = "invoice" THEN ReceiptOf(i, day, n).debit # "1200" ELSE ReceiptOf(i, day, n).credit # "2100"
<1>1. kind \in {"invoice", "bill"}
  BY PaperAt, PaperIs
<1>2. PICK e : e = ReceiptOf(i, day, n)
  OBVIOUS
<1>3. CASE kind = "invoice"
  <2>1. e.debit = "1110" /\ e.credit = "1200" /\ e.amount = n /\ e.doc = i
    BY <1>2, <1>3 DEF ReceiptOf
  <2>2. Signed("1200", n) = n /\ Control(kind) = "1200"
    BY <1>3, Controls DEF Signed
  <2>3. Effect(e, {"1200"}) = -n
    BY <2>1, <2>2 DEF Effect
  <2>4. QED
    BY <1>2, <1>3, <2>1, <2>2, <2>3 DEF Touches
<1>4. CASE kind = "bill"
  <2>1. e.debit = "2100" /\ e.credit = "1110" /\ e.amount = n /\ e.doc = i
    BY <1>2, <1>4 DEF ReceiptOf
  <2>2. Signed("2100", n) = -n /\ Control(kind) = "2100"
    BY <1>4, Controls DEF Signed
  <2>3. Effect(e, {"2100"}) = -n
    BY <2>1, <2>2 DEF Effect
  <2>4. QED
    BY <1>2, <1>4, <2>1, <2>2, <2>3 DEF Touches
<1>5. QED
  BY <1>1, <1>3, <1>4

(* What the owner keeps of the control accounts in a step. *)
LEMMA OwnEntry ==
  ASSUME ReportsTypeOK, NEW e, GrowsBy(e), OwnControls', NEW kind \in Kinds
  PROVE  /\ Touches(e, kind) => e.doc # 0 /\ docs'[e.doc].kind = kind
         /\ ~Touches(e, kind) => Effect(e, {Control(kind)}) = 0
<1>1. PICK l \in DOMAIN books' : books'[l] = e
  <2>1. PICK l : l = Len(books) + 1
    OBVIOUS
  <2>2. l \in DOMAIN books' /\ books'[l] = e
    BY <2>1, GrowsTo
  <2>3. QED
    BY <2>2
<1>2. Control(kind) \in {e.debit, e.credit} => e.doc # 0 /\ docs'[e.doc].kind = kind
  BY <1>1 DEF OwnControls
<1>3. QED
  BY <1>2, GrowsTo, Untouched DEF Touches

LEMMA ListsChange ==
  ASSUME ReportsTypeOK, NEW i \in DOMAIN docs, NEW x, Changed(i, x), NEW kind
  PROVE  /\ AgingTotal(kind)' = AgingTotal(kind) - OpenPart(docs[i], kind) + OpenPart(x, kind)
         /\ AgingTotal(kind) \in Int
         /\ \A from, to :
              /\ Billed(kind, from, to)' =
                   Billed(kind, from, to) - BilledPart(docs[i], kind, from, to)
                                              + BilledPart(x, kind, from, to)
              /\ Billed(kind, from, to) \in Int
<1>1. ASSUME NEW part \in [Doc -> Int]
      PROVE  /\ SumOver([j \in DOMAIN docs' |-> part[docs'[j]]]) =
                  SumOver([j \in DOMAIN docs |-> part[docs[j]]]) - part[docs[i]] + part[x]
             /\ SumOver([j \in DOMAIN docs |-> part[docs[j]]]) \in Int
             /\ x \in Doc /\ DOMAIN docs' = DOMAIN docs
             /\ \A j \in DOMAIN docs : docs'[j] \in Doc /\ docs[j] \in Doc
  BY OneChanges, PaperAt
<1>2. PICK p : p = [y \in Doc |-> OpenPart(y, kind)]
  OBVIOUS
<1>3. p \in [Doc -> Int] /\ \A y \in Doc : p[y] = OpenPart(y, kind)
  BY <1>2, PartsInt
<1>4. /\ AgingTotal(kind) = SumOver([j \in DOMAIN docs |-> p[docs[j]]])
      /\ AgingTotal(kind)' = SumOver([j \in DOMAIN docs' |-> p[docs'[j]]])
  <2>1. [j \in DOMAIN docs |-> OpenPart(docs[j], kind)] = [j \in DOMAIN docs |-> p[docs[j]]]
    BY <1>1, <1>3
  <2>2. [j \in DOMAIN docs' |-> OpenPart(docs'[j], kind)] = [j \in DOMAIN docs' |-> p[docs'[j]]]
    BY <1>1, <1>3
  <2>3. QED
    BY <2>1, <2>2, AgingIs
<1>5. ASSUME NEW from, NEW to
      PROVE  /\ Billed(kind, from, to)' =
                   Billed(kind, from, to) - BilledPart(docs[i], kind, from, to)
                                              + BilledPart(x, kind, from, to)
             /\ Billed(kind, from, to) \in Int
  <2>1. PICK q : q = [y \in Doc |-> BilledPart(y, kind, from, to)]
    OBVIOUS
  <2>2. q \in [Doc -> Int] /\ \A y \in Doc : q[y] = BilledPart(y, kind, from, to)
    BY <2>1, PartsInt
  <2>3. [j \in DOMAIN docs |-> BilledPart(docs[j], kind, from, to)] =
          [j \in DOMAIN docs |-> q[docs[j]]]
    BY <1>1, <1>3, <2>2
  <2>4. [j \in DOMAIN docs' |-> BilledPart(docs'[j], kind, from, to)] =
          [j \in DOMAIN docs' |-> q[docs'[j]]]
    BY <1>1, <1>3, <2>2
  <2>5. /\ Billed(kind, from, to) = SumOver([j \in DOMAIN docs |-> q[docs[j]]])
        /\ Billed(kind, from, to)' = SumOver([j \in DOMAIN docs' |-> q[docs'[j]]])
    BY <2>3, <2>4, BilledIs
  <2>6. q[docs[i]] = BilledPart(docs[i], kind, from, to) /\ q[x] = BilledPart(x, kind, from, to)
    BY <1>1, <1>3, <2>2
  <2>7. /\ SumOver([j \in DOMAIN docs' |-> q[docs'[j]]]) =
             SumOver([j \in DOMAIN docs |-> q[docs[j]]]) - q[docs[i]] + q[x]
        /\ SumOver([j \in DOMAIN docs |-> q[docs[j]]]) \in Int
    BY <1>1, <2>2
  <2>8. QED
    BY <2>5, <2>6, <2>7
<1>6. p[docs[i]] = OpenPart(docs[i], kind) /\ p[x] = OpenPart(x, kind)
  BY <1>1, <1>3
<1>7. /\ SumOver([j \in DOMAIN docs' |-> p[docs'[j]]]) =
           SumOver([j \in DOMAIN docs |-> p[docs[j]]]) - p[docs[i]] + p[x]
      /\ SumOver([j \in DOMAIN docs |-> p[docs[j]]]) \in Int
  BY <1>1, <1>3
<1>8. QED
  BY <1>4, <1>5, <1>6, <1>7

(* A new document is a draft, which no list shows. *)
LEMMA ListsGrow ==
  ASSUME ReportsTypeOK, NEW x \in Doc, x.status = "draft",
         docs' \in Seq(Doc), Len(docs') = Len(docs) + 1, docs'[Len(docs) + 1] = x,
         \A j \in 1..Len(docs) : docs'[j] = docs[j], NEW kind
  PROVE  /\ AgingTotal(kind)' = AgingTotal(kind)
         /\ \A from, to : Billed(kind, from, to)' = Billed(kind, from, to)
<1>1. OpenPart(x, kind) = 0 /\ \A from, to : BilledPart(x, kind, from, to) = 0
  BY DEF OpenPart, BilledPart, Open
<1>2. ASSUME NEW part \in [Doc -> Int], part[x] = 0
      PROVE  SumOver([j \in DOMAIN docs' |-> part[docs'[j]]]) =
               SumOver([j \in DOMAIN docs |-> part[docs[j]]])
  <2>1. /\ SumOver([j \in DOMAIN docs' |-> part[docs'[j]]]) =
             SumOver([j \in DOMAIN docs |-> part[docs[j]]]) + part[x]
        /\ SumOver([j \in DOMAIN docs |-> part[docs[j]]]) \in Int
    BY OneMore
  <2>2. QED
    BY <1>2, <2>1
<1>3. /\ \A j \in DOMAIN docs : docs[j] \in Doc
      /\ \A j \in DOMAIN docs' : docs'[j] \in Doc
  <2>1. PICK s \in Seq(Doc) : s = docs'
    OBVIOUS
  <2>2. \A j \in DOMAIN s : s[j] \in Doc
    BY LenProperties, ElementOfSeq
  <2>3. QED
    BY <2>1, <2>2, PaperAt
<1>4. AgingTotal(kind)' = AgingTotal(kind)
  <2>1. PICK p : p = [y \in Doc |-> OpenPart(y, kind)]
    OBVIOUS
  <2>2. p \in [Doc -> Int] /\ \A y \in Doc : p[y] = OpenPart(y, kind)
    BY <2>1, PartsInt
  <2>3. /\ [j \in DOMAIN docs |-> OpenPart(docs[j], kind)] = [j \in DOMAIN docs |-> p[docs[j]]]
        /\ [j \in DOMAIN docs' |-> OpenPart(docs'[j], kind)] = [j \in DOMAIN docs' |-> p[docs'[j]]]
    BY <1>3, <2>2
  <2>4. p[x] = 0
    BY <1>1, <2>2
  <2>5. SumOver([j \in DOMAIN docs' |-> p[docs'[j]]]) = SumOver([j \in DOMAIN docs |-> p[docs[j]]])
    BY <1>2, <2>2, <2>4
  <2>6. QED
    BY <2>3, <2>5, AgingIs
<1>5. ASSUME NEW from, NEW to
      PROVE  Billed(kind, from, to)' = Billed(kind, from, to)
  <2>1. PICK p : p = [y \in Doc |-> BilledPart(y, kind, from, to)]
    OBVIOUS
  <2>2. p \in [Doc -> Int] /\ \A y \in Doc : p[y] = BilledPart(y, kind, from, to)
    BY <2>1, PartsInt
  <2>3. /\ [j \in DOMAIN docs |-> BilledPart(docs[j], kind, from, to)] =
             [j \in DOMAIN docs |-> p[docs[j]]]
        /\ [j \in DOMAIN docs' |-> BilledPart(docs'[j], kind, from, to)] =
             [j \in DOMAIN docs' |-> p[docs'[j]]]
    BY <1>3, <2>2
  <2>4. p[x] = 0
    BY <1>1, <2>2
  <2>5. SumOver([j \in DOMAIN docs' |-> p[docs'[j]]]) = SumOver([j \in DOMAIN docs |-> p[docs[j]]])
    BY <1>2, <2>2, <2>4
  <2>6. QED
    BY <2>3, <2>5, BilledIs
<1>6. QED
  BY <1>4, <1>5

-----------------------------------------------------------------------------
(* Every step keeps the subledgers. *)

LEMMA EntriesName ==
  ASSUME ReportsTypeOK, PapersInv, NEW e, GrowsBy(e), e.doc <= Len(docs), Len(docs') = Len(docs)
  PROVE  \A k \in DOMAIN books' : books'[k].doc <= Len(docs')
<1>1. TAKE k \in DOMAIN books'
<1>2. CASE k \in DOMAIN books
  <2>1. books'[k].doc = books[k].doc
    BY <1>2, GrowsTo DEF Kept
  <2>2. QED
    BY <1>2, <2>1 DEF PapersInv
<1>3. CASE k \notin DOMAIN books
  <2>1. PICK n \in Nat : n = Len(books) /\ DOMAIN books = 1..n /\ DOMAIN books' = 1..(n + 1) /\ books'[n + 1] = e
    BY GrowsTo
  <2>2. k = n + 1
    BY <1>3, <2>1
  <2>3. QED
    BY <2>1, <2>2
<1>4. QED
  BY <1>2, <1>3

(* An entry of no document, if the owner leaves the control accounts alone.*)
LEMMA OtherEntry ==
  ASSUME ReportsTypeOK, SubledgersInv, NEW e, GrowsBy(e), UNCHANGED docs,
         e.doc <= Len(docs), OwnControls' => e.doc = 0
  PROVE  SubledgersInv'
<1>1. PapersInv /\ PapersKept
  BY DEF SubledgersInv, PapersKept
<1>2. PapersInv'
  <2>1. \A k \in DOMAIN books' : books'[k].doc <= Len(docs')
    BY <1>1, EntriesName
  <2>2. QED
    BY <1>1, <2>1 DEF PapersInv
<1>3. ASSUME OwnControls' PROVE Agrees'
  <2>1. Agrees
    <3>1. OwnControls
      BY <1>1, <1>3, OwnBefore
    <3>2. QED
      BY <3>1 DEF SubledgersInv
  <2>2. SUFFICES ASSUME NEW kind \in Kinds
                 PROVE  /\ AgingTotal(kind)' = HeldBy(kind)'
                        /\ \A from, to \in Days : Billed(kind, from, to)' = BilledBy(kind, from, to)'
    BY DEF Agrees
  <2>3. e.doc = 0
    BY <1>3
  <2>4. Effect(e, {Control(kind)}) = 0
    BY <1>3, <2>3, OwnEntry
  <2>5. AgingTotal(kind)' = AgingTotal(kind)
        /\ \A from, to : Billed(kind, from, to)' = Billed(kind, from, to)
    BY AgingIs, BilledIs
  <2>6. AgingTotal(kind)' = HeldBy(kind)'
    <3>1. HeldBy(kind)' = HeldBy(kind) + 0 /\ HeldBy(kind) \in Int
      BY <2>4, HeldGrows
    <3>2. QED
      BY <2>1, <2>5, <3>1 DEF Agrees
  <2>7. ASSUME NEW from \in Days, NEW to \in Days
        PROVE  Billed(kind, from, to)' = BilledBy(kind, from, to)'
    <3>1. ~Bills(e, kind)'
      BY <2>3 DEF Bills
    <3>2. BilledBy(kind, from, to)' = BilledBy(kind, from, to) + 0 /\ BilledBy(kind, from, to) \in Int
      BY <1>1, <3>1, BilledGrows
    <3>3. QED
      BY <2>1, <2>5, <3>2 DEF Agrees
  <2>8. QED
    BY <2>6, <2>7
<1>4. QED
  BY <1>2, <1>3 DEF SubledgersInv

LEMMA SubledgersBook ==
  ASSUME ReportsTypeOK, SubledgersInv, NEW day \in Days, NEW m \in Manual, BookByHand(day, m)
  PROVE  SubledgersInv'
<1> DEFINE e == [day |-> day, debit |-> m[1], credit |-> m[2], amount |-> m[3], doc |-> 0, status |-> "posted"]
<1>1. GrowsBy(e) /\ e.doc = 0
  BY BookGrows
<1> HIDE DEF e
<1>2. UNCHANGED docs
  BY DEF BookByHand
<1>3. e.doc <= Len(docs)
  BY <1>1, PaperAt
<1>4. QED
  BY <1>1, <1>2, <1>3, OtherEntry

LEMMA SubledgersVoid ==
  ASSUME ReportsTypeOK, SubledgersInv, NEW k \in DOMAIN books, NEW day \in Days, VoidEntry(k, day)
  PROVE  SubledgersInv'
<1>1. PICK e : e = MirrorOf(k, day)
  OBVIOUS
<1>2. GrowsBy(e) /\ books'[k].status = "voided" /\ books'[k].doc = books[k].doc /\ k \in DOMAIN books'
  BY <1>1, VoidGrows, GrowsTo
<1>3. e.doc = books[k].doc
  BY <1>1, BookedAt DEF MirrorOf, BookEntry
<1>4. UNCHANGED docs
  BY DEF VoidEntry
<1>5. e.doc <= Len(docs)
  BY <1>3 DEF SubledgersInv, PapersInv
<1>6. OwnControls' => e.doc = 0
  BY <1>2, <1>3 DEF OwnControls
<1>7. QED
  BY <1>2, <1>4, <1>5, <1>6, OtherEntry

LEMMA SubledgersCreate ==
  ASSUME ReportsTypeOK, SubledgersInv, NEW kind \in Kinds, NEW day \in Days, NEW due \in Days,
         NEW n \in Totals, CreateDocument(kind, day, due, n)
  PROVE  SubledgersInv'
<1>1. PICK x : x = [kind |-> kind, day |-> day, due |-> due, total |-> n, balance |-> n, status |-> "draft"]
  OBVIOUS
<1>2. x.status = "draft" /\ x.balance = x.total
  BY <1>1
<1>3. /\ books' = books
      /\ docs' \in Seq(Doc) /\ Len(docs') = Len(docs) + 1 /\ docs'[Len(docs) + 1] = x
      /\ \A i \in 1..Len(docs) : docs'[i] = docs[i]
  BY <1>1, CreateAdds
<1>4. PICK l \in Nat : l = Len(docs) /\ DOMAIN docs = 1..l
  BY PaperAt
<1>5. DOMAIN docs' = 1..(l + 1) /\ x \in Doc
  <2>1. PICK s \in Seq(Doc) : s = docs'
    BY <1>3
  <2>2. DOMAIN s = 1..Len(s) /\ \A j \in 1..Len(s) : s[j] \in Doc
    BY LenProperties, ElementOfSeq
  <2>3. QED
    BY <1>3, <1>4, <2>1, <2>2
<1>6. PapersKept
  BY <1>3, <1>4, <1>5 DEF PapersKept
<1>7. PapersInv'
  <2>1. \A k \in DOMAIN books' : books'[k].doc <= Len(docs')
    <3>1. TAKE k \in DOMAIN books'
    <3>2. books[k].doc \in Nat /\ books[k].doc <= l
      BY <1>3, <1>4, BookedAt, EntryIs DEF SubledgersInv, PapersInv
    <3>3. QED
      BY <1>3, <1>4, <3>2
  <2>2. ASSUME NEW i \in DOMAIN docs', docs'[i].status = "draft"
        PROVE  docs'[i].balance = docs'[i].total
    <3>1. CASE i \in 1..l
      BY <1>3, <1>4, <2>2, <3>1 DEF SubledgersInv, PapersInv
    <3>2. CASE i = l + 1
      BY <1>2, <1>3, <1>4, <3>2
    <3>3. QED
      BY <1>4, <1>5, <3>1, <3>2
  <2>3. QED
    BY <2>1, <2>2 DEF PapersInv
<1>8. ASSUME OwnControls' PROVE Agrees'
  <2>1. Agrees
    <3>1. OwnControls
      BY <1>3, <1>6, <1>8, OwnBefore DEF SubledgersInv
    <3>2. QED
      BY <3>1 DEF SubledgersInv
  <2>2. SUFFICES ASSUME NEW sort \in Kinds
                 PROVE  /\ AgingTotal(sort)' = HeldBy(sort)'
                        /\ \A from, to \in Days : Billed(sort, from, to)' = BilledBy(sort, from, to)'
    BY DEF Agrees
  <2>3. /\ AgingTotal(sort)' = AgingTotal(sort)
        /\ \A from, to : Billed(sort, from, to)' = Billed(sort, from, to)
    BY <1>2, <1>3, <1>5, ListsGrow
  <2>4. HeldBy(sort)' = HeldBy(sort)
    BY <1>3 DEF HeldBy
  <2>5. ASSUME NEW from, NEW to PROVE BilledBy(sort, from, to)' = BilledBy(sort, from, to)
    <3>1. ASSUME NEW k \in DOMAIN books PROVE BookedPart(k, sort, from, to)' = BookedPart(k, sort, from, to)
      <4>1. k \in DOMAIN books' /\ books'[k] \in BookEntry /\ Kept(books[k], books'[k])
        BY <1>3, BookedAt DEF Kept
      <4>2. QED
        BY <1>6, <4>1, BillsKept DEF SubledgersInv
    <3>2. [k \in DOMAIN books' |-> BookedPart(k, sort, from, to)'] =
            [k \in DOMAIN books |-> BookedPart(k, sort, from, to)]
      BY <1>3, <3>1
    <3>3. QED
      BY <3>2 DEF BilledBy
  <2>6. QED
    BY <2>1, <2>3, <2>4, <2>5 DEF Agrees
<1>9. QED
  BY <1>7, <1>8 DEF SubledgersInv

(* The entry of a document that changes: what the lists and the accounts   *)
(* of its kind gain is the same.                                           *)
LEMMA DocumentEntry ==
  ASSUME ReportsTypeOK, SubledgersInv, NEW i \in DOMAIN docs, NEW x, Changed(i, x),
         NEW e, GrowsBy(e), e.doc = i, NEW own, own = docs[i].kind, x.kind = own, x.status # "draft",
         OpenPart(x, own) - OpenPart(docs[i], own) = Effect(e, {Control(own)}),
         \A from, to : BilledPart(x, own, from, to) - BilledPart(docs[i], own, from, to) =
           (IF Bills(e, own)' /\ Within(e, from, to) THEN Effect(e, Other(own)) ELSE 0)
  PROVE  SubledgersInv'
<1>1. docs[i] \in Doc /\ x \in Doc /\ docs'[i] = x /\ DOMAIN docs' = DOMAIN docs
      /\ Len(docs') = Len(docs) /\ i <= Len(docs)
      /\ \A j \in DOMAIN docs : j # i => docs'[j] = docs[j]
  <2>1. [y \in Doc |-> 0] \in [Doc -> Int]
    OBVIOUS
  <2>2. x \in Doc /\ docs'[i] = x /\ DOMAIN docs' = DOMAIN docs
    BY <2>1, OneChanges
  <2>3. QED
    BY <2>2, PaperAt DEF Changed
<1>2. PapersInv /\ PapersKept
  <2>1. \A j \in DOMAIN docs : docs'[j].kind = docs[j].kind
    BY <1>1
  <2>2. QED
    BY <1>1, <2>1, PaperAt DEF PapersKept, SubledgersInv
<1>3. PapersInv'
  <2>1. \A k \in DOMAIN books' : books'[k].doc <= Len(docs')
    BY <1>1, <1>2, EntriesName
  <2>2. \A j \in DOMAIN docs' : docs'[j].status = "draft" => docs'[j].balance = docs'[j].total
    BY <1>1, <1>2 DEF PapersInv
  <2>3. QED
    BY <2>1, <2>2 DEF PapersInv
<1>4. ASSUME OwnControls' PROVE Agrees'
  <2>1. Agrees
    <3>1. OwnControls
      BY <1>2, <1>4, OwnBefore
    <3>2. QED
      BY <3>1 DEF SubledgersInv
  <2>2. SUFFICES ASSUME NEW kind \in Kinds
                 PROVE  /\ AgingTotal(kind)' = HeldBy(kind)'
                        /\ \A from, to \in Days : Billed(kind, from, to)' = BilledBy(kind, from, to)'
    BY DEF Agrees
  <2>3. /\ OpenPart(x, kind) \in Int /\ OpenPart(docs[i], kind) \in Int
        /\ \A from, to : BilledPart(x, kind, from, to) \in Int /\ BilledPart(docs[i], kind, from, to) \in Int
        /\ Effect(e, {Control(kind)}) \in Int /\ Effect(e, Other(kind)) \in Int
    BY <1>1, PartsInt, GrowsTo, EntryIs
  <2>4. OpenPart(x, kind) - OpenPart(docs[i], kind) = Effect(e, {Control(kind)})
    <3>1. CASE kind = own
      BY <3>1
    <3>2. CASE kind # own
      <4>1. OpenPart(x, kind) = 0 /\ OpenPart(docs[i], kind) = 0
        BY <3>2 DEF OpenPart
      <4>2. ~Touches(e, kind)
        BY <1>1, <1>4, <3>2, OwnEntry
      <4>3. Effect(e, {Control(kind)}) = 0
        BY <1>4, <4>2, OwnEntry
      <4>4. QED
        BY <4>1, <4>3
    <3>3. QED
      BY <3>1, <3>2
  <2>5. AgingTotal(kind)' = HeldBy(kind)'
    <3>1. /\ AgingTotal(kind)' = AgingTotal(kind) - OpenPart(docs[i], kind) + OpenPart(x, kind)
          /\ AgingTotal(kind) \in Int
      BY ListsChange
    <3>2. HeldBy(kind)' = HeldBy(kind) + Effect(e, {Control(kind)}) /\ HeldBy(kind) \in Int
      BY HeldGrows
    <3>3. AgingTotal(kind) = HeldBy(kind)
      BY <2>1 DEF Agrees
    <3>4. QED
      BY <2>3, <2>4, <3>1, <3>2, <3>3
  <2>6. ASSUME NEW from \in Days, NEW to \in Days
        PROVE  Billed(kind, from, to)' = BilledBy(kind, from, to)'
    <3>1. PICK n : n = IF Bills(e, kind)' /\ Within(e, from, to)
                       THEN Effect(e, Other(kind)) ELSE 0
      OBVIOUS
    <3>2. n \in Int /\ BilledPart(x, kind, from, to) - BilledPart(docs[i], kind, from, to) = n
      <4>1. CASE kind = own
        BY <2>3, <3>1, <4>1
      <4>2. CASE kind # own
        <5>1. BilledPart(x, kind, from, to) = 0 /\ BilledPart(docs[i], kind, from, to) = 0
          BY <4>2 DEF BilledPart
        <5>2. ~Bills(e, kind)'
          BY <1>1, <4>2 DEF Bills
        <5>3. QED
          BY <3>1, <5>1, <5>2
      <4>3. QED
        BY <4>1, <4>2
    <3>3. /\ Billed(kind, from, to)' =
               Billed(kind, from, to) - BilledPart(docs[i], kind, from, to) + BilledPart(x, kind, from, to)
          /\ Billed(kind, from, to) \in Int
      BY ListsChange
    <3>4. BilledBy(kind, from, to)' = BilledBy(kind, from, to) + n /\ BilledBy(kind, from, to) \in Int
      BY <1>2, <3>1, <3>2, BilledGrows
    <3>5. Billed(kind, from, to) = BilledBy(kind, from, to)
      BY <2>1 DEF Agrees
    <3>6. QED
      BY <2>3, <3>2, <3>3, <3>4, <3>5
  <2>7. QED
    BY <2>5, <2>6
<1>5. QED
  BY <1>3, <1>4 DEF SubledgersInv

LEMMA SubledgersPost ==
  ASSUME ReportsTypeOK, SubledgersInv, NEW i \in DOMAIN docs, NEW a \in ChartAccounts,
         PostDocument(i, a)
  PROVE  SubledgersInv'
<1>1. PICK e : e = PostingOf(i, a)
  OBVIOUS
<1>2. PICK x : x = [docs[i] EXCEPT !.status = "posted"]
  OBVIOUS
<1>3. PICK own : own = docs[i].kind
  OBVIOUS
<1>4. GrowsBy(e) /\ Changed(i, x) /\ docs[i].status = "draft" /\ a \in Other(docs[i].kind)
  BY <1>1, <1>2, PostGrows, PostChanges
<1>5. docs[i] \in Doc /\ i # 0
  BY PaperAt
<1>6. /\ x.kind = own /\ x.status = "posted" /\ x.balance = docs[i].balance /\ x.total = docs[i].total
      /\ x.day = docs[i].day
  BY <1>2, <1>3, <1>5 DEF Doc
<1>7. docs[i].total \in Nat \ {0} /\ docs[i].balance = docs[i].total /\ docs[i].day \in Nat
  BY <1>4, <1>5, PaperIs DEF SubledgersInv, PapersInv
<1>8. /\ Effect(e, {Control(own)}) = docs[i].total
      /\ Effect(e, Other(own)) = docs[i].total
      /\ e.doc = i /\ e.day = docs[i].day
      /\ IF own = "invoice" THEN e.debit = "1200" ELSE e.credit = "2100"
  BY <1>1, <1>3, <1>4, PostingMovesTo
<1>9. OpenPart(x, own) - OpenPart(docs[i], own) = Effect(e, {Control(own)})
  <2>1. OpenPart(x, own) = docs[i].total
    BY <1>6, <1>7 DEF OpenPart, Open
  <2>2. OpenPart(docs[i], own) = 0
    BY <1>4 DEF OpenPart, Open
  <2>3. QED
    BY <1>7, <1>8, <2>1, <2>2
<1>10. Bills(e, own)'
  <2>1. docs'[i] = x
    BY <1>4, PaperAt DEF Changed
  <2>2. QED
    BY <1>5, <1>6, <1>8, <2>1 DEF Bills
<1>11. ASSUME NEW from, NEW to
       PROVE  BilledPart(x, own, from, to) - BilledPart(docs[i], own, from, to) =
                (IF Bills(e, own)' /\ Within(e, from, to) THEN Effect(e, Other(own)) ELSE 0)
  <2>1. BilledPart(docs[i], own, from, to) = 0
    BY <1>4 DEF BilledPart
  <2>2. BilledPart(x, own, from, to) = IF Within(e, from, to) THEN docs[i].total ELSE 0
    BY <1>6, <1>8 DEF BilledPart, Within
  <2>3. CASE Within(e, from, to)
    BY <1>7, <1>8, <1>10, <2>1, <2>2, <2>3
  <2>4. CASE ~Within(e, from, to)
    BY <2>1, <2>2, <2>4
  <2>5. QED
    BY <2>3, <2>4
<1>12. x.status # "draft"
  BY <1>6
<1>13. QED
  BY <1>3, <1>4, <1>6, <1>8, <1>9, <1>11, <1>12, DocumentEntry

LEMMA SubledgersPay ==
  ASSUME ReportsTypeOK, SubledgersInv, NEW i \in DOMAIN docs, NEW day \in Days,
         NEW n \in Amounts, Pay(i, day, n)
  PROVE  SubledgersInv'
<1>1. PICK e : e = ReceiptOf(i, day, n)
  OBVIOUS
<1>2. PICK x : x = Paid(docs[i], n)
  OBVIOUS
<1>3. PICK own : own = docs[i].kind
  OBVIOUS
<1>4. /\ GrowsBy(e) /\ Changed(i, x) /\ docs[i].status \in {"posted", "partial"}
      /\ n \in Nat \ {0} /\ n <= docs[i].balance
  BY <1>1, <1>2, PayGrows, PayChanges
<1>5. docs[i] \in Doc /\ docs[i].balance \in Nat
  BY PaperAt, PaperIs
<1>6. /\ x.kind = own /\ x.total = docs[i].total /\ x.day = docs[i].day
      /\ x.balance = docs[i].balance - n
      /\ x.status = IF n = docs[i].balance THEN "paid" ELSE "partial"
  BY <1>2, <1>3, <1>5 DEF Paid, Doc
<1>7. /\ Effect(e, {Control(own)}) = -n /\ e.doc = i
      /\ IF own = "invoice" THEN e.debit # "1200" ELSE e.credit # "2100"
  BY <1>1, <1>3, <1>4, ReceiptMovesTo
<1>8. OpenPart(x, own) - OpenPart(docs[i], own) = Effect(e, {Control(own)})
  <2>1. OpenPart(docs[i], own) = docs[i].balance
    BY <1>3, <1>4, <1>5 DEF OpenPart, Open
  <2>2. OpenPart(x, own) = docs[i].balance - n
    BY <1>4, <1>5, <1>6 DEF OpenPart, Open
  <2>3. QED
    BY <1>4, <1>5, <1>7, <2>1, <2>2
<1>9. ~Bills(e, own)'
  BY <1>7 DEF Bills
<1>10. ASSUME NEW from, NEW to
       PROVE  BilledPart(x, own, from, to) - BilledPart(docs[i], own, from, to) =
                (IF Bills(e, own)' /\ Within(e, from, to) THEN Effect(e, Other(own)) ELSE 0)
  <2>1. BilledPart(x, own, from, to) = BilledPart(docs[i], own, from, to)
    BY <1>3, <1>4, <1>6 DEF BilledPart
  <2>2. BilledPart(docs[i], own, from, to) \in Int
    BY <1>5, PartsInt
  <2>3. QED
    BY <1>9, <2>1, <2>2
<1>11. x.status # "draft"
  BY <1>6
<1>12. QED
  BY <1>3, <1>4, <1>6, <1>7, <1>8, <1>10, <1>11, DocumentEntry

LEMMA SubledgersStep ==
  ASSUME ReportsTypeOK, SubledgersInv, [ReportsNext]_reportsVars
  PROVE  SubledgersInv'
<1>1. CASE UNCHANGED <<books, docs>>
  <2>1. PapersInv'
    BY <1>1 DEF SubledgersInv, PapersInv
  <2>2. OwnControls' => OwnControls
    BY <1>1 DEF OwnControls
  <2>3. ASSUME NEW kind
        PROVE  /\ AgingTotal(kind)' = AgingTotal(kind) /\ HeldBy(kind)' = HeldBy(kind)
               /\ \A from, to : /\ Billed(kind, from, to)' = Billed(kind, from, to)
                               /\ BilledBy(kind, from, to)' = BilledBy(kind, from, to)
    <3>1. AgingTotal(kind)' = AgingTotal(kind)
      BY <1>1, AgingIs
    <3>2. HeldBy(kind)' = HeldBy(kind)
      BY <1>1 DEF HeldBy
    <3>3. \A from, to : Billed(kind, from, to)' = Billed(kind, from, to)
      BY <1>1, BilledIs
    <3>4. \A from, to : BilledBy(kind, from, to)' = BilledBy(kind, from, to)
      BY <1>1 DEF BilledBy, BookedPart, Bills
    <3>5. QED
      BY <3>1, <3>2, <3>3, <3>4
  <2>4. Agrees => Agrees'
    BY <2>3 DEF Agrees
  <2>5. QED
    BY <2>1, <2>2, <2>4 DEF SubledgersInv
<1>2. ASSUME NEW day \in Days, NEW m \in Manual, BookByHand(day, m) PROVE SubledgersInv'
  BY <1>2, SubledgersBook
<1>3. ASSUME NEW kind \in Kinds, NEW day \in Days, NEW due \in Days, NEW n \in Totals,
             CreateDocument(kind, day, due, n)
      PROVE  SubledgersInv'
  BY <1>3, SubledgersCreate
<1>4. ASSUME NEW i \in DOMAIN docs, NEW day \in Days, NEW n \in Amounts, Pay(i, day, n)
      PROVE  SubledgersInv'
  BY <1>4, SubledgersPay
<1>5. ASSUME NEW i \in DOMAIN docs, NEW a \in ChartAccounts, PostDocument(i, a)
      PROVE  SubledgersInv'
  BY <1>5, SubledgersPost
<1>6. ASSUME NEW k \in DOMAIN books, NEW day \in Days, VoidEntry(k, day)
      PROVE  SubledgersInv'
  BY <1>6, SubledgersVoid
<1>7. ASSUME NEW d \in Days, TakeSnapshot(d) PROVE UNCHANGED <<books, docs>>
  BY <1>7 DEF TakeSnapshot
<1>8. CASE UNCHANGED reportsVars
  BY <1>1, <1>8 DEF reportsVars
<1>9. QED
  BY <1>1, <1>2, <1>3, <1>4, <1>5, <1>6, <1>7, <1>8 DEF ReportsNext

LEMMA SubledgersInit == ReportsInit => SubledgersInv
<1> SUFFICES ASSUME ReportsInit PROVE SubledgersInv
  OBVIOUS
<1>1. DOMAIN books = {} /\ DOMAIN docs = {}
  BY DEF ReportsInit
<1>2. PapersInv
  BY <1>1 DEF PapersInv
<1>3. ASSUME NEW f, DOMAIN f = {} PROVE SumOver(f) = 0
  BY <1>3, SumOfNone
<1>4. ASSUME NEW kind
      PROVE  AgingTotal(kind) = 0 /\ HeldBy(kind) = 0
             /\ \A from, to : Billed(kind, from, to) = 0 /\ BilledBy(kind, from, to) = 0
  <2>1. AgingTotal(kind) = 0
    BY <1>1, <1>3, AgingIs
  <2>2. HeldBy(kind) = 0
    BY <1>1, <1>3 DEF HeldBy
  <2>3. \A from, to : Billed(kind, from, to) = 0
    BY <1>1, <1>3, BilledIs
  <2>4. \A from, to : BilledBy(kind, from, to) = 0
    BY <1>1, <1>3 DEF BilledBy
  <2>5. QED
    BY <2>1, <2>2, <2>3, <2>4
<1>5. QED
  BY <1>2, <1>4 DEF SubledgersInv, Agrees

LEMMA BucketsFinite == IsFiniteSet(Buckets)
<1>1. IsFiniteSet({}) /\ \A S, x : IsFiniteSet(S) => IsFiniteSet(S \cup {x})
  BY FS_EmptySet, FS_AddElement
<1>2. IsFiniteSet((((({} \cup {"current"}) \cup {"days_1_30"}) \cup {"days_31_60"}) \cup {"days_61_90"})
                    \cup {"days_91_plus"})
  BY <1>1, Zenon
<1>3. Buckets = (((({} \cup {"current"}) \cup {"days_1_30"}) \cup {"days_31_60"}) \cup {"days_61_90"})
                      \cup {"days_91_plus"}
  BY DEF Buckets
<1>4. QED
  BY <1>2, <1>3

(* Whatever is open is in exactly one column of the aging report. *)
LEMMA AgingAddsUp ==
  ASSUME ReportsTypeOK, NEW kind, NEW d \in Days
  PROVE  SumOver(Aging(kind, d)) = AgingTotal(kind)
<1> DEFINE cell(b, i) == IF docs[i].kind = kind /\ Open(docs[i]) /\ Bucket(docs[i], d) = b
                         THEN docs[i].balance ELSE 0
<1>1. PICK D, B : D = DOMAIN docs /\ B = Buckets
  OBVIOUS
<1>2. IsFiniteSet(D) /\ IsFiniteSet(B)
  BY <1>1, PaperAt, BucketsFinite
<1>3. PICK f : f = [b \in B |-> [i \in D |-> cell(b, i)]]
  OBVIOUS
<1>4. \A i \in D : docs[i].balance \in Int /\ docs[i] \in Doc
  BY <1>1, PaperAt, PaperIs
<1>5. f \in [B -> [D -> Int]]
  BY <1>3, <1>4
<1>6. SumOver([b \in B |-> SumOver(f[b])]) = SumOver([i \in D |-> SumOver([b \in B |-> f[b][i]])])
  BY <1>2, <1>5, SumsExchanged
<1>7. Aging(kind, d) = [b \in B |-> SumOver(f[b])]
  <2>1. Aging(kind, d) = [b \in B |-> SumOver([i \in D |-> cell(b, i)])]
    BY <1>1 DEF Aging, SumOfDocs
  <2>2. \A b \in B : f[b] = [i \in D |-> cell(b, i)]
    BY <1>3
  <2>3. QED
    BY <2>1, <2>2
<1>8. ASSUME NEW i \in D PROVE SumOver([b \in B |-> f[b][i]]) = OpenPart(docs[i], kind)
  <2>1. PICK g : g = [b \in B |-> f[b][i]]
    OBVIOUS
  <2>2. g \in [B -> Int] /\ \A b \in B : g[b] = cell(b, i)
    BY <1>3, <1>4, <2>1
  <2>3. PICK c \in B : c = Bucket(docs[i], d)
    <3>1. docs[i].due \in Nat /\ d \in Nat
      BY ReportsAssumption, <1>4, PaperIs
    <3>2. Bucket(docs[i], d) \in Buckets
      BY <3>1 DEF Bucket, Buckets
    <3>3. QED
      BY <1>1, <3>2
  <2>4. \A b \in B : b # c => g[b] = 0
    BY <2>2, <2>3
  <2>5. SumOver(g) = g[c]
    <3>1. g \in [B -> Int] /\ \A b \in B : b # c => g[b] = 0
      BY <2>2, <2>4
    <3>2. QED
      BY <1>2, <3>1, SumOnly
  <2>6. g[c] = OpenPart(docs[i], kind)
    BY <2>2, <2>3 DEF OpenPart
  <2>7. QED
    BY <2>1, <2>5, <2>6
<1>9. [i \in D |-> SumOver([b \in B |-> f[b][i]])] = [i \in D |-> OpenPart(docs[i], kind)]
  BY <1>8
<1>10. QED
  BY <1>1, <1>6, <1>7, <1>9, AgingIs

(* When nothing is dated after day d, the accounts hold then what they     *)
(* hold at all.                                                            *)
LEMMA HeldThen ==
  ASSUME ReportsTypeOK, NEW kind, NEW d \in Days, \A k \in DOMAIN books : books[k].day <= d
  PROVE  Balance(Control(kind), First, d) = HeldBy(kind)
<1>1. PICK c : c = Control(kind)
  OBVIOUS
<1>2. \A k \in DOMAIN books : Within(books[k], First, d)
  <2>1. TAKE k \in DOMAIN books
  <2>2. books[k].day \in Days
    BY BookedAt, EntryIs
  <2>3. First <= books[k].day /\ books[k].day <= d
    BY <2>2, FirstIs
  <2>4. QED
    BY <2>3 DEF Within
<1>3. Moves({c}, First, d) = [k \in DOMAIN books |-> Effect(books[k], {c})]
  BY <1>2 DEF Moves
<1>4. Total({c}, First, d) = SumOver(Moves({c}, First, d))
  BY FirstIs, TotalIs
<1>5. QED
  BY <1>1, <1>3, <1>4 DEF Balance, HeldBy

LEMMA SubledgersSay ==
  ASSUME ReportsTypeOK, SubledgersInv
  PROVE  SubledgersAgree
<1>1. SUFFICES ASSUME OwnControls, NEW kind \in Kinds, NEW d \in Days
               PROVE  /\ (\A k \in DOMAIN books : books[k].day <= d) =>
                           AgingTotal(kind) = Balance(Control(kind), First, d)
                      /\ SumOver(Aging(kind, d)) = AgingTotal(kind)
                      /\ \A from \in Days :
                           Billed(kind, from, d) =
                             SumOver([k \in DOMAIN books |->
                                IF Bills(books[k], kind) /\ Within(books[k], from, d)
                                THEN Effect(books[k], Other(kind)) ELSE 0])
  BY DEF SubledgersAgree
<1>2. Agrees
  BY <1>1 DEF SubledgersInv
<1>3. (\A k \in DOMAIN books : books[k].day <= d) =>
        AgingTotal(kind) = Balance(Control(kind), First, d)
  BY <1>2, HeldThen DEF Agrees
<1>4. SumOver(Aging(kind, d)) = AgingTotal(kind)
  BY AgingAddsUp
<1>5. ASSUME NEW from \in Days
      PROVE  Billed(kind, from, d) =
               SumOver([k \in DOMAIN books |->
                  IF Bills(books[k], kind) /\ Within(books[k], from, d)
                  THEN Effect(books[k], Other(kind)) ELSE 0])
  <2>1. Billed(kind, from, d) = BilledBy(kind, from, d)
    BY <1>2 DEF Agrees
  <2>2. QED
    BY <2>1 DEF BilledBy, BookedPart
<1>6. QED
  BY <1>3, <1>4, <1>5

(* Unless entries of documents are voided or the control accounts booked   *)
(* by hand, the aging reports show what the control accounts hold, in      *)
(* whatever column, and what was billed in a period is what the entries of *)
(* documents brought to the accounts they are billed to (ar_aging,         *)
(* ap_aging, revenue_by_customer, expenses_by_vendor).                     *)
THEOREM ReportsSubledgersAgree ==
  ReportsSpec => []SubledgersAgree
<1>1. ReportsInit => ReportsTypeOK /\ SubledgersInv
  BY ReportsStart, SubledgersInit
<1>2. ReportsTypeOK /\ SubledgersInv /\ [ReportsNext]_reportsVars => ReportsTypeOK' /\ SubledgersInv'
  BY ReportsType, SubledgersStep
<1>3. ReportsTypeOK /\ SubledgersInv => SubledgersAgree
  BY SubledgersSay
<1>4. QED
  BY <1>1, <1>2, <1>3, PTL DEF ReportsSpec

-----------------------------------------------------------------------------
(* Months. *)

LEMMA MultiplesOrdered ==
  ASSUME NEW a \in Nat, NEW b \in Nat, NEW n \in Nat, a < b
  PROVE  a * n + n <= b * n
<1>1. (a + 1) * n <= b * n
  OBVIOUS
<1>2. (a + 1) * n = a * n + n
  OBVIOUS
<1>3. QED
  BY <1>1, <1>2

LEMMA MonthIs ==
  ASSUME NEW x \in Nat \ {0}
  PROVE  \E q \in Nat : /\ MonthStart(x) = q * MonthLength + 1 /\ q * MonthLength \in Nat
                        /\ MonthEnd(x) = q * MonthLength + MonthLength
                        /\ q * MonthLength + 1 <= x /\ x <= q * MonthLength + MonthLength
<1>1. PICK l \in Nat \ {0} : l = MonthLength
  BY ReportsAssumption
<1>2. PICK m \in Nat : m = x - 1
  OBVIOUS
<1>3. PICK q \in Nat : q = m \div l /\ q * l <= m /\ m < q * l + l /\ q * l \in Nat
  OBVIOUS
<1>4. PICK r \in Nat : r = q * l
  BY <1>3
<1>5. MonthStart(x) = r + 1
  BY <1>1, <1>2, <1>3, <1>4 DEF MonthStart
<1>6. MonthEnd(x) = r + l
  BY <1>5 , <1>1 DEF MonthEnd
<1>7. r + 1 <= x /\ x <= r + l
  BY <1>2, <1>3, <1>4
<1>8. /\ MonthStart(x) = q * MonthLength + 1 /\ q * MonthLength \in Nat
      /\ MonthEnd(x) = q * MonthLength + MonthLength
      /\ q * MonthLength + 1 <= x /\ x <= q * MonthLength + MonthLength
  BY <1>1, <1>4, <1>5, <1>6, <1>7
<1>9. QED
  BY <1>8

(* A day is in one month, and two months are the same or apart.            *)
LEMMA MonthsApart ==
  ASSUME NEW x \in Nat \ {0}, NEW y \in Nat \ {0}
  PROVE  /\ MonthStart(x) \in Nat \ {0} /\ MonthEnd(x) \in Nat \ {0}
         /\ MonthStart(x) <= x /\ x <= MonthEnd(x)
         /\ \/ MonthStart(x) = MonthStart(y) /\ MonthEnd(x) = MonthEnd(y)
            \/ MonthEnd(x) < MonthStart(y)
            \/ MonthEnd(y) < MonthStart(x)
<1>1. PICK l \in Nat \ {0} : l = MonthLength
  BY ReportsAssumption
<1>2. PICK q \in Nat : /\ MonthStart(x) = q * l + 1 /\ q * l \in Nat /\ MonthEnd(x) = q * l + l
                       /\ q * l + 1 <= x /\ x <= q * l + l
  BY <1>1, MonthIs
<1>3. PICK r \in Nat : /\ MonthStart(y) = r * l + 1 /\ r * l \in Nat /\ MonthEnd(y) = r * l + l
  BY <1>1, MonthIs
<1>4. q < r => q * l + l <= r * l
  BY MultiplesOrdered
<1>5. r < q => r * l + l <= q * l
  BY MultiplesOrdered
<1>6. q = r => q * l = r * l
  OBVIOUS
<1>7. q < r \/ r < q \/ q = r
  OBVIOUS
<1>8. PICK a \in Nat, b \in Nat : a = q * l /\ b = r * l
  BY <1>2, <1>3
<1>9. (q < r => a + l <= b) /\ (r < q => b + l <= a) /\ (q = r => a = b)
  BY <1>4, <1>5, <1>6, <1>8
<1>10. /\ MonthStart(x) = a + 1 /\ MonthEnd(x) = a + l /\ a + 1 <= x /\ x <= a + l
       /\ MonthStart(y) = b + 1 /\ MonthEnd(y) = b + l
  BY <1>2, <1>3, <1>8
<1>11. QED
  BY <1>7, <1>9, <1>10

LEMMA EarlierOf ==
  ASSUME NEW x \in Int, NEW y \in Int, y <= x
  PROVE  Min({x, y}) = y
<1>1. \A z \in {x, y} : y <= z
  OBVIOUS
<1>2. ASSUME NEW u \in {x, y}, \A z \in {x, y} : u <= z PROVE u = y
  BY <1>2
<1>3. QED
  BY <1>1, <1>2 DEF Min

LEMMA ImageFinite ==
  ASSUME NEW S, IsFiniteSet(S), NEW f, DOMAIN f = S, f = [x \in S |-> f[x]]
  PROVE  IsFiniteSet({f[x] : x \in S})
<1>1. f \in Surjection(S, {f[x] : x \in S})
  BY DEF Surjection
<1>2. QED
  BY <1>1, FS_Surjection

LEMMA DaysAre ==
  /\ Days \subseteq Nat \ {0} /\ IsFiniteSet(Days) /\ IsFiniteSet(ChartAccounts)
         /\ \A a \in ChartAccounts : Chart[a].type \in Types
<1>1. IsFiniteSet(Days) /\ IsFiniteSet(ChartAccounts)
  BY ReportsAssumption
<1>2. IsFiniteSet(Days) /\ IsFiniteSet(ChartAccounts)
  BY <1>1 DEF IsFiniteSet, IsFiniteSet
<1>3. QED
  BY ReportsAssumption, <1>2

-----------------------------------------------------------------------------
(* Rows and their totals. *)

(* An account is in one of the parts, or in none.                          *)
LEMMA OnePart ==
  ASSUME NEW X, IsFiniteSet(X), NEW P, \A x, y \in X : x # y => P[x] \cap P[y] = {},
         NEW p, NEW n \in Int
  PROVE  SumOver([x \in X |-> IF p \in P[x] THEN n ELSE 0]) = IF \E x \in X : p \in P[x] THEN n ELSE 0
<1>1. PICK f : f = [x \in X |-> IF p \in P[x] THEN n ELSE 0]
  OBVIOUS
<1>2. f \in [X -> Int] /\ \A x \in X : f[x] = IF p \in P[x] THEN n ELSE 0
  BY <1>1
<1>3. CASE \E x \in X : p \in P[x]
  <2>1. PICK x \in X : p \in P[x]
    BY <1>3
  <2>2. \A y \in X : y # x => p \notin P[y]
    BY <2>1
  <2>3. f \in [X -> Int] /\ \A y \in X : y # x => f[y] = 0
    BY <1>2, <2>2
  <2>4. SumOver(f) = f[x]
    BY <2>3, SumOnly
  <2>5. QED
    BY <1>1, <1>2, <1>3, <2>1, <2>4
<1>4. CASE ~\E x \in X : p \in P[x]
  <2>1. f \in [X -> Int] /\ \A y \in X : f[y] = 0
    BY <1>2, <1>4
  <2>2. SumOver(f) = 0
    BY <2>1, SumZero
  <2>3. QED
    BY <1>1, <1>4, <2>2
<1>5. QED
  BY <1>3, <1>4

LEMMA PartsEffect ==
  ASSUME NEW e \in BookEntry, NEW X, IsFiniteSet(X), NEW P,
         \A x, y \in X : x # y => P[x] \cap P[y] = {}, NEW accts, \A p : p \in accts <=> \E x \in X : p \in P[x]
  PROVE  SumOver([x \in X |-> Effect(e, P[x])]) = Effect(e, accts)
<1>1. PICK m \in Int, n \in Int : m = Signed(e.debit, e.amount) /\ n = -Signed(e.credit, e.amount)
  BY EntryIs
<1>2. \A cs : Effect(e, cs) = (IF e.debit \in cs THEN m ELSE 0) + (IF e.credit \in cs THEN n ELSE 0)
  <2>1. PICK k \in Int : k = Signed(e.credit, e.amount)
    BY EntryIs
  <2>2. \A cs : Effect(e, cs) = (IF e.debit \in cs THEN m ELSE 0) - (IF e.credit \in cs THEN k ELSE 0)
    BY <1>1, <2>1 DEF Effect
  <2>3. n = -k
    BY <1>1, <2>1
  <2>4. QED
    BY <2>2, <2>3
<1>3. PICK f, g, h : /\ f = [x \in X |-> IF e.debit \in P[x] THEN m ELSE 0]
                     /\ g = [x \in X |-> IF e.credit \in P[x] THEN n ELSE 0]
                     /\ h = [x \in X |-> Effect(e, P[x])]
  OBVIOUS
<1>4. /\ f \in [X -> Int] /\ g \in [X -> Int] /\ h \in [X -> Int]
      /\ \A x \in X : h[x] = f[x] + g[x]
  <2>1. f \in [X -> Int] /\ g \in [X -> Int]
    BY <1>3
  <2>2. \A x \in X : h[x] = f[x] + g[x]
    BY <1>2, <1>3
  <2>3. h \in [X -> Int]
    BY <1>3, EntryIs
  <2>4. QED
    BY <2>1, <2>2, <2>3
<1>5. SumOver(h) = SumOver(f) + SumOver(g)
  BY <1>4, SumPlus
<1>6. SumOver(f) = IF \E x \in X : e.debit \in P[x] THEN m ELSE 0
  <2>1. PICK a : a = e.debit
    OBVIOUS
  <2>2. SumOver([x \in X |-> IF a \in P[x] THEN m ELSE 0]) = IF \E x \in X : a \in P[x] THEN m ELSE 0
    BY OnePart, SMTT(60)
  <2>3. QED
    BY <1>3, <2>1, <2>2
<1>7. SumOver(g) = IF \E x \in X : e.credit \in P[x] THEN n ELSE 0
  <2>1. PICK a : a = e.credit
    OBVIOUS
  <2>2. SumOver([x \in X |-> IF a \in P[x] THEN n ELSE 0]) = IF \E x \in X : a \in P[x] THEN n ELSE 0
    BY OnePart, SMTT(60)
  <2>3. QED
    BY <1>3, <2>1, <2>2
<1>8. Effect(e, accts) = (IF e.debit \in accts THEN m ELSE 0) + (IF e.credit \in accts THEN n ELSE 0)
  BY <1>2
<1>9. /\ e.debit \in accts <=> \E x \in X : e.debit \in P[x]
      /\ e.credit \in accts <=> \E x \in X : e.credit \in P[x]
  OBVIOUS
<1>10. SumOver(f) = (IF e.debit \in accts THEN m ELSE 0) /\ SumOver(g) = (IF e.credit \in accts THEN n ELSE 0)
  BY <1>6, <1>7, <1>9
<1>11. QED
  BY <1>3, <1>5, <1>8, <1>10

(* Rows add up to the total of all accounts that they are about.           *)
LEMMA PartsTotal ==
  ASSUME ReportsTypeOK, NEW X, IsFiniteSet(X), NEW P,
         \A x, y \in X : x # y => P[x] \cap P[y] = {}, NEW accts, \A p : p \in accts <=> \E x \in X : p \in P[x],
         NEW from, NEW to
  PROVE  SumOver([x \in X |-> Total(P[x], from, to)]) = Total(accts, from, to)
<1>1. PICK D : D = DOMAIN books
  OBVIOUS
<1>2. IsFiniteSet(D)
  BY <1>1, BookedAt
<1>3. PICK f : f = [x \in X |-> Moves(P[x], from, to)]
  OBVIOUS
<1>4. \A x \in X : f[x] \in [D -> Int] /\ SumOver(f[x]) = Total(P[x], from, to)
  <2>1. TAKE x \in X
  <2>2. PICK a : a = P[x]
    OBVIOUS
  <2>3. Moves(a, from, to) \in [DOMAIN books -> Int] /\ Total(a, from, to) = SumOver(Moves(a, from, to))
    BY TotalIs
  <2>4. f[x] = Moves(a, from, to)
    BY <1>3, <2>2
  <2>5. QED
    BY <1>1, <2>2, <2>3, <2>4
<1>5. f \in [X -> [D -> Int]]
  BY <1>3, <1>4
<1>6. SumOver([x \in X |-> SumOver(f[x])]) = SumOver([k \in D |-> SumOver([x \in X |-> f[x][k]])])
  BY <1>2, <1>5, SumsExchanged
<1>7. ASSUME NEW k \in D
      PROVE  SumOver([x \in X |-> f[x][k]]) = Moves(accts, from, to)[k]
  <2>1. PICK e \in BookEntry : e = books[k]
    BY <1>1, BookedAt
  <2>2. CASE Within(e, from, to)
    <3>1. [x \in X |-> f[x][k]] = [x \in X |-> Effect(e, P[x])]
      BY <1>1, <1>3, <2>1, <2>2 DEF Moves
    <3>2. SumOver([x \in X |-> Effect(e, P[x])]) = Effect(e, accts)
      BY PartsEffect
    <3>3. Moves(accts, from, to)[k] = Effect(e, accts)
      BY <1>1, <2>1, <2>2 DEF Moves
    <3>4. QED
      BY <3>1, <3>2, <3>3
  <2>3. CASE ~Within(e, from, to)
    <3>1. PICK g : g = [x \in X |-> f[x][k]]
      OBVIOUS
    <3>2. \A x \in X : g[x] = 0
      BY <1>1, <1>3, <2>1, <2>3, <3>1 DEF Moves
    <3>3. g \in [X -> Int]
      BY <3>1, <3>2
    <3>4. SumOver(g) = 0
      BY <3>2, <3>3, SumZero
    <3>5. Moves(accts, from, to)[k] = 0
      BY <1>1, <2>1, <2>3 DEF Moves
    <3>6. QED
      BY <3>1, <3>4, <3>5
  <2>4. QED
    BY <2>2, <2>3
<1>8. [k \in D |-> SumOver([x \in X |-> f[x][k]])] = Moves(accts, from, to)
  <2>1. Moves(accts, from, to) = [k \in D |-> Moves(accts, from, to)[k]]
    BY <1>1 DEF Moves
  <2>2. QED
    BY <1>7, <2>1
<1>9. [x \in X |-> SumOver(f[x])] = [x \in X |-> Total(P[x], from, to)]
  BY <1>4
<1>10. Total(accts, from, to) = SumOver(Moves(accts, from, to))
  BY TotalIs
<1>11. QED
  BY <1>6, <1>8, <1>9, <1>10, Zenon

(* The days that the months until d are closed on, d for the last.         *)
Ends(d) == {MonthEnd(y) : y \in Earlier(d)} \cup {d}

LEMMA EndsAre ==
  ASSUME NEW d \in Days
  PROVE  /\ IsFiniteSet(Ends(d))
         /\ \A x \in Ends(d) : x \in Nat \ {0} /\ x <= d /\ Min({MonthEnd(x), x}) = x
         /\ \A x \in Ends(d) : x = d \/ (MonthEnd(x) = x /\ x < d)
<1>1. Days \subseteq Nat \ {0} /\ IsFiniteSet(Days)
  BY DaysAre
<1>2. IsFiniteSet(Ends(d))
  <2>1. PICK S : S = Earlier(d)
    OBVIOUS
  <2>2. IsFiniteSet(S)
    BY <1>1, <2>1, FS_Subset DEF Earlier
  <2>3. PICK f : f = [y \in S |-> MonthEnd(y)]
    OBVIOUS
  <2>4. IsFiniteSet({f[y] : y \in S})
    BY <2>2, <2>3, ImageFinite
  <2>5. Ends(d) = {f[y] : y \in S} \cup {d}
    BY <2>1, <2>3 DEF Ends
  <2>6. QED
    BY <2>4, <2>5, FS_AddElement
<1>3. ASSUME NEW y \in Earlier(d), NEW x, x = MonthEnd(y)
      PROVE  x \in Nat \ {0} /\ x < d /\ MonthEnd(x) = x
  <2>1. y \in Nat \ {0} /\ MonthEnd(y) < d
    BY <1>1 DEF Earlier
  <2>2. x \in Nat \ {0}
    BY <1>3, <2>1, MonthsApart
  <2>3. /\ MonthStart(x) \in Nat /\ MonthEnd(x) \in Nat /\ MonthStart(y) \in Nat
        /\ MonthStart(x) <= x /\ x <= MonthEnd(x) /\ MonthStart(y) <= y /\ y <= MonthEnd(y)
    BY <2>1, <2>2, MonthsApart
  <2>4. \/ MonthEnd(x) = MonthEnd(y)
        \/ MonthEnd(x) < MonthStart(y)
        \/ MonthEnd(y) < MonthStart(x)
    BY <2>1, <2>2, MonthsApart
  <2>5. QED
    BY <1>3, <2>1, <2>2, <2>3, <2>4
<1>4. ASSUME NEW x \in Ends(d)
      PROVE  x \in Nat \ {0} /\ x <= d /\ (x = d \/ (MonthEnd(x) = x /\ x < d))
  <2>1. CASE x = d
    BY <1>1, <2>1
  <2>2. CASE x # d
    <3>1. PICK y \in Earlier(d) : x = MonthEnd(y)
      BY <2>2 DEF Ends
    <3>2. x \in Nat \ {0} /\ x < d /\ MonthEnd(x) = x
      BY <1>3, <3>1
    <3>3. QED
      BY <1>1, <3>2
  <2>3. QED
    BY <2>1, <2>2
<1>5. ASSUME NEW x \in Ends(d) PROVE Min({MonthEnd(x), x}) = x
  <2>1. PICK m \in Nat, n \in Nat : m = MonthEnd(x) /\ n = x /\ n <= m
    BY <1>4, MonthsApart
  <2>2. Min({m, n}) = n
    BY EarlierOf, <2>1
  <2>3. QED
    BY <2>1, <2>2
<1>6. QED
  BY <1>2, <1>4, <1>5

LEMMA OneMonth ==
  ASSUME NEW d \in Days, NEW n \in Days, n <= d
  PROVE  \E x \in Ends(d) : \A y \in Ends(d) : MonthStart(y) <= n /\ n <= y <=> y = x
<1>1. Days \subseteq Nat \ {0}
  BY DaysAre
<1>2. ASSUME NEW y \in Nat \ {0}, MonthStart(y) <= n, n <= MonthEnd(y)
      PROVE  MonthStart(y) = MonthStart(n) /\ MonthEnd(y) = MonthEnd(n)
  <2>1. /\ MonthStart(n) <= n /\ n <= MonthEnd(n) /\ n \in Nat
        /\ MonthStart(n) \in Nat /\ MonthEnd(n) \in Nat
        /\ MonthStart(y) \in Nat /\ MonthEnd(y) \in Nat
    BY <1>1, MonthsApart
  <2>2. \/ MonthStart(y) = MonthStart(n) /\ MonthEnd(y) = MonthEnd(n)
        \/ MonthEnd(y) < MonthStart(n)
        \/ MonthEnd(n) < MonthStart(y)
    BY <1>1, MonthsApart
  <2>3. QED
    BY <1>2, <2>1, <2>2
<1>3. /\ d \in Nat \ {0} /\ n \in Nat \ {0}
      /\ MonthStart(d) \in Nat /\ MonthEnd(d) \in Nat /\ MonthStart(d) <= d /\ d <= MonthEnd(d)
      /\ MonthStart(n) \in Nat /\ MonthEnd(n) \in Nat /\ MonthStart(n) <= n /\ n <= MonthEnd(n)
  BY <1>1, MonthsApart
<1>4. ASSUME NEW y \in Ends(d), MonthStart(y) <= n, n <= y
      PROVE  y \in Nat /\ MonthStart(y) = MonthStart(n) /\ MonthEnd(y) = MonthEnd(n)
  <2>1. y \in Nat \ {0} /\ y <= MonthEnd(y) /\ MonthEnd(y) \in Nat
    BY EndsAre, MonthsApart
  <2>2. n <= MonthEnd(y)
    BY <1>3, <1>4, <2>1
  <2>3. QED
    BY <1>2, <1>4, <2>1, <2>2
<1>5. CASE MonthEnd(n) < d
  <2>1. PICK x : x = MonthEnd(n)
    OBVIOUS
  <2>2. x \in Ends(d)
    BY <1>5, <2>1 DEF Ends, Earlier
  <2>3. x \in Nat \ {0} /\ MonthEnd(x) = x
    BY <1>3, <1>5, <2>1, <2>2, EndsAre
  <2>4. MonthStart(x) <= n /\ n <= x
    <3>1. /\ MonthStart(x) \in Nat /\ MonthStart(x) <= x
          /\ \/ MonthStart(x) = MonthStart(n)
             \/ MonthEnd(x) < MonthStart(n)
             \/ MonthEnd(n) < MonthStart(x)
      BY <1>3, <2>3, MonthsApart
    <3>2. QED
      BY <1>3, <2>1, <2>3, <3>1
  <2>5. ASSUME NEW y \in Ends(d), MonthStart(y) <= n, n <= y PROVE y = x
    <3>1. y \in Nat /\ MonthEnd(y) = x
      BY <1>4, <2>1, <2>5
    <3>2. y = d \/ MonthEnd(y) = y
      BY EndsAre
    <3>3. y # d
      BY <1>3, <1>5, <2>1, <3>1
    <3>4. QED
      BY <3>1, <3>2, <3>3
  <2>6. QED
    BY <2>2, <2>4, <2>5
<1>6. CASE ~(MonthEnd(n) < d)
  <2>1. d \in Ends(d)
    BY DEF Ends
  <2>2. MonthStart(d) <= n
    <3>1. \/ MonthStart(d) = MonthStart(n)
          \/ MonthEnd(d) < MonthStart(n)
          \/ MonthEnd(n) < MonthStart(d)
      BY <1>3, MonthsApart
    <3>2. QED
      BY <1>3, <1>6, <3>1
  <2>3. ASSUME NEW y \in Ends(d), MonthStart(y) <= n, n <= y PROVE y = d
    <3>1. y \in Nat /\ MonthEnd(y) = MonthEnd(n)
      BY <1>4, <2>3
    <3>2. y = d \/ (MonthEnd(y) = y /\ y < d)
      BY EndsAre
    <3>3. QED
      BY <1>3, <1>6, <3>1, <3>2
  <2>4. QED
    BY <2>1, <2>2, <2>3
<1>7. QED
  BY <1>5, <1>6

(* The months add up to all the time until d. *)
LEMMA MonthsTotal ==
  ASSUME ReportsTypeOK, NEW d \in Days, NEW accts
  PROVE  SumOver([x \in Ends(d) |-> Total(accts, MonthStart(x), x)]) = Total(accts, First, d)
<1>1. PICK D, X : D = DOMAIN books /\ X = Ends(d)
  OBVIOUS
<1>2. IsFiniteSet(D) /\ IsFiniteSet(X)
  BY <1>1, BookedAt, EndsAre
<1>3. PICK f : f = [x \in X |-> Moves(accts, MonthStart(x), x)]
  OBVIOUS
<1>4. \A x \in X : f[x] \in [D -> Int] /\ SumOver(f[x]) = Total(accts, MonthStart(x), x)
  <2>1. TAKE x \in X
  <2>2. PICK m : m = MonthStart(x)
    OBVIOUS
  <2>3. /\ Moves(accts, m, x) \in [DOMAIN books -> Int]
        /\ Total(accts, m, x) = SumOver(Moves(accts, m, x))
    BY TotalIs
  <2>4. f[x] = Moves(accts, m, x)
    BY <1>3, <2>2
  <2>5. QED
    BY <1>1, <2>2, <2>3, <2>4
<1>5. f \in [X -> [D -> Int]]
  BY <1>3, <1>4
<1>6. SumOver([x \in X |-> SumOver(f[x])]) = SumOver([k \in D |-> SumOver([x \in X |-> f[x][k]])])
  BY <1>2, <1>5, SumsExchanged
<1>7. ASSUME NEW k \in D
      PROVE  SumOver([x \in X |-> f[x][k]]) = Moves(accts, First, d)[k]
  <2>1. PICK e \in BookEntry : e = books[k]
    BY <1>1, BookedAt
  <2>2. PICK n \in Int : n = Effect(e, accts)
    BY EntryIs
  <2>3. PICK g : g = [x \in X |-> f[x][k]]
    OBVIOUS
  <2>4. \A x \in X : g[x] = IF MonthStart(x) <= e.day /\ e.day <= x THEN n ELSE 0
    <3>1. TAKE x \in X
    <3>2. CASE Within(e, MonthStart(x), x)
      BY <1>1, <1>3, <2>1, <2>2, <2>3, <3>2 DEF Moves, Within
    <3>3. CASE ~Within(e, MonthStart(x), x)
      BY <1>1, <1>3, <2>1, <2>2, <2>3, <3>3 DEF Moves, Within
    <3>4. QED
      BY <3>2, <3>3
  <2>5. g \in [X -> Int]
    BY <2>3, <2>4
  <2>6. e.day \in Days /\ e.day \in Nat /\ d \in Nat /\ First <= e.day
    BY EntryIs, FirstIs, DaysAre
  <2>7. Moves(accts, First, d)[k] = IF e.day <= d THEN n ELSE 0
    <3>1. Within(e, First, d) <=> e.day <= d
      BY <2>6 DEF Within
    <3>2. QED
      BY <1>1, <2>1, <2>2, <3>1 DEF Moves
  <2>8. CASE e.day <= d
    <3>1. PICK x \in X : \A y \in X : MonthStart(y) <= e.day /\ e.day <= y <=> y = x
      BY <1>1, <2>6, <2>8, OneMonth
    <3>2. g[x] = n /\ \A y \in X : y # x => g[y] = 0
      BY <2>4, <3>1
    <3>3. SumOver(g) = g[x]
      <4>1. \A y \in X : y # x => g[y] = 0
        BY <3>2
      <4>2. QED
        BY <1>2, <2>5, <4>1, SumOnly
    <3>4. QED
      BY <2>3, <2>7, <2>8, <3>2, <3>3
  <2>9. CASE ~(e.day <= d)
    <3>1. \A x \in X : x \in Nat /\ x <= d
      BY <1>1, EndsAre
    <3>2. \A x \in X : g[x] = 0
      BY <2>4, <2>6, <2>9, <3>1
    <3>3. SumOver(g) = 0
      BY <1>2, <2>5, <3>2, SumZero
    <3>4. QED
      BY <2>3, <2>7, <2>9, <3>3
  <2>10. QED
    BY <2>8, <2>9
<1>8. [k \in D |-> SumOver([x \in X |-> f[x][k]])] = Moves(accts, First, d)
  <2>1. Moves(accts, First, d) = [k \in D |-> Moves(accts, First, d)[k]]
    BY <1>1 DEF Moves
  <2>2. QED
    BY <1>7, <2>1
<1>9. [x \in X |-> SumOver(f[x])] = [x \in X |-> Total(accts, MonthStart(x), x)]
  BY <1>4
<1>10. Total(accts, First, d) = SumOver(Moves(accts, First, d))
  BY TotalIs
<1>11. QED
  BY <1>1, <1>6, <1>8, <1>9, <1>10, Zenon

-----------------------------------------------------------------------------
(* What the reports say of one day. *)

LEMMA StatementsAre ==
  ASSUME ReportsTypeOK, NEW from, NEW to
  PROVE  /\ IncomeStatement(from, to).net \in Int
         /\ IncomeStatement(from, to).net =
              Total(OfType["income"], from, to) - Total(OfType["expense"], from, to)
<1>1. PICK i \in Int, x \in Int : /\ i = Total(OfType["income"], from, to)
                                  /\ x = Total(OfType["expense"], from, to)
  BY TotalIs
<1>2. IncomeStatement(from, to).net = i - x
  BY <1>1 DEF IncomeStatement
<1>3. QED
  BY <1>1, <1>2

LEMMA SheetAgrees ==
  ASSUME ReportsTypeOK, NEW d
  PROVE  /\ BalanceSheet(d).balanced /\ BalanceSheet(d).equity = NetWorth(d)
         /\ BalanceSheet(d).earnings = IncomeStatement(First, d).net
<1>1. PICK a \in Int, l \in Int, q \in Int, i \in Int, x \in Int :
        /\ a = Total(OfType["asset"], First, d)
        /\ l = Total(OfType["liability"], First, d)
        /\ q = Total(OfType["equity"], First, d)
        /\ i = Total(OfType["income"], First, d)
        /\ x = Total(OfType["expense"], First, d)
  BY TotalIs
<1>2. a + x = l + q + i
  BY <1>1, BooksBalanced
<1>3. BalanceSheet(d) = [assets |-> a, liabilities |-> l, earnings |-> i - x,
                             equity |-> q + (i - x), balanced |-> a = l + (q + (i - x))]
  BY <1>1 DEF BalanceSheet
<1>4. NetWorth(d) = a - l
  BY <1>1 DEF NetWorth
<1>5. IncomeStatement(First, d).net = i - x
  BY <1>1, StatementsAre
<1>6. q + (i - x) = a - l /\ a = l + (q + (i - x))
  BY <1>1, <1>2
<1>7. PICK s : s = BalanceSheet(d)
  OBVIOUS
<1>8. s.balanced /\ s.equity = q + (i - x) /\ s.earnings = i - x
  <2>1. s.equity = q + (i - x) /\ s.earnings = i - x
    BY <1>3, <1>7
  <2>2. s.balanced
    <3>1. (a = l + (q + (i - x))) = TRUE
      BY <1>6
    <3>2. s = [assets |-> a, liabilities |-> l, earnings |-> i - x,
               equity |-> q + (i - x), balanced |-> TRUE]
      BY <1>3, <1>7, <3>1, Zenon
    <3>3. QED
      BY <3>2
  <2>3. QED
    BY <2>1, <2>2
<1>9. s.equity = NetWorth(d) /\ s.earnings = IncomeStatement(First, d).net
  <2>1. s.equity = q + (i - x) /\ q + (i - x) = a - l /\ s.earnings = i - x
    BY <1>6, <1>8
  <2>2. QED
    BY <1>4, <1>5, <2>1
<1>10. QED
  BY <1>7, <1>8, <1>9

LEMMA PeriodsAgree ==
  ASSUME ReportsTypeOK, NEW d \in Days, NEW m \in Days, m < d
  PROVE  /\ IncomeStatement(First, m).net + IncomeStatement(m + 1, d).net =
              IncomeStatement(First, d).net
         /\ NetWorth(d) - NetWorth(m) =
              IncomeStatement(m + 1, d).net + Total(OfType["equity"], m + 1, d)
         /\ CashFlow(First, m) + CashFlow(m + 1, d) = CashFlow(First, d)
<1>1. /\ First \in Int /\ First <= m /\ m \in Int /\ d \in Int
  BY FirstIs, DaysAre
<1>2. \A accts : Total(accts, First, d) = Total(accts, First, m) + Total(accts, m + 1, d)
  BY <1>1, PeriodsAdd
<1>3. PICK a \in Int, l \in Int, q \in Int, i \in Int, x \in Int :
        /\ a = Total(OfType["asset"], m + 1, d)
        /\ l = Total(OfType["liability"], m + 1, d)
        /\ q = Total(OfType["equity"], m + 1, d)
        /\ i = Total(OfType["income"], m + 1, d)
        /\ x = Total(OfType["expense"], m + 1, d)
  BY TotalIs
<1>4. a + x = l + q + i
  BY <1>3, BooksBalanced
<1>5. PICK a0 \in Int, l0 \in Int, i0 \in Int, x0 \in Int :
        /\ a0 = Total(OfType["asset"], First, m)
        /\ l0 = Total(OfType["liability"], First, m)
        /\ i0 = Total(OfType["income"], First, m)
        /\ x0 = Total(OfType["expense"], First, m)
  BY TotalIs
<1>6. /\ IncomeStatement(First, m).net = i0 - x0
      /\ IncomeStatement(m + 1, d).net = i - x
      /\ IncomeStatement(First, d).net = (i0 + i) - (x0 + x)
  <2>1. IncomeStatement(First, m).net = i0 - x0
    BY <1>5, StatementsAre
  <2>2. IncomeStatement(m + 1, d).net = i - x
    BY <1>3, StatementsAre
  <2>3. IncomeStatement(First, d).net = (i0 + i) - (x0 + x)
    BY <1>2, <1>3, <1>5, StatementsAre
  <2>4. QED
    BY <2>1, <2>2, <2>3
<1>7. NetWorth(d) = (a0 + a) - (l0 + l) /\ NetWorth(m) = a0 - l0
  BY <1>2, <1>3, <1>5 DEF NetWorth
<1>8. CashFlow(First, m) + CashFlow(m + 1, d) = CashFlow(First, d)
  <2>1. PICK c : c = Cash
    OBVIOUS
  <2>2. Total(c, First, d) = Total(c, First, m) + Total(c, m + 1, d)
    BY <1>2
  <2>3. QED
    BY <2>1, <2>2 DEF CashFlow
<1>9. /\ (i0 - x0) + (i - x) = (i0 + i) - (x0 + x)
      /\ ((a0 + a) - (l0 + l)) - (a0 - l0) = (i - x) + q
  BY <1>4
<1>10. QED
  BY <1>3, <1>6, <1>7, <1>8, <1>9

LEMMA MonthsAgree ==
  ASSUME ReportsTypeOK, NEW d \in Days
  PROVE  SumOver([x \in Ends(d) |-> MonthOf(x).net]) = IncomeStatement(First, d).net
<1>1. PICK X, inc, exp : X = Ends(d) /\ inc = OfType["income"] /\ exp = OfType["expense"]
  OBVIOUS
<1>2. IsFiniteSet(X)
  BY <1>1, EndsAre
<1>3. PICK n, i, e : /\ n = [x \in X |-> MonthOf(x).net]
                     /\ i = [x \in X |-> Total(inc, MonthStart(x), x)]
                     /\ e = [x \in X |-> Total(exp, MonthStart(x), x)]
  OBVIOUS
<1>4. /\ n \in [X -> Int] /\ i \in [X -> Int] /\ e \in [X -> Int]
      /\ \A x \in X : i[x] = n[x] + e[x]
  <2>1. ASSUME NEW x \in X
        PROVE  n[x] \in Int /\ i[x] \in Int /\ e[x] \in Int /\ i[x] = n[x] + e[x]
    <3>1. PICK m : m = MonthStart(x)
      OBVIOUS
    <3>2. MonthOf(x) = IncomeStatement(m, x)
      BY <1>1, <3>1, EndsAre DEF MonthOf
    <3>3. PICK u \in Int, v \in Int : u = Total(inc, m, x) /\ v = Total(exp, m, x)
      BY TotalIs
    <3>4. IncomeStatement(m, x).net = u - v
      BY <1>1, <3>3, StatementsAre
    <3>5. n[x] = u - v /\ i[x] = u /\ e[x] = v
      BY <1>3, <3>1, <3>2, <3>3, <3>4
    <3>6. QED
      BY <3>3, <3>5
  <2>2. QED
    BY <1>3, <2>1
<1>5. SumOver(i) = SumOver(n) + SumOver(e)
  BY <1>2, <1>4, SumPlus
<1>6. PICK u \in Int, v \in Int : u = Total(inc, First, d) /\ v = Total(exp, First, d)
  BY TotalIs
<1>7. SumOver(i) = u /\ SumOver(e) = v
  <2>1. \A accts : SumOver([x \in Ends(d) |-> Total(accts, MonthStart(x), x)]) = Total(accts, First, d)
    BY MonthsTotal
  <2>2. QED
    BY <1>1, <1>3, <1>6, <2>1
<1>8. SumOver(n) \in Int
  BY <1>2, <1>4, SumInt
<1>9. SumOver(n) = u - v
  BY <1>5, <1>6, <1>7, <1>8
<1>10. IncomeStatement(First, d).net = u - v
  BY <1>1, <1>6, StatementsAre
<1>11. SumOver(n) = SumOver(n)
  OBVIOUS
<1>12. QED
  BY <1>1, <1>3, <1>9, <1>10, <1>11

LEMMA GrossAgrees ==
  ASSUME ReportsTypeOK, NEW from, NEW to
  PROVE  GrossProfit(from, to) - Total(OfType["expense"] \ CostOfGoods, from, to) =
           IncomeStatement(from, to).net
<1>1. PICK c, x : c = CostOfGoods /\ x = OfType["expense"]
  OBVIOUS
<1>2. c \subseteq x
  BY <1>1 DEF CostOfGoods, OfGroup
<1>3. PICK r : r = x \ c
  OBVIOUS
<1>4. \A en \in BookEntry : Effect(en, x) = Effect(en, c) + Effect(en, r)
  <2>1. TAKE en \in BookEntry
  <2>2. c \cap r = {} /\ x = c \cup r
    BY <1>2, <1>3
  <2>3. Effect(en, c \cup r) = Effect(en, c) + Effect(en, r)
    BY <2>2, DisjointAdd
  <2>4. QED
    BY <2>2, <2>3
<1>5. Total(x, from, to) = Total(c, from, to) + Total(r, from, to)
  BY <1>4, TotalsAdd
<1>6. PICK k \in Int, o \in Int, i \in Int : /\ k = Total(c, from, to) /\ o = Total(r, from, to)
                                             /\ i = Total(OfType["income"], from, to)
  BY TotalIs
<1>7. GrossProfit(from, to) = i - k
  BY <1>1, <1>6 DEF GrossProfit
<1>8. IncomeStatement(from, to).net = i - (k + o)
  BY <1>1, <1>5, <1>6, StatementsAre
<1>9. QED
  BY <1>1, <1>3, <1>6, <1>7, <1>8

LEMMA MonthIsTo ==
  ASSUME NEW d \in Days
  PROVE  /\ MonthOf(d).income = Total(OfType["income"], MonthStart(d), d)
         /\ MonthOf(d).expenses = Total(OfType["expense"], MonthStart(d), d)
<1>1. d \in Ends(d)
  BY DEF Ends
<1>2. Min({MonthEnd(d), d}) = d
  BY <1>1, EndsAre
<1>3. PICK m : m = MonthStart(d)
  OBVIOUS
<1>4. MonthOf(d) = IncomeStatement(m, d)
  BY <1>2, <1>3 DEF MonthOf
<1>5. QED
  BY <1>3, <1>4 DEF IncomeStatement

LEMMA SpendingAgrees ==
  ASSUME ReportsTypeOK, NEW d \in Days
  PROVE  SumOver(Spending(d)) = MonthOf(d).expenses
<1>1. PICK X, exp, m : X = OfType["expense"] /\ exp = X /\ m = MonthStart(d)
  OBVIOUS
<1>2. IsFiniteSet(X)
  <2>1. X \subseteq ChartAccounts
    BY <1>1 DEF OfType, Types
  <2>2. QED
    BY <2>1, DaysAre, FS_Subset
<1>3. PICK P : P = [a \in X |-> {a}]
  OBVIOUS
<1>4. (\A x, y \in X : x # y => P[x] \cap P[y] = {}) /\ (\A p : p \in exp <=> \E x \in X : p \in P[x])
  BY <1>1, <1>3
<1>5. SumOver([x \in X |-> Total(P[x], m, d)]) = Total(exp, m, d)
  BY <1>2, <1>4, PartsTotal
<1>6. Spending(d) = [x \in X |-> Total(P[x], m, d)]
  BY <1>1, <1>3 DEF Spending, Actuals, Balance
<1>7. SumOver(Spending(d)) = SumOver(Spending(d))
  OBVIOUS
<1>8. MonthOf(d).expenses = Total(exp, m, d)
  BY <1>1, MonthIsTo
<1>9. QED
  BY <1>5, <1>6, <1>7, <1>8

LEMMA DependencyAgrees ==
  ASSUME ReportsTypeOK, NEW d \in Days
  PROVE  SumOver(Dependency(d)) = MonthOf(d).income
<1>1. PICK I, m : I = OfType["income"] /\ m = MonthStart(d)
  OBVIOUS
<1>2. IsFiniteSet(I) /\ \A a \in I : a \in ChartAccounts
  <2>1. I \subseteq ChartAccounts
    BY <1>1 DEF OfType, Types
  <2>2. QED
    BY <2>1, DaysAre, FS_Subset
<1>3. PICK f : f = [a \in I |-> Chart[a].group]
  OBVIOUS
<1>4. PICK X : X = {Chart[a].group : a \in I}
  OBVIOUS
<1>5. IsFiniteSet(X)
  <2>1. IsFiniteSet({f[a] : a \in I})
    BY <1>2, <1>3, ImageFinite
  <2>2. X = {f[a] : a \in I}
    BY <1>3, <1>4
  <2>3. QED
    BY <2>1, <2>2
<1>6. PICK P : P = [g \in X |-> OfGroup("income", g)]
  OBVIOUS
<1>7. \A g \in X : P[g] = {a \in I : Chart[a].group = g}
  BY <1>1, <1>6 DEF OfGroup
<1>8. (\A x, y \in X : x # y => P[x] \cap P[y] = {}) /\ (\A p : p \in I <=> \E x \in X : p \in P[x])
  BY <1>4, <1>7
<1>9. SumOver([x \in X |-> Total(P[x], m, d)]) = Total(I, m, d)
  BY <1>5, <1>8, PartsTotal
<1>10. Dependency(d) = [x \in X |-> Total(P[x], m, d)]
  BY <1>1, <1>4, <1>6 DEF Dependency
<1>11. SumOver(Dependency(d)) = SumOver(Dependency(d))
  OBVIOUS
<1>12. MonthOf(d).income = Total(I, m, d)
  BY <1>1, MonthIsTo
<1>13. QED
  BY <1>9, <1>10, <1>11, <1>12

LEMMA ReportsSay ==
  ASSUME ReportsTypeOK
  PROVE  ReportsAgree
<1>1. ASSUME NEW d \in Days
      PROVE  /\ SumOver([x \in {MonthEnd(y) : y \in Earlier(d)} \cup {d} |-> MonthOf(x).net]) =
                  IncomeStatement(First, d).net
             /\ GrossProfit(First, d) - Total(OfType["expense"] \ CostOfGoods, First, d) =
                  IncomeStatement(First, d).net
             /\ SumOver(Spending(d)) = MonthOf(d).expenses
             /\ SumOver(Dependency(d)) = MonthOf(d).income
  <2>1. SumOver([x \in {MonthEnd(y) : y \in Earlier(d)} \cup {d} |-> MonthOf(x).net]) =
                  IncomeStatement(First, d).net
    BY MonthsAgree DEF Ends
  <2>2. GrossProfit(First, d) - Total(OfType["expense"] \ CostOfGoods, First, d) =
                  IncomeStatement(First, d).net
    BY GrossAgrees
  <2>3. QED
    BY <2>1, <2>2, SpendingAgrees, DependencyAgrees
<1>2. ASSUME NEW d \in Days
      PROVE  /\ BalanceSheet(d).balanced /\ BalanceSheet(d).equity = NetWorth(d)
             /\ BalanceSheet(d).earnings = IncomeStatement(First, d).net
  BY SheetAgrees
<1>3. ASSUME NEW d \in Days, NEW m \in {m \in Days : m < d}
      PROVE  /\ IncomeStatement(First, m).net + IncomeStatement(m + 1, d).net =
                  IncomeStatement(First, d).net
             /\ NetWorth(d) - NetWorth(m) =
                  IncomeStatement(m + 1, d).net + Total(OfType["equity"], m + 1, d)
             /\ CashFlow(First, m) + CashFlow(m + 1, d) = CashFlow(First, d)
  BY PeriodsAgree
<1>4. QED
  BY <1>1, <1>2, <1>3 DEF ReportsAgree

(* The statements agree with each other on every day, whatever was booked, *)
(* voided or dated back: balance sheet, income statements, cash flow, net  *)
(* worth, gross profit, spending by category and the dependency report     *)
(* (business.py and personal.py). It follows from what an entry is: two    *)
(* lines of one amount, on accounts of the chart.                          *)
THEOREM ReportsStatementsAgree ==
  ReportsSpec => []ReportsAgree
<1>1. ReportsTypeOK => ReportsAgree
  BY ReportsSay
<1>2. ReportsSpec => []ReportsTypeOK
  BY ReportsSnapshotsExplained, PTL
<1>3. QED
  BY <1>1, <1>2, PTL
=============================================================================
