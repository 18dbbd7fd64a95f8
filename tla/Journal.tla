------------------------------ MODULE Journal -------------------------------
(***************************************************************************)
(* The journal endpoints as requests run them (api/journal.py over         *)
(* services/journal.py), each in one database transaction (api/deps.py     *)
(* get_db) under PostgreSQL's READ COMMITTED and without row locks or      *)
(* version columns: a request reads the entry's row, then its lines in a   *)
(* second statement, checks what it read, writes by primary key, and       *)
(* commits.  Every write of a request becomes visible in its one commit    *)
(* step; any error, refusal or crash before that rolls all of it back.     *)
(***************************************************************************)
EXTENDS Ledger

CONSTANTS Payloads,   \* the lines a client may send
          Serial      \* TRUE: no two requests in flight name the same entry

ASSUME PayloadsAssumption == Payloads \subseteq Batch
ASSUME SerialAssumption == Serial \in BOOLEAN

VARIABLES requests,   \* requests[r]: how far request r is and what it has read
          audit       \* the rows of audit_logs: who did what to which entry

vars == <<entries, requests, audit>>

Phases == {"new", "reading", "ready", "committed", "rolledback"}

Request == [phase  : Phases,
            entry  : Requests \cup {None},
            status : Statuses \cup {None},
            lines  : Lines]

AuditRow == [id : Requests, action : {"create", "update", "delete", "post", "void"},
             object : Requests]

Fresh == [phase |-> "new", entry |-> None, status |-> None, lines |-> NoLines]

InFlight(r) == requests[r].phase \in {"reading", "ready"}

Init == /\ LedgerInit
        /\ requests = [r \in Requests |-> Fresh]
        /\ audit = {}

(* The transaction of r ends; its session and what it had read are gone. *)
Finish(r, phase) == requests' = [requests EXCEPT ![r] = [Fresh EXCEPT !.phase = phase]]

(* The void endpoint forgets its audit row. *)
RecordAllButVoid(r, act, e) ==
  audit' = IF act = "void" THEN audit ELSE audit \cup {[id |-> r, action |-> act, object |-> e]}

(* write_audit, in the same transaction as the change it records. *)
Record(r, act, e) == audit' = audit \cup {[id |-> r, action |-> act, object |-> e]}

-----------------------------------------------------------------------------
(* get_entry_scoped, first statement: the entry's own row. *)
ReadEntry(r, e) ==
  /\ requests[r].phase = "new"
  /\ Exists(e)
  /\ Serial => \A q \in Requests : InFlight(q) => requests[q].entry # e
  /\ requests' = [requests EXCEPT ![r] =
       [phase |-> "reading", entry |-> e, status |-> entries[e].status, lines |-> NoLines]]
  /\ UNCHANGED <<entries, audit>>

(* get_entry_scoped, second statement: selectinload of the lines, which    *)
(* sees what was committed since the first.                                *)
ReadLines(r) ==
  LET e == requests[r].entry IN
  /\ requests[r].phase = "reading"
  /\ requests' = [requests EXCEPT ![r].phase = "ready",
                                  ![r].lines = IF Exists(e) THEN entries[e].lines ELSE NoLines]
  /\ UNCHANGED <<entries, audit>>

(* create_draft: nothing is read that the write depends on. *)
Create(r) ==
  /\ requests[r].phase = "new"
  /\ \E p \in Payloads :
       /\ SingleSided(p)
       /\ entries' = [entries EXCEPT ![r] =
            [status |-> "draft", header |-> r, lines |-> [NoLines EXCEPT ![r] = p],
             voids |-> None, voidedBy |-> None]]
  /\ Record(r, "create", r)
  /\ Finish(r, "committed")

(* update_draft with lines: the rows that were read are deleted, the new   *)
(* ones inserted; rows committed in between are in neither set.            *)
Replaced(current, read, r, p) ==
  [q \in Requests |-> IF q = r THEN p
                      ELSE IF read[q] # <<>> THEN <<>> ELSE current[q]]

(* The status check lets a posted entry be edited. *)
MayUpdateBooked(r) == requests[r].phase = "ready" /\ requests[r].status # "voided"

MayUpdate(r) == requests[r].phase = "ready" /\ requests[r].status = "draft"

(* The foreign key of the new lines, the row count of the UPDATE or the    *)
(* final refresh refuses an entry that is gone by now.                     *)
Update(r) ==
  LET e == requests[r].entry IN
  /\ MayUpdate(r)
  /\ Exists(e)
  /\ \E newHeader \in BOOLEAN, p \in Payloads \cup {<<>>} :
       /\ SingleSided(p)
       /\ entries' = [entries EXCEPT
            ![e].header = IF newHeader THEN r ELSE @,
            ![e].lines  = IF p = <<>> THEN @ ELSE Replaced(@, requests[r].lines, r, p)]
  /\ Record(r, "update", e)
  /\ Finish(r, "committed")

(* The row goes with its lines (ON DELETE CASCADE) and references to it    *)
(* are cleared (ON DELETE SET NULL).                                       *)
Removed(e) ==
  [x \in Requests |->
     IF x = e \/ ~Exists(x) THEN None
     ELSE [entries[x] EXCEPT !.voids    = IF @ = e THEN None ELSE @,
                             !.voidedBy = IF @ = e THEN None ELSE @]]

(* The status check lets a posted entry be deleted. *)
MayDeleteBooked(r) == requests[r].phase = "ready" /\ requests[r].status # "voided"

MayDelete(r) == requests[r].phase = "ready" /\ requests[r].status = "draft"

(* delete_draft: deleting a row that is already gone is only a warning. *)
Delete(r) ==
  LET e == requests[r].entry IN
  /\ MayDelete(r)
  /\ entries' = Removed(e)
  /\ Record(r, "delete", e)
  /\ Finish(r, "committed")

(* Posting does not check the balance. *)
MayPostUnbalanced(r) == requests[r].phase = "ready" /\ requests[r].status = "draft"

MayPost(r) == /\ requests[r].phase = "ready"
              /\ requests[r].status = "draft"
              /\ Balanced(requests[r].lines)

(* post_entry: the checks are on what was read, the write is on status     *)
(* alone; updating a row that is gone raises StaleDataError.               *)
Post(r) ==
  LET e == requests[r].entry IN
  /\ MayPost(r)
  /\ Exists(e)
  /\ entries' = [entries EXCEPT ![e].status = "posted"]
  /\ Record(r, "post", e)
  /\ Finish(r, "committed")

MayVoid(r) == requests[r].phase = "ready" /\ requests[r].status = "posted"

(* The reversal repeats the lines without exchanging their sides. *)
UnswappedRow(r) == [status |-> "posted", header |-> r, lines |-> requests[r].lines,
                    voids |-> requests[r].entry, voidedBy |-> None]

(* The reversal is made from the lines that were read. *)
ReversalRow(r) == [status |-> "posted", header |-> r, lines |-> Reversed(requests[r].lines),
                   voids |-> requests[r].entry, voidedBy |-> None]

(* void_entry: both rows are written in the one transaction. *)
Void(r) ==
  LET e == requests[r].entry IN
  /\ MayVoid(r)
  /\ Exists(e)
  /\ entries' = [entries EXCEPT
       ![e] = [@ EXCEPT !.status = "voided", !.voidedBy = r],
       ![r] = ReversalRow(r)]
  /\ Record(r, "void", e)
  /\ Finish(r, "committed")

(* get_db's except branch: a refusal, a database error, a crash or a lost  *)
(* connection, at any point before the commit.                             *)
Rollback(r) ==
  /\ InFlight(r)
  /\ Finish(r, "rolledback")
  /\ UNCHANGED <<entries, audit>>

Next == \E r \in Requests :
          \/ \E e \in Requests : ReadEntry(r, e)
          \/ ReadLines(r)
          \/ Create(r) \/ Update(r) \/ Delete(r) \/ Post(r) \/ Void(r)
          \/ Rollback(r)

Spec == Init /\ [][Next]_vars

-----------------------------------------------------------------------------
TypeOK == /\ entries \in [Requests -> Entry \cup {None}]
          /\ requests \in [Requests -> Request]
          /\ \A r \in Requests : InFlight(r) => requests[r].entry \in Requests
          /\ audit \subseteq AuditRow

IsReversal(e) == \E row \in audit : row.action = "void" /\ row.id = e

Did(act, e) == \E row \in audit : row.action = act /\ row.object = e

(* However requests overlap, a voided entry has its reversal: the entry    *)
(* voided_by_entry_id names is in the books and names it back.  A delete   *)
(* that read the entry as a draft long ago must not be able to clear it.   *)
VoidedHasReversal ==
  \A e \in Requests : Exists(e) /\ entries[e].status = "voided" =>
    entries[e].voidedBy # None /\ Booked(entries[e].voidedBy)
                              /\ entries[entries[e].voidedBy].voids = e

(* However requests overlap, the audit log accounts for the journal: an    *)
(* entry in the books has its post row, or is the reversal of a void row;  *)
(* a voided one has its void row; one that is gone has its delete row.     *)
AuditExplains ==
  \A e \in Requests :
    /\ Booked(e) => Did("post", e) \/ IsReversal(e)
    /\ Exists(e) /\ entries[e].status = "voided" => Did("void", e)
    /\ Did("create", e) /\ ~Exists(e) => Did("delete", e)

Unedited == \A row \in audit : row.action # "update"

(* However requests overlap, it takes an edit to unbalance the books:      *)
(* while no update has committed, every entry in them balances.            *)
UneditedBooksBalance == Unedited => BooksBalance

-----------------------------------------------------------------------------
(* The strengthenings under which the properties are inductive. *)

(* A request's identity names no row before the request commits. *)
NoIdReuse == \A r \in Requests : requests[r].phase # "committed" => ~Exists(r)

(* What a request in flight has read may be out of date, but only so far:  *)
(* a reversal was never a draft, and an entry in the books stays there or  *)
(* goes.                                                                   *)
ReadsLag ==
  \A r \in Requests : InFlight(r) =>
    LET e == requests[r].entry IN
      /\ e \in Requests
      /\ requests[e].phase = "committed"
      /\ requests[r].status = "draft" => ~IsReversal(e)
      /\ requests[r].status # "draft" /\ Exists(e) => Booked(e)
      /\ Unedited /\ requests[r].phase = "ready" /\ Exists(e) =>
           requests[r].lines = entries[e].lines

AuditOfCommitted == \A row \in audit : requests[row.id].phase = "committed"

ReversalsBooked == \A e \in Requests : IsReversal(e) => Booked(e)

VoidedByReversal ==
  \A e \in Requests : Exists(e) /\ entries[e].status = "voided" =>
    LET r == entries[e].voidedBy IN
      r \in Requests /\ IsReversal(r) /\ entries[r].voids = e

(* The inductive invariant of Spec, however requests overlap. *)
OverlapInv == /\ TypeOK /\ NoIdReuse /\ AuditOfCommitted
              /\ ReadsLag /\ ReversalsBooked /\ VoidedByReversal
              /\ AuditExplains /\ UneditedBooksBalance

(* No two requests in flight name one entry. *)
OneAtATime ==
  \A r, q \in Requests : InFlight(r) /\ InFlight(q) /\ requests[r].entry = requests[q].entry => r = q

(* What a request has read of its entry is still so. *)
ReadsCurrent ==
  \A r \in Requests : InFlight(r) =>
    LET e == requests[r].entry IN
      /\ e \in Requests
      /\ Exists(e)
      /\ requests[r].status = entries[e].status
      /\ requests[r].phase = "ready" => requests[r].lines = entries[e].lines

(* The inductive invariant of Spec when requests do not overlap. *)
SerialInv == TypeOK /\ LedgerInv /\ NoIdReuse /\ OneAtATime /\ ReadsCurrent
=============================================================================
