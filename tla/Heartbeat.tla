----------------------------- MODULE Heartbeat ------------------------------
(***************************************************************************)
(* Heartbeat runs and the alerts they raise (services/heartbeat.py,        *)
(* api/heartbeat.py, services/scheduler).  The scheduler posts             *)
(* run-defaults every five minutes and gives up waiting after fifteen      *)
(* seconds, whether or not the API is still working on it; a user may      *)
(* start one heartbeat by hand.  A request is one database transaction,    *)
(* READ COMMITTED, over all its tenants and heartbeats; users close alerts *)
(* meanwhile.                                                              *)
(*                                                                         *)
(* A heartbeat here makes one check, for one alert type, and two of them   *)
(* may raise the same alert, as the daily check and the runway check do.   *)
(* Whether an alert is called for is data, and changes at will.  A closed  *)
(* alert in nobody's hands may be forgotten and its identity reused, so    *)
(* that a finite table serves an endless behaviour.                        *)
(***************************************************************************)
EXTENDS Naturals, Sequences, FiniteSets, SequencesExt

CONSTANTS Sweep,        \* the heartbeats of run-defaults, in order
          Slots,        \* the requests the API may have in progress
          Reserved,     \* the slot manual runs leave alone
          Users,        \* users closing alerts
          Rows,         \* identities of rows of the alerts table
          Nil,
          MaxFailures   \* bound: how often a check or the database may fail

Heartbeats == Range(Sweep)
KeyOf(h) == [tenant |-> h.tenant, alert |-> h.alert]
Keys == {KeyOf(h) : h \in Heartbeats}

ASSUME SweepAssumption == Sweep \in Seq(Range(Sweep)) /\ MaxFailures \in Nat
ASSUME SlotsAssumption == IsFiniteSet(Slots) /\ IsFiniteSet(Users) /\ Reserved \in Slots
ASSUME AlertRowsAssumption ==
  /\ IsFiniteSet(Rows)
  /\ Cardinality(Rows) >= Cardinality(Keys) * Cardinality(Slots) + Cardinality(Users)
ASSUME NilAssumption == Nil \notin Slots \cup Rows

VARIABLES condition,   \* condition[k]: the data calls for alert k
          runs,        \* runs[s]: the request in progress in slot s
          alerts,      \* the alerts table, uncommitted rows included
          closing,     \* closing[u]: the alert user u has read as open
          log,         \* committed heartbeat_runs and their audit rows
          failed,      \* the heartbeats that have failed
          failures     \* how many failures there were

heartbeatVars == <<condition, runs, alerts, closing, log, failed, failures>>

Record == [heartbeat : Heartbeats, status : {"completed", "failed"}]

Alert == [key    : Keys,
          status : {"open", "closed"},       \* closed: resolved or dismissed
          by     : Slots \cup {Nil}]        \* the request that has yet to commit it

ASSUME AlertsAssumption == Nil \notin Alert

Run == [phase  : {"idle", "running", "raising"},
        todo   : Seq(Heartbeats),            \* the heartbeats still to run
        staged : SUBSET Record]              \* run and audit rows not yet committed

NoRun == [phase |-> "idle", todo |-> <<>>, staged |-> {}]

HeartbeatInit == /\ condition \in [Keys -> BOOLEAN]
                 /\ runs = [s \in Slots |-> NoRun]
                 /\ alerts = [i \in Rows |-> Nil]
                 /\ closing = [u \in Users |-> Nil]
                 /\ log = {}
                 /\ failed = {}
                 /\ failures = 0

(* The books and documents the checks read change. *)
Change(k) ==
  /\ condition' = [condition EXCEPT ![k] = ~@]
  /\ UNCHANGED <<runs, alerts, closing, log, failed, failures>>

-----------------------------------------------------------------------------
Start(s, todo) ==
  /\ runs[s].phase = "idle"
  /\ runs' = [runs EXCEPT ![s] = [NoRun EXCEPT !.phase = "running", !.todo = todo]]
  /\ UNCHANGED <<condition, alerts, closing, log, failed, failures>>

(* run-defaults from the scheduler: every heartbeat of every tenant. *)
Tick(s) == Start(s, Sweep)

(* POST /heartbeat/run: one heartbeat, of the user's own tenant. *)
RunManually(s, h) == s # Reserved /\ Start(s, <<h>>)

(* A statement of s sees what is committed and what s itself wrote. *)
Visible(i, s) == alerts[i] # Nil /\ alerts[i].by \in {Nil, s}

(* Mutants of Duplicate: a closed alert is a duplicate too; none ever is. *)
DuplicateEver(k, s) == \E i \in Rows : Visible(i, s) /\ alerts[i].key = k
DuplicateNever(k, s) == FALSE

(* _create_alert's select for an open alert of the same key. *)
Duplicate(k, s) == \E i \in Rows : Visible(i, s) /\ alerts[i].key = k /\ alerts[i].status = "open"

Free == {i \in Rows : /\ alerts[i] = Nil \/ alerts[i].status = "closed"
                      /\ \A u \in Users : closing[u] # i}

(* One heartbeat: the condition is evaluated, _create_alert inserts unless *)
(* its select finds a duplicate, and the run and audit rows are staged.    *)
Check(s) ==
  LET h == Head(runs[s].todo)
      k == KeyOf(h)
      row == [key |-> k, status |-> "open", by |-> s] IN
  /\ runs[s].phase = "running"
  /\ runs[s].todo # <<>>
  /\ IF condition[k] /\ ~Duplicate(k, s)
     THEN alerts' = [alerts EXCEPT ![CHOOSE i \in Free : TRUE] = row]
     ELSE UNCHANGED alerts
  /\ runs' = [runs EXCEPT ![s].todo = Tail(@),
                          ![s].staged = @ \cup {[heartbeat |-> h, status |-> "completed"]}]
  /\ UNCHANGED <<condition, closing, log, failed, failures>>

(* What the table is when the transaction of s commits. *)
CommittedOf(s) == [i \in Rows |-> IF alerts[i] # Nil /\ alerts[i].by = s
                                  THEN [alerts[i] EXCEPT !.by = Nil] ELSE alerts[i]]

(* Mutant of RolledBackOf: what was inserted is left behind. *)
LeftOf(s) == alerts

(* What the table is when the transaction of s rolls back. *)
RolledBackOf(s) == [i \in Rows |-> IF alerts[i] # Nil /\ alerts[i].by = s
                                   THEN Nil ELSE alerts[i]]

(* get_db commits once the whole sweep is done. *)
Commit(s) ==
  /\ runs[s].phase = "running"
  /\ runs[s].todo = <<>>
  /\ alerts' = CommittedOf(s)
  /\ log' = log \cup runs[s].staged
  /\ runs' = [runs EXCEPT ![s] = NoRun]
  /\ UNCHANGED <<condition, closing, failed, failures>>

(* run_heartbeat's except branch: a check raises, the failure is staged    *)
(* beside everything else and the exception goes on.                       *)
Fail(s) ==
  /\ runs[s].phase = "running"
  /\ runs[s].todo # <<>>
  /\ failures < MaxFailures
  /\ failures' = failures + 1
  /\ LET h == Head(runs[s].todo) IN
       /\ failed' = failed \cup {h}
       /\ runs' = [runs EXCEPT ![s].phase = "raising",
                               ![s].staged = @ \cup {[heartbeat |-> h, status |-> "failed"]}]
  /\ UNCHANGED <<condition, alerts, closing, log>>

(* get_db's except branch, which ends every request that raised. *)
RollBack(s) ==
  /\ runs[s].phase = "raising"
  /\ alerts' = RolledBackOf(s)
  /\ runs' = [runs EXCEPT ![s] = NoRun]
  /\ UNCHANGED <<condition, closing, log, failed, failures>>

(* The API process or its connection dies with the request in progress. *)
Crash(s) ==
  /\ runs[s].phase # "idle"
  /\ failures < MaxFailures
  /\ failures' = failures + 1
  /\ alerts' = RolledBackOf(s)
  /\ runs' = [runs EXCEPT ![s] = NoRun]
  /\ UNCHANGED <<condition, closing, log, failed>>

-----------------------------------------------------------------------------
(* update_alert_status: the alert must be open when it is read ... *)
ReadAlert(u, i) ==
  /\ closing[u] = Nil
  /\ alerts[i] # Nil
  /\ alerts[i].by = Nil
  /\ alerts[i].status = "open"
  /\ closing' = [closing EXCEPT ![u] = i]
  /\ UNCHANGED <<condition, runs, alerts, log, failed, failures>>

(* ... and is written by its id, whatever it is by then. *)
CloseAlert(u) ==
  /\ closing[u] # Nil
  /\ alerts' = [alerts EXCEPT ![closing[u]].status = "closed"]
  /\ closing' = [closing EXCEPT ![u] = Nil]
  /\ UNCHANGED <<condition, runs, log, failed, failures>>

RunStep(s) == Check(s) \/ Commit(s) \/ RollBack(s)

HeartbeatNext == \/ \E k \in Keys : Change(k)
                 \/ \E s \in Slots : \/ Tick(s)
                                     \/ \E h \in Heartbeats : RunManually(s, h)
                                     \/ RunStep(s)
                                     \/ Fail(s)
                                     \/ Crash(s)
                 \/ \E u \in Users : (\E i \in Rows : ReadAlert(u, i)) \/ CloseAlert(u)

(* The scheduler ticks every five minutes, whatever became of the ticks    *)
(* before, and the API takes on any number of requests: manual runs never  *)
(* keep one from starting.  A request that was taken on goes on to its end.*)
Fairness == /\ WF_heartbeatVars(\E s \in Slots : Tick(s))
            /\ \A s \in Slots : WF_heartbeatVars(RunStep(s))

HeartbeatSpec == HeartbeatInit /\ [][HeartbeatNext]_heartbeatVars /\ Fairness

-----------------------------------------------------------------------------
(* Types; and a row that is not committed belongs to a request in          *)
(* progress: no transaction ends with rows left over.                      *)
HeartbeatTypeOK == /\ condition \in [Keys -> BOOLEAN]
                   /\ runs \in [Slots -> Run]
                   /\ alerts \in [Rows -> Alert \cup {Nil}]
                   /\ closing \in [Users -> Rows \cup {Nil}]
                   /\ log \subseteq Record
                   /\ failed \subseteq Heartbeats
                   /\ failures \in 0..MaxFailures
                   /\ \A i \in Rows : alerts[i] # Nil /\ alerts[i].by # Nil =>
                        runs[alerts[i].by].phase # "idle"

OpenRows(k) == {i \in Rows : alerts[i] # Nil /\ alerts[i].key = k /\ alerts[i].status = "open"}

(* _create_alert's select does not see other transactions' rows, so an     *)
(* alert may be open several times, but never more often than there were   *)
(* requests in progress at once, whatever is closed and raised in between. *)
AlertsBounded == \A k \in Keys : Cardinality(OpenRows(k)) <= Cardinality(Slots)

(* A condition that stays is reported, and again whenever users have       *)
(* closed the alert, whatever failed before: the next tick makes up for it.*)
Reported == \A k \in Keys :
  <>[]condition[k] => []<>(\E i \in OpenRows(k) : alerts[i].by = Nil)

=============================================================================
