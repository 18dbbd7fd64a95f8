------------------------------ MODULE Personal -------------------------------
(***************************************************************************)
(* The chart of accounts of an entity (services/accounts.py,               *)
(* api/accounts.py) and the plans made over it: budgets, goals, debts and  *)
(* investment accounts (services/personal.py, api/personal.py).            *)
(*                                                                         *)
(* A request makes its checks when it begins, its writes appear when it    *)
(* commits, at READ COMMITTED, and other requests may commit in between.   *)
(* It then writes the columns it changed and no others; it deletes the     *)
(* lines it read, by their keys.  The foreign keys hold at every commit,   *)
(* and a deleted account is struck out of the links of goals, debts and    *)
(* investments (ON DELETE SET NULL).                                       *)
(*                                                                         *)
(* Names, notes, amounts, codes and activity of accounts are left out; a   *)
(* code or budget that exists already is refused, which is a Rollback.     *)
(***************************************************************************)
EXTENDS Naturals, FiniteSets

CONSTANTS Clients,     \* where requests come from
          Accounts,    \* the ids of accounts
          Seeded,      \* Seeded[t]: the accounts of type t in the default chart
          Plans,       \* the ids of budgets, goals, debts and investment accounts
          Symbols,     \* what an investment account can hold
          Payloads,    \* what a payload can list: sets of accounts or of symbols
          Days,        \* the days a budget may begin or end at
          None,
          Gone,        \* an account or plan that was deleted
          MaxUsed,     \* bound: accounts that entries name at a time
          MaxRevs      \* bound: how often the lines of a plan are replaced

ASSUME PersonalAssumption ==
  /\ Payloads \subseteq (SUBSET Accounts) \cup (SUBSET Symbols)
  /\ Days \subseteq Nat /\ None \notin Accounts \cup Symbols \cup Days
  /\ MaxRevs \in Nat \ {0}

VARIABLES serial,      \* whether requests come one at a time
          accounts,    \* accounts[a]: the row of accounts with id a
          used,        \* the accounts that journal lines name
          plans,       \* plans[p]: the budget, goal, debt or investment account p
          req          \* req[c]: the request of client c

db == <<accounts, used, plans>>
vars == <<serial, db, req>>

Types == DOMAIN Seeded

Account == [type : Types, parent : Accounts \cup {None}]

(* A plan of a kind: its period, the account it may be linked to, and its  *)
(* lines, or holdings, with what they may name; rev is the replacement     *)
(* that inserted a line, which tells lines of one name apart.              *)
Plan(kind, days, links, names) ==
  [kind : {kind}, start : days, end : days, link : links \cup {None},
   lines : SUBSET [name : names, rev : 1..MaxRevs], revs : 0..MaxRevs]

Budget == Plan("budget", Days, {}, Accounts)
Goal == Plan("goal", {None}, Accounts, {})
Debt == Plan("debt", {None}, Accounts, {})
InvestmentAccount == Plan("investment", {None}, Accounts, Symbols)

ASSUME RowsAssumption ==
  /\ None # Gone
  /\ \A x \in {None, Gone} : x \notin Account \cup Budget \cup Goal \cup Debt \cup InvestmentAccount

Idle == [op |-> "idle"]

TypeOK ==
  /\ serial \in BOOLEAN
  /\ accounts \in [Accounts -> Account \cup {None, Gone}]
  /\ used \subseteq {a \in Accounts : accounts[a] \notin {None, Gone}}
  /\ DOMAIN plans = Plans
  /\ \A p \in Plans : plans[p] \in {None, Gone} \cup Budget \cup Goal \cup Debt \cup InvestmentAccount
  /\ DOMAIN req = Clients

Exists(a) == accounts[a] \notin {None, Gone}

(* register_owner seeds every entity with the default chart. *)
Init ==
  /\ serial \in BOOLEAN
  /\ accounts = [a \in Accounts |->
       IF \E t \in Types : a \in Seeded[t]
       THEN [type |-> CHOOSE t \in Types : a \in Seeded[t], parent |-> None] ELSE None]
  /\ used = {}
  /\ plans = [p \in Plans |-> None]
  /\ req = [c \in Clients |-> Idle]

Begin(c, r) == /\ IF serial THEN \A d \in Clients : req[d] = Idle ELSE req[c] = Idle
               /\ req' = [req EXCEPT ![c] = r]
               /\ UNCHANGED <<serial, db>>

End(c) == req' = [req EXCEPT ![c] = Idle] /\ UNCHANGED serial

Rollback(c) == req[c] # Idle /\ End(c) /\ UNCHANGED db

-----------------------------------------------------------------------------
(* The chart of accounts. *)

(* get_account_scoped of the parent, and the comparison of types *)
MayBeParent(p, t) == p # None => Exists(p) /\ accounts[p].type = t

BeginCreateAccount(c, a, t, p) ==
  /\ accounts[a] = None /\ MayBeParent(p, t)
  /\ Begin(c, [op |-> "create_account", account |-> a, row |-> [type |-> t, parent |-> p]])

CreateAccount(c) ==
  LET r == req[c] IN
  /\ r.op = "create_account" /\ accounts[r.account] = None
  /\ r.row.parent # None => Exists(r.row.parent)
  /\ accounts' = [accounts EXCEPT ![r.account] = r.row]
  /\ End(c) /\ UNCHANGED <<used, plans>>

(* The only references update_account changes are the parent; None is no   *)
(* change.  Nothing looks further up than the parent.                      *)
BeginUpdateAccount(c, a, p) ==
  /\ Exists(a) /\ p # a /\ p # None /\ MayBeParent(p, accounts[a].type)
  /\ p # accounts[a].parent
  /\ Begin(c, [op |-> "update_account", account |-> a, parent |-> p])

UpdateAccount(c) ==
  LET r == req[c] IN
  /\ r.op = "update_account" /\ Exists(r.account) /\ Exists(r.parent)
  /\ accounts' = [accounts EXCEPT ![r.account].parent = r.parent]
  /\ End(c) /\ UNCHANGED <<used, plans>>

BeginDeleteAccount(c, a) == Exists(a) /\ Begin(c, [op |-> "delete_account", account |-> a])

(* Mutants: budget lines do not restrict; journal lines do not, either, and *)
(* what the deleted account is the link of keeps it.                       *)
RestrictedByEntries(a) == a \in used \/ \E b \in Accounts : Exists(b) /\ accounts[b].parent = a
RestrictedByPlans(a) == \E p \in Plans :
  plans[p] \notin {None, Gone} /\ \E l \in plans[p].lines : l.name = a

(* ON DELETE RESTRICT of journal_lines, accounts and budget_lines *)
Restricted(a) == \/ a \in used
                 \/ \E b \in Accounts : Exists(b) /\ accounts[b].parent = a
                 \/ \E p \in Plans : /\ plans[p] \notin {None, Gone}
                                     /\ \E l \in plans[p].lines : l.name = a

(* ON DELETE SET NULL of goals, debts and investment_accounts *)
Unlinked(a) == [p \in Plans |->
                  IF plans[p] \notin {None, Gone} /\ plans[p].link = a
                  THEN [plans[p] EXCEPT !.link = None] ELSE plans[p]]

(* A row that is gone is no error. *)
DeleteAccount(c) ==
  LET a == req[c].account IN
  /\ req[c].op = "delete_account" /\ ~Restricted(a)
  /\ accounts' = [accounts EXCEPT ![a] = Gone]
  /\ plans' = Unlinked(a)
  /\ End(c) /\ UNCHANGED used

(* Journal entries come to name an account, and the last draft that does   *)
(* is deleted.                                                             *)
Use(a) == /\ Exists(a) /\ Cardinality(used) < MaxUsed
          /\ used' = used \cup {a} /\ UNCHANGED <<serial, accounts, plans, req>>
Release(a) == a \in used /\ used' = used \ {a} /\ UNCHANGED <<serial, accounts, plans, req>>

-----------------------------------------------------------------------------
(* The plans. *)

Stands(p) == plans[p] \notin {None, Gone}

(* _replace_budget_lines: expense accounts only; holdings are free. *)
MayList(kind, names) ==
  CASE kind = "budget"     -> \A n \in names : n \in Accounts /\ Exists(n) /\ accounts[n].type = "expense"
    [] kind = "investment" -> names \subseteq Symbols
    [] OTHER               -> names = {}

(* The type a linked account must have. *)
MayLink(kind, a) == a # None =>
  /\ kind # "budget" /\ Exists(a)
  /\ kind = "debt" => accounts[a].type = "liability"
  /\ kind = "investment" => accounts[a].type = "asset"

(* A budget has a period that does not end before it begins. *)
MaySpan(kind, start, end) ==
  IF kind = "budget" THEN start \in Days /\ end \in Days /\ start <= end
                     ELSE start = None /\ end = None

Listed(names, rev) == [name : names, rev : {rev}]

BeginCreatePlan(c, p, kind, start, end, a, names) ==
  /\ plans[p] = None
  /\ MaySpan(kind, start, end) /\ MayLink(kind, a) /\ MayList(kind, names)
  /\ Begin(c, [op |-> "create_plan", plan |-> p,
               row |-> [kind |-> kind, start |-> start, end |-> end, link |-> a,
                        lines |-> Listed(names, 1), revs |-> 1]])

CreatePlan(c) ==
  LET r == req[c] IN
  /\ r.op = "create_plan" /\ plans[r.plan] = None
  /\ r.row.link # None => Exists(r.row.link)
  /\ \A l \in r.row.lines : l.name \in Accounts => Exists(l.name)
  /\ plans' = [plans EXCEPT ![r.plan] = r.row]
  /\ End(c) /\ UNCHANGED <<accounts, used>>

Given(new, old) == IF new = None THEN old ELSE new

(* Mutant of Merged: a period is compared only with what the payload gives. *)
MergedSpan(row, start, end) == MaySpan(row.kind, Given(start, row.start), IF start = None THEN Given(end, row.end)
                                                                          ELSE Given(end, start))

(* update_budget looks at the period after it has assigned what is given. *)
Merged(row, start, end) == MaySpan(row.kind, Given(start, row.start), Given(end, row.end))

(* A column whose value is the one read is not written. *)
Dirty(new, seen) == IF new = seen THEN None ELSE new

(* names = None leaves the lines alone.  Of the row that was read, the     *)
(* request goes on with the lines to delete and the columns to write.      *)
BeginUpdatePlan(c, p, kind, start, end, a, names) ==
  /\ Stands(p) /\ plans[p].kind = kind
  /\ Merged(plans[p], start, end)
  /\ MayLink(kind, a)
  /\ names # None => MayList(kind, names)
  /\ LET row == plans[p] IN
     Begin(c, [op |-> "update_plan", plan |-> p, names |-> names,
               lines |-> IF names = None THEN {} ELSE row.lines,
               start |-> Dirty(start, row.start), end |-> Dirty(end, row.end),
               link  |-> Dirty(a, row.link)])
  /\ LET r == req'[c] IN <<r.start, r.end, r.link, names>> # <<None, None, None, None>>

(* Mutant of Replaced: nothing is deleted first. *)
ReplacedNothing(r, row) == row.lines \cup Listed(r.names, row.revs + 1)

(* The lines that were read are deleted, the payload's are inserted. *)
Replaced(r, row) == (row.lines \ r.lines) \cup Listed(r.names, row.revs + 1)

(* uq_budget_lines_budget_account *)
OneLineEach(kind, lines) ==
  kind = "budget" => \A l, m \in lines : l.name = m.name => l = m

UpdatePlan(c) ==
  LET r   == req[c]
      row == plans[r.plan]
      new == [row EXCEPT
                !.start = Given(r.start, @),
                !.end   = Given(r.end, @),
                !.link  = Given(r.link, @),
                !.lines = IF r.names = None THEN @ ELSE Replaced(r, row),
                !.revs  = IF r.names = None THEN @ ELSE @ + 1]
  IN /\ r.op = "update_plan" /\ Stands(r.plan)
     /\ new.revs <= MaxRevs
     /\ new.link # row.link => Exists(new.link)
     /\ \A l \in new.lines : l.name \in Accounts => Exists(l.name)
     /\ OneLineEach(row.kind, new.lines)
     /\ plans' = [plans EXCEPT ![r.plan] = new]
     /\ End(c) /\ UNCHANGED <<accounts, used>>

BeginDeletePlan(c, p) == Stands(p) /\ Begin(c, [op |-> "delete_plan", plan |-> p])

DeletePlan(c) ==
  /\ req[c].op = "delete_plan"
  /\ plans' = [plans EXCEPT ![req[c].plan] = Gone]
  /\ End(c) /\ UNCHANGED <<accounts, used>>

AccountRequests(c) ==
  \/ \E a \in Accounts :
       \/ \E p \in Accounts \cup {None} :
            (\E t \in Types : BeginCreateAccount(c, a, t, p)) \/ BeginUpdateAccount(c, a, p)
       \/ BeginDeleteAccount(c, a)
  \/ CreateAccount(c) \/ UpdateAccount(c) \/ DeleteAccount(c)

BudgetRequests(c, p) ==
  \E names \in Payloads \cup {None} :
    \/ \E start, end \in Days : names # None /\ BeginCreatePlan(c, p, "budget", start, end, None, names)
    \/ \E start, end \in Days \cup {None} : BeginUpdatePlan(c, p, "budget", start, end, None, names)

(* Of the other kinds only investment accounts have lines. *)
GoalRequests(c, p) ==
  \E a \in Accounts \cup {None} :
    \/ BeginCreatePlan(c, p, "goal", None, None, a, {})
    \/ BeginUpdatePlan(c, p, "goal", None, None, a, None)

DebtRequests(c, p) ==
  \E a \in Accounts \cup {None} :
    \/ BeginCreatePlan(c, p, "debt", None, None, a, {})
    \/ BeginUpdatePlan(c, p, "debt", None, None, a, None)

InvestmentRequests(c, p) ==
  \E a \in Accounts \cup {None}, names \in Payloads \cup {None} :
    \/ names # None /\ BeginCreatePlan(c, p, "investment", None, None, a, names)
    \/ BeginUpdatePlan(c, p, "investment", None, None, a, names)

Next ==
  \/ \E a \in Accounts : Use(a) \/ Release(a)
  \/ \E c \in Clients :
       \/ AccountRequests(c)
       \/ \E p \in Plans : \/ BudgetRequests(c, p) \/ GoalRequests(c, p) \/ DebtRequests(c, p)
                           \/ InvestmentRequests(c, p) \/ BeginDeletePlan(c, p)
       \/ CreatePlan(c) \/ UpdatePlan(c) \/ DeletePlan(c) \/ Rollback(c)

Spec == Init /\ [][Next]_vars

-----------------------------------------------------------------------------
(* However requests overlap, what names an account names one that is there *)
(* and of the right type, although that was looked up in an earlier        *)
(* statement: parents (create_account, update_account), the lines of a     *)
(* budget (_replace_budget_lines), the account of a debt or investment     *)
(* (create_debt, update_debt, create_investment_account), against          *)
(* delete_account.                                                         *)
LinksHold ==
  /\ \A a \in Accounts : Exists(a) => MayBeParent(accounts[a].parent, accounts[a].type)
  /\ \A p \in Plans : Stands(p) =>
       /\ MayLink(plans[p].kind, plans[p].link)
       /\ MayList(plans[p].kind, {l.name : l \in plans[p].lines})

(* One request at a time: no budget ends before it begins, whichever of    *)
(* its two days were changed, in whichever order (update_budget).  The     *)
(* database has no such constraint, and two overlapping updates break it.  *)
PeriodsInOrder ==
  serial => \A p \in Plans : Stands(p) /\ plans[p].kind = "budget" => plans[p].start <= plans[p].end

(* One request at a time: the lines of a budget, and the holdings of an    *)
(* investment account, are those of one payload, never a mixture of two    *)
(* (_replace_budget_lines, _replace_holdings).                             *)
LinesOfOnePayload ==
  serial => \A p \in Plans : Stands(p) => \A l, m \in plans[p].lines : l.rev = m.rev
=============================================================================
