--------------------------- MODULE PlanningProofs ---------------------------
(***************************************************************************)
(* Plans and the alerts about them.                                        *)
(*                                                                         *)
(* However the requests on accounts and plans overlap, what names an       *)
(* account names one that is there: accounts and plans are deleted for     *)
(* good and keep their type, so that a request need only find at its       *)
(* commit that they still exist.  The alerts of Heartbeat, proved of in    *)
(* the second half, are never open more often than requests are in         *)
(* progress.                                                               *)
(***************************************************************************)
EXTENDS Personal, Heartbeat, FiniteSetTheorems, TLAPS

PlanRow == Budget \cup Goal \cup Debt \cup InvestmentAccount

(* What a request goes on with. *)
Request ==
  {Idle} \cup [op : {"create_account"}, account : Accounts, row : Account]
         \cup [op : {"update_account"}, account : Accounts, parent : Accounts]
         \cup [op : {"delete_account"}, account : Accounts]
         \cup [op : {"create_plan"}, plan : Plans, row : PlanRow]
         \cup [op : {"update_plan"}, plan : Plans, names : Payloads \cup {None},
               lines : SUBSET [name : Accounts \cup Symbols, rev : 1..MaxRevs],
               start : Days \cup {None}, end : Days \cup {None}, link : Accounts \cup {None}]
         \cup [op : {"delete_plan"}, plan : Plans]

RequestsOK == req \in [Clients -> Request]

(* MayBeParent, MayLink and MayList of accounts that may have been deleted *)
(* since.                                                                  *)
WasParent(p, t) == p # None => /\ p \in Accounts /\ accounts[p] # None
                               /\ Exists(p) => accounts[p].type = t

WasLink(kind, a) == a # None =>
  /\ kind # "budget" /\ a \in Accounts /\ accounts[a] # None
  /\ Exists(a) /\ kind = "debt" => accounts[a].type = "liability"
  /\ Exists(a) /\ kind = "investment" => accounts[a].type = "asset"

WasListed(kind, names) ==
  CASE kind = "budget"     -> \A n \in names : /\ n \in Accounts /\ accounts[n] # None
                                               /\ Exists(n) => accounts[n].type = "expense"
    [] kind = "investment" -> names \subseteq Symbols
    [] OTHER               -> names = {}

Names(lines) == {l.name : l \in lines}

(* The checks of a request, as they still hold when it commits. *)
ParentChecked(c) == LET r == req[c] IN
  /\ r.op = "create_account" => WasParent(r.row.parent, r.row.type)
  /\ r.op = "update_account" =>
       /\ accounts[r.account] # None
       /\ Exists(r.account) => WasParent(r.parent, accounts[r.account].type)

RowChecked(c) == LET r == req[c] IN
  r.op = "create_plan" =>
    /\ WasLink(r.row.kind, r.row.link) /\ WasListed(r.row.kind, Names(r.row.lines))
    /\ r.row.kind = "budget" => r.row.start <= r.row.end
    /\ \A l, m \in r.row.lines : l.rev = m.rev

ChangesChecked(c) == LET r == req[c] IN
  r.op = "update_plan" =>
    /\ plans[r.plan] # None
    /\ Stands(r.plan) =>
         /\ WasLink(plans[r.plan].kind, r.link)
         /\ r.names # None => WasListed(plans[r.plan].kind, r.names)
         /\ plans[r.plan].kind # "budget" => r.start = None /\ r.end = None

ChecksHold(c) == ParentChecked(c) /\ RowChecked(c) /\ ChangesChecked(c)

(* One request at a time, the plan it changes is as it was read. *)
ReadsCurrent(c) == LET r == req[c] IN
  r.op = "update_plan" =>
    /\ Stands(r.plan) /\ Merged(plans[r.plan], r.start, r.end)
    /\ r.names # None => r.lines = plans[r.plan].lines

OneAtATime == serial =>
  /\ \A c, d \in Clients : req[c] # Idle /\ req[d] # Idle => c = d
  /\ \A c \in Clients : ReadsCurrent(c)

PersonalInv == /\ TypeOK /\ RequestsOK /\ \A c \in Clients : ChecksHold(c)
               /\ OneAtATime /\ LinksHold /\ PeriodsInOrder /\ LinesOfOnePayload

-----------------------------------------------------------------------------
LEMMA PlanRowFields ==
  ASSUME NEW row \in PlanRow
  PROVE  /\ row.kind \in {"budget", "goal", "debt", "investment"}
         /\ row.link \in Accounts \cup {None}
         /\ row.revs \in 0..MaxRevs
         /\ \A l \in row.lines : l.name \in Accounts \cup Symbols /\ l.rev \in 1..MaxRevs
         /\ row.lines \in SUBSET [name : Accounts \cup Symbols, rev : 1..MaxRevs]
         /\ row.kind = "budget" => row \in Budget
         /\ row.kind = "goal" => row \in Goal
         /\ row.kind = "debt" => row \in Debt
         /\ row.kind = "investment" => row \in InvestmentAccount
BY DEF PlanRow, Budget, Goal, Debt, InvestmentAccount, Plan

LEMMA RowNotMark ==
  /\ None # Gone
  /\ \A row \in PlanRow : row # None /\ row # Gone
  /\ \A row \in Account : row # None /\ row # Gone
BY RowsAssumption DEF PlanRow

LEMMA Standing ==
  ASSUME TypeOK
  PROVE  /\ \A p \in Plans : Stands(p) => plans[p] \in PlanRow
         /\ \A a \in Accounts : Exists(a) => accounts[a] \in Account
BY DEF TypeOK, Stands, Exists, PlanRow

LEMMA InitPersonal == Init => PersonalInv
<1> SUFFICES ASSUME Init PROVE PersonalInv
  OBVIOUS
<1>1. /\ serial \in BOOLEAN /\ used = {}
      /\ plans = [p \in Plans |-> None] /\ req = [c \in Clients |-> Idle]
      /\ accounts = [a \in Accounts |->
           IF \E t \in Types : a \in Seeded[t]
           THEN [type |-> CHOOSE t \in Types : a \in Seeded[t], parent |-> None] ELSE None]
  BY DEF Init
<1>2. \A a \in Accounts : \/ accounts[a] = None
                          \/ accounts[a] \in Account /\ accounts[a].parent = None
  BY <1>1 DEF Account
<1>3. \A c \in Clients : req[c] = Idle /\ req[c].op = "idle"
  BY <1>1 DEF Idle
<1>4. \A p \in Plans : ~Stands(p)
  BY <1>1 DEF Stands
<1>5. TypeOK
  BY <1>1, <1>2 DEF TypeOK
<1>6. RequestsOK /\ (\A c \in Clients : ChecksHold(c)) /\ OneAtATime
  BY <1>1, <1>3 DEF RequestsOK, Request, ChecksHold, ParentChecked, RowChecked, ChangesChecked,
                    OneAtATime, ReadsCurrent
<1>7. LinksHold /\ PeriodsInOrder /\ LinesOfOnePayload
  BY <1>2, <1>4 DEF LinksHold, PeriodsInOrder, LinesOfOnePayload, MayBeParent, Exists
<1>8. QED
  BY <1>5, <1>6, <1>7 DEF PersonalInv

(* What no commit takes back: an id that was given out stays given out; a  *)
(* row that is there was there before, with the type it has.               *)
RowsLast ==
  /\ \A a \in Accounts : accounts[a] # None =>
       /\ accounts'[a] # None
       /\ Exists(a)' => Exists(a) /\ accounts'[a].type = accounts[a].type
  /\ \A p \in Plans : plans[p] # None =>
       /\ plans'[p] # None
       /\ Stands(p)' => Stands(p) /\ plans'[p].kind = plans[p].kind

LEMMA ChecksLast ==
  ASSUME PersonalInv, RowsLast, NEW d \in Clients, req'[d] = req[d]
  PROVE  ChecksHold(d)'
<1>1. ParentChecked(d) /\ RowChecked(d) /\ ChangesChecked(d)
  BY DEF PersonalInv, ChecksHold
<1>2. PICK r \in Request : r = req[d] /\ r = req'[d]
  BY DEF PersonalInv, RequestsOK
<1>3. ParentChecked(d)'
  <2>1. r.op = "update_account" => r.account \in Accounts
    BY <1>2 DEF Request, Idle
  <2>2. QED
    BY <1>1, <1>2, <2>1 DEF ParentChecked, WasParent, RowsLast, Exists
<1>4. RowChecked(d)'
  BY <1>1, <1>2 DEF RowChecked, WasLink, WasListed, RowsLast, Exists
<1>5. ChangesChecked(d)'
  <2>1. r.op = "update_plan" => r.plan \in Plans
    BY <1>2 DEF Request, Idle
  <2>2. QED
    BY <1>1, <1>2, <2>1 DEF ChangesChecked, WasLink, WasListed, RowsLast, Exists, Stands
<1>6. QED
  BY <1>3, <1>4, <1>5 DEF ChecksHold

(* What PersonalInv says of requests survives the end of any of them. *)
LEMMA EndPersonal ==
  ASSUME PersonalInv, NEW c \in Clients, req[c] # Idle, End(c), RowsLast
  PROVE  RequestsOK' /\ (\A d \in Clients : ChecksHold(d)') /\ OneAtATime'
<1>1. /\ \A d \in Clients : req'[d] = IF d = c THEN Idle ELSE req[d]
      /\ req' \in [Clients -> Request] /\ serial' = serial
  BY DEF PersonalInv, RequestsOK, End, Request
<1>2. Idle.op = "idle"
  BY DEF Idle
<1>3. \A d \in Clients : ChecksHold(d)'
  <2>1. ChecksHold(c)'
    BY <1>1, <1>2 DEF ChecksHold, ParentChecked, RowChecked, ChangesChecked
  <2>2. QED
    BY <1>1, <2>1, ChecksLast
<1>4. OneAtATime'
  <2>1. ASSUME serial
        PROVE  \A d \in Clients : req'[d] = Idle
    BY <1>1, <2>1 DEF PersonalInv, OneAtATime
  <2>2. QED
    BY <1>1, <1>2, <2>1 DEF OneAtATime, ReadsCurrent
<1>5. QED
  BY <1>1, <1>3, <1>4 DEF RequestsOK

(* A request begins, its checks passed. *)
LEMMA BeginPersonal ==
  ASSUME PersonalInv, NEW c \in Clients, NEW r \in Request, Begin(c, r), r # Idle,
         ChecksHold(c)', ReadsCurrent(c)'
  PROVE  PersonalInv'
<1>1. /\ req' \in [Clients -> Request] /\ req'[c] = r
      /\ \A d \in Clients : d # c => req'[d] = req[d]
      /\ serial' = serial /\ accounts' = accounts /\ used' = used /\ plans' = plans
  BY DEF PersonalInv, RequestsOK, Begin, db
<1>2. \A d \in Clients : ChecksHold(d)'
  <2>1. RowsLast
    BY <1>1 DEF RowsLast, Exists, Stands
  <2>2. QED
    BY <1>1, <2>1, ChecksLast
<1>3. OneAtATime'
  <2>1. serial => \A d \in Clients : d # c => req'[d] = Idle /\ req'[d].op = "idle"
    BY <1>1 DEF Begin, Idle
  <2>2. \A d \in Clients : req'[d].op = "idle" => ReadsCurrent(d)'
    BY DEF ReadsCurrent
  <2>3. QED
    BY <1>1, <2>1, <2>2 DEF OneAtATime
<1>4. TypeOK'
  BY <1>1 DEF PersonalInv, TypeOK
<1>5. LinksHold' /\ PeriodsInOrder' /\ LinesOfOnePayload'
  <2>1. LinksHold'
    BY <1>1 DEF PersonalInv, LinksHold, MayBeParent, MayLink, MayList, Exists, Stands
  <2>2. QED
    BY <1>1, <2>1 DEF PersonalInv, PeriodsInOrder, LinesOfOnePayload, Stands
<1>6. QED
  BY <1>1, <1>2, <1>3, <1>4, <1>5 DEF PersonalInv, RequestsOK

-----------------------------------------------------------------------------
LEMMA BeginAccountRequest ==
  ASSUME PersonalInv, NEW c \in Clients, NEW a \in Accounts,
         \/ \E p \in Accounts \cup {None} :
              (\E t \in Types : BeginCreateAccount(c, a, t, p)) \/ BeginUpdateAccount(c, a, p)
         \/ BeginDeleteAccount(c, a)
  PROVE  PersonalInv'
<1>1. ASSUME NEW p \in Accounts \cup {None}, NEW t \in Types, BeginCreateAccount(c, a, t, p)
      PROVE  PersonalInv'
  <2> DEFINE row == [type |-> t, parent |-> p]
             r == [op |-> "create_account", account |-> a, row |-> row]
  <2>1. Begin(c, r) /\ MayBeParent(p, t)
    BY <1>1 DEF BeginCreateAccount
  <2>2. r \in Request /\ r # Idle /\ r.op = "create_account" /\ r.row.parent = p /\ r.row.type = t
    BY DEF Request, Account, Idle
  <2> HIDE DEF r
  <2>3. req'[c] = r /\ accounts' = accounts
    BY <2>1 DEF PersonalInv, RequestsOK, Begin, db
  <2>4. ChecksHold(c)' /\ ReadsCurrent(c)'
    BY <2>1, <2>2, <2>3 DEF ChecksHold, ParentChecked, RowChecked, ChangesChecked, ReadsCurrent,
                            MayBeParent, WasParent, Exists
  <2>5. QED
    BY <2>1, <2>2, <2>4, BeginPersonal
<1>2. ASSUME NEW p \in Accounts \cup {None}, BeginUpdateAccount(c, a, p)
      PROVE  PersonalInv'
  <2> DEFINE r == [op |-> "update_account", account |-> a, parent |-> p]
  <2>1. Begin(c, r) /\ MayBeParent(p, accounts[a].type) /\ Exists(a) /\ p # None
    BY <1>2 DEF BeginUpdateAccount
  <2>2. r \in Request /\ r # Idle /\ r.op = "update_account" /\ r.parent = p /\ r.account = a
    BY <2>1 DEF Request, Idle
  <2> HIDE DEF r
  <2>3. req'[c] = r /\ accounts' = accounts
    BY <2>1 DEF PersonalInv, RequestsOK, Begin, db
  <2>4. ChecksHold(c)' /\ ReadsCurrent(c)'
    BY <2>1, <2>2, <2>3 DEF ChecksHold, ParentChecked, RowChecked, ChangesChecked, ReadsCurrent,
                            MayBeParent, WasParent, Exists
  <2>5. QED
    BY <2>1, <2>2, <2>4, BeginPersonal
<1>3. ASSUME BeginDeleteAccount(c, a)
      PROVE  PersonalInv'
  <2> DEFINE r == [op |-> "delete_account", account |-> a]
  <2>1. Begin(c, r)
    BY <1>3 DEF BeginDeleteAccount
  <2>2. r \in Request /\ r # Idle /\ r.op = "delete_account"
    BY DEF Request, Idle
  <2> HIDE DEF r
  <2>3. req'[c] = r
    BY <2>1 DEF PersonalInv, RequestsOK, Begin
  <2>4. ChecksHold(c)' /\ ReadsCurrent(c)'
    BY <2>2, <2>3 DEF ChecksHold, ParentChecked, RowChecked, ChangesChecked, ReadsCurrent
  <2>5. QED
    BY <2>1, <2>2, <2>4, BeginPersonal
<1>4. QED
  BY <1>1, <1>2, <1>3

(* The row that the checks of create_budget, create_goal, create_debt and  *)
(* create_investment_account let through.                                  *)
LEMMA CheckedRow ==
  ASSUME NEW kind \in {"budget", "goal", "debt", "investment"},
         NEW start \in Days \cup {None}, NEW end \in Days \cup {None},
         NEW a \in Accounts \cup {None}, NEW names,
         MaySpan(kind, start, end), MayLink(kind, a), MayList(kind, names)
  PROVE  /\ [kind |-> kind, start |-> start, end |-> end, link |-> a,
             lines |-> Listed(names, 1), revs |-> 1] \in PlanRow
         /\ kind = "budget" => start <= end
<1> USE PersonalAssumption
<1>1. 1 \in 1..MaxRevs /\ 1 \in 0..MaxRevs
  OBVIOUS
<1>2. CASE kind = "budget"
  <2>1. start \in Days /\ end \in Days /\ start <= end /\ a = None /\ names \subseteq Accounts
    BY <1>2 DEF MaySpan, MayLink, MayList
  <2>2. Listed(names, 1) \in SUBSET [name : Accounts, rev : 1..MaxRevs]
    BY <1>1, <2>1 DEF Listed
  <2>3. QED
    BY <1>1, <1>2, <2>1, <2>2 DEF PlanRow, Budget, Plan
<1>3. CASE kind = "investment"
  <2>1. start = None /\ end = None /\ names \subseteq Symbols
    BY <1>3 DEF MaySpan, MayList
  <2>2. Listed(names, 1) \in SUBSET [name : Symbols, rev : 1..MaxRevs]
    BY <1>1, <2>1 DEF Listed
  <2>3. QED
    BY <1>1, <1>3, <2>1, <2>2 DEF PlanRow, InvestmentAccount, Plan
<1>4. CASE kind \in {"goal", "debt"}
  <2>1. start = None /\ end = None /\ names = {}
    BY <1>4 DEF MaySpan, MayList
  <2>2. Listed(names, 1) = {}
    BY <2>1 DEF Listed
  <2>3. QED
    BY <1>1, <1>4, <2>1, <2>2 DEF PlanRow, Goal, Debt, Plan
<1>5. QED
  BY <1>2, <1>3, <1>4

LEMMA BeginCreatePlanRequest ==
  ASSUME PersonalInv, NEW c \in Clients, NEW p \in Plans,
         NEW kind \in {"budget", "goal", "debt", "investment"},
         NEW start \in Days \cup {None}, NEW end \in Days \cup {None},
         NEW a \in Accounts \cup {None}, NEW names,
         BeginCreatePlan(c, p, kind, start, end, a, names)
  PROVE  PersonalInv'
<1> DEFINE lines == Listed(names, 1)
           row == [kind |-> kind, start |-> start, end |-> end, link |-> a,
                   lines |-> lines, revs |-> 1]
           r == [op |-> "create_plan", plan |-> p, row |-> row]
<1>1. Begin(c, r) /\ MaySpan(kind, start, end) /\ MayLink(kind, a) /\ MayList(kind, names)
  BY DEF BeginCreatePlan
<1>2. row \in PlanRow /\ (kind = "budget" => start <= end)
  BY <1>1, CheckedRow
<1>3. Names(lines) = names /\ \A l, m \in lines : l.rev = m.rev
  <2>1. \A l \in lines : l.name \in names /\ l.rev = 1
    BY DEF Listed
  <2>2. \A n \in names : [name |-> n, rev |-> 1] \in lines /\ [name |-> n, rev |-> 1].name = n
    BY DEF Listed
  <2> HIDE DEF lines
  <2>3. Names(lines) = names
    BY <2>1, <2>2 DEF Names
  <2>4. QED
    BY <2>1, <2>3
<1> HIDE DEF lines
<1>4. row.kind = kind /\ row.start = start /\ row.end = end /\ row.link = a /\ row.lines = lines
  OBVIOUS
<1> HIDE DEF row
<1>5. r \in Request /\ r # Idle /\ r.op = "create_plan" /\ r.row = row
  BY <1>2 DEF Request, Idle
<1> HIDE DEF r
<1>6. req'[c] = r /\ accounts' = accounts
  BY <1>1 DEF PersonalInv, RequestsOK, Begin, db
<1>7. RowChecked(c)'
  <2>1. WasLink(kind, a) /\ WasListed(kind, names)
    BY <1>1 DEF MayLink, MayList, WasLink, WasListed, Exists
  <2>2. QED
    BY <1>2, <1>3, <1>4, <1>5, <1>6, <2>1 DEF RowChecked, WasLink, WasListed, Exists
<1>8. ParentChecked(c)' /\ ChangesChecked(c)' /\ ReadsCurrent(c)'
  BY <1>5, <1>6 DEF ParentChecked, ChangesChecked, ReadsCurrent
<1>9. QED
  BY <1>1, <1>5, <1>7, <1>8, BeginPersonal DEF ChecksHold

LEMMA BeginUpdatePlanRequest ==
  ASSUME PersonalInv, NEW c \in Clients, NEW p \in Plans,
         NEW kind \in {"budget", "goal", "debt", "investment"},
         NEW start \in Days \cup {None}, NEW end \in Days \cup {None},
         NEW a \in Accounts \cup {None}, NEW names \in Payloads \cup {None},
         BeginUpdatePlan(c, p, kind, start, end, a, names)
  PROVE  PersonalInv'
<1> USE PersonalAssumption
<1> DEFINE row == plans[p]
           lines == IF names = None THEN {} ELSE row.lines
           r == [op |-> "update_plan", plan |-> p, names |-> names, lines |-> lines,
                 start |-> Dirty(start, row.start), end |-> Dirty(end, row.end),
                 link |-> Dirty(a, row.link)]
<1>1. /\ Begin(c, r) /\ Stands(p) /\ row.kind = kind /\ Merged(row, start, end)
      /\ MayLink(kind, a) /\ (names # None => MayList(kind, names))
  BY DEF BeginUpdatePlan
<1>2. row \in PlanRow
  BY <1>1, Standing DEF PersonalInv
<1>3. lines \in SUBSET [name : Accounts \cup Symbols, rev : 1..MaxRevs]
  BY <1>2, PlanRowFields
<1>4. /\ Dirty(start, row.start) \in {None, start} /\ Dirty(end, row.end) \in {None, end}
      /\ Dirty(a, row.link) \in {None, a}
      /\ Given(Dirty(start, row.start), row.start) = Given(start, row.start)
      /\ Given(Dirty(end, row.end), row.end) = Given(end, row.end)
  BY DEF Dirty, Given
<1>5. kind # "budget" => Dirty(start, row.start) = None /\ Dirty(end, row.end) = None
  BY <1>1 DEF Merged, MaySpan, Dirty, Given
<1>6. names # None => lines = row.lines
  OBVIOUS
<1> HIDE DEF lines
<1>7. /\ r \in Request /\ r # Idle /\ r.op = "update_plan" /\ r.plan = p /\ r.names = names
      /\ r.lines = lines /\ r.start = Dirty(start, row.start) /\ r.end = Dirty(end, row.end)
      /\ r.link = Dirty(a, row.link)
  BY <1>3, <1>4 DEF Request, Idle
<1> HIDE DEF r
<1>8. req'[c] = r /\ accounts' = accounts /\ plans' = plans
  BY <1>1 DEF PersonalInv, RequestsOK, Begin, db
<1>9. ChangesChecked(c)'
  <2>1. WasLink(kind, r.link) /\ (names # None => WasListed(kind, names))
    BY <1>1, <1>4, <1>7 DEF MayLink, MayList, WasLink, WasListed, Exists
  <2>2. plans[p] # None
    BY <1>1 DEF Stands
  <2>3. kind # "budget" => r.start = None /\ r.end = None
    BY <1>5, <1>7
  <2>4. QED
    BY <1>1, <1>7, <1>8, <2>1, <2>2, <2>3 DEF ChangesChecked, WasLink, WasListed, Exists
<1>10. ReadsCurrent(c)'
  BY <1>1, <1>4, <1>6, <1>7, <1>8 DEF ReadsCurrent, Stands, Merged
<1>11. ParentChecked(c)' /\ RowChecked(c)'
  BY <1>7, <1>8 DEF ParentChecked, RowChecked
<1>12. QED
  BY <1>1, <1>7, <1>9, <1>10, <1>11, BeginPersonal DEF ChecksHold

LEMMA BeginPlanRequest ==
  ASSUME PersonalInv, NEW c \in Clients, NEW p \in Plans,
         BudgetRequests(c, p) \/ GoalRequests(c, p) \/ DebtRequests(c, p)
           \/ InvestmentRequests(c, p) \/ BeginDeletePlan(c, p)
  PROVE  PersonalInv'
<1>1. CASE BeginDeletePlan(c, p)
  <2> DEFINE r == [op |-> "delete_plan", plan |-> p]
  <2>1. Begin(c, r)
    BY <1>1 DEF BeginDeletePlan
  <2>2. r \in Request /\ r # Idle /\ r.op = "delete_plan"
    BY DEF Request, Idle
  <2> HIDE DEF r
  <2>3. req'[c] = r
    BY <2>1 DEF PersonalInv, RequestsOK, Begin
  <2>4. ChecksHold(c)' /\ ReadsCurrent(c)'
    BY <2>2, <2>3 DEF ChecksHold, ParentChecked, RowChecked, ChangesChecked, ReadsCurrent
  <2>5. QED
    BY <2>1, <2>2, <2>4, BeginPersonal
<1>2. CASE BudgetRequests(c, p)
  BY <1>2, BeginCreatePlanRequest, BeginUpdatePlanRequest DEF BudgetRequests
<1>3. CASE GoalRequests(c, p)
  BY <1>3, BeginCreatePlanRequest, BeginUpdatePlanRequest DEF GoalRequests
<1>4. CASE DebtRequests(c, p)
  BY <1>4, BeginCreatePlanRequest, BeginUpdatePlanRequest DEF DebtRequests
<1>5. CASE InvestmentRequests(c, p)
  BY <1>5, BeginCreatePlanRequest, BeginUpdatePlanRequest DEF InvestmentRequests
<1>6. QED
  BY <1>1, <1>2, <1>3, <1>4, <1>5

-----------------------------------------------------------------------------
(* The links of a plan that is left alone hold while accounts keep their   *)
(* type.                                                                   *)
LinksOf(p) == Stands(p) => /\ MayLink(plans[p].kind, plans[p].link)
                           /\ MayList(plans[p].kind, Names(plans[p].lines))

Parented(a) == Exists(a) => MayBeParent(accounts[a].parent, accounts[a].type)

LEMMA LinksHoldOf ==
  LinksHold <=> (\A a \in Accounts : Parented(a)) /\ \A p \in Plans : LinksOf(p)
BY DEF LinksHold, Parented, LinksOf, Names

LEMMA LinksHoldOfNext ==
  ASSUME \A a \in Accounts : Parented(a)', \A p \in Plans : LinksOf(p)'
  PROVE  LinksHold'
BY DEF LinksHold, Parented, LinksOf, Names

LEMMA LinksStand ==
  ASSUME NEW p \in Plans, LinksOf(p), plans'[p] = plans[p],
         \A a \in Accounts : Exists(a) => Exists(a)' /\ accounts'[a].type = accounts[a].type,
         Stands(p) => plans[p] \in PlanRow
  PROVE  LinksOf(p)'
<1>1. Stands(p) => /\ plans[p].link \in Accounts \cup {None}
                   /\ MayLink(plans[p].kind, plans[p].link)
                   /\ MayList(plans[p].kind, Names(plans[p].lines))
  BY PlanRowFields DEF LinksOf
<1>2. Stands(p) => MayLink(plans[p].kind, plans[p].link)'
  BY <1>1 DEF MayLink, Exists
<1>3. Stands(p) => MayList(plans[p].kind, Names(plans[p].lines))'
  BY <1>1 DEF MayList, Exists, Names
<1>4. QED
  BY <1>2, <1>3 DEF LinksOf, Stands

LEMMA CreateAccountPersonal ==
  ASSUME PersonalInv, NEW c \in Clients, CreateAccount(c)
  PROVE  PersonalInv'
<1> USE RowNotMark
<1>1. PICK r \in Request : r = req[c]
  BY DEF PersonalInv, RequestsOK
<1> DEFINE a == r.account
<1>2. /\ r.op = "create_account" /\ accounts[a] = None /\ (r.row.parent # None => Exists(r.row.parent))
      /\ accounts' = [accounts EXCEPT ![a] = r.row]
      /\ End(c) /\ used' = used /\ plans' = plans /\ serial' = serial
  BY <1>1 DEF CreateAccount, End
<1>3. r # Idle /\ a \in Accounts /\ r.row \in Account
  BY <1>2 DEF Request, Idle
<1>4. TypeOK /\ LinksHold
  BY DEF PersonalInv
<1>5. /\ accounts'[a] = r.row /\ accounts' \in [Accounts -> Account \cup {None, Gone}]
      /\ \A b \in Accounts : b # a => accounts'[b] = accounts[b]
  BY <1>2, <1>3, <1>4 DEF TypeOK
<1>6. RowsLast /\ \A b \in Accounts : Exists(b) => Exists(b)' /\ accounts'[b].type = accounts[b].type
  BY <1>2, <1>3, <1>5 DEF RowsLast, Exists, Stands
<1>7. RequestsOK' /\ (\A d \in Clients : ChecksHold(d)') /\ OneAtATime'
  BY <1>1, <1>2, <1>3, <1>6, EndPersonal
<1>8. TypeOK'
  <2>1. used' \subseteq {b \in Accounts : accounts'[b] \notin {None, Gone}}
    BY <1>2, <1>4, <1>5 DEF TypeOK
  <2>2. QED
    BY <1>2, <1>4, <1>5, <1>7, <2>1 DEF TypeOK, RequestsOK
<1>9. LinksHold'
  <2>1. ASSUME NEW b \in Accounts PROVE Parented(b)'
    <3>1. CASE b = a
      <4>1. WasParent(r.row.parent, r.row.type)
        BY <1>1, <1>2 DEF PersonalInv, ChecksHold, ParentChecked
      <4>2. QED
        BY <1>2, <1>5, <1>6, <3>1, <4>1 DEF Parented, MayBeParent, WasParent, Exists
    <3>2. CASE b # a
      <4>1. Parented(b) /\ accounts'[b] = accounts[b]
        BY <1>4, <1>5, <3>2, LinksHoldOf
      <4>2. Exists(b) => accounts[b].parent \in Accounts \cup {None}
        BY <1>4, Standing DEF Account
      <4>3. QED
        BY <1>6, <4>1, <4>2 DEF Parented, MayBeParent, Exists
    <3>3. QED
      BY <3>1, <3>2
  <2>2. \A p \in Plans : LinksOf(p)'
    BY <1>2, <1>4, <1>6, Standing, LinksHoldOf, LinksStand
  <2>3. QED
    BY <2>1, <2>2, LinksHoldOfNext
<1>10. PeriodsInOrder' /\ LinesOfOnePayload'
  BY <1>2 DEF PersonalInv, PeriodsInOrder, LinesOfOnePayload, Stands
<1>11. QED
  BY <1>7, <1>8, <1>9, <1>10 DEF PersonalInv

LEMMA UpdateAccountPersonal ==
  ASSUME PersonalInv, NEW c \in Clients, UpdateAccount(c)
  PROVE  PersonalInv'
<1> USE RowNotMark
<1>1. PICK r \in Request : r = req[c]
  BY DEF PersonalInv, RequestsOK
<1> DEFINE a == r.account
<1>2. /\ r.op = "update_account" /\ Exists(a) /\ Exists(r.parent)
      /\ accounts' = [accounts EXCEPT ![a].parent = r.parent]
      /\ End(c) /\ used' = used /\ plans' = plans /\ serial' = serial
  BY <1>1 DEF UpdateAccount, End
<1>3. r # Idle /\ a \in Accounts /\ r.parent \in Accounts
  BY <1>2 DEF Request, Idle
<1>4. TypeOK /\ LinksHold
  BY DEF PersonalInv
<1>5. /\ accounts'[a] = [accounts[a] EXCEPT !.parent = r.parent]
      /\ \A b \in Accounts : b # a => accounts'[b] = accounts[b]
      /\ DOMAIN accounts' = Accounts
  BY <1>2, <1>3, <1>4 DEF TypeOK
<1>6. accounts'[a] \in Account /\ accounts'[a].type = accounts[a].type /\ accounts'[a].parent = r.parent
  <2>1. accounts[a] \in Account
    BY <1>2, <1>3, <1>4, Standing
  <2>2. QED
    BY <1>3, <1>5, <2>1 DEF Account
<1>7. accounts' \in [Accounts -> Account \cup {None, Gone}]
  BY <1>2, <1>4, <1>5, <1>6 DEF TypeOK
<1>8. RowsLast /\ \A b \in Accounts : Exists(b) => Exists(b)' /\ accounts'[b].type = accounts[b].type
  BY <1>2, <1>3, <1>5, <1>6 DEF RowsLast, Exists, Stands
<1>9. RequestsOK' /\ (\A d \in Clients : ChecksHold(d)') /\ OneAtATime'
  BY <1>1, <1>2, <1>3, <1>8, EndPersonal
<1>10. TypeOK'
  <2>1. used' \subseteq {b \in Accounts : accounts'[b] \notin {None, Gone}}
    BY <1>2, <1>4, <1>5, <1>6 DEF TypeOK
  <2>2. QED
    BY <1>2, <1>4, <1>7, <1>9, <2>1 DEF TypeOK, RequestsOK
<1>11. LinksHold'
  <2>1. ASSUME NEW b \in Accounts PROVE Parented(b)'
    <3>1. CASE b = a
      <4>1. WasParent(r.parent, accounts[a].type)
        BY <1>1, <1>2 DEF PersonalInv, ChecksHold, ParentChecked
      <4>2. QED
        BY <1>2, <1>6, <1>8, <3>1, <4>1 DEF Parented, MayBeParent, WasParent, Exists
    <3>2. CASE b # a
      <4>1. Parented(b) /\ accounts'[b] = accounts[b]
        BY <1>4, <1>5, <3>2, LinksHoldOf
      <4>2. Exists(b) => accounts[b].parent \in Accounts \cup {None}
        BY <1>4, Standing DEF Account
      <4>3. QED
        BY <1>8, <4>1, <4>2 DEF Parented, MayBeParent, Exists
    <3>3. QED
      BY <3>1, <3>2
  <2>2. \A p \in Plans : LinksOf(p)'
    BY <1>2, <1>4, <1>8, Standing, LinksHoldOf, LinksStand
  <2>3. QED
    BY <2>1, <2>2, LinksHoldOfNext
<1>12. PeriodsInOrder' /\ LinesOfOnePayload'
  BY <1>2 DEF PersonalInv, PeriodsInOrder, LinesOfOnePayload, Stands
<1>13. QED
  BY <1>9, <1>10, <1>11, <1>12 DEF PersonalInv

LEMMA UnlinkedRow ==
  ASSUME NEW row \in PlanRow
  PROVE  LET new == [row EXCEPT !.link = None] IN
         /\ new \in PlanRow
         /\ new.kind = row.kind /\ new.lines = row.lines
         /\ new.start = row.start /\ new.end = row.end /\ new.link = None
<1>1. CASE row \in Budget
  BY <1>1 DEF PlanRow, Budget, Plan
<1>2. CASE row \in Goal
  <2>1. [row EXCEPT !.link = None] \in Goal
    BY <1>2 DEF Goal, Plan
  <2>2. QED
    BY <1>2, <2>1 DEF PlanRow, Goal, Plan
<1>3. CASE row \in Debt
  <2>1. [row EXCEPT !.link = None] \in Debt
    BY <1>3 DEF Debt, Plan
  <2>2. QED
    BY <1>3, <2>1 DEF PlanRow, Debt, Plan
<1>4. CASE row \in InvestmentAccount
  <2>1. [row EXCEPT !.link = None] \in InvestmentAccount
    BY <1>4 DEF InvestmentAccount, Plan
  <2>2. QED
    BY <1>4, <2>1 DEF PlanRow, InvestmentAccount, Plan
<1>5. QED
  BY <1>1, <1>2, <1>3, <1>4 DEF PlanRow

(* What names the account restricts its deletion or is struck out.         *)
LEMMA DeleteAccountPersonal ==
  ASSUME PersonalInv, NEW c \in Clients, DeleteAccount(c)
  PROVE  PersonalInv'
<1> USE RowNotMark
<1>1. PICK r \in Request : r = req[c]
  BY DEF PersonalInv, RequestsOK
<1> DEFINE a == r.account
<1>2. /\ r.op = "delete_account" /\ ~Restricted(a)
      /\ accounts' = [accounts EXCEPT ![a] = Gone] /\ plans' = Unlinked(a)
      /\ End(c) /\ used' = used /\ serial' = serial
  BY <1>1 DEF DeleteAccount, End
<1>3. r # Idle /\ a \in Accounts
  BY <1>2 DEF Request, Idle
<1>4. TypeOK /\ LinksHold
  BY DEF PersonalInv
<1>5. /\ accounts'[a] = Gone /\ accounts' \in [Accounts -> Account \cup {None, Gone}]
      /\ \A b \in Accounts : b # a => accounts'[b] = accounts[b]
  BY <1>2, <1>3, <1>4 DEF TypeOK
<1>6. \A p \in Plans :
        plans'[p] = IF Stands(p) /\ plans[p].link = a THEN [plans[p] EXCEPT !.link = None] ELSE plans[p]
  BY <1>2 DEF Unlinked, Stands
<1>7. \A p \in Plans : Stands(p) =>
        /\ plans'[p] \in PlanRow
        /\ plans'[p].kind = plans[p].kind /\ plans'[p].lines = plans[p].lines
        /\ plans'[p].start = plans[p].start /\ plans'[p].end = plans[p].end
        /\ plans'[p].link = IF plans[p].link = a THEN None ELSE plans[p].link
  <2> SUFFICES ASSUME NEW p \in Plans, Stands(p)
               PROVE  /\ plans'[p] \in PlanRow
                      /\ plans'[p].kind = plans[p].kind /\ plans'[p].lines = plans[p].lines
                      /\ plans'[p].start = plans[p].start /\ plans'[p].end = plans[p].end
                      /\ plans'[p].link = IF plans[p].link = a THEN None ELSE plans[p].link
    OBVIOUS
  <2>1. plans[p] \in PlanRow
    BY <1>4, Standing
  <2>2. CASE plans[p].link = a
    <3>1. plans'[p] = [plans[p] EXCEPT !.link = None]
      BY <1>6, <2>2
    <3>2. QED
      BY <2>1, <2>2, <3>1, UnlinkedRow
  <2>3. CASE plans[p].link # a
    BY <1>6, <2>1, <2>3
  <2>4. QED
    BY <2>2, <2>3
<1>8. \A p \in Plans : Stands(p)' <=> Stands(p)
  <2>1. \A p \in Plans : Stands(p) => plans'[p] # None /\ plans'[p] # Gone
    BY <1>7
  <2>2. \A p \in Plans : ~Stands(p) => plans'[p] = plans[p]
    BY <1>6
  <2>3. QED
    BY <2>1, <2>2 DEF Stands
<1>9. RowsLast
  <2>1. \A p \in Plans : plans[p] # None =>
          plans'[p] # None /\ (Stands(p)' => Stands(p) /\ plans'[p].kind = plans[p].kind)
    BY <1>6, <1>7, <1>8
  <2>2. QED
    BY <1>3, <1>5, <2>1 DEF RowsLast, Exists
<1>10. RequestsOK' /\ (\A d \in Clients : ChecksHold(d)') /\ OneAtATime'
  BY <1>1, <1>2, <1>3, <1>9, EndPersonal
<1>11. TypeOK'
  <2>1. used' \subseteq {b \in Accounts : accounts'[b] \notin {None, Gone}}
    BY <1>2, <1>4, <1>5 DEF TypeOK, Restricted
  <2>2. \A p \in Plans : plans'[p] \in {None, Gone} \cup PlanRow
    BY <1>6, <1>7 DEF Stands
  <2>3. DOMAIN plans' = Plans
    BY <1>2 DEF Unlinked
  <2>4. QED
    BY <1>2, <1>4, <1>5, <1>10, <2>1, <2>2, <2>3 DEF TypeOK, RequestsOK, PlanRow
<1>12. LinksHold'
  <2>1. ASSUME NEW b \in Accounts PROVE Parented(b)'
    <3>1. CASE b = a
      BY <1>5, <3>1 DEF Parented, Exists
    <3>2. CASE b # a
      <4>1. Parented(b) /\ accounts'[b] = accounts[b]
        BY <1>4, <1>5, <3>2, LinksHoldOf
      <4>2. Exists(b) => accounts[b].parent \in Accounts \cup {None} /\ accounts[b].parent # a
        BY <1>2, <1>4, Standing DEF Account, Restricted
      <4>3. QED
        BY <1>5, <4>1, <4>2 DEF Parented, MayBeParent, Exists
    <3>3. QED
      BY <3>1, <3>2
  <2>2. ASSUME NEW p \in Plans, Stands(p) PROVE LinksOf(p)'
    <3>1. /\ MayLink(plans[p].kind, plans[p].link) /\ MayList(plans[p].kind, Names(plans[p].lines))
          /\ plans[p].link \in Accounts \cup {None}
      BY <1>4, <2>2, Standing, PlanRowFields, LinksHoldOf DEF LinksOf
    <3>2. MayLink(plans[p].kind, plans[p].link)' 
      BY <1>5, <1>7, <2>2, <3>1 DEF MayLink, Exists
    <3>3. a \notin Names(plans[p].lines)
      BY <1>2, <2>2 DEF Restricted, Names, Stands
    <3>4. MayList(plans[p].kind, Names(plans[p].lines))'
      BY <1>5, <1>7, <2>2, <3>1, <3>3 DEF MayList, Exists, Names
    <3>5. QED
      BY <3>2, <3>4 DEF LinksOf
  <2>3. \A p \in Plans : LinksOf(p)'
    BY <1>8, <2>2 DEF LinksOf
  <2>4. QED
    BY <2>1, <2>3, LinksHoldOfNext
<1>13. PeriodsInOrder' /\ LinesOfOnePayload'
  BY <1>2, <1>7, <1>8 DEF PersonalInv, PeriodsInOrder, LinesOfOnePayload
<1>14. QED
  BY <1>10, <1>11, <1>12, <1>13 DEF PersonalInv

LEMMA CreatePlanPersonal ==
  ASSUME PersonalInv, NEW c \in Clients, CreatePlan(c)
  PROVE  PersonalInv'
<1> USE RowNotMark
<1>1. PICK r \in Request : r = req[c]
  BY DEF PersonalInv, RequestsOK
<1> DEFINE p == r.plan
<1>2. /\ r.op = "create_plan" /\ plans[p] = None
      /\ (r.row.link # None => Exists(r.row.link))
      /\ \A l \in r.row.lines : l.name \in Accounts => Exists(l.name)
      /\ plans' = [plans EXCEPT ![p] = r.row]
      /\ End(c) /\ accounts' = accounts /\ used' = used /\ serial' = serial
  BY <1>1 DEF CreatePlan, End
<1>3. r # Idle /\ p \in Plans /\ r.row \in PlanRow
  BY <1>2 DEF Request, Idle
<1>4. TypeOK /\ LinksHold /\ RowChecked(c)
  BY DEF PersonalInv, ChecksHold
<1>5. /\ plans'[p] = r.row /\ DOMAIN plans' = Plans
      /\ \A q \in Plans : q # p => plans'[q] = plans[q]
  BY <1>2, <1>3, <1>4 DEF TypeOK
<1>6. RowsLast
  BY <1>2, <1>3, <1>5 DEF RowsLast, Exists, Stands
<1>7. RequestsOK' /\ (\A d \in Clients : ChecksHold(d)') /\ OneAtATime'
  BY <1>1, <1>2, <1>3, <1>6, EndPersonal
<1>8. TypeOK'
  <2>1. \A q \in Plans : plans'[q] \in {None, Gone} \cup PlanRow
    BY <1>3, <1>4, <1>5 DEF TypeOK, PlanRow
  <2>2. QED
    BY <1>2, <1>4, <1>5, <1>7, <2>1 DEF TypeOK, RequestsOK, PlanRow
<1>9. /\ WasLink(r.row.kind, r.row.link) /\ WasListed(r.row.kind, Names(r.row.lines))
      /\ r.row.kind = "budget" => r.row.start <= r.row.end
      /\ \A l, m \in r.row.lines : l.rev = m.rev
  BY <1>1, <1>2, <1>4 DEF RowChecked
<1>10. LinksHold'
  <2>1. \A a \in Accounts : Parented(a)'
    BY <1>2, <1>4, LinksHoldOf DEF Parented, MayBeParent, Exists
  <2>2. LinksOf(p)'
    <3>1. MayLink(r.row.kind, r.row.link)
      BY <1>2, <1>9 DEF MayLink, WasLink
    <3>2. MayList(r.row.kind, Names(r.row.lines))
      BY <1>2, <1>9 DEF MayList, WasListed, Names
    <3>3. QED
      BY <1>2, <1>5, <3>1, <3>2 DEF LinksOf, MayLink, MayList, Exists
  <2>3. \A q \in Plans : q # p => LinksOf(q)'
    BY <1>2, <1>4, <1>5, Standing, LinksHoldOf, LinksStand DEF Exists
  <2>4. QED
    BY <2>1, <2>2, <2>3, LinksHoldOfNext
<1>11. PeriodsInOrder' /\ LinesOfOnePayload'
  BY <1>2, <1>5, <1>9 DEF PersonalInv, PeriodsInOrder, LinesOfOnePayload, Stands
<1>12. QED
  BY <1>7, <1>8, <1>10, <1>11 DEF PersonalInv

(* The row that update_budget, update_goal, update_debt and                *)
(* update_investment_account leave: of the kind it was.                    *)
Changed(row, s, e, a, lines, n) ==
  [row EXCEPT !.start = s, !.end = e, !.link = a, !.lines = lines, !.revs = n]

LEMMA ChangedRow ==
  ASSUME NEW row \in PlanRow, NEW s, NEW e, NEW a \in Accounts \cup {None}, NEW n \in 0..MaxRevs,
         NEW lines, NEW new,
         new = Changed(row, s, e, a, lines, n),
         row.kind = "budget" => s \in Days /\ e \in Days /\ a = None,
         row.kind # "budget" => s = None /\ e = None,
         row.kind \in {"goal", "debt"} => lines = {},
         row.kind = "budget" => lines \in SUBSET [name : Accounts, rev : 1..MaxRevs],
         row.kind = "investment" => lines \in SUBSET [name : Symbols, rev : 1..MaxRevs]
  PROVE  /\ new \in PlanRow
         /\ new.kind = row.kind /\ new.start = s /\ new.end = e /\ new.link = a
         /\ new.lines = lines /\ new.revs = n
<1> USE DEF Changed
<1>1. CASE row.kind = "budget"
  <2>1. row \in Budget
    BY <1>1, PlanRowFields
  <2>2. new \in Budget
    BY <1>1, <2>1 DEF Budget, Plan
  <2>3. QED
    BY <2>1, <2>2 DEF PlanRow, Budget, Plan
<1>2. CASE row.kind = "goal"
  <2>1. row \in Goal
    BY <1>2, PlanRowFields
  <2>2. new \in Goal
    BY <1>2, <2>1 DEF Goal, Plan
  <2>3. QED
    BY <2>1, <2>2 DEF PlanRow, Goal, Plan
<1>3. CASE row.kind = "debt"
  <2>1. row \in Debt
    BY <1>3, PlanRowFields
  <2>2. new \in Debt
    BY <1>3, <2>1 DEF Debt, Plan
  <2>3. QED
    BY <2>1, <2>2 DEF PlanRow, Debt, Plan
<1>4. CASE row.kind = "investment"
  <2>1. row \in InvestmentAccount
    BY <1>4, PlanRowFields
  <2>2. new \in InvestmentAccount
    BY <1>4, <2>1 DEF InvestmentAccount, Plan
  <2>3. QED
    BY <2>1, <2>2 DEF PlanRow, InvestmentAccount, Plan
<1>5. QED
  BY <1>1, <1>2, <1>3, <1>4, PlanRowFields

(* The lines it leaves are of the row that it found or of the payload.     *)
LEMMA ReplacedNames ==
  ASSUME NEW r, NEW row, NEW x \in Replaced(r, row)
  PROVE  \/ x \in row.lines /\ x \notin r.lines
         \/ x.name \in r.names /\ x.rev = row.revs + 1 /\ x = [name |-> x.name, rev |-> row.revs + 1]
BY DEF Replaced, Listed

LEMMA UpdatePlanPersonal ==
  ASSUME PersonalInv, NEW c \in Clients, UpdatePlan(c)
  PROVE  PersonalInv'
<1> USE RowNotMark, PersonalAssumption
<1>1. PICK r \in Request : r = req[c]
  BY DEF PersonalInv, RequestsOK
<1>2. PICK p, row, new :
        /\ p = r.plan /\ row = plans[p]
        /\ new = [row EXCEPT !.start = Given(r.start, row.start), !.end = Given(r.end, row.end),
                             !.link = Given(r.link, row.link),
                             !.lines = IF r.names = None THEN row.lines ELSE Replaced(r, row),
                             !.revs = IF r.names = None THEN row.revs ELSE row.revs + 1]
        /\ r.op = "update_plan" /\ Stands(p) /\ new.revs <= MaxRevs
        /\ (new.link # row.link => Exists(new.link))
        /\ \A l \in new.lines : l.name \in Accounts => Exists(l.name)
        /\ plans' = [plans EXCEPT ![p] = new]
        /\ End(c) /\ accounts' = accounts /\ used' = used /\ serial' = serial
  <2>1. Stands(r.plan)
    BY <1>1 DEF UpdatePlan
  <2>2. plans[r.plan].start = plans[r.plan].start
    OBVIOUS
  <2>3. QED
    BY <1>1 DEF UpdatePlan, End
<1>3. /\ r # Idle /\ p \in Plans /\ r.start \in Days \cup {None} /\ r.end \in Days \cup {None}
      /\ r.link \in Accounts \cup {None}
  BY <1>2 DEF Request, Idle
<1>4. TypeOK /\ LinksHold /\ ChangesChecked(c)
  BY DEF PersonalInv, ChecksHold
<1>5. row \in PlanRow
  BY <1>2, <1>3, <1>4, Standing
<1>6. /\ WasLink(row.kind, r.link)
      /\ r.names # None => WasListed(row.kind, r.names)
      /\ row.kind # "budget" => r.start = None /\ r.end = None
  BY <1>1, <1>2, <1>4 DEF ChangesChecked
<1> DEFINE s == Given(r.start, row.start)
           e == Given(r.end, row.end)
           a == Given(r.link, row.link)
           lines == IF r.names = None THEN row.lines ELSE Replaced(r, row)
           n == IF r.names = None THEN row.revs ELSE row.revs + 1
<1>7. row.revs \in 0..MaxRevs /\ row.link \in Accounts \cup {None} /\ MaxRevs \in Nat
  BY <1>5, PlanRowFields
<1>8. n \in 0..MaxRevs /\ (r.names # None => n \in 1..MaxRevs)
  <2>1. new.revs = n
    BY <1>2, <1>5 DEF PlanRow, Budget, Goal, Debt, InvestmentAccount, Plan
  <2>2. QED
    BY <1>2, <1>7, <2>1
<1>9. /\ row.kind = "budget" => s \in Days /\ e \in Days /\ a = None
      /\ row.kind # "budget" => s = None /\ e = None
      /\ a \in Accounts \cup {None}
  <2>1. row.kind = "budget" => row.start \in Days /\ row.end \in Days /\ row.link = None
    BY <1>5, PlanRowFields DEF Budget, Plan
  <2>2. row.kind = "budget" => r.link = None
    BY <1>6 DEF WasLink
  <2>3. row.kind # "budget" => row.start = None /\ row.end = None
    BY <1>5, PlanRowFields DEF Goal, Debt, InvestmentAccount, Plan
  <2>4. QED
    BY <1>3, <1>6, <1>7, <2>1, <2>2, <2>3 DEF Given
<1>10. /\ row.kind \in {"goal", "debt"} => lines = {}
       /\ row.kind = "budget" => lines \in SUBSET [name : Accounts, rev : 1..MaxRevs]
       /\ row.kind = "investment" => lines \in SUBSET [name : Symbols, rev : 1..MaxRevs]
  <2>1. /\ row.kind \in {"goal", "debt"} => row.lines = {}
        /\ row.kind = "budget" => row.lines \in SUBSET [name : Accounts, rev : 1..MaxRevs]
        /\ row.kind = "investment" => row.lines \in SUBSET [name : Symbols, rev : 1..MaxRevs]
    <3>1. row.kind \in {"goal", "debt"} => row.lines = {}
      <4>1. row.kind \in {"goal", "debt"} => row.lines \in SUBSET [name : {}, rev : 1..MaxRevs]
        BY <1>5, PlanRowFields DEF Goal, Debt, Plan
      <4>2. \A x : x \notin [name : {}, rev : 1..MaxRevs]
        OBVIOUS
      <4>3. QED
        BY <4>1, <4>2
    <3>2. QED
      BY <1>5, <3>1, PlanRowFields DEF Budget, InvestmentAccount, Plan
  <2>2. CASE r.names = None
    BY <2>1, <2>2
  <2>3. CASE r.names # None
    <3>1. /\ row.kind = "budget" => r.names \subseteq Accounts
          /\ row.kind = "investment" => r.names \subseteq Symbols
          /\ row.kind \in {"goal", "debt"} => r.names = {}
      BY <1>6, <2>3 DEF WasListed
    <3>2. \A x \in lines : x \in row.lines \/ /\ x.name \in r.names
                                              /\ x = [name |-> x.name, rev |-> n]
      BY <2>3, ReplacedNames
    <3>3. n \in 1..MaxRevs
      BY <1>8, <2>3
    <3> HIDE DEF lines, n
    <3>4. QED
      BY <2>1, <3>1, <3>2, <3>3
  <2>4. QED
    BY <2>2, <2>3
<1>11. /\ new \in PlanRow /\ new.kind = row.kind /\ new.start = s /\ new.end = e /\ new.link = a
       /\ new.lines = lines
  <2>1. new = Changed(row, s, e, a, lines, n)
    BY <1>2 DEF Changed
  <2> HIDE DEF s, e, a, lines, n
  <2>2. n \in 0..MaxRevs /\ a \in Accounts \cup {None}
    BY <1>8, <1>9
  <2>3. QED
    BY <1>5, <1>9, <1>10, <2>1, <2>2, ChangedRow
<1>12. /\ plans'[p] = new /\ DOMAIN plans' = Plans
       /\ \A q \in Plans : q # p => plans'[q] = plans[q]
  BY <1>2, <1>3, <1>4 DEF TypeOK
<1>13. RowsLast
  BY <1>2, <1>3, <1>11, <1>12 DEF RowsLast, Exists, Stands
<1>14. RequestsOK' /\ (\A d \in Clients : ChecksHold(d)') /\ OneAtATime'
  BY <1>1, <1>2, <1>3, <1>13, EndPersonal
<1>15. TypeOK'
  <2>1. \A q \in Plans : plans'[q] \in {None, Gone} \cup PlanRow
    BY <1>4, <1>11, <1>12 DEF TypeOK, PlanRow
  <2>2. QED
    BY <1>2, <1>4, <1>12, <1>14, <2>1 DEF TypeOK, RequestsOK, PlanRow
<1>16. LinksHold'
  <2>1. \A b \in Accounts : Parented(b)'
    BY <1>2, <1>4, LinksHoldOf DEF Parented, MayBeParent, Exists
  <2>2. LinksOf(p)'
    <3>1. MayLink(row.kind, row.link) /\ MayList(row.kind, Names(row.lines))
      BY <1>2, <1>3, <1>4, LinksHoldOf DEF LinksOf
    <3>2. MayLink(row.kind, a)
      <4>1. CASE r.link = None
        BY <3>1, <4>1 DEF Given
      <4>2. CASE r.link # None
        <5>1. a = r.link /\ (a = row.link \/ Exists(a))
          BY <1>2, <1>11, <4>2 DEF Given
        <5>2. QED
          BY <1>6, <3>1, <5>1 DEF MayLink, WasLink
      <4>3. QED
        BY <4>1, <4>2
    <3>3. MayList(row.kind, Names(lines))
      <4>1. CASE r.names = None
        BY <3>1, <4>1
      <4>2. CASE r.names # None
        <5>1. \A x \in lines : x.name \in Names(row.lines) \/ x.name \in r.names
          BY <4>2, ReplacedNames DEF Names
        <5>2. \A x \in lines : x.name \in Accounts => Exists(x.name)
          BY <1>2, <1>11
        <5>3. WasListed(row.kind, r.names)
          BY <1>6, <4>2
        <5> HIDE DEF lines
        <5>4. QED
          BY <1>5, <1>10, <3>1, <5>1, <5>2, <5>3, PlanRowFields DEF MayList, WasListed, Names
      <4>3. QED
        BY <4>1, <4>2
    <3>4. plans'[p].kind = row.kind /\ plans'[p].link = a /\ plans'[p].lines = lines
      BY <1>11, <1>12
    <3> HIDE DEF a, lines
    <3>5. MayLink(plans[p].kind, plans[p].link)'
      BY <1>2, <3>2, <3>4 DEF MayLink, Exists
    <3>6. MayList(plans[p].kind, Names(plans[p].lines))'
      BY <1>2, <3>3, <3>4 DEF MayList, Exists, Names
    <3>7. QED
      BY <3>5, <3>6 DEF LinksOf
  <2>3. \A q \in Plans : q # p => LinksOf(q)'
    BY <1>2, <1>4, <1>12, Standing, LinksHoldOf, LinksStand DEF Exists
  <2>4. QED
    BY <2>1, <2>2, <2>3, LinksHoldOfNext
<1>17. PeriodsInOrder' /\ LinesOfOnePayload'
  <2>1. SUFFICES ASSUME serial
                 PROVE  /\ row.kind = "budget" => s <= e
                        /\ \A x, y \in lines : x.rev = y.rev
    <3> HIDE DEF s, e, lines
    <3>1. \A q \in Plans : q # p => (Stands(q)' <=> Stands(q)) /\ plans'[q] = plans[q]
      BY <1>12 DEF Stands
    <3>2. serial' = serial /\ PeriodsInOrder /\ LinesOfOnePayload
      BY <1>2 DEF PersonalInv
    <3>3. PeriodsInOrder'
      BY <1>11, <1>12, <3>1, <3>2 DEF PeriodsInOrder
    <3>4. LinesOfOnePayload'
      BY <1>11, <1>12, <3>1, <3>2 DEF LinesOfOnePayload
    <3>5. QED
      BY <3>3, <3>4
  <2>2. Merged(row, r.start, r.end) /\ (r.names # None => r.lines = row.lines)
    BY <1>1, <1>2, <2>1 DEF PersonalInv, OneAtATime, ReadsCurrent
  <2>3. row.kind = "budget" => s <= e
    BY <2>2 DEF Merged, MaySpan
  <2>4. CASE r.names = None
    BY <1>2, <1>3, <2>1, <2>3, <2>4 DEF PersonalInv, LinesOfOnePayload
  <2>5. CASE r.names # None
    <3>1. \A x \in lines : x.rev = row.revs + 1
      BY <2>2, <2>5, ReplacedNames
    <3>2. QED
      BY <2>3, <3>1
  <2>6. QED
    BY <2>4, <2>5
<1>18. QED
  BY <1>14, <1>15, <1>16, <1>17 DEF PersonalInv

LEMMA DeletePlanPersonal ==
  ASSUME PersonalInv, NEW c \in Clients, DeletePlan(c)
  PROVE  PersonalInv'
<1> USE RowNotMark
<1>1. PICK r \in Request : r = req[c]
  BY DEF PersonalInv, RequestsOK
<1> DEFINE p == r.plan
<1>2. /\ r.op = "delete_plan" /\ plans' = [plans EXCEPT ![p] = Gone]
      /\ End(c) /\ accounts' = accounts /\ used' = used /\ serial' = serial
  BY <1>1 DEF DeletePlan, End
<1>3. r # Idle /\ p \in Plans
  BY <1>2 DEF Request, Idle
<1>4. TypeOK /\ LinksHold
  BY DEF PersonalInv
<1>5. /\ plans'[p] = Gone /\ DOMAIN plans' = Plans
      /\ \A q \in Plans : q # p => plans'[q] = plans[q]
  BY <1>2, <1>3, <1>4 DEF TypeOK
<1>6. RowsLast
  BY <1>2, <1>5 DEF RowsLast, Exists, Stands
<1>7. RequestsOK' /\ (\A d \in Clients : ChecksHold(d)') /\ OneAtATime'
  BY <1>1, <1>2, <1>3, <1>6, EndPersonal
<1>8. TypeOK'
  <2>1. \A q \in Plans : plans'[q] \in {None, Gone} \cup PlanRow
    BY <1>4, <1>5 DEF TypeOK, PlanRow
  <2>2. QED
    BY <1>2, <1>4, <1>5, <1>7, <2>1 DEF TypeOK, RequestsOK, PlanRow
<1>9. LinksHold'
  <2>1. \A a \in Accounts : Parented(a)'
    BY <1>2, <1>4, LinksHoldOf DEF Parented, MayBeParent, Exists
  <2>2. LinksOf(p)'
    BY <1>5 DEF LinksOf, Stands
  <2>3. \A q \in Plans : q # p => LinksOf(q)'
    BY <1>2, <1>4, <1>5, Standing, LinksHoldOf, LinksStand DEF Exists
  <2>4. QED
    BY <2>1, <2>2, <2>3, LinksHoldOfNext
<1>10. PeriodsInOrder' /\ LinesOfOnePayload'
  BY <1>2, <1>5 DEF PersonalInv, PeriodsInOrder, LinesOfOnePayload, Stands
<1>11. QED
  BY <1>7, <1>8, <1>9, <1>10 DEF PersonalInv

(* Entries that name an account, refusals, stuttering: no account or plan  *)
(* changes.                                                                *)
LEMMA QuietPersonal ==
  ASSUME PersonalInv, UNCHANGED <<serial, accounts, plans>>,
         used' \subseteq {a \in Accounts : Exists(a)},
         req' = req \/ \E c \in Clients : req[c] # Idle /\ End(c)
  PROVE  PersonalInv'
<1>1. serial' = serial /\ accounts' = accounts /\ plans' = plans
  OBVIOUS
<1>2. RowsLast
  BY <1>1 DEF RowsLast, Exists, Stands
<1>3. RequestsOK' /\ (\A d \in Clients : ChecksHold(d)') /\ OneAtATime'
  <2>1. CASE req' = req
    <3>1. \A d \in Clients : ChecksHold(d)'
      BY <1>2, <2>1, ChecksLast
    <3>2. RequestsOK' /\ OneAtATime'
      BY <1>1, <2>1 DEF PersonalInv, RequestsOK, OneAtATime, ReadsCurrent, Stands
    <3>3. QED
      BY <3>1, <3>2
  <2>2. CASE \E c \in Clients : req[c] # Idle /\ End(c)
    BY <1>2, <2>2, EndPersonal
  <2>3. QED
    BY <2>1, <2>2
<1>4. TypeOK'
  <2>1. used' \subseteq {a \in Accounts : accounts'[a] \notin {None, Gone}}
    BY <1>1 DEF Exists
  <2>2. QED
    BY <1>1, <1>3, <2>1 DEF PersonalInv, TypeOK, RequestsOK
<1>5. LinksHold' /\ PeriodsInOrder' /\ LinesOfOnePayload'
  <2>1. LinksHold'
    BY <1>1 DEF PersonalInv, LinksHold, MayBeParent, MayLink, MayList, Exists, Stands
  <2>2. QED
    BY <1>1, <2>1 DEF PersonalInv, PeriodsInOrder, LinesOfOnePayload, Stands
<1>6. QED
  BY <1>3, <1>4, <1>5 DEF PersonalInv

LEMMA NextPersonal == PersonalInv /\ [Next]_vars => PersonalInv'
<1> SUFFICES ASSUME PersonalInv, [Next]_vars
             PROVE  PersonalInv'
  OBVIOUS
<1>1. used \subseteq {a \in Accounts : Exists(a)}
  BY DEF PersonalInv, TypeOK, Exists
<1>2. CASE UNCHANGED vars
  BY <1>1, <1>2, QuietPersonal DEF vars, db
<1>3. ASSUME NEW a \in Accounts, Use(a) \/ Release(a)
      PROVE  PersonalInv'
  <2>1. UNCHANGED <<serial, accounts, plans, req>> /\ used' \subseteq {b \in Accounts : Exists(b)}
    BY <1>1, <1>3 DEF Use, Release
  <2>2. QED
    BY <2>1, QuietPersonal
<1>4. ASSUME NEW c \in Clients, Rollback(c)
      PROVE  PersonalInv'
  <2>1. UNCHANGED <<serial, accounts, plans, used>> /\ req[c] # Idle /\ End(c)
    BY <1>4 DEF Rollback, End, db
  <2>2. QED
    BY <1>1, <2>1, QuietPersonal
<1>5. ASSUME NEW c \in Clients, AccountRequests(c)
      PROVE  PersonalInv'
  BY <1>5, BeginAccountRequest, CreateAccountPersonal, UpdateAccountPersonal,
     DeleteAccountPersonal DEF AccountRequests
<1>6. QED
  BY <1>2, <1>3, <1>4, <1>5, BeginPlanRequest, CreatePlanPersonal, UpdatePlanPersonal,
     DeletePlanPersonal DEF Next

(* Of any requests, however they overlap: what names an account names one  *)
(* that exists and is of the right type; and, one request at a time, no    *)
(* budget ends before it begins and the lines of a plan are those of one   *)
(* payload.                                                                *)
THEOREM PersonalSafe == Spec => [](TypeOK /\ LinksHold /\ PeriodsInOrder /\ LinesOfOnePayload)
<1>1. PersonalInv => TypeOK /\ LinksHold /\ PeriodsInOrder /\ LinesOfOnePayload
  BY DEF PersonalInv
<1>2. QED
  BY <1>1, InitPersonal, NextPersonal, PTL DEF Spec

-----------------------------------------------------------------------------
(* The alerts that heartbeats raise about the plans and the books.         *)
(* However sweeps, manual runs, crashes and users interleave, an alert is  *)
(* open at most once per request the API may have in progress.  The        *)
(* committed rows no longer tell which request inserted them; that every   *)
(* open row of an alert can be charged to a request of its own is the      *)
(* invariant.                                                              *)

OpenAlerts == {i \in Rows : alerts[i] # Nil /\ alerts[i].status = "open"}

(* owner charges the open alerts to requests: one that is not committed to *)
(* the request that inserted it, and no two of the same key to the same.   *)
Charges(owner) ==
  /\ owner \in [OpenAlerts -> Slots]
  /\ \A i \in OpenAlerts : alerts[i].by # Nil => owner[i] = alerts[i].by
  /\ \A i, j \in OpenAlerts : alerts[i].key = alerts[j].key /\ owner[i] = owner[j] => i = j

Chargeable == \E owner \in [OpenAlerts -> Slots] : Charges(owner)

(* An alert a user has read as open is a committed row until he is done. *)
HeldCommitted == \A u \in Users : closing[u] # Nil =>
  alerts[closing[u]] # Nil /\ alerts[closing[u]].by = Nil

HeartbeatInv == HeartbeatTypeOK /\ Chargeable /\ HeldCommitted

-----------------------------------------------------------------------------
LEMMA HeartbeatsFinite ==
  /\ Heartbeats = {Sweep[n] : n \in 1..Len(Sweep)} /\ Sweep \in Seq(Heartbeats)
  /\ IsFiniteSet(Keys) /\ Cardinality(Keys) \in Nat
<1>1. /\ Len(Sweep) \in Nat /\ DOMAIN Sweep = 1..Len(Sweep) /\ Sweep \in Seq(Heartbeats)
      /\ Heartbeats = {Sweep[n] : n \in 1..Len(Sweep)}
  BY SweepAssumption DEF Heartbeats, Range
<1> DEFINE keyAt == [n \in 1..Len(Sweep) |-> KeyOf(Sweep[n])]
<1>2. keyAt \in Surjection(1..Len(Sweep), Keys)
  BY <1>1 DEF Keys, Surjection
<1>3. IsFiniteSet(1..Len(Sweep))
  <2>1. PICK n \in Nat : n = Len(Sweep)
    BY <1>1
  <2>2. IsFiniteSet(1..n)
    BY FS_Interval
  <2>3. QED
    BY <2>1, <2>2
<1> HIDE DEF keyAt
<1>4. IsFiniteSet(Keys)
  BY <1>2, <1>3, FS_Surjection
<1>5. QED
  BY <1>1, <1>4, FS_CardinalityType

LEMMA InitHeartbeat == HeartbeatInit => HeartbeatInv
<1> SUFFICES ASSUME HeartbeatInit PROVE HeartbeatInv
  OBVIOUS
<1> USE NilAssumption, SweepAssumption
<1>1. /\ condition \in [Keys -> BOOLEAN] /\ runs = [s \in Slots |-> NoRun]
      /\ alerts = [i \in Rows |-> Nil] /\ closing = [u \in Users |-> Nil]
      /\ log = {} /\ failed = {} /\ failures = 0
  BY DEF HeartbeatInit
<1>2. NoRun \in Run
  BY DEF NoRun, Run
<1>3. HeartbeatTypeOK
  BY <1>1, <1>2 DEF HeartbeatTypeOK
<1>4. HeldCommitted
  BY <1>1 DEF HeldCommitted
<1>5. OpenAlerts = {}
  BY <1>1 DEF OpenAlerts
<1>6. Chargeable
  <2> DEFINE nobody == [i \in OpenAlerts |-> Nil]
  <2>1. nobody \in [OpenAlerts -> Slots] /\ Charges(nobody)
    BY <1>5 DEF Charges
  <2>2. QED
    BY <2>1 DEF Chargeable
<1>7. QED
  BY <1>3, <1>4, <1>6 DEF HeartbeatInv

(* The open alerts of all keys are at most one per key and request, and    *)
(* one fewer when request s has none of key k: the table has a free row    *)
(* whenever an alert is inserted.                                          *)
LEMMA FreeRow ==
  ASSUME HeartbeatInv, NEW k \in Keys, NEW s \in Slots, ~Duplicate(k, s)
  PROVE  Free # {}
<1> SUFFICES ASSUME Free = {} PROVE FALSE
  OBVIOUS
<1> USE NilAssumption
<1>1. PICK owner \in [OpenAlerts -> Slots] : Charges(owner)
  BY DEF HeartbeatInv, Chargeable
<1> DEFINE held == {closing[u] : u \in Users}
           pairs == (Keys \X Slots) \ {<<k, s>>}
           pair == [i \in OpenAlerts |-> <<alerts[i].key, owner[i]>>]
<1>2. \A i \in OpenAlerts : alerts[i] \in Alert /\ alerts[i].status = "open"
  BY DEF HeartbeatInv, HeartbeatTypeOK, OpenAlerts
<1>3. pair \in Injection(OpenAlerts, pairs)
  <2>1. \A i \in OpenAlerts : alerts[i].key \in Keys
    BY <1>2 DEF Alert
  <2>2. \A i \in OpenAlerts : alerts[i].key = k => owner[i] # s
    <3>1. \A i \in OpenAlerts : alerts[i].key = k => alerts[i].by # Nil /\ alerts[i].by # s
      BY <1>2 DEF Duplicate, Visible, OpenAlerts
    <3>2. QED
      BY <1>1, <3>1 DEF Charges
  <2>3. pair \in [OpenAlerts -> pairs]
    BY <1>1, <2>1, <2>2 DEF Charges
  <2>4. \A i, j \in OpenAlerts : pair[i] = pair[j] => i = j
    BY <1>1 DEF Charges
  <2>5. QED
    BY <2>3, <2>4 DEF Injection, IsInjective
<1>4. /\ IsFiniteSet(Keys \X Slots)
      /\ Cardinality(Keys \X Slots) = Cardinality(Keys) * Cardinality(Slots)
      /\ Cardinality(Keys \X Slots) \in Nat
  BY HeartbeatsFinite, SlotsAssumption, FS_Product, FS_CardinalityType
<1>5. IsFiniteSet(pairs) /\ Cardinality(pairs) = Cardinality(Keys \X Slots) - 1
  <2>1. <<k, s>> \in Keys \X Slots
    OBVIOUS
  <2>2. QED
    BY <1>4, <2>1, FS_RemoveElement
<1> HIDE DEF pair, pairs
<1>6. IsFiniteSet(OpenAlerts) /\ Cardinality(OpenAlerts) <= Cardinality(pairs)
  BY <1>3, <1>5, FS_Injection
<1>7. IsFiniteSet(held) /\ Cardinality(held) <= Cardinality(Users)
  <2>1. closing \in Surjection(Users, held)
    BY DEF HeartbeatInv, HeartbeatTypeOK, Surjection
  <2> HIDE DEF held
  <2>2. QED
    BY <2>1, SlotsAssumption, FS_Surjection
<1>8. Rows \subseteq OpenAlerts \cup held
  BY DEF Free, OpenAlerts, HeartbeatInv, HeartbeatTypeOK, Alert
<1> HIDE DEF held
<1>9. /\ IsFiniteSet(OpenAlerts \cup held)
      /\ Cardinality(OpenAlerts \cup held) <= Cardinality(OpenAlerts) + Cardinality(held)
  <2>1. Cardinality(OpenAlerts \cap held) \in Nat
    BY <1>6, FS_Intersection, FS_CardinalityType
  <2>2. Cardinality(OpenAlerts) \in Nat /\ Cardinality(held) \in Nat
    BY <1>6, <1>7, FS_CardinalityType
  <2>3. /\ IsFiniteSet(OpenAlerts \cup held)
        /\ Cardinality(OpenAlerts \cup held) =
             Cardinality(OpenAlerts) + Cardinality(held) - Cardinality(OpenAlerts \cap held)
    BY <1>6, <1>7, FS_Union, Zenon
  <2>4. QED
    BY <2>1, <2>2, <2>3
<1>10. Cardinality(Rows) <= Cardinality(OpenAlerts \cup held)
  BY <1>8, <1>9, FS_Subset
<1>11. /\ Cardinality(Rows) >= Cardinality(Keys \X Slots) + Cardinality(Users)
       /\ Cardinality(Rows) \in Nat /\ Cardinality(Users) \in Nat
       /\ Cardinality(OpenAlerts) \in Nat /\ Cardinality(held) \in Nat
       /\ Cardinality(OpenAlerts \cup held) \in Nat
  BY <1>4, <1>6, <1>7, <1>9, AlertRowsAssumption, SlotsAssumption, FS_CardinalityType
<1>12. QED
  BY <1>4, <1>5, <1>6, <1>7, <1>9, <1>10, <1>11

-----------------------------------------------------------------------------
(* Closing an alert, committing it and rolling it back leave the charges   *)
(* of the others as they were.                                             *)
LEMMA FewerOpen ==
  ASSUME Chargeable,
         \A i \in OpenAlerts' : /\ i \in OpenAlerts /\ alerts'[i].key = alerts[i].key
                                /\ alerts'[i].by \in {alerts[i].by, Nil}
  PROVE  Chargeable'
<1>1. PICK owner \in [OpenAlerts -> Slots] : Charges(owner)
  BY DEF Chargeable
<1>2. PICK rest \in [OpenAlerts' -> Slots] : \A i \in OpenAlerts' : rest[i] = owner[i]
  <2>1. [i \in OpenAlerts' |-> owner[i]] \in [OpenAlerts' -> Slots]
    OBVIOUS
  <2>2. QED
    BY <2>1
<1>3. \A i \in OpenAlerts' : alerts'[i].by # Nil => rest[i] = alerts'[i].by
  BY <1>1, <1>2 DEF Charges
<1>4. \A i, j \in OpenAlerts' : alerts'[i].key = alerts'[j].key /\ rest[i] = rest[j] => i = j
  BY <1>1, <1>2 DEF Charges
<1>5. QED
  BY <1>2, <1>3, <1>4 DEF Chargeable, Charges

LEMMA RunFields ==
  ASSUME HeartbeatInv, NEW s \in Slots
  PROVE  runs[s] \in Run /\ runs[s].todo \in Seq(Heartbeats) /\ runs[s].staged \subseteq Record
BY DEF HeartbeatInv, HeartbeatTypeOK, Run

(* Nothing happens to the table. *)
LEMMA TableStays ==
  ASSUME HeartbeatInv, alerts' = alerts, log' = log,
         condition' \in [Keys -> BOOLEAN], runs' \in [Slots -> Run],
         \A t \in Slots : runs[t].phase # "idle" => runs'[t].phase # "idle",
         failed' \subseteq Heartbeats, failures' \in 0..MaxFailures,
         closing' \in [Users -> Rows \cup {Nil}],
         \A u \in Users : closing'[u] # Nil =>
           alerts[closing'[u]] # Nil /\ alerts[closing'[u]].by = Nil
  PROVE  HeartbeatInv'
<1>1. HeartbeatTypeOK'
  <2>1. \A i \in Rows : alerts[i] # Nil /\ alerts[i].by # Nil =>
          alerts[i].by \in Slots /\ runs[alerts[i].by].phase # "idle"
    BY DEF HeartbeatInv, HeartbeatTypeOK, Alert
  <2>2. \A i \in Rows : alerts'[i] # Nil /\ alerts'[i].by # Nil =>
          runs'[alerts'[i].by].phase # "idle"
    BY <2>1
  <2>3. QED
    BY <2>2 DEF HeartbeatInv, HeartbeatTypeOK
<1>2. Chargeable'
  BY FewerOpen DEF HeartbeatInv, OpenAlerts
<1>3. HeldCommitted'
  BY DEF HeldCommitted
<1>4. QED
  BY <1>1, <1>2, <1>3 DEF HeartbeatInv

LEMMA EndRun ==
  ASSUME HeartbeatInv, NEW s \in Slots, runs' = [runs EXCEPT ![s] = NoRun],
         alerts' = CommittedOf(s) \/ alerts' = RolledBackOf(s),
         UNCHANGED <<condition, closing, failed>>,
         log' \subseteq Record, failures' \in 0..MaxFailures
  PROVE  HeartbeatInv'
<1> USE AlertsAssumption
<1>1. \A i \in Rows :
        \/ alerts'[i] = alerts[i] /\ (alerts[i] # Nil => alerts[i].by # s)
        \/ alerts'[i] = Nil /\ alerts[i] # Nil /\ alerts[i].by = s
        \/ alerts'[i] = [alerts[i] EXCEPT !.by = Nil] /\ alerts[i] # Nil /\ alerts[i].by = s
  BY DEF CommittedOf, RolledBackOf
<1>2. \A i \in Rows : alerts[i] # Nil => alerts[i] \in Alert
  BY DEF HeartbeatInv, HeartbeatTypeOK
<1>3. \A i \in Rows : alerts'[i] # Nil =>
        /\ alerts'[i] \in Alert /\ alerts[i] # Nil
        /\ alerts'[i].by # s \/ alerts'[i].by = Nil
        /\ alerts'[i].key = alerts[i].key /\ alerts'[i].status = alerts[i].status
        /\ alerts'[i].by \in {alerts[i].by, Nil}
  <2> SUFFICES ASSUME NEW i \in Rows, alerts'[i] # Nil
               PROVE  /\ alerts'[i] \in Alert /\ alerts[i] # Nil
                      /\ alerts'[i].by # s \/ alerts'[i].by = Nil
                      /\ alerts'[i].key = alerts[i].key /\ alerts'[i].status = alerts[i].status
                      /\ alerts'[i].by \in {alerts[i].by, Nil}
    OBVIOUS
  <2>1. CASE alerts'[i] = alerts[i] /\ (alerts[i] # Nil => alerts[i].by # s)
    BY <1>2, <2>1
  <2>2. CASE alerts'[i] = [alerts[i] EXCEPT !.by = Nil] /\ alerts[i] # Nil /\ alerts[i].by = s
    <3>1. alerts[i] \in Alert
      BY <1>2, <2>2
    <3>2. QED
      BY <2>2, <3>1 DEF Alert
  <2>3. QED
    BY <1>1, <2>1, <2>2
<1>4. alerts' \in [Rows -> Alert \cup {Nil}]
  <2>1. DOMAIN alerts' = Rows /\ alerts' = [i \in Rows |-> alerts'[i]]
    BY DEF CommittedOf, RolledBackOf
  <2>2. QED
    BY <1>3, <2>1
<1>5. runs' \in [Slots -> Run] /\ \A t \in Slots : t # s => runs'[t] = runs[t]
  BY DEF HeartbeatInv, HeartbeatTypeOK, NoRun, Run
<1>6. HeartbeatTypeOK'
  <2>1. ASSUME NEW i \in Rows, alerts'[i] # Nil, alerts'[i].by # Nil
        PROVE  runs'[alerts'[i].by].phase # "idle"
    <3>1. alerts'[i].by = alerts[i].by /\ alerts[i].by \in Slots /\ alerts[i].by # s
      BY <1>2, <1>3, <2>1 DEF Alert
    <3>2. runs[alerts[i].by].phase # "idle"
      BY <1>3, <2>1, <3>1 DEF HeartbeatInv, HeartbeatTypeOK
    <3>3. QED
      BY <1>5, <3>1, <3>2
  <2>2. QED
    BY <1>4, <1>5, <2>1 DEF HeartbeatInv, HeartbeatTypeOK
<1>7. Chargeable'
  BY <1>3, FewerOpen DEF HeartbeatInv, OpenAlerts
<1>8. HeldCommitted'
  <2>1. ASSUME NEW u \in Users, closing[u] # Nil
        PROVE  alerts'[closing[u]] # Nil /\ alerts'[closing[u]].by = Nil
    <3>1. closing[u] \in Rows /\ alerts[closing[u]] # Nil /\ alerts[closing[u]].by = Nil
      BY <2>1 DEF HeartbeatInv, HeartbeatTypeOK, HeldCommitted
    <3>2. s # Nil
      BY NilAssumption
    <3>3. QED
      BY <1>1, <3>1, <3>2
  <2>2. QED
    BY <2>1 DEF HeldCommitted
<1>9. QED
  BY <1>6, <1>7, <1>8 DEF HeartbeatInv

LEMMA CheckHeartbeat ==
  ASSUME HeartbeatInv, NEW s \in Slots, Check(s)
  PROVE  HeartbeatInv'
<1> USE NilAssumption, AlertsAssumption
<1> DEFINE h == Head(runs[s].todo)
           k == KeyOf(h)
           row == [key |-> k, status |-> "open", by |-> s]
<1>1. /\ runs[s].phase = "running" /\ runs[s].todo # <<>>
      /\ runs' = [runs EXCEPT ![s].todo = Tail(@),
                              ![s].staged = @ \cup {[heartbeat |-> h, status |-> "completed"]}]
      /\ UNCHANGED <<condition, closing, log, failed, failures>>
  BY DEF Check
<1>2. h \in Heartbeats /\ Tail(runs[s].todo) \in Seq(Heartbeats) /\ k \in Keys
  <2>1. runs[s].todo \in Seq(Heartbeats)
    BY RunFields
  <2>2. h \in Heartbeats /\ Tail(runs[s].todo) \in Seq(Heartbeats)
    BY <1>1, <2>1
  <2>3. QED
    BY <2>2 DEF Keys
<1>3. /\ runs' \in [Slots -> Run] /\ runs'[s].phase = "running"
      /\ \A t \in Slots : t # s => runs'[t] = runs[t]
  <2>1. [heartbeat |-> h, status |-> "completed"] \in Record
    BY <1>2 DEF Record
  <2>2. \A t \in Slots : runs'[t] = IF t = s
          THEN [runs[s] EXCEPT !.todo = Tail(@),
                               !.staged = @ \cup {[heartbeat |-> h, status |-> "completed"]}]
          ELSE runs[t]
    BY <1>1 DEF HeartbeatInv, HeartbeatTypeOK
  <2>3. runs'[s] \in Run /\ runs'[s].phase = "running"
    <3>1. PICK staged \in SUBSET Record :
            staged = runs[s].staged \cup {[heartbeat |-> h, status |-> "completed"]}
      BY <2>1, RunFields
    <3>2. PICK todo \in Seq(Heartbeats) : todo = Tail(runs[s].todo)
      BY <1>2
    <3>3. runs'[s] = [runs[s] EXCEPT !.todo = todo, !.staged = staged]
      BY <2>2, <3>1, <3>2
    <3>4. QED
      BY <1>1, <3>3, RunFields, ZenonT(60) DEF Run
  <2>4. QED
    BY <1>1, <2>2, <2>3 DEF HeartbeatInv, HeartbeatTypeOK
<1>4. CASE alerts' = alerts
  <2>1. \A t \in Slots : runs[t].phase # "idle" => runs'[t].phase # "idle"
    BY <1>3
  <2>2. /\ condition' \in [Keys -> BOOLEAN] /\ failed' \subseteq Heartbeats
        /\ failures' \in 0..MaxFailures /\ closing' \in [Users -> Rows \cup {Nil}] /\ log' = log
        /\ \A u \in Users : closing'[u] # Nil =>
             alerts[closing'[u]] # Nil /\ alerts[closing'[u]].by = Nil
    BY <1>1 DEF HeartbeatInv, HeartbeatTypeOK, HeldCommitted
  <2>3. QED
    BY <1>3, <1>4, <2>1, <2>2, TableStays
<1>5. CASE alerts' # alerts
  <2>1. ~Duplicate(k, s) /\ alerts' = [alerts EXCEPT ![CHOOSE i \in Free : TRUE] = row]
    BY <1>5 DEF Check
  <2>2. PICK i \in Free : alerts' = [alerts EXCEPT ![i] = row]
    BY <1>2, <2>1, FreeRow
  <2>3. /\ i \in Rows /\ (alerts[i] = Nil \/ alerts[i].status = "closed")
        /\ \A u \in Users : closing[u] # i
    BY <2>2 DEF Free
  <2>4. row \in Alert /\ row.key = k /\ row.status = "open" /\ row.by = s
    BY <1>2 DEF Alert
  <2> HIDE DEF row
  <2>5. /\ alerts' \in [Rows -> Alert \cup {Nil}] /\ alerts'[i] = row /\ row # Nil
        /\ \A x \in Rows : x # i => alerts'[x] = alerts[x]
    BY <2>2, <2>3, <2>4 DEF HeartbeatInv, HeartbeatTypeOK
  <2>6. HeartbeatTypeOK'
    <3>1. ASSUME NEW x \in Rows, alerts'[x] # Nil, alerts'[x].by # Nil
          PROVE  runs'[alerts'[x].by].phase # "idle"
      <4>1. CASE x = i
        BY <1>3, <2>4, <2>5, <4>1
      <4>2. CASE x # i
        <5>1. alerts[x] \in Alert /\ runs[alerts[x].by].phase # "idle" /\ alerts[x].by \in Slots
          BY <2>5, <3>1, <4>2 DEF HeartbeatInv, HeartbeatTypeOK, Alert
        <5>2. QED
          BY <1>3, <2>5, <4>2, <5>1
      <4>3. QED
        BY <4>1, <4>2
    <3>2. QED
      BY <1>1, <1>3, <2>5, <3>1 DEF HeartbeatInv, HeartbeatTypeOK
  <2>7. HeldCommitted'
    BY <1>1, <2>3, <2>5 DEF HeartbeatInv, HeldCommitted, HeartbeatTypeOK
  <2>8. Chargeable'
    <3>1. PICK owner \in [OpenAlerts -> Slots] : Charges(owner)
      BY DEF HeartbeatInv, Chargeable
    <3>2. OpenAlerts' = OpenAlerts \cup {i} /\ i \notin OpenAlerts
      BY <2>3, <2>4, <2>5 DEF OpenAlerts
    <3>3. PICK more \in [OpenAlerts' -> Slots] :
            more[i] = s /\ \A x \in OpenAlerts : more[x] = owner[x]
      <4>1. [x \in OpenAlerts' |-> IF x = i THEN s ELSE owner[x]] \in [OpenAlerts' -> Slots]
        BY <3>2
      <4>2. QED
        BY <3>2, <4>1
    <3>4. \A x \in OpenAlerts : x \in Rows /\ x # i /\ alerts'[x] = alerts[x]
      BY <2>5, <3>2 DEF OpenAlerts
    <3>5. \A x \in OpenAlerts : alerts[x].key = k => owner[x] # s
      <4>1. \A x \in OpenAlerts : alerts[x].key = k => alerts[x].by # Nil /\ alerts[x].by # s
        BY <2>1 DEF Duplicate, Visible, OpenAlerts
      <4>2. QED
        BY <3>1, <4>1 DEF Charges
    <3>6. \A x \in OpenAlerts' : alerts'[x].by # Nil => more[x] = alerts'[x].by
      BY <2>4, <2>5, <3>1, <3>2, <3>3, <3>4 DEF Charges
    <3>7. \A x, y \in OpenAlerts' : alerts'[x].key = alerts'[y].key /\ more[x] = more[y] => x = y
      BY <2>4, <2>5, <3>1, <3>2, <3>3, <3>4, <3>5 DEF Charges
    <3>8. QED
      BY <3>3, <3>6, <3>7 DEF Chargeable, Charges
  <2>9. QED
    BY <2>6, <2>7, <2>8 DEF HeartbeatInv
<1>6. QED
  BY <1>4, <1>5

(* What a step that touches neither runs nor alerts leaves as it was. *)
LEMMA HeartbeatTypes ==
  ASSUME HeartbeatInv
  PROVE  /\ condition \in [Keys -> BOOLEAN] /\ runs \in [Slots -> Run]
         /\ alerts \in [Rows -> Alert \cup {Nil}] /\ closing \in [Users -> Rows \cup {Nil}]
         /\ log \subseteq Record /\ failed \subseteq Heartbeats
         /\ failures \in 0..MaxFailures /\ MaxFailures \in Nat
         /\ \A u \in Users : closing[u] # Nil =>
              alerts[closing[u]] # Nil /\ alerts[closing[u]].by = Nil
BY SweepAssumption DEF HeartbeatInv, HeartbeatTypeOK, HeldCommitted

LEMMA StartHeartbeat ==
  ASSUME HeartbeatInv, NEW s \in Slots, NEW todo \in Seq(Heartbeats), Start(s, todo)
  PROVE  HeartbeatInv'
<1>1. /\ runs[s].phase = "idle"
      /\ runs' = [runs EXCEPT ![s] = [NoRun EXCEPT !.phase = "running", !.todo = todo]]
      /\ UNCHANGED <<condition, alerts, closing, log, failed, failures>>
  BY DEF Start
<1>2. [NoRun EXCEPT !.phase = "running", !.todo = todo] \in Run
  BY DEF NoRun, Run
<1>3. /\ runs' \in [Slots -> Run]
      /\ \A t \in Slots : runs[t].phase # "idle" => runs'[t].phase # "idle"
  BY <1>1, <1>2, HeartbeatTypes
<1>4. QED
  BY <1>1, <1>3, HeartbeatTypes, TableStays

LEMMA FailHeartbeat ==
  ASSUME HeartbeatInv, NEW s \in Slots, Fail(s)
  PROVE  HeartbeatInv'
<1> DEFINE h == Head(runs[s].todo)
<1>1. /\ runs[s].todo # <<>> /\ failures < MaxFailures /\ failures' = failures + 1
      /\ failed' = failed \cup {h}
      /\ runs' = [runs EXCEPT ![s].phase = "raising",
                              ![s].staged = @ \cup {[heartbeat |-> h, status |-> "failed"]}]
      /\ UNCHANGED <<condition, alerts, closing, log>>
  BY DEF Fail
<1>2. h \in Heartbeats
  <2>1. runs[s].todo \in Seq(Heartbeats)
    BY RunFields
  <2>2. QED
    BY <1>1, <2>1
<1>3. PICK staged \in SUBSET Record :
        staged = runs[s].staged \cup {[heartbeat |-> h, status |-> "failed"]}
  <2>1. [heartbeat |-> h, status |-> "failed"] \in Record
    BY <1>2 DEF Record
  <2>2. QED
    BY <2>1, RunFields
<1>4. runs' = [runs EXCEPT ![s] = [runs[s] EXCEPT !.phase = "raising", !.staged = staged]]
  BY <1>1, <1>3, HeartbeatTypes
<1>5. [runs[s] EXCEPT !.phase = "raising", !.staged = staged] \in Run
  BY RunFields DEF Run
<1>6. [runs[s] EXCEPT !.phase = "raising", !.staged = staged].phase = "raising"
  BY RunFields DEF Run
<1>7. /\ runs' \in [Slots -> Run]
      /\ \A t \in Slots : runs[t].phase # "idle" => runs'[t].phase # "idle"
  BY <1>4, <1>5, <1>6, HeartbeatTypes
<1>8. failures' \in 0..MaxFailures /\ failed' \subseteq Heartbeats
  BY <1>1, <1>2, HeartbeatTypes
<1>9. QED
  BY <1>1, <1>7, <1>8, HeartbeatTypes, TableStays

LEMMA EndHeartbeat ==
  ASSUME HeartbeatInv, NEW s \in Slots, Commit(s) \/ RollBack(s) \/ Crash(s)
  PROVE  HeartbeatInv'
<1>1. /\ runs' = [runs EXCEPT ![s] = NoRun]
      /\ alerts' = CommittedOf(s) \/ alerts' = RolledBackOf(s)
      /\ UNCHANGED <<condition, closing, failed>>
  BY DEF Commit, RollBack, Crash
<1>2. log' \subseteq Record
  BY HeartbeatTypes, RunFields DEF Commit, RollBack, Crash
<1>3. failures' \in 0..MaxFailures
  BY HeartbeatTypes DEF Commit, RollBack, Crash
<1>4. QED
  BY <1>1, <1>2, <1>3, EndRun

LEMMA UserHeartbeat ==
  ASSUME HeartbeatInv, NEW u \in Users, (\E i \in Rows : ReadAlert(u, i)) \/ CloseAlert(u)
  PROVE  HeartbeatInv'
<1> USE NilAssumption, AlertsAssumption
<1>1. ASSUME NEW i \in Rows, ReadAlert(u, i)
      PROVE  HeartbeatInv'
  <2>1. /\ alerts[i] # Nil /\ alerts[i].by = Nil /\ closing' = [closing EXCEPT ![u] = i]
        /\ UNCHANGED <<condition, runs, alerts, log, failed, failures>>
    BY <1>1 DEF ReadAlert
  <2>2. /\ closing' \in [Users -> Rows \cup {Nil}]
        /\ \A v \in Users : closing'[v] # Nil =>
             alerts[closing'[v]] # Nil /\ alerts[closing'[v]].by = Nil
    BY <2>1, HeartbeatTypes
  <2>3. QED
    BY <2>1, <2>2, HeartbeatTypes, TableStays
<1>2. CASE CloseAlert(u)
  <2> DEFINE i == closing[u]
             row == [alerts[i] EXCEPT !.status = "closed"]
  <2>1. /\ i # Nil /\ alerts' = [alerts EXCEPT ![i].status = "closed"]
        /\ closing' = [closing EXCEPT ![u] = Nil]
        /\ UNCHANGED <<condition, runs, log, failed, failures>>
    BY <1>2 DEF CloseAlert
  <2>2. i \in Rows /\ alerts[i] # Nil /\ alerts[i].by = Nil /\ alerts[i] \in Alert
    BY <2>1, HeartbeatTypes
  <2>3. row \in Alert /\ row.by = Nil /\ row.status = "closed"
    BY <2>2 DEF Alert
  <2>4. alerts'[i] = row /\ \A x \in Rows : x # i => alerts'[x] = alerts[x]
    BY <2>1, <2>2, HeartbeatTypes
  <2> HIDE DEF row
  <2>5. alerts' \in [Rows -> Alert \cup {Nil}] /\ row # Nil
    BY <2>1, <2>3, <2>4, HeartbeatTypes
  <2>6. HeartbeatTypeOK'
    <3>1. \A x \in Rows : alerts'[x] # Nil /\ alerts'[x].by # Nil =>
            alerts'[x] = alerts[x] /\ runs[alerts[x].by].phase # "idle"
      BY <2>3, <2>4 DEF HeartbeatInv, HeartbeatTypeOK
    <3>2. closing' \in [Users -> Rows \cup {Nil}]
      BY <2>1, HeartbeatTypes
    <3>3. QED
      BY <2>1, <2>5, <3>1, <3>2, HeartbeatTypes DEF HeartbeatTypeOK
  <2>7. Chargeable'
    <3>1. \A x \in OpenAlerts' : x \in OpenAlerts /\ alerts'[x] = alerts[x]
      BY <2>3, <2>4 DEF OpenAlerts
    <3>2. QED
      BY <3>1, FewerOpen DEF HeartbeatInv
  <2>8. HeldCommitted'
    BY <2>1, <2>2, <2>3, <2>4, <2>5, HeartbeatTypes DEF HeldCommitted
  <2>9. QED
    BY <2>6, <2>7, <2>8 DEF HeartbeatInv
<1>3. QED
  BY <1>1, <1>2

LEMMA NextHeartbeat == HeartbeatInv /\ [HeartbeatNext]_heartbeatVars => HeartbeatInv'
<1> SUFFICES ASSUME HeartbeatInv, [HeartbeatNext]_heartbeatVars
             PROVE  HeartbeatInv'
  OBVIOUS
<1>1. ASSUME NEW k \in Keys, Change(k)
      PROVE  HeartbeatInv'
  <2>1. /\ condition' = [condition EXCEPT ![k] = ~condition[k]]
        /\ UNCHANGED <<runs, alerts, closing, log, failed, failures>>
    BY <1>1 DEF Change
  <2>2. condition' \in [Keys -> BOOLEAN]
    BY <2>1, HeartbeatTypes
  <2>3. QED
    BY <2>1, <2>2, HeartbeatTypes, TableStays
<1>2. CASE UNCHANGED heartbeatVars
  BY <1>2, HeartbeatTypes, TableStays DEF heartbeatVars
<1>3. ASSUME NEW s \in Slots, Tick(s) \/ \E h \in Heartbeats : RunManually(s, h)
      PROVE  HeartbeatInv'
  <2>1. CASE Tick(s)
    BY <2>1, HeartbeatsFinite, StartHeartbeat DEF Tick
  <2>2. ASSUME NEW h \in Heartbeats, RunManually(s, h)
        PROVE  HeartbeatInv'
    <3>1. <<h>> \in Seq(Heartbeats)
      OBVIOUS
    <3>2. QED
      BY <2>2, <3>1, StartHeartbeat DEF RunManually
  <2>3. QED
    BY <1>3, <2>1, <2>2
<1>4. QED
  BY <1>1, <1>2, <1>3, CheckHeartbeat, EndHeartbeat, FailHeartbeat, UserHeartbeat
     DEF HeartbeatNext, RunStep

(* Charged to different requests, the open rows of an alert are no more    *)
(* than there are requests.                                                *)
LEMMA ChargeableBounds == Chargeable => AlertsBounded
<1> SUFFICES ASSUME Chargeable, NEW k \in Keys
             PROVE  Cardinality(OpenRows(k)) <= Cardinality(Slots)
  BY DEF AlertsBounded
<1>1. PICK owner \in [OpenAlerts -> Slots] : Charges(owner)
  BY DEF Chargeable
<1> DEFINE charged == [i \in OpenRows(k) |-> owner[i]]
<1>2. \A i \in OpenRows(k) : i \in OpenAlerts /\ alerts[i].key = k
  BY DEF OpenRows, OpenAlerts
<1>3. charged \in Injection(OpenRows(k), Slots)
  <2>1. charged \in [OpenRows(k) -> Slots]
    BY <1>2
  <2>2. \A i, j \in OpenRows(k) : charged[i] = charged[j] => i = j
    BY <1>1, <1>2 DEF Charges
  <2>3. QED
    BY <2>1, <2>2 DEF Injection, IsInjective
<1> HIDE DEF charged
<1>4. QED
  BY <1>3, SlotsAssumption, FS_Injection

(* Whatever is raised, closed, rolled back or lost: no alert is open more  *)
(* often than there are requests in progress at once, and no transaction   *)
(* ends with rows left over.                                               *)
THEOREM HeartbeatSafe == HeartbeatSpec => [](HeartbeatTypeOK /\ AlertsBounded)
<1>1. HeartbeatInv => HeartbeatTypeOK /\ AlertsBounded
  BY ChargeableBounds DEF HeartbeatInv
<1>2. QED
  BY <1>1, InitHeartbeat, NextHeartbeat, PTL DEF HeartbeatSpec
=============================================================================
