------------------------------ MODULE Reports --------------------------------
(***************************************************************************)
(* What the reports say of the books of one entity: the statements,        *)
(* dashboards and aging reports of services/business.py and the net worth, *)
(* spending, budget and cash-flow figures of services/personal.py.  The    *)
(* two kinds of entity use the same sums over the ledger, so all are asked *)
(* of one.                                                                 *)
(*                                                                         *)
(* The books grow by entries of two lines, booked by hand, for documents   *)
(* and their payments (see Billing), and by voiding (see Journal), each in *)
(* one step; dated in any order.  A reader has a transaction of its own    *)
(* and sees what was committed before it.  Months all have MonthLength     *)
(* days; names, ratios and texts of the reports are left out.              *)
(***************************************************************************)
EXTENDS Sequences, FiniteSetsExt, Sums

CONSTANTS Chart,        \* Chart[a]: type and group of account a
          Manual,       \* what users book by hand: <<debit, credit, amount>>
          Totals,       \* what documents are for
          Amounts,      \* what is paid at a time
          Days,         \* the days things are dated and reports are asked for
          MonthLength,
          NoSnapshot,
          MaxEntries,   \* bound: entries in the books
          MaxDocs,      \* bound: invoices and bills
          MaxSnapshots  \* bound: days with a snapshot

ChartAccounts == DOMAIN Chart
Types == {"asset", "liability", "equity", "income", "expense"}
Kinds == {"invoice", "bill"}

VARIABLES books,      \* the journal entries that were posted, in that order
          docs,       \* the invoices and bills
          snapshots   \* snapshots[d]: the row of net_worth_snapshots of day d

reportsVars == <<books, docs, snapshots>>

First == Min(Days)

BookEntry == [day : Days, debit : ChartAccounts, credit : ChartAccounts,
              amount : Nat \ {0}, doc : 0..MaxDocs, status : {"posted", "voided"}]

Doc == [kind : Kinds, day : Days, due : Days, total : Totals,
        balance : Nat, status : {"draft", "posted", "partial", "paid"}]

Snapshot == [worth : Int, seen : 0..MaxEntries]

(* The chart has the accounts that the services look up by their codes.    *)
ASSUME ReportsAssumption ==
  /\ MonthLength \in Nat \ {0} /\ Days \subseteq Nat \ {0} /\ IsFiniteSet(Days)
  /\ Amounts \cup Totals \subseteq Nat \ {0}
  /\ Manual \subseteq ChartAccounts \X ChartAccounts \X (Nat \ {0})
  /\ IsFiniteSet(ChartAccounts) /\ {"1110", "1200", "2100"} \subseteq ChartAccounts
  /\ \A a \in ChartAccounts : Chart[a].type \in Types
  /\ \A a \in {"1110", "1200"} : Chart[a].type = "asset"
  /\ Chart["2100"].type = "liability"
  /\ {MaxEntries, MaxDocs, MaxSnapshots} \subseteq Nat /\ NoSnapshot \notin Snapshot

ReportsTypeOK ==
  /\ books \in Seq(BookEntry) /\ Len(books) <= MaxEntries
  /\ docs \in Seq(Doc) /\ Len(docs) <= MaxDocs
  /\ snapshots \in [Days -> Snapshot \cup {NoSnapshot}]

ReportsInit == books = <<>> /\ docs = <<>> /\ snapshots = [d \in Days |-> NoSnapshot]

-----------------------------------------------------------------------------
(* Balances: _ledger_balances, _account_balances. *)

(* Mutants: voided entries are left out; the last day is. *)
InReportsPosted(e) == e.status = "posted"
WithinBefore(e, from, to) == from <= e.day /\ e.day < to

InReports(e) == e.status \in {"posted", "voided"}
Within(e, from, to) == from <= e.day /\ e.day <= to

Signed(a, n) == IF Chart[a].type \in {"asset", "expense"} THEN n ELSE -n

(* What an entry adds to the balances of these accounts. *)
Effect(e, as) == (IF e.debit \in as THEN Signed(e.debit, e.amount) ELSE 0)
               - (IF e.credit \in as THEN Signed(e.credit, e.amount) ELSE 0)

(* The sum of the balances of these accounts over a period. *)
Total(as, from, to) ==
  SumOver([k \in DOMAIN books |->
             IF InReports(books[k]) /\ Within(books[k], from, to) THEN Effect(books[k], as) ELSE 0])

Balance(a, from, to) == Total({a}, from, to)

OfType == [t \in Types |-> {a \in ChartAccounts : Chart[a].type = t}]
OfGroup(t, g) == {a \in OfType[t] : Chart[a].group = g}
Cash == OfGroup("asset", "cash")
CostOfGoods == OfGroup("expense", "cogs")

-----------------------------------------------------------------------------
(* The reports. *)

IncomeStatement(from, to) ==
  LET income == Total(OfType["income"], from, to)
      expenses == Total(OfType["expense"], from, to)
  IN [income |-> income, expenses |-> expenses, net |-> income - expenses]

BalanceSheet(d) ==
  LET assets == Total(OfType["asset"], First, d)
      liabilities == Total(OfType["liability"], First, d)
      earnings == Total(OfType["income"], First, d) - Total(OfType["expense"], First, d)
      equity == Total(OfType["equity"], First, d) + earnings
  IN [assets |-> assets, liabilities |-> liabilities, earnings |-> earnings,
      equity |-> equity, balanced |-> assets = liabilities + equity]

CashFlow(from, to) == Total(Cash, from, to)

(* Revenue less the cost of goods sold, the expense accounts 51.. *)
GrossProfit(from, to) == Total(OfType["income"], from, to) - Total(CostOfGoods, from, to)

MonthStart(d) == ((d - 1) \div MonthLength) * MonthLength + 1
MonthEnd(d) == MonthStart(d) + MonthLength - 1

(* The figures of the month until d, as both dashboards show them. *)
MonthOf(d) == IncomeStatement(MonthStart(d), Min({MonthEnd(d), d}))

(* What the accounts of a budget have cost within its period. *)
Actuals(as, from, to) == [a \in as |-> Balance(a, from, to)]

(* The rows spending_by_category and business_dependency split the month's *)
(* figures into; owner's draws and salary are groups of income accounts.   *)
Spending(d) == Actuals(OfType["expense"], MonthStart(d), d)
Dependency(d) == [g \in {Chart[a].group : a \in OfType["income"]} |->
                    Total(OfGroup("income", g), MonthStart(d), d)]

NetWorth(d) == Total(OfType["asset"], First, d) - Total(OfType["liability"], First, d)

(* Mutant of Open: documents that were paid in part are forgotten. *)
OpenUnpaid(x) == x.status = "posted" /\ x.balance > 0
Open(x) == x.status \in {"posted", "partial"} /\ x.balance > 0

Bucket(x, d) == LET late == d - x.due IN
  CASE late <= 0  -> "current"     [] late \in 1..30  -> "days_1_30"
    [] late \in 31..60 -> "days_31_60" [] late \in 61..90 -> "days_61_90"
    [] OTHER -> "days_91_plus"

Buckets == {"current", "days_1_30", "days_31_60", "days_61_90", "days_91_plus"}

(* A sum over documents. *)
SumOfDocs(Test(_), column) == SumOver([i \in DOMAIN docs |-> IF Test(docs[i]) THEN docs[i][column] ELSE 0])

(* ar_aging and ap_aging: what is open now, by how late it is on day d. *)
Aging(kind, d) ==
  [b \in Buckets |-> SumOfDocs(LAMBDA x : x.kind = kind /\ Open(x) /\ Bucket(x, d) = b, "balance")]

AgingTotal(kind) == SumOfDocs(LAMBDA x : x.kind = kind /\ Open(x), "balance")

(* revenue_by_customer and expenses_by_vendor, over all of them. *)
Billed(kind, from, to) ==
  SumOfDocs(LAMBDA x : /\ x.kind = kind /\ x.status # "draft"
                       /\ from <= x.day /\ x.day <= to, "total")

-----------------------------------------------------------------------------
(* What happens to the books. *)

Control(kind) == IF kind = "invoice" THEN "1200" ELSE "2100"

(* The accounts that documents are billed to. *)
Other(kind) == IF kind = "invoice" THEN OfType["income"] ELSE OfType["expense"] \cup OfType["asset"]

WithEntry(day, debit, credit, amount, doc) ==
  Append(books, [day |-> day, debit |-> debit, credit |-> credit, amount |-> amount,
                 doc |-> doc, status |-> "posted"])

BookByHand(day, m) ==
  /\ Len(books) < MaxEntries
  /\ books' = WithEntry(day, m[1], m[2], m[3], 0)
  /\ UNCHANGED <<docs, snapshots>>

CreateDocument(kind, day, due, total) ==
  /\ Len(docs) < MaxDocs
  /\ docs' = Append(docs, [kind |-> kind, day |-> day, due |-> due, total |-> total,
                           balance |-> total, status |-> "draft"])
  /\ UNCHANGED <<books, snapshots>>

PostDocument(i, a) ==
  LET x == docs[i] IN
  /\ x.status = "draft" /\ a \in Other(x.kind) /\ Len(books) < MaxEntries
  /\ books' = IF x.kind = "invoice" THEN WithEntry(x.day, "1200", a, x.total, i)
                                    ELSE WithEntry(x.day, a, "2100", x.total, i)
  /\ docs' = [docs EXCEPT ![i].status = "posted"]
  /\ UNCHANGED snapshots

Paid(x, amount) == [x EXCEPT !.balance = @ - amount,
                             !.status = IF amount = x.balance THEN "paid" ELSE "partial"]

MayPay(x, amount) == Open(x) /\ amount <= x.balance

Pay(i, day, amount) ==
  LET x == docs[i] IN
  /\ MayPay(x, amount) /\ Len(books) < MaxEntries
  /\ books' = IF x.kind = "invoice" THEN WithEntry(day, "1110", "1200", amount, i)
                                    ELSE WithEntry(day, "2100", "1110", amount, i)
  /\ docs' = [docs EXCEPT ![i] = Paid(@, amount)]
  /\ UNCHANGED snapshots

(* void_entry books the reversal, on a day of its own. *)
VoidEntry(k, day) ==
  LET e == books[k] IN
  /\ e.status = "posted" /\ Len(books) < MaxEntries
  /\ books' = Append([books EXCEPT ![k].status = "voided"],
                     [e EXCEPT !.day = day, !.debit = e.credit, !.credit = e.debit])
  /\ UNCHANGED <<docs, snapshots>>

(* create_net_worth_snapshot, and with it the net worth statement and its  *)
(* explanation: the row of the day is made or overwritten.  seen is not in *)
(* the row: how many entries there were.                                   *)
TakeSnapshot(d) ==
  /\ Cardinality({x \in Days \ {d} : snapshots[x] # NoSnapshot}) < MaxSnapshots
  /\ snapshots' = [snapshots EXCEPT ![d] = [worth |-> NetWorth(d), seen |-> Len(books)]]
  /\ UNCHANGED <<books, docs>>

ReportsNext ==
  \/ \E day \in Days, m \in Manual : BookByHand(day, m)
  \/ \E kind \in Kinds, day, due \in Days, n \in Totals :
       day <= due /\ CreateDocument(kind, day, due, n)
  \/ \E i \in DOMAIN docs, day \in Days, n \in Amounts : Pay(i, day, n)
  \/ \E i \in DOMAIN docs, a \in ChartAccounts : PostDocument(i, a)
  \/ \E k \in DOMAIN books, day \in Days : VoidEntry(k, day)
  \/ \E d \in Days : TakeSnapshot(d)

ReportsSpec == ReportsInit /\ [][ReportsNext]_reportsVars

-----------------------------------------------------------------------------
(* Days of earlier months than that of d. *)
Earlier(d) == {x \in Days : MonthEnd(x) < d}

(* The reports do not contradict each other, whatever was booked, voided   *)
(* or dated back, and whichever day they are asked for: the balance sheet  *)
(* balances, its earnings are the income statements of any two parts of    *)
(* the time before it and of the months the dashboards show, its equity is *)
(* the net worth, the cash accounts hold what the cash flow brought in,    *)
(* and rows add up to their totals.                                        *)
ReportsAgree ==
  \A d \in Days : LET sheet == BalanceSheet(d) month == MonthOf(d) IN
    /\ sheet.balanced /\ sheet.equity = NetWorth(d)
    /\ \A m \in {m \in Days : m < d} :
         /\ IncomeStatement(First, m).net + IncomeStatement(m + 1, d).net = sheet.earnings
         /\ NetWorth(d) - NetWorth(m) =
              IncomeStatement(m + 1, d).net + Total(OfType["equity"], m + 1, d)
         /\ CashFlow(First, m) + CashFlow(m + 1, d) = CashFlow(First, d)
    /\ SumOver([x \in {MonthEnd(y) : y \in Earlier(d)} \cup {d} |-> MonthOf(x).net]) = sheet.earnings
    /\ GrossProfit(First, d) - Total(OfType["expense"] \ CostOfGoods, First, d) = sheet.earnings
    /\ SumOver(Spending(d)) = month.expenses
    /\ SumOver(Dependency(d)) = month.income

(* Entries touch a receivable or payable account for its documents only,   *)
(* and none that is for a document was voided.                             *)
OwnControls ==
  \A k \in DOMAIN books : LET e == books[k] IN
    /\ e.status = "voided" => e.doc = 0
    /\ \A kind \in Kinds : Control(kind) \in {e.debit, e.credit} =>
                           e.doc # 0 /\ docs[e.doc].kind = kind

(* The entry of a document, not that of a payment. *)
Bills(e, kind) == /\ e.doc # 0 /\ docs[e.doc].kind = kind
                  /\ IF kind = "invoice" THEN e.debit = "1200" ELSE e.credit = "2100"

(* The lists of documents agree with the ledger: unless the entry of a     *)
(* document or payment was voided behind their back, or somebody booked on *)
(* a control account by hand or charged a bill to one, what the aging      *)
(* reports call open, however late, is what the receivable and payable     *)
(* accounts hold, and what customers were billed, and vendors billed, in   *)
(* any period is what documents brought to the accounts they are billed to *)
(* (ar_aging, ap_aging, revenue_by_customer, expenses_by_vendor).          *)
SubledgersAgree ==
  OwnControls => \A kind \in Kinds, d \in Days :
    /\ (\A k \in DOMAIN books : books[k].day <= d) =>
         AgingTotal(kind) = Balance(Control(kind), First, d)
    /\ SumOver(Aging(kind, d)) = AgingTotal(kind)
    /\ \A from \in Days :
         Billed(kind, from, d) =
           SumOver([k \in DOMAIN books |->
                      IF Bills(books[k], kind) /\ Within(books[k], from, d)
                      THEN Effect(books[k], Other(kind)) ELSE 0])

(* A net worth that was stored for a day differs from the one computed now *)
(* by the entries that were booked since and dated on or before that day,  *)
(* voiding included: nothing that was in it is rewritten                   *)
(* (create_net_worth_snapshot, explain_net_worth_change).                  *)
SnapshotsExplained ==
  \A d \in Days : snapshots[d] # NoSnapshot =>
    NetWorth(d) - snapshots[d].worth =
      SumOver([k \in DOMAIN books |->
                 IF k > snapshots[d].seen /\ books[k].day <= d
                 THEN Effect(books[k], OfType["asset"]) - Effect(books[k], OfType["liability"]) ELSE 0])
=============================================================================
