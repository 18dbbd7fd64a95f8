-------------------------------- MODULE Agent ---------------------------------
(***************************************************************************)
(* The assistant (services/agent.py, api/agent.py): a turn of a chat is    *)
(* one transaction, in which the calls the user confirmed are executed,    *)
(* then those the language model planned.  Sensitive tools run only when   *)
(* confirmed; every call leaves a row in the audit log.                    *)
(*                                                                         *)
(* A turn reads how many prompts there were when it begins, later the rows *)
(* its tools are about, without locks, and its writes appear when it       *)
(* commits; other turns, and users, may commit between any two of these,   *)
(* so that what a tool checks may be stale when it is written.  The reads  *)
(* of one turn are one step; its own changes it sees.  What the model      *)
(* plans is a choice.  Texts and prices are left out, and the tools that   *)
(* only read but for one that can and one that cannot fail.                *)
(***************************************************************************)
EXTENDS Naturals, Sequences, FiniteSets, Bags

CONSTANTS Clients,   \* where requests come from
          Turns,     \* what turns confirm, and what is planned for them
          Limit,     \* settings.agent_rate_limit_attempts
          Total,     \* what an invoice or a bill is for
          MaxDay     \* bound: the days of date.today()


VARIABLES serial,    \* whether requests come one at a time
          today,     \* date.today()
          books,     \* the rows the tools work on, and those of their calls
          prompts,   \* how many prompt rows are in the window of the limit
          req,       \* req[c]: the request of client c
          saw        \* saw[c]: what the tools of its turn have read, or Unread

Notes == {"budget", "goal", "debt", "memory"}

Tools == {"draft", "post", "invoice", "bill", "pay_invoice", "pay_bill",
          "read", "move_money", "explain"} \cup Notes

(* A call of a tool about the entry, document, customer, vendor or budget  *)
(* on; sound: whether what else it asks for is there, an account, say, or a*)
(* due date that is not in the past.                                       *)
Call == [tool : Tools, on : Nat, amount : Nat, sound : BOOLEAN]

ASSUME AgentAssumption ==
  /\ IsFiniteSet(Clients) /\ Clients # {}
  /\ Limit \in Nat /\ Total \in Nat \ {0} /\ MaxDay \in Nat \ {0}
  /\ Turns \subseteq [confirmed : Seq(Call), planned : Seq(Call)]

(* The entries that were drafted by a call or by Telegram, and who posted  *)
(* them; the documents made by calls, numbered by party and day; the       *)
(* customers and vendors that calls created; the budgets, goals, debts and *)
(* memories they wrote.                                                    *)
Entry == [origin : {"agent", "telegram"}, poster : {"nobody", "user", "agent"}]
Doc == [kind : {"invoice", "bill"}, party : Nat, day : 1..MaxDay,
        status : {"draft", "posted", "partial", "paid"}, balance : 0..Total]
Note == [kind : Notes, on : Nat]
LogRow == [tool : Tools, on : Nat, sure : BOOLEAN, ref : Nat,
           outcome : {"completed", "confirmation_required", "blocked"}]

(* The rows of a transaction have one created_at: the log is a bag.        *)
BooksOK == /\ books.entries \in Seq(Entry) /\ books.docs \in Seq(Doc)
           /\ books.parties \subseteq {"invoice", "bill"} \X Nat
           /\ books.payments \in Seq([doc : Nat, amount : Nat])
           /\ books.notes \in Seq(Note)
           /\ IsABag(books.log) /\ BagToSet(books.log) \subseteq LogRow

NoBooks == [entries |-> <<>>, docs |-> <<>>, parties |-> {}, payments |-> <<>>,
            notes |-> <<>>, log |-> EmptyBag]

Idle == [op |-> "idle"]
Unread == [day |-> 0]

AgentInit == /\ serial \in BOOLEAN /\ today = 1 /\ prompts = 0 /\ books = NoBooks
             /\ req = [c \in Clients |-> Idle] /\ saw = [c \in Clients |-> Unread]

Begin(c, r) == /\ IF serial THEN \A d \in Clients : req[d] = Idle ELSE req[c] = Idle
               /\ req' = [req EXCEPT ![c] = r]
               /\ UNCHANGED <<serial, today, books, prompts, saw>>

End(c) == /\ req' = [req EXCEPT ![c] = Idle] /\ saw' = [saw EXCEPT ![c] = Unread]
          /\ UNCHANGED <<serial, today>>

(* What is committed, and date.today(), when the tools of a turn read.     *)
Rows == [entries |-> books.entries, docs |-> books.docs, parties |-> books.parties, day |-> today]

ReadRows(c) == /\ saw[c] = Unread /\ saw' = [saw EXCEPT ![c] = Rows]
               /\ UNCHANGED <<serial, today, books, prompts, req>>

-----------------------------------------------------------------------------
(* What a tool makes of the books b, of which it has read s: it completes, *)
(* with the number of what it made or changed; it is blocked by an error   *)
(* the turn answers with, and what it wrote before stays; or the error     *)
(* ends the turn.                                                          *)
Completed(b, s, n) == [books |-> b, saw |-> s, outcome |-> "completed", ref |-> n]
Blocked(b, s) == [books |-> b, saw |-> s, outcome |-> "blocked", ref |-> 0]
Escaped(b, s) == [books |-> b, saw |-> s, outcome |-> "escaped", ref |-> 0]

Drafted(b, origin) ==
  [b EXCEPT !.entries = Append(@, [origin |-> origin, poster |-> "nobody"])]

CreateDraft(call, b, s) ==
  IF call.sound THEN Completed(Drafted(b, "agent"), s, Len(b.entries) + 1) ELSE Blocked(b, s)

(* Mutant of Postable: an entry is posted again. *)
PostableAgain(n, s) == n \in DOMAIN s.entries
Postable(n, s) == n \in DOMAIN s.entries /\ s.entries[n].poster = "nobody"

PostEntry(call, b, s) ==
  IF Postable(call.on, s)
  THEN Completed([b EXCEPT !.entries[call.on].poster = "agent"],
                 [s EXCEPT !.entries[call.on].poster = "agent"], call.on)
  ELSE Blocked(b, s)

(* The customer or vendor is created first, unless it was there.  A name   *)
(* or number that is taken, which an index tells of rows that others have  *)
(* committed since too, makes the session unusable, and the row of the     *)
(* call can no longer be written.                                          *)
CreateDocument(kind, call, b, s) ==
  LET party   == <<kind, call.on>>
      known   == [b EXCEPT !.parties = @ \cup {party}]
      knownTo == [s EXCEPT !.parties = @ \cup {party}]
      named   == party \in b.parties \ s.parties
      doc     == [kind |-> kind, party |-> call.on, day |-> s.day, status |-> "draft", balance |-> Total]
      taken   == \E i \in DOMAIN b.docs : b.docs[i].kind = kind /\ b.docs[i].party = call.on
                                                                /\ b.docs[i].day = s.day
  IN CASE named                             -> Escaped(b, s)
       [] ~named /\ ~call.sound            -> Blocked(known, knownTo)
       [] ~named /\ call.sound /\ taken   -> Escaped(b, s)
       [] ~named /\ call.sound /\ ~taken  -> Completed([known EXCEPT !.docs = Append(@, doc)], knownTo,
                                                       Len(b.docs) + 1)

(* Mutant of Payable: the amount is not compared. *)
PayableAny(kind, call, s) == call.on \in DOMAIN s.docs /\ s.docs[call.on].kind = kind
                             /\ s.docs[call.on].status \in {"posted", "partial"}

Payable(kind, call, s) ==
  /\ call.on \in DOMAIN s.docs /\ s.docs[call.on].kind = kind
  /\ s.docs[call.on].status \in {"posted", "partial"}
  /\ call.amount <= s.docs[call.on].balance

Paid(d, amount) == [d EXCEPT !.balance = @ - amount, !.status = IF d.balance = amount THEN "paid" ELSE "partial"]

(* An UPDATE writes what differs from what was read. *)
Written(d, old, new) == [d EXCEPT !.balance = IF new.balance = old.balance THEN @ ELSE new.balance,
                                  !.status  = IF new.status = old.status THEN @ ELSE new.status]

PayDocument(kind, call, b, s) ==
  IF ~Payable(kind, call, s) THEN Blocked(b, s)
  ELSE LET old == s.docs[call.on]
           new == Paid(old, call.amount) IN
       Completed([b EXCEPT !.docs[call.on] = Written(@, old, new),
                           !.payments = Append(@, [doc |-> call.on, amount |-> call.amount])],
                 [s EXCEPT !.docs[call.on] = new], Len(b.payments) + 1)

(* Budgets, goals, debts and memories come without a confirmation: the     *)
(* tools for debts and memories give themselves the confirmation and the   *)
(* consent that create_debt and create_memory ask for.  A budget's name    *)
(* and start are unique.                                                   *)
CreateNote(kind, call, b, s) ==
  LET note  == [kind |-> kind, on |-> call.on]
      taken == kind = "budget" /\ \E i \in DOMAIN b.notes : b.notes[i] = note
  IN CASE ~call.sound           -> Blocked(b, s)
       [] call.sound /\ taken   -> Escaped(b, s)
       [] call.sound /\ ~taken  -> Completed([b EXCEPT !.notes = Append(@, note)], s, Len(b.notes) + 1)

(* Summaries and statements change nothing. *)
ReadReport(b, s) == Completed(b, s, 0)

(* The tools that ask a journal line for an attribute it has not; arguments*)
(* that do not validate end a turn in the same way.                        *)
ExplainTransaction(b, s) == Escaped(b, s)

Run(call, b, s) ==
  CASE call.tool = "draft"               -> CreateDraft(call, b, s)
    [] call.tool = "post"                -> PostEntry(call, b, s)
    [] call.tool \in {"invoice", "bill"} -> CreateDocument(call.tool, call, b, s)
    [] call.tool = "pay_invoice"         -> PayDocument("invoice", call, b, s)
    [] call.tool = "pay_bill"            -> PayDocument("bill", call, b, s)
    [] call.tool \in Notes               -> CreateNote(call.tool, call, b, s)
    [] call.tool = "read"                -> ReadReport(b, s)
    [] call.tool = "explain"             -> ExplainTransaction(b, s)

-----------------------------------------------------------------------------
(* A turn.  What a provider plans for a message, when nothing was confirmed. *)
Planned == {turn \in Turns : turn.confirmed = <<>>}

Sensitive == {"post", "invoice", "pay_invoice", "pay_bill"}

Forbidden(call) == call.tool = "move_money"

Logged(b, step, outcome, n) ==
  [b EXCEPT !.log = @ (+) SetToBag({[tool |-> step.call.tool, on |-> step.call.on, sure |-> step.sure,
                                     ref |-> n, outcome |-> outcome]})]

(* _execute_tool; step.sure: whether the call is one that was confirmed.   *)
(* going: whether no error has ended the turn.                             *)
Execute(step, t) ==
  LET needs == step.call.tool \in Sensitive /\ ~step.sure
      done  == Run(step.call, t.books, t.saw)
  IN CASE ~t.going -> t
       [] t.going /\ Forbidden(step.call) ->
            [t EXCEPT !.books = Logged(@, step, "blocked", 0)]
       [] t.going /\ ~Forbidden(step.call) /\ needs ->
            [t EXCEPT !.books = Logged(@, step, "confirmation_required", 0)]
       [] OTHER ->
            [books |-> Logged(done.books, step, done.outcome, done.ref),
             saw   |-> done.saw,
             going |-> done.outcome # "escaped"]

(* A turn whose tools have read s. *)
Turn(steps, s) ==
  LET T[k \in 0..Len(steps)] == IF k = 0 THEN [books |-> books, saw |-> s, going |-> TRUE]
                                         ELSE Execute(steps[k], T[k - 1])
  IN T[Len(steps)]

(* Confirmations come first. *)
Steps(turn) ==
  [i \in DOMAIN turn.confirmed |-> [call |-> turn.confirmed[i], sure |-> TRUE]] \o
  [i \in DOMAIN turn.planned   |-> [call |-> turn.planned[i], sure |-> FALSE]]

(* Mutant of MayChat: one prompt too many. *)
MayChatOnce == prompts <= Limit
MayChat == prompts < Limit

BeginChat(c) == MayChat /\ Begin(c, [op |-> "chat"])

(* What c's turn leaves when it commits.  Its prompt row is as old as its  *)
(* beginning, and may have left the window by then.                        *)
Chatted(c, steps) ==
  LET t == Turn(steps, saw[c]) IN
  /\ saw[c] # Unread /\ t.going
  /\ books' = t.books
  /\ prompts' \in {prompts, prompts + 1}

ReadForChat(c) == req[c].op = "chat" /\ ReadRows(c)

Chat(c, turn) == req[c].op = "chat" /\ Chatted(c, Steps(turn)) /\ End(c)

(* The request is lost, the prompt row of a turn with it. *)
Rollback(c) == req[c] # Idle /\ End(c) /\ UNCHANGED <<books, prompts>>

(* The oldest prompt leaves the window. *)
Leave == prompts > 0 /\ prompts' = prompts - 1 /\ UNCHANGED <<serial, today, books, req, saw>>

Midnight == today < MaxDay /\ today' = today + 1 /\ UNCHANGED <<serial, books, prompts, req, saw>>

(* Users post entries and documents themselves: they find a draft, and     *)
(* have posted it when they commit.                                        *)
BeginPostEntry(c, k) ==
  books.entries[k].poster = "nobody" /\ Begin(c, [op |-> "entry", on |-> k])

BeginPostDocument(c, i) ==
  books.docs[i].status = "draft" /\ Begin(c, [op |-> "document", on |-> i])

UserPosts(c) ==
  /\ \/ req[c].op = "entry" /\ books' = [books EXCEPT !.entries[req[c].on].poster = "user"]
     \/ req[c].op = "document" /\ books' = [books EXCEPT !.docs[req[c].on].status = "posted"]
  /\ End(c) /\ UNCHANGED prompts

-----------------------------------------------------------------------------
(* The completed calls of these tools that made or changed n. *)
RowsOf(tools, n) == {row \in BagToSet(books.log) :
  row.tool \in tools /\ row.ref = n /\ row.outcome = "completed"}

Once(tools, n) == \E row \in RowsOf(tools, n) : RowsOf(tools, n) = {row} /\ books.log[row] = 1

(* Nothing happens behind the user's back: each entry, document, payment,  *)
(* budget, goal, debt and memory the assistant made is in the audit log by *)
(* exactly one completed call, and each entry it posted by one at least, a *)
(* customer or vendor without a document by a blocked one; and nothing is  *)
(* posted, invoiced or paid by calls nobody confirmed.  This holds however *)
(* turns overlap, are lost, or fail after a tool has completed.  That an   *)
(* entry is posted by one call, and by none when a user posted it, however *)
(* often calls are confirmed again, takes one request at a time            *)
(* (_execute_tool, ConfirmationEngine).                                    *)
ActionsExplained ==
  /\ \A k \in DOMAIN books.entries : LET e == books.entries[k] IN
       /\ IF e.origin = "agent" THEN Once({"draft"}, k) ELSE RowsOf({"draft"}, k) = {}
       /\ e.poster = "agent" => RowsOf({"post"}, k) # {}
       /\ e.poster = "nobody" => RowsOf({"post"}, k) = {}
       /\ serial => IF e.poster = "agent" THEN Once({"post"}, k) ELSE RowsOf({"post"}, k) = {}
  /\ \A i \in DOMAIN books.docs : Once({books.docs[i].kind}, i)
  /\ \A p \in DOMAIN books.payments : Once({"pay_invoice", "pay_bill"}, p)
  /\ \A j \in DOMAIN books.notes : Once({books.notes[j].kind}, j)
  /\ \A x \in books.parties :
       \E row \in BagToSet(books.log) : /\ row.tool = x[1] /\ row.on = x[2]
                                        /\ row.outcome \in {"completed", "blocked"}
  /\ \A row \in BagToSet(books.log) :
       row.outcome = "completed" /\ ~row.sure => row.tool \in {"draft", "bill", "read"} \cup Notes

(* Payments of a document: the sum of those that calls made. *)
PaidOf(i) ==
  LET S[p \in 0..Len(books.payments)] ==
        IF p = 0 THEN 0
        ELSE S[p - 1] + IF books.payments[p].doc = i THEN books.payments[p].amount ELSE 0
  IN S[Len(books.payments)]

(* However turns overlap, a party is billed by the assistant once a day,  *)
(* and a balance is neither negative nor more than the total: the numbers  *)
(* of _tool_create_invoice and _tool_create_bill are unique.  One request  *)
(* at a time, a payment that is confirmed again, or twice in a turn, pays  *)
(* no more than is owed, and what is paid and what is left add up; two     *)
(* turns that overlap both pay what both have read (record_payment).       *)
ConfirmationsBounded ==
  /\ \A i \in DOMAIN books.docs :
       /\ books.docs[i].balance \in 0..Total
       /\ serial => /\ books.docs[i].balance + PaidOf(i) = Total
                    /\ (books.docs[i].status = "paid") = (books.docs[i].balance = 0)
  /\ \A i, j \in DOMAIN books.docs :
       LET Number(d) == <<d.kind, d.party, d.day>> IN
       Number(books.docs[i]) = Number(books.docs[j]) => i = j

(* The limit holds, Telegram's turns included, up to the turns that are    *)
(* under way at once: each reads how many there were before it             *)
(* (_check_agent_rate_limit).                                              *)
PromptsBounded ==
  prompts <= IF serial THEN Limit ELSE Limit + Cardinality(Clients) - 1
=============================================================================
