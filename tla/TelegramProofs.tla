---------------------------- MODULE TelegramProofs --------------------------
(***************************************************************************)
(* What the assistant does is in its log, and what it bills and the        *)
(* balances stay within bounds, however turns, deliveries and users        *)
(* overlap; one request at a time, it posts once and is paid what is owed. *)
(* The limits hold up to the turns that are under way at once; and what    *)
(* Telegram answers is so.                                                 *)
(***************************************************************************)
EXTENDS Telegram, FiniteSetTheorems, SequenceTheorems, NaturalsInduction, WellFoundedInduction, TLAPS

(* The properties of the books, as operators on any books: a turn works on *)
(* books that are not committed.                                           *)

BooksTyped(b) ==
  /\ b \in [entries : Seq(Entry), docs : Seq(Doc), parties : SUBSET ({"invoice", "bill"} \X Nat),
            payments : Seq([doc : Nat, amount : Nat]), notes : Seq(Note), log : {b.log}]
  /\ IsABag(b.log) /\ BagToSet(b.log) \subseteq LogRow

RowsIn(log, tools, n) == {row \in DOMAIN log :
  row.tool \in tools /\ row.ref = n /\ row.outcome = "completed"}

OnceIn(log, tools, n) == \E row \in RowsIn(log, tools, n) : RowsIn(log, tools, n) = {row} /\ log[row] = 1

EntriesLogged(b) == \A k \in DOMAIN b.entries :
  /\ IF b.entries[k].origin = "agent" THEN OnceIn(b.log, {"draft"}, k) ELSE RowsIn(b.log, {"draft"}, k) = {}
  /\ b.entries[k].poster = "agent" => RowsIn(b.log, {"post"}, k) # {}
  /\ b.entries[k].poster = "nobody" => RowsIn(b.log, {"post"}, k) = {}

DocsLogged(b) == \A i \in DOMAIN b.docs : OnceIn(b.log, {b.docs[i].kind}, i)

PaymentsLogged(b) == \A p \in DOMAIN b.payments : OnceIn(b.log, {"pay_invoice", "pay_bill"}, p)

NotesLogged(b) == \A j \in DOMAIN b.notes : OnceIn(b.log, {b.notes[j].kind}, j)

PartiesLogged(b) == \A x \in b.parties :
  \E row \in DOMAIN b.log : row.tool = x[1] /\ row.on = x[2] /\ row.outcome \in {"completed", "blocked"}

ConfirmedLogged(b) == \A row \in DOMAIN b.log :
  row.outcome = "completed" /\ ~row.sure => row.tool \in {"draft", "bill", "read"} \cup Notes

(* What a completed call names is there. *)
RefsThere(b) == \A row \in DOMAIN b.log : row.outcome = "completed" =>
  /\ row.tool \in {"draft", "post"} => row.ref \in DOMAIN b.entries
  /\ row.tool \in {"invoice", "bill"} => row.ref \in DOMAIN b.docs
  /\ row.tool \in {"pay_invoice", "pay_bill"} => row.ref \in DOMAIN b.payments
  /\ row.tool \in Notes => row.ref \in DOMAIN b.notes

Logs(b) == /\ EntriesLogged(b) /\ DocsLogged(b) /\ PaymentsLogged(b) /\ NotesLogged(b)
           /\ PartiesLogged(b) /\ ConfirmedLogged(b) /\ RefsThere(b)

Numbers(b) ==
  /\ \A p \in DOMAIN b.payments : b.payments[p].doc \in DOMAIN b.docs
  /\ \A i, j \in DOMAIN b.docs :
       b.docs[i].kind = b.docs[j].kind /\ b.docs[i].party = b.docs[j].party
         /\ b.docs[i].day = b.docs[j].day => i = j

GoodBooks(b) == BooksTyped(b) /\ Logs(b) /\ Numbers(b)

(* What is so besides as long as nobody else commits between what a turn   *)
(* reads and what it writes.  First the payments of document i, added up.  *)
PaidIn(payments, i) ==
  LET S[p \in 0..Len(payments)] ==
        IF p = 0 THEN 0 ELSE S[p - 1] + IF payments[p].doc = i THEN payments[p].amount ELSE 0
  IN S[Len(payments)]

Settles(b) == \A i \in DOMAIN b.docs :
  /\ b.docs[i].balance + PaidIn(b.payments, i) = Total
  /\ (b.docs[i].status = "paid") = (b.docs[i].balance = 0)

PostsOnce(b) == \A k \in DOMAIN b.entries :
  IF b.entries[k].poster = "agent" THEN OnceIn(b.log, {"post"}, k) ELSE RowsIn(b.log, {"post"}, k) = {}

ExactBooks(b) == Settles(b) /\ PostsOnce(b)

(* What a turn has read of the books b: rows that are there still, and as  *)
(* they were when nobody has changed them.                                 *)
SeenRows == [entries : Seq(Entry), docs : Seq(Doc), parties : SUBSET ({"invoice", "bill"} \X Nat),
             day : 1..MaxDay]

Within(s, b) == s \in SeenRows /\ DOMAIN s.entries \subseteq DOMAIN b.entries /\ DOMAIN s.docs \subseteq DOMAIN b.docs

Current(s, b) == /\ \A k \in DOMAIN s.entries : s.entries[k] = b.entries[k]
                 /\ \A i \in DOMAIN s.docs : s.docs[i] = b.docs[i]

(* The row that the request r of a user is to post, and that it is a draft. *)
Founded(r, b) == /\ r.op = "entry" => r.on \in DOMAIN b.entries
                 /\ r.op = "document" => r.on \in DOMAIN b.docs

Unposted(r, b) == /\ r.op = "entry" => b.entries[r.on].poster = "nobody"
                  /\ r.op = "document" => b.docs[r.on].status = "draft"

(* Requests, one by one or not, the limit of prompts, the row of the link, *)
(* and the replies.                                                        *)
OneRequest == serial => \A c, d \in Clients : req[c] # Idle /\ req[d] # Idle => c = d

OneHolder == \A c, d \in Holders : c = d

Asks(r) == \/ r.op = "chat"
           \/ r.op = "message" /\ r.phase = "answered" /\ r.does = "ask"

Asking == {c \in Clients : Asks(req[c])}

PromptsLeft == prompts + Cardinality(Asking) <= IF serial THEN Limit ELSE Limit + Cardinality(Clients) - 1

ReadsWithin ==
  /\ saw \in [Clients -> Seen]
  /\ \A c \in Clients : /\ saw[c] # Unread => req[c] # Idle /\ Within(saw[c], books)
                        /\ Founded(req[c], books)

ReadsCurrent == serial =>
  /\ ExactBooks(books)
  /\ \A c \in Clients : /\ saw[c] # Unread => Current(saw[c], books)
                        /\ Unposted(req[c], books)

RoomHeld == \A c \in Holders : req[c].phase = "answered" => Cardinality(window) + 1 <= MaxInbound

Processed == {m \in window : messages[m].status = "processed"}

WindowKept == /\ \A m \in window : messages[m].status # "rejected"
              /\ Cardinality(Processed) <= MaxInbound

RepliesTrue ==
  /\ \A k \in DOMAIN books.entries : books.entries[k].origin = "telegram" =>
       Cardinality({m \in DOMAIN messages : messages[m].entry = k}) = 1
  /\ \A m \in DOMAIN messages : messages[m].entry # 0 =>
       /\ messages[m].status = "processed"
       /\ messages[m].entry \in DOMAIN books.entries
       /\ books.entries[messages[m].entry].origin = "telegram"

(* The requests, the rows Telegram reads, and the inductive invariant.     *)
ReqInv == /\ req \in [Clients -> Requests] /\ serial \in BOOLEAN /\ prompts \in Nat
          /\ OneRequest /\ OneHolder /\ PromptsLeft

RowsTyped == /\ today \in 1..MaxDay /\ link \in [mode : Modes, active : BOOLEAN]
             /\ messages \in Seq(Row) /\ window \in SUBSET DOMAIN messages

ReadsInv == ReadsWithin /\ ReadsCurrent

TelegramInv == ReqInv /\ GoodBooks(books) /\ ReadsInv /\ RowsTyped /\ RoomHeld /\ WindowKept /\ RepliesTrue

-----------------------------------------------------------------------------
(* Recursion over the positions of a sequence.                             *)

LEMMA LeastNat ==
  ASSUME NEW T \in SUBSET Nat, T # {}
  PROVE  \E n \in T : \A m \in T : n <= m
<1> DEFINE R == OpToRel(<, Nat)
<1>1. IsWellFoundedOn(R, Nat)
  BY NatLessThanWellFounded
<1> HIDE DEF R
<1>2. PICK n \in T : \A m \in T : ~(<<m, n>> \in R)
  BY <1>1, WFMin
<1>3. \A m \in T : ~(m < n)
  BY <1>2 DEF R, OpToRel
<1>4. QED
  BY <1>3

(* What document i is paid by the payments up to the p-th. *)
PaidBy(payments, i, p) == IF payments[p].doc = i THEN payments[p].amount ELSE 0

SumsUpTo(s, payments, i, n) ==
  s = [p \in 0..n |-> IF p = 0 THEN 0 ELSE s[p - 1] + PaidBy(payments, i, p)]

LEMMA PaidIs ==
  ASSUME NEW payments, NEW i
  PROVE  PaidIn(payments, i) = (CHOOSE s : SumsUpTo(s, payments, i, Len(payments)))[Len(payments)]
BY DEF PaidIn, SumsUpTo, PaidBy

LEMMA SumsAt ==
  ASSUME NEW s, NEW payments, NEW i, NEW n \in Nat, SumsUpTo(s, payments, i, n)
  PROVE  /\ s[0] = 0
         /\ \A p \in 1..n : s[p] = s[p - 1] + PaidBy(payments, i, p)
<1>1. s = [p \in 0..n |-> IF p = 0 THEN 0 ELSE s[p - 1] + PaidBy(payments, i, p)]
  BY DEF SumsUpTo
<1>2. 0 \in 0..n /\ \A p \in 1..n : p \in 0..n /\ p # 0
  OBVIOUS
<1>3. QED
  BY <1>1, <1>2

LEMMA SumsExist ==
  ASSUME NEW payments, NEW i, NEW n \in Nat
  PROVE  \E s : SumsUpTo(s, payments, i, n)
<1> DEFINE Bad == {k \in Nat : ~ \E s : SumsUpTo(s, payments, i, k)}
<1>1. SUFFICES ASSUME Bad # {} PROVE FALSE
  OBVIOUS
<1>2. PICK k \in Bad : \A m \in Bad : k <= m
  BY <1>1, LeastNat
<1>3. k \in Nat
  OBVIOUS
<1>4. CASE k = 0
  <2> DEFINE s == [p \in 0..0 |-> 0]
  <2>1. s = [p \in 0..0 |-> IF p = 0 THEN 0 ELSE s[p - 1] + PaidBy(payments, i, p)]
    OBVIOUS
  <2> HIDE DEF s
  <2>2. SumsUpTo(s, payments, i, k)
    BY <1>4, <2>1 DEF SumsUpTo
  <2>3. QED
    BY <2>2
<1>5. CASE k # 0
  <2>1. k - 1 \in Nat /\ k - 1 \notin Bad
    BY <1>2, <1>3, <1>5
  <2>2. PICK t : SumsUpTo(t, payments, i, k - 1)
    BY <2>1
  <2>3. /\ t[0] = 0
        /\ \A p \in 1..(k - 1) : t[p] = t[p - 1] + PaidBy(payments, i, p)
    BY <2>1, <2>2, SumsAt
  <2> DEFINE s == [p \in 0..k |-> IF p <= k - 1 THEN t[p] ELSE t[k - 1] + PaidBy(payments, i, k)]
  <2>4. \A p \in 0..(k - 1) : s[p] = t[p]
    BY <1>3
  <2>5. \A p \in 0..k : s[p] = IF p = 0 THEN 0 ELSE s[p - 1] + PaidBy(payments, i, p)
    <3>1. TAKE p \in 0..k
    <3>2. CASE p = 0
      BY <1>3, <1>5, <2>3, <2>4, <3>2
    <3>3. CASE p \in 1..(k - 1)
      <4>1. p - 1 \in 0..(k - 1) /\ p \in 0..(k - 1) /\ p # 0
        BY <1>3, <3>3
      <4>2. s[p] = t[p] /\ s[p - 1] = t[p - 1]
        BY <2>4, <4>1
      <4> HIDE DEF s
      <4>3. QED
        BY <2>3, <3>3, <4>1, <4>2
    <3>4. CASE p = k
      <4>1. p - 1 \in 0..(k - 1) /\ p # 0
        BY <1>3, <1>5, <3>4
      <4>2. s[p] = t[k - 1] + PaidBy(payments, i, k) /\ s[p - 1] = t[k - 1]
        BY <1>3, <2>4, <3>4, <4>1
      <4> HIDE DEF s
      <4>3. QED
        BY <3>4, <4>1, <4>2
    <3>5. QED
      BY <1>3, <3>2, <3>3, <3>4
  <2>6. s = [p \in 0..k |-> s[p]]
    OBVIOUS
  <2> HIDE DEF s
  <2>7. s = [p \in 0..k |-> IF p = 0 THEN 0 ELSE s[p - 1] + PaidBy(payments, i, p)]
    BY <2>5, <2>6
  <2>8. SumsUpTo(s, payments, i, k)
    BY <2>7 DEF SumsUpTo
  <2>9. QED
    BY <2>8
<1>6. QED
  BY <1>4, <1>5

(* The sums over sequences that agree so far agree. *)
LEMMA SumsAgree ==
  ASSUME NEW i, NEW n \in Nat, NEW m \in Nat, n <= m,
         NEW pays, NEW more, \A p \in 1..n : more[p] = pays[p],
         NEW s, SumsUpTo(s, pays, i, n), NEW t, SumsUpTo(t, more, i, m)
  PROVE  \A p \in 0..n : s[p] = t[p]
<1> DEFINE Bad == {k \in 0..n : s[k] # t[k]}
<1>1. SUFFICES ASSUME Bad # {} PROVE FALSE
  OBVIOUS
<1>2. PICK k \in Bad : \A j \in Bad : k <= j
  <2>1. Bad \in SUBSET Nat
    OBVIOUS
  <2> HIDE DEF Bad
  <2>2. QED
    BY <1>1, <2>1, LeastNat
<1>3. /\ s[0] = 0 /\ \A p \in 1..n : s[p] = s[p - 1] + PaidBy(pays, i, p)
      /\ t[0] = 0 /\ \A p \in 1..m : t[p] = t[p - 1] + PaidBy(more, i, p)
  BY SumsAt
<1>4. k # 0 /\ k \in 1..n /\ k \in 1..m /\ k - 1 \in 0..n
  BY <1>3
<1>5. k - 1 \notin Bad
  BY <1>2, <1>4
<1>6. s[k - 1] = t[k - 1]
  BY <1>4, <1>5
<1>7. PaidBy(pays, i, k) = PaidBy(more, i, k)
  BY <1>4 DEF PaidBy
<1>8. s[k] = t[k]
  BY <1>3, <1>4, <1>6, <1>7
<1>9. QED
  BY <1>8

Payment == [doc : Nat, amount : Nat]

LEMMA PaidNat ==
  ASSUME NEW payments \in Seq(Payment), NEW i
  PROVE  /\ PaidIn(payments, i) \in Nat
         /\ (\A p \in DOMAIN payments : payments[p].doc # i) => PaidIn(payments, i) = 0
<1> DEFINE n == Len(payments)
<1>1. n \in Nat /\ DOMAIN payments = 1..n
  OBVIOUS
<1> HIDE DEF n
<1>2. PICK s : s = (CHOOSE t : SumsUpTo(t, payments, i, n)) /\ SumsUpTo(s, payments, i, n)
  BY <1>1, SumsExist
<1>3. PaidIn(payments, i) = s[n]
  BY <1>2, PaidIs DEF n
<1>4. /\ s[0] = 0 /\ \A p \in 1..n : s[p] = s[p - 1] + PaidBy(payments, i, p)
  BY <1>1, <1>2, SumsAt
<1>5. \A p \in 1..n : payments[p] \in Payment /\ PaidBy(payments, i, p) \in Nat
  <2>1. TAKE p \in 1..n
  <2>2. payments[p] \in Payment
    BY <1>1, <2>1
  <2>3. QED
    BY <2>2 DEF PaidBy, Payment
<1>6. \A p \in 0..n : s[p] \in Nat
  <2> DEFINE Bad == {k \in 0..n : s[k] \notin Nat}
  <2>1. SUFFICES ASSUME Bad # {} PROVE FALSE
    OBVIOUS
  <2>2. PICK k \in Bad : \A j \in Bad : k <= j
    <3>1. Bad \in SUBSET Nat
      BY <1>1
    <3> HIDE DEF Bad
    <3>2. QED
      BY <2>1, <3>1, LeastNat
  <2>3. k # 0 /\ k \in 1..n /\ k - 1 \in 0..n
    BY <1>1, <1>4
  <2>4. s[k - 1] \in Nat
    BY <2>2, <2>3
  <2>5. QED
    BY <1>4, <1>5, <2>3, <2>4
<1>7. ASSUME \A p \in 1..n : payments[p].doc # i
      PROVE  \A p \in 0..n : s[p] = 0
  <2> DEFINE Bad == {k \in 0..n : s[k] # 0}
  <2>1. SUFFICES ASSUME Bad # {} PROVE FALSE
    OBVIOUS
  <2>2. PICK k \in Bad : \A j \in Bad : k <= j
    <3>1. Bad \in SUBSET Nat
      BY <1>1
    <3> HIDE DEF Bad
    <3>2. QED
      BY <2>1, <3>1, LeastNat
  <2>3. k # 0 /\ k \in 1..n /\ k - 1 \in 0..n
    BY <1>1, <1>4
  <2>4. s[k - 1] = 0 /\ PaidBy(payments, i, k) = 0
    BY <1>7, <2>2, <2>3 DEF PaidBy
  <2>5. QED
    BY <1>4, <2>3, <2>4
<1>8. QED
  BY <1>1, <1>3, <1>6, <1>7

LEMMA PaidAppend ==
  ASSUME NEW payments \in Seq(Payment), NEW x \in Payment, NEW i
  PROVE  PaidIn(Append(payments, x), i) = PaidIn(payments, i) + IF x.doc = i THEN x.amount ELSE 0
<1> DEFINE more == Append(payments, x)
           n == Len(payments)
<1>1. /\ n \in Nat /\ Len(more) = n + 1
      /\ \A p \in 1..n : more[p] = payments[p]
      /\ more[n + 1] = x
  BY AppendProperties
<1>2. PaidIn(payments, i) = (CHOOSE t : SumsUpTo(t, payments, i, n))[n]
  BY PaidIs
<1>3. PaidIn(more, i) = (CHOOSE t : SumsUpTo(t, more, i, n + 1))[n + 1]
  BY <1>1, PaidIs
<1> HIDE DEF n, more
<1>4. PICK s : s = (CHOOSE t : SumsUpTo(t, payments, i, n)) /\ SumsUpTo(s, payments, i, n)
  BY <1>1, SumsExist
<1>5. PICK u : u = (CHOOSE t : SumsUpTo(t, more, i, n + 1)) /\ SumsUpTo(u, more, i, n + 1)
  <2>1. n + 1 \in Nat
    BY <1>1
  <2>2. QED
    BY <2>1, SumsExist
<1>6. u[n + 1] = u[n] + PaidBy(more, i, n + 1)
  <2>1. n + 1 \in Nat /\ n + 1 \in 1..(n + 1) /\ (n + 1) - 1 = n
    BY <1>1
  <2>2. \A p \in 1..(n + 1) : u[p] = u[p - 1] + PaidBy(more, i, p)
    BY <1>5, <2>1, SumsAt
  <2>3. QED
    BY <2>1, <2>2
<1>7. u[n] = s[n]
  <2>1. n + 1 \in Nat /\ n <= n + 1 /\ n \in 0..n
    BY <1>1
  <2>2. \A p \in 0..n : s[p] = u[p]
    <3>1. PICK m \in Nat : m = n + 1
      BY <2>1
    <3>2. SumsUpTo(s, payments, i, n)
      BY <1>4
    <3>3. SumsUpTo(u, more, i, m)
      BY <1>5, <3>1
    <3>4. n \in Nat
      BY <1>1
    <3>5. n <= m
      BY <1>1, <3>1
    <3>6. \A p \in 1..n : more[p] = payments[p]
      BY <1>1
    <3>7. QED
      BY <3>2, <3>3, <3>4, <3>5, <3>6, SumsAgree
  <2>3. QED
    BY <2>1, <2>2
<1>8. PaidBy(more, i, n + 1) = IF x.doc = i THEN x.amount ELSE 0
  BY <1>1 DEF PaidBy
<1>9. QED
  BY <1>2, <1>3, <1>4, <1>5, <1>6, <1>7, <1>8 DEF more

-----------------------------------------------------------------------------
(* A row more in the log. *)

AddsRow(log, more, x) ==
  /\ DOMAIN more = DOMAIN log \cup {x}
  /\ \A y \in DOMAIN log : y # x => more[y] = log[y]
  /\ x \notin DOMAIN log => more[x] = 1

LEMMA LogAdds ==
  ASSUME NEW log, IsABag(log), BagToSet(log) \subseteq LogRow, NEW x \in LogRow
  PROVE  /\ AddsRow(log, log (+) SetToBag({x}), x)
         /\ IsABag(log (+) SetToBag({x}))
         /\ BagToSet(log (+) SetToBag({x})) \subseteq LogRow
<1> DEFINE more == log (+) SetToBag({x})
<1>1. more = [e \in DOMAIN log \cup {x} |-> (IF e \in DOMAIN log THEN log[e] ELSE 0)
                                            + (IF e \in {x} THEN 1 ELSE 0)]
  BY DEF (+), SetToBag
<1>2. \A e \in DOMAIN log : log[e] \in Nat /\ log[e] > 0
  BY DEF IsABag
<1> HIDE DEF more
<1>3. /\ DOMAIN more = DOMAIN log \cup {x}
      /\ \A y \in DOMAIN log : y # x => more[y] = log[y] + 0
      /\ x \notin DOMAIN log => more[x] = 0 + 1
      /\ x \in DOMAIN log => more[x] = log[x] + 1
  BY <1>1
<1>4. AddsRow(log, more, x)
  BY <1>2, <1>3 DEF AddsRow
<1>5. \A y \in DOMAIN more : more[y] \in {n \in Nat : n > 0}
  BY <1>2, <1>3
<1>6. more = [y \in DOMAIN more |-> more[y]]
  BY <1>1
<1>7. IsABag(more)
  BY <1>5, <1>6 DEF IsABag
<1>8. BagToSet(more) \subseteq LogRow
  BY <1>3 DEF BagToSet
<1>9. QED
  BY <1>4, <1>7, <1>8 DEF more

LEMMA RowsElsewhere ==
  ASSUME NEW log, NEW more, NEW x, AddsRow(log, more, x), NEW tools, NEW n,
         ~(x.tool \in tools /\ x.ref = n /\ x.outcome = "completed")
  PROVE  /\ RowsIn(more, tools, n) = RowsIn(log, tools, n)
         /\ OnceIn(log, tools, n) => OnceIn(more, tools, n)
<1>1. RowsIn(more, tools, n) = RowsIn(log, tools, n)
  BY DEF RowsIn, AddsRow
<1>2. \A y \in RowsIn(log, tools, n) : more[y] = log[y]
  BY DEF RowsIn, AddsRow
<1>3. QED
  BY <1>1, <1>2 DEF OnceIn

LEMMA RowsHere ==
  ASSUME NEW log, NEW more, NEW x, AddsRow(log, more, x), NEW tools, NEW n,
         x.tool \in tools, x.ref = n, x.outcome = "completed", RowsIn(log, tools, n) = {}
  PROVE  OnceIn(more, tools, n)
<1>1. x \notin DOMAIN log
  BY DEF RowsIn
<1>2. RowsIn(more, tools, n) = {x} /\ more[x] = 1
  BY <1>1 DEF RowsIn, AddsRow
<1>3. QED
  BY <1>2 DEF OnceIn

(* What a row disturbs of the log's conditions.  b are the books before,   *)
(* c those after.                                                          *)
LEMMA EntriesStay ==
  ASSUME NEW b, NEW c, NEW x, EntriesLogged(b), AddsRow(b.log, c.log, x), c.entries = b.entries,
         x.outcome = "completed" => x.tool \notin {"draft", "post"}
  PROVE  EntriesLogged(c)
<1>1. \A k : /\ RowsIn(c.log, {"draft"}, k) = RowsIn(b.log, {"draft"}, k)
             /\ OnceIn(b.log, {"draft"}, k) => OnceIn(c.log, {"draft"}, k)
             /\ RowsIn(c.log, {"post"}, k) = RowsIn(b.log, {"post"}, k)
  BY RowsElsewhere
<1>2. QED
  BY <1>1 DEF EntriesLogged

LEMMA PostsStay ==
  ASSUME NEW b, NEW c, NEW x, PostsOnce(b), AddsRow(b.log, c.log, x), c.entries = b.entries,
         x.outcome = "completed" => x.tool # "post"
  PROVE  PostsOnce(c)
<1>1. \A k : /\ RowsIn(c.log, {"post"}, k) = RowsIn(b.log, {"post"}, k)
             /\ OnceIn(b.log, {"post"}, k) => OnceIn(c.log, {"post"}, k)
  BY RowsElsewhere
<1>2. QED
  BY <1>1 DEF PostsOnce

LEMMA DocsStay ==
  ASSUME NEW b, NEW c, NEW x, DocsLogged(b), AddsRow(b.log, c.log, x),
         DOMAIN c.docs = DOMAIN b.docs, \A i \in DOMAIN b.docs : c.docs[i].kind = b.docs[i].kind,
         x.outcome = "completed" /\ x.tool \in {"invoice", "bill"} => x.ref \notin DOMAIN b.docs,
         \A i \in DOMAIN b.docs : b.docs[i].kind \in {"invoice", "bill"}
  PROVE  DocsLogged(c)
<1>1. ASSUME NEW i \in DOMAIN b.docs
      PROVE  OnceIn(b.log, {b.docs[i].kind}, i) => OnceIn(c.log, {b.docs[i].kind}, i)
  <2>1. ~(x.tool \in {b.docs[i].kind} /\ x.ref = i /\ x.outcome = "completed")
    OBVIOUS
  <2>2. QED
    BY <2>1, RowsElsewhere
<1>2. QED
  BY <1>1 DEF DocsLogged

LEMMA PaymentsStay ==
  ASSUME NEW b, NEW c, NEW x, PaymentsLogged(b), AddsRow(b.log, c.log, x), c.payments = b.payments,
         x.outcome = "completed" => x.tool \notin {"pay_invoice", "pay_bill"}
  PROVE  PaymentsLogged(c)
<1>1. \A p : OnceIn(b.log, {"pay_invoice", "pay_bill"}, p) => OnceIn(c.log, {"pay_invoice", "pay_bill"}, p)
  BY RowsElsewhere
<1>2. QED
  BY <1>1 DEF PaymentsLogged

LEMMA NotesStay ==
  ASSUME NEW b, NEW c, NEW x, NotesLogged(b), AddsRow(b.log, c.log, x), c.notes = b.notes,
         \A j \in DOMAIN b.notes : b.notes[j].kind \in Notes,
         x.outcome = "completed" => x.tool \notin Notes
  PROVE  NotesLogged(c)
<1>1. ASSUME NEW j \in DOMAIN b.notes
      PROVE  OnceIn(b.log, {b.notes[j].kind}, j) => OnceIn(c.log, {b.notes[j].kind}, j)
  <2>1. ~(x.tool \in {b.notes[j].kind} /\ x.ref = j /\ x.outcome = "completed")
    OBVIOUS
  <2>2. QED
    BY <2>1, RowsElsewhere
<1>2. QED
  BY <1>1 DEF NotesLogged

LEMMA PartiesStay ==
  ASSUME NEW b, NEW c, NEW x, PartiesLogged(b), AddsRow(b.log, c.log, x),
         \A y \in c.parties : \/ y \in b.parties
                              \/ y[1] = x.tool /\ y[2] = x.on /\ x.outcome \in {"completed", "blocked"}
  PROVE  PartiesLogged(c)
BY DEF PartiesLogged, AddsRow

LEMMA ConfirmedStay ==
  ASSUME NEW b, NEW c, NEW x, ConfirmedLogged(b), AddsRow(b.log, c.log, x),
         x.outcome = "completed" /\ ~x.sure => x.tool \in {"draft", "bill", "read"} \cup Notes
  PROVE  ConfirmedLogged(c)
BY DEF ConfirmedLogged, AddsRow

LEMMA RefsStay ==
  ASSUME NEW b, NEW c, NEW x, RefsThere(b), AddsRow(b.log, c.log, x),
         DOMAIN b.entries \subseteq DOMAIN c.entries, DOMAIN b.docs \subseteq DOMAIN c.docs,
         DOMAIN b.payments \subseteq DOMAIN c.payments, DOMAIN b.notes \subseteq DOMAIN c.notes,
         x.outcome = "completed" =>
           /\ x.tool \in {"draft", "post"} => x.ref \in DOMAIN c.entries
           /\ x.tool \in {"invoice", "bill"} => x.ref \in DOMAIN c.docs
           /\ x.tool \in {"pay_invoice", "pay_bill"} => x.ref \in DOMAIN c.payments
           /\ x.tool \in Notes => x.ref \in DOMAIN c.notes
  PROVE  RefsThere(c)
BY DEF RefsThere, AddsRow

-----------------------------------------------------------------------------
(* A call: the tool makes something of the books, and its row is added.    *)

Step == [call : Call, sure : BOOLEAN]

Outcomes == {"completed", "confirmation_required", "blocked"}

(* The rows of before are there, the entries with their origins, and what  *)
(* was added was drafted by the assistant.                                 *)
Grows(b, c) == DOMAIN b.entries \subseteq DOMAIN c.entries /\ DOMAIN b.docs \subseteq DOMAIN c.docs

Extends(b, c) ==
  /\ Grows(b, c)
  /\ \A k \in DOMAIN b.entries : c.entries[k].origin = b.entries[k].origin
  /\ \A k \in DOMAIN c.entries \ DOMAIN b.entries : c.entries[k].origin = "agent"

Keeps(b, c) == GoodBooks(c) /\ Extends(b, c)

(* A turn that has read s goes on with the books c, and knows of t.        *)
Goes(b, s, c, t) == /\ Keeps(b, c) /\ Within(t, c)
                    /\ ExactBooks(b) /\ Current(s, b) => ExactBooks(c) /\ Current(t, c)

(* x is the row of the call step, that made n. *)
RowOf(x, step, outcome, n) ==
  /\ x \in LogRow /\ x.tool = step.call.tool /\ x.on = step.call.on /\ x.sure = step.sure
  /\ x.ref = n /\ x.outcome = outcome

LogsTo(a, c, x) ==
  /\ BooksTyped(c) /\ AddsRow(a.log, c.log, x)
  /\ c.entries = a.entries /\ c.docs = a.docs /\ c.parties = a.parties /\ c.payments = a.payments
  /\ c.notes = a.notes

LEMMA LoggedIs ==
  ASSUME NEW a, BooksTyped(a), NEW step \in Step, NEW outcome \in Outcomes, NEW n \in Nat
  PROVE  \E x : RowOf(x, step, outcome, n) /\ LogsTo(a, Logged(a, step, outcome, n), x)
<1> DEFINE y == [tool |-> step.call.tool, on |-> step.call.on, sure |-> step.sure,
                 ref |-> n, outcome |-> outcome]
<1>1. y \in LogRow
  BY DEF Step, Call, LogRow, Outcomes
<1>2. RowOf(y, step, outcome, n)
  BY <1>1 DEF RowOf
<1>3. Logged(a, step, outcome, n) = [a EXCEPT !.log = @ (+) SetToBag({y})]
  BY DEF Logged
<1> HIDE DEF y
<1>4. a \in [entries : Seq(Entry), docs : Seq(Doc), parties : SUBSET ({"invoice", "bill"} \X Nat),
             payments : Seq([doc : Nat, amount : Nat]), notes : Seq(Note), log : {a.log}]
      /\ IsABag(a.log) /\ BagToSet(a.log) \subseteq LogRow
  BY DEF BooksTyped
<1>5. PICK more : more = a.log (+) SetToBag({y})
  OBVIOUS
<1>6. AddsRow(a.log, more, y) /\ IsABag(more) /\ BagToSet(more) \subseteq LogRow
  <2>1. AddsRow(a.log, a.log (+) SetToBag({y}), y) /\ IsABag(a.log (+) SetToBag({y}))
        /\ BagToSet(a.log (+) SetToBag({y})) \subseteq LogRow
    BY <1>1, <1>4, LogAdds
  <2>2. QED
    BY <1>5, <2>1
<1>7. PICK c : c = [a EXCEPT !.log = more]
  OBVIOUS
<1>8. /\ c.log = more /\ c.entries = a.entries /\ c.docs = a.docs
      /\ c.parties = a.parties /\ c.payments = a.payments /\ c.notes = a.notes
      /\ c \in [entries : Seq(Entry), docs : Seq(Doc), parties : SUBSET ({"invoice", "bill"} \X Nat),
                payments : Seq([doc : Nat, amount : Nat]), notes : Seq(Note), log : {c.log}]
  BY <1>4, <1>7
<1>9. LogsTo(a, c, y)
  BY <1>6, <1>8 DEF LogsTo, BooksTyped
<1>10. Logged(a, step, outcome, n) = c
  BY <1>3, <1>5, <1>7
<1>11. QED
  BY <1>2, <1>9, <1>10

LEMMA Kinds ==
  ASSUME NEW b, BooksTyped(b)
  PROVE  /\ \A i \in DOMAIN b.docs : b.docs[i] \in Doc /\ b.docs[i].kind \in {"invoice", "bill"}
         /\ \A j \in DOMAIN b.notes : b.notes[j].kind \in Notes
<1>1. b.docs \in Seq(Doc) /\ b.notes \in Seq(Note)
  BY DEF BooksTyped
<1>2. /\ \A i \in DOMAIN b.docs : b.docs[i] \in Doc
      /\ \A j \in DOMAIN b.notes : b.notes[j] \in Note
  BY <1>1
<1>3. QED
  BY <1>2 DEF Doc, Note

(* The settings in which the lemmas below are: a row x has been added.     *)
Added(b, c, x) == GoodBooks(b) /\ BooksTyped(c) /\ AddsRow(b.log, c.log, x)

(* Nothing was made but a customer or a vendor. *)
LEMMA NothingMade ==
  ASSUME NEW b, NEW c, NEW x, Added(b, c, x),
         c.entries = b.entries, c.docs = b.docs, c.payments = b.payments, c.notes = b.notes,
         \A y \in c.parties : y \in b.parties \/ (y[1] = x.tool /\ y[2] = x.on /\ x.outcome = "blocked"),
         x.outcome = "completed" => x.tool = "read"
  PROVE  Keeps(b, c) /\ (ExactBooks(b) => ExactBooks(c))
<1> USE DEF Added
<1>1. /\ \A i \in DOMAIN b.docs : b.docs[i].kind \in {"invoice", "bill"}
      /\ \A j \in DOMAIN b.notes : b.notes[j].kind \in Notes
  BY Kinds DEF GoodBooks
<1>2. EntriesLogged(c)
  BY EntriesStay DEF GoodBooks, Logs
<1>3. DocsLogged(c)
  BY <1>1, DocsStay DEF GoodBooks, Logs
<1>4. PaymentsLogged(c)
  BY PaymentsStay DEF GoodBooks, Logs
<1>5. NotesLogged(c)
  <2>1. x.outcome = "completed" => x.tool \notin Notes
    BY DEF Notes
  <2>2. QED
    BY <1>1, <2>1, NotesStay DEF GoodBooks, Logs
<1>6. PartiesLogged(c)
  BY PartiesStay DEF GoodBooks, Logs
<1>7. ConfirmedLogged(c)
  BY ConfirmedStay DEF GoodBooks, Logs
<1>8. RefsThere(c)
  <2>1. x.outcome = "completed" => x.tool \notin Notes
    BY DEF Notes
  <2>2. QED
    BY <2>1, RefsStay DEF GoodBooks, Logs
<1>9. Numbers(c)
  BY DEF GoodBooks, Numbers
<1>10. ExactBooks(b) => ExactBooks(c)
  <2>1. PostsOnce(b) => PostsOnce(c)
    BY PostsStay
  <2>2. QED
    BY <2>1 DEF ExactBooks, Settles
<1>11. QED
  BY <1>2, <1>3, <1>4, <1>5, <1>6, <1>7, <1>8, <1>9, <1>10 DEF Keeps, GoodBooks, Logs, Extends, Grows

(* Nothing names what is not there yet. *)
LEMMA NoRowsYet ==
  ASSUME NEW b, GoodBooks(b)
  PROVE  /\ RowsIn(b.log, {"draft"}, Len(b.entries) + 1) = {} /\ RowsIn(b.log, {"post"}, Len(b.entries) + 1) = {}
         /\ \A kind \in {"invoice", "bill"} : RowsIn(b.log, {kind}, Len(b.docs) + 1) = {}
         /\ RowsIn(b.log, {"pay_invoice", "pay_bill"}, Len(b.payments) + 1) = {}
         /\ \A kind \in Notes : RowsIn(b.log, {kind}, Len(b.notes) + 1) = {}
<1>1. /\ b.entries \in Seq(Entry) /\ b.docs \in Seq(Doc) /\ b.payments \in Seq(Payment)
      /\ b.notes \in Seq(Note)
  BY DEF GoodBooks, BooksTyped, Payment
<1>2. /\ Len(b.entries) + 1 \notin DOMAIN b.entries
      /\ Len(b.docs) + 1 \notin DOMAIN b.docs
      /\ Len(b.payments) + 1 \notin DOMAIN b.payments
      /\ Len(b.notes) + 1 \notin DOMAIN b.notes
  BY <1>1
<1>3. QED
  BY <1>2 DEF RowsIn, GoodBooks, Logs, RefsThere

LEMMA DraftMade ==
  ASSUME NEW b, NEW c, NEW x, Added(b, c, x),
         c.entries = Append(b.entries, [origin |-> "agent", poster |-> "nobody"]),
         c.docs = b.docs, c.payments = b.payments, c.parties = b.parties, c.notes = b.notes,
         x.tool = "draft", x.outcome = "completed", x.ref = Len(b.entries) + 1
  PROVE  Keeps(b, c) /\ (ExactBooks(b) => ExactBooks(c))
<1> USE DEF Added
<1> DEFINE n == Len(b.entries)
           e == [origin |-> "agent", poster |-> "nobody"]
<1>1. b.entries \in Seq(Entry) /\ e \in Entry
  BY DEF GoodBooks, BooksTyped, Entry
<1>2. /\ n \in Nat /\ DOMAIN b.entries = 1..n /\ DOMAIN c.entries = 1..(n + 1)
      /\ \A k \in 1..n : c.entries[k] = b.entries[k]
      /\ c.entries[n + 1] = e
  BY <1>1, AppendProperties
<1>3. e.origin = "agent" /\ e.poster = "nobody"
  OBVIOUS
<1>4. x.ref = n + 1
  OBVIOUS
<1>5. RowsIn(b.log, {"draft"}, n + 1) = {} /\ RowsIn(b.log, {"post"}, n + 1) = {}
  BY NoRowsYet
<1>6. x.tool \notin Notes
  BY DEF Notes
<1> HIDE DEF n, e
<1>7. \A k \in DOMAIN c.entries : k \in 1..n \/ k = n + 1
  BY <1>2
<1>8. \A k : /\ RowsIn(c.log, {"post"}, k) = RowsIn(b.log, {"post"}, k)
             /\ OnceIn(b.log, {"post"}, k) => OnceIn(c.log, {"post"}, k)
  BY RowsElsewhere
<1>9. EntriesLogged(c)
  <2>1. ASSUME NEW k \in 1..n
        PROVE  IF c.entries[k].origin = "agent" THEN OnceIn(c.log, {"draft"}, k)
                                                ELSE RowsIn(c.log, {"draft"}, k) = {}
    <3>1. x.ref # k
      BY <1>2, <1>4, <2>1
    <3>2. /\ RowsIn(c.log, {"draft"}, k) = RowsIn(b.log, {"draft"}, k)
          /\ OnceIn(b.log, {"draft"}, k) => OnceIn(c.log, {"draft"}, k)
      BY <3>1, RowsElsewhere
    <3>3. QED
      BY <1>2, <2>1, <3>2 DEF GoodBooks, Logs, EntriesLogged
  <2>2. OnceIn(c.log, {"draft"}, n + 1)
    <3>1. PICK m : m = n + 1
      OBVIOUS
    <3>2. /\ x.tool \in {"draft"} /\ x.ref = m /\ x.outcome = "completed"
          /\ RowsIn(b.log, {"draft"}, m) = {} /\ AddsRow(b.log, c.log, x)
      BY <1>4, <1>5, <3>1
    <3>3. OnceIn(c.log, {"draft"}, m)
      BY ONLY <3>2, RowsHere
    <3>4. QED
      BY <3>1, <3>3
  <2>3. \A k \in 1..n : /\ c.entries[k].poster = "agent" => RowsIn(c.log, {"post"}, k) # {}
                        /\ c.entries[k].poster = "nobody" => RowsIn(c.log, {"post"}, k) = {}
    BY <1>2, <1>8 DEF GoodBooks, Logs, EntriesLogged
  <2>4. QED
    BY <1>2, <1>3, <1>5, <1>7, <1>8, <2>1, <2>2, <2>3 DEF EntriesLogged
<1>10. /\ \A i \in DOMAIN b.docs : b.docs[i].kind \in {"invoice", "bill"}
       /\ \A j \in DOMAIN b.notes : b.notes[j].kind \in Notes
  BY Kinds DEF GoodBooks
<1>11. DocsLogged(c)
  BY <1>10, DocsStay DEF GoodBooks, Logs
<1>12. PaymentsLogged(c)
  BY PaymentsStay DEF GoodBooks, Logs
<1>13. NotesLogged(c)
  BY <1>6, <1>10, NotesStay DEF GoodBooks, Logs
<1>14. PartiesLogged(c)
  BY PartiesStay DEF GoodBooks, Logs
<1>15. ConfirmedLogged(c)
  BY ConfirmedStay DEF GoodBooks, Logs
<1>16. RefsThere(c)
  <2>1. DOMAIN b.entries \subseteq DOMAIN c.entries /\ x.ref \in DOMAIN c.entries
    BY <1>2, <1>4
  <2>2. QED
    BY <1>6, <2>1, RefsStay DEF GoodBooks, Logs
<1>17. Numbers(c)
  BY DEF GoodBooks, Numbers
<1>18. ASSUME ExactBooks(b) PROVE ExactBooks(c)
  <2>1. PostsOnce(c)
    BY <1>2, <1>3, <1>5, <1>7, <1>8, <1>18 DEF ExactBooks, PostsOnce
  <2>2. QED
    BY <1>18, <2>1 DEF ExactBooks, Settles
<1>19. Extends(b, c)
  BY <1>2, <1>3, <1>7 DEF Extends, Grows
<1>20. QED
  BY <1>9, <1>11, <1>12, <1>13, <1>14, <1>15, <1>16, <1>17, <1>18, <1>19 DEF Keeps, GoodBooks, Logs

(* Whether the entry was posted before is not told by what a turn has read *)
(* of it, unless that is current.                                          *)
LEMMA EntryPosted ==
  ASSUME NEW b, NEW c, NEW x, Added(b, c, x),
         NEW n \in DOMAIN b.entries, c.entries = [b.entries EXCEPT ![n].poster = "agent"],
         c.docs = b.docs, c.payments = b.payments, c.parties = b.parties, c.notes = b.notes,
         x.tool = "post", x.outcome = "completed", x.ref = n, x.sure
  PROVE  Keeps(b, c) /\ (ExactBooks(b) /\ b.entries[n].poster = "nobody" => ExactBooks(c))
<1> USE DEF Added
<1>1. b.entries \in Seq(Entry)
  BY DEF GoodBooks, BooksTyped
<1>2. /\ DOMAIN c.entries = DOMAIN b.entries
      /\ \A k \in DOMAIN b.entries : /\ c.entries[k].origin = b.entries[k].origin
                                     /\ c.entries[k].poster = IF k = n THEN "agent" ELSE b.entries[k].poster
  BY <1>1 DEF Entry
<1>3. x \in RowsIn(c.log, {"post"}, n)
  BY DEF RowsIn, AddsRow
<1>4. \A k : /\ RowsIn(c.log, {"draft"}, k) = RowsIn(b.log, {"draft"}, k)
             /\ OnceIn(b.log, {"draft"}, k) => OnceIn(c.log, {"draft"}, k)
  BY RowsElsewhere
<1>5. \A k : k # n => /\ RowsIn(c.log, {"post"}, k) = RowsIn(b.log, {"post"}, k)
                      /\ OnceIn(b.log, {"post"}, k) => OnceIn(c.log, {"post"}, k)
  BY RowsElsewhere
<1>6. EntriesLogged(c)
  <2>1. EntriesLogged(b)
    BY DEF GoodBooks, Logs
  <2>2. QED
    BY <1>2, <1>3, <1>4, <1>5, <2>1 DEF EntriesLogged
<1>7. /\ \A i \in DOMAIN b.docs : b.docs[i].kind \in {"invoice", "bill"}
      /\ \A j \in DOMAIN b.notes : b.notes[j].kind \in Notes
      /\ x.tool \notin Notes
  BY Kinds DEF GoodBooks, Notes
<1>8. DocsLogged(c)
  BY <1>7, DocsStay DEF GoodBooks, Logs
<1>9. PaymentsLogged(c)
  BY PaymentsStay DEF GoodBooks, Logs
<1>10. NotesLogged(c)
  BY <1>7, NotesStay DEF GoodBooks, Logs
<1>11. PartiesLogged(c)
  BY PartiesStay DEF GoodBooks, Logs
<1>12. ConfirmedLogged(c)
  BY ConfirmedStay DEF GoodBooks, Logs
<1>13. RefsThere(c)
  BY <1>2, <1>7, RefsStay DEF GoodBooks, Logs
<1>14. Numbers(c)
  BY DEF GoodBooks, Numbers
<1>15. ASSUME ExactBooks(b), b.entries[n].poster = "nobody" PROVE ExactBooks(c)
  <2>1. RowsIn(b.log, {"post"}, n) = {}
    BY <1>15 DEF ExactBooks, PostsOnce
  <2>2. OnceIn(c.log, {"post"}, n)
    BY <2>1, RowsHere
  <2>3. PostsOnce(c)
    BY <1>2, <1>5, <1>15, <2>2 DEF ExactBooks, PostsOnce
  <2>4. QED
    BY <1>15, <2>3 DEF ExactBooks, Settles
<1>16. Extends(b, c)
  BY <1>2 DEF Extends, Grows
<1>17. QED
  BY <1>6, <1>8, <1>9, <1>10, <1>11, <1>12, <1>13, <1>14, <1>15, <1>16 DEF Keeps, GoodBooks, Logs

LEMMA DocMade ==
  ASSUME NEW b, NEW c, NEW x, Added(b, c, x),
         NEW doc \in Doc, doc.status = "draft", doc.balance = Total,
         c.docs = Append(b.docs, doc), c.entries = b.entries, c.payments = b.payments, c.notes = b.notes,
         c.parties = b.parties \cup {<<doc.kind, doc.party>>},
         \A i \in DOMAIN b.docs : ~(b.docs[i].kind = doc.kind /\ b.docs[i].party = doc.party
                                                             /\ b.docs[i].day = doc.day),
         x.tool = doc.kind, x.on = doc.party, x.outcome = "completed", x.ref = Len(b.docs) + 1,
         doc.kind = "invoice" => x.sure
  PROVE  Keeps(b, c) /\ (ExactBooks(b) => ExactBooks(c))
<1> USE DEF Added
<1> DEFINE n == Len(b.docs)
<1>1. /\ b.docs \in Seq(Doc) /\ b.payments \in Seq(Payment)
  BY DEF GoodBooks, BooksTyped, Payment
<1>2. /\ n \in Nat /\ DOMAIN b.docs = 1..n /\ DOMAIN c.docs = 1..(n + 1)
      /\ \A k \in 1..n : c.docs[k] = b.docs[k]
      /\ c.docs[n + 1] = doc
  BY <1>1, AppendProperties
<1>3. x.ref = n + 1
  OBVIOUS
<1>4. \A kind \in {"invoice", "bill"} : RowsIn(b.log, {kind}, n + 1) = {}
  BY NoRowsYet
<1>5. doc.kind \in {"invoice", "bill"}
  BY DEF Doc
<1>6. /\ \A i \in DOMAIN b.docs : b.docs[i] \in Doc /\ b.docs[i].kind \in {"invoice", "bill"}
      /\ \A j \in DOMAIN b.notes : b.notes[j].kind \in Notes
  BY Kinds DEF GoodBooks
<1>7. \A p \in DOMAIN b.payments : b.payments[p].doc \in 1..n
  BY <1>2 DEF GoodBooks, Numbers
<1>8. x.tool \notin Notes \cup {"draft", "post", "pay_invoice", "pay_bill"}
  BY <1>5 DEF Notes
<1>9. EntriesLogged(c)
  BY <1>8, EntriesStay DEF GoodBooks, Logs
<1> HIDE DEF n
<1>10. DocsLogged(c)
  <2>1. ASSUME NEW i \in 1..n PROVE OnceIn(c.log, {c.docs[i].kind}, i)
    <3>1. x.ref # i
      BY <1>2, <1>3, <2>1
    <3>2. OnceIn(b.log, {b.docs[i].kind}, i) => OnceIn(c.log, {b.docs[i].kind}, i)
      BY <3>1, RowsElsewhere
    <3>3. OnceIn(b.log, {b.docs[i].kind}, i)
      BY <1>2 DEF GoodBooks, Logs, DocsLogged
    <3>4. QED
      BY <1>2, <3>2, <3>3
  <2>2. OnceIn(c.log, {doc.kind}, n + 1)
    <3>1. PICK m : m = n + 1
      OBVIOUS
    <3>2. /\ x.tool \in {doc.kind} /\ x.ref = m /\ x.outcome = "completed"
          /\ RowsIn(b.log, {doc.kind}, m) = {} /\ AddsRow(b.log, c.log, x)
      BY <1>3, <1>4, <1>5, <3>1
    <3>3. OnceIn(c.log, {doc.kind}, m)
      BY ONLY <3>2, RowsHere
    <3>4. QED
      BY <3>1, <3>3
  <2>3. \A i \in DOMAIN c.docs : i \in 1..n \/ i = n + 1
    BY <1>2
  <2>4. QED
    BY <1>2, <2>1, <2>2, <2>3 DEF DocsLogged
<1>11. PaymentsLogged(c)
  BY <1>8, PaymentsStay DEF GoodBooks, Logs
<1>12. NotesLogged(c)
  BY <1>6, <1>8, NotesStay DEF GoodBooks, Logs
<1>13. PartiesLogged(c)
  <2>1. \A y \in c.parties : \/ y \in b.parties
                             \/ y[1] = x.tool /\ y[2] = x.on /\ x.outcome \in {"completed", "blocked"}
    OBVIOUS
  <2>2. QED
    BY <2>1, PartiesStay DEF GoodBooks, Logs
<1>14. ConfirmedLogged(c)
  BY <1>5, ConfirmedStay DEF GoodBooks, Logs
<1>15. RefsThere(c)
  <2>1. DOMAIN b.docs \subseteq DOMAIN c.docs /\ x.ref \in DOMAIN c.docs
    BY <1>2, <1>3
  <2>2. QED
    BY <1>8, <2>1, RefsStay DEF GoodBooks, Logs
<1>16. Numbers(c)
  <2>1. \A p \in DOMAIN c.payments : c.payments[p].doc \in DOMAIN c.docs
    BY <1>2, <1>7
  <2>2. ASSUME NEW i \in DOMAIN c.docs, NEW j \in DOMAIN c.docs,
               c.docs[i].kind = c.docs[j].kind, c.docs[i].party = c.docs[j].party,
               c.docs[i].day = c.docs[j].day
        PROVE  i = j
    <3>1. (i \in 1..n \/ i = n + 1) /\ (j \in 1..n \/ j = n + 1)
      BY <1>2, <2>2
    <3>2. CASE i \in 1..n /\ j \in 1..n
      BY <1>2, <2>2, <3>2 DEF GoodBooks, Numbers
    <3>3. QED
      BY <1>2, <2>2, <3>1, <3>2
  <2>3. QED
    BY <2>1, <2>2 DEF Numbers
<1>17. ASSUME ExactBooks(b) PROVE ExactBooks(c)
  <2>1. ASSUME NEW i \in DOMAIN c.docs
        PROVE  /\ c.docs[i].balance + PaidIn(c.payments, i) = Total
               /\ (c.docs[i].status = "paid") = (c.docs[i].balance = 0)
    <3>1. CASE i \in 1..n
      BY <1>2, <1>17, <3>1 DEF ExactBooks, Settles
    <3>2. CASE i = n + 1
      <4>1. PICK m : m = n + 1
        OBVIOUS
      <4>2. \A p \in DOMAIN b.payments : b.payments[p].doc # m
        BY <1>2, <1>7, <4>1
      <4>3. PaidIn(b.payments, m) = 0
        BY ONLY <1>1, <4>2, PaidNat
      <4>4. Total \in Nat \ {0}
        BY AgentAssumption
      <4>5. QED
        BY <1>2, <3>2, <4>1, <4>3, <4>4
    <3>3. QED
      BY <1>2, <2>1, <3>1, <3>2
  <2>2. PostsOnce(c)
    BY <1>8, <1>17, PostsStay DEF ExactBooks
  <2>3. QED
    BY <2>1, <2>2 DEF ExactBooks, Settles
<1>18. Extends(b, c)
  BY <1>2 DEF Extends, Grows
<1>19. QED
  BY <1>9, <1>10, <1>11, <1>12, <1>13, <1>14, <1>15, <1>16, <1>17, <1>18 DEF Keeps, GoodBooks, Logs

LEMMA DocPaid ==
  ASSUME NEW b, NEW c, NEW x, Added(b, c, x),
         NEW n \in DOMAIN b.docs, NEW amount \in Nat, NEW left \in Nat,
         DOMAIN c.docs = DOMAIN b.docs,
         \A i \in DOMAIN b.docs : /\ i # n => c.docs[i] = b.docs[i]
                                  /\ c.docs[i].kind = b.docs[i].kind
                                  /\ c.docs[i].party = b.docs[i].party /\ c.docs[i].day = b.docs[i].day,
         c.payments = Append(b.payments, [doc |-> n, amount |-> amount]),
         c.entries = b.entries, c.parties = b.parties, c.notes = b.notes,
         x.tool \in {"pay_invoice", "pay_bill"}, x.sure, x.outcome = "completed", x.ref = Len(b.payments) + 1
  PROVE  /\ Keeps(b, c)
         /\ ExactBooks(b) /\ b.docs[n].balance = left + amount /\ c.docs[n].balance = left
              /\ (c.docs[n].status = "paid") = (left = 0) => ExactBooks(c)
<1> USE DEF Added
<1> DEFINE z == [doc |-> n, amount |-> amount]
           m == Len(b.payments)
<1>1. b.payments \in Seq(Payment) /\ b.docs \in Seq(Doc)
  BY DEF GoodBooks, BooksTyped, Payment
<1>2. n \in Nat
  BY <1>1
<1>3. z \in Payment /\ z.doc = n /\ z.amount = amount
  BY <1>2 DEF Payment
<1>4. c.payments = Append(b.payments, z)
  OBVIOUS
<1> HIDE DEF z
<1>5. /\ m \in Nat /\ DOMAIN b.payments = 1..m /\ DOMAIN c.payments = 1..(m + 1)
      /\ \A k \in 1..m : c.payments[k] = b.payments[k]
      /\ c.payments[m + 1] = z
  BY <1>1, <1>3, <1>4, AppendProperties
<1>6. x.ref = m + 1
  OBVIOUS
<1>7. RowsIn(b.log, {"pay_invoice", "pay_bill"}, m + 1) = {}
  BY NoRowsYet
<1> HIDE DEF m
<1>8. /\ \A i \in DOMAIN b.docs : b.docs[i] \in Doc /\ b.docs[i].kind \in {"invoice", "bill"}
      /\ \A j \in DOMAIN b.notes : b.notes[j].kind \in Notes
      /\ x.tool \notin Notes
  BY Kinds DEF GoodBooks, Notes
<1>9. EntriesLogged(c)
  BY EntriesStay DEF GoodBooks, Logs
<1>10. DocsLogged(c)
  BY <1>8, DocsStay DEF GoodBooks, Logs
<1>11. PaymentsLogged(c)
  <2>1. ASSUME NEW p \in 1..m PROVE OnceIn(c.log, {"pay_invoice", "pay_bill"}, p)
    <3>1. x.ref # p
      BY <1>5, <1>6, <2>1
    <3>2. OnceIn(b.log, {"pay_invoice", "pay_bill"}, p) => OnceIn(c.log, {"pay_invoice", "pay_bill"}, p)
      BY <3>1, RowsElsewhere
    <3>3. OnceIn(b.log, {"pay_invoice", "pay_bill"}, p)
      BY <1>5 DEF GoodBooks, Logs, PaymentsLogged
    <3>4. QED
      BY <3>2, <3>3
  <2>2. OnceIn(c.log, {"pay_invoice", "pay_bill"}, m + 1)
    <3>1. PICK q : q = m + 1
      OBVIOUS
    <3>2. /\ x.tool \in {"pay_invoice", "pay_bill"} /\ x.ref = q /\ x.outcome = "completed"
          /\ RowsIn(b.log, {"pay_invoice", "pay_bill"}, q) = {} /\ AddsRow(b.log, c.log, x)
      BY <1>6, <1>7, <3>1
    <3>3. OnceIn(c.log, {"pay_invoice", "pay_bill"}, q)
      BY ONLY <3>2, RowsHere
    <3>4. QED
      BY <3>1, <3>3
  <2>3. \A p \in DOMAIN c.payments : p \in 1..m \/ p = m + 1
    BY <1>5
  <2>4. QED
    BY <2>1, <2>2, <2>3 DEF PaymentsLogged
<1>12. NotesLogged(c)
  BY <1>8, NotesStay DEF GoodBooks, Logs
<1>13. PartiesLogged(c)
  BY PartiesStay DEF GoodBooks, Logs
<1>14. ConfirmedLogged(c)
  BY ConfirmedStay DEF GoodBooks, Logs
<1>15. RefsThere(c)
  <2>1. DOMAIN b.payments \subseteq DOMAIN c.payments /\ x.ref \in DOMAIN c.payments
    BY <1>5, <1>6
  <2>2. x.tool \notin {"draft", "post", "invoice", "bill"}
    OBVIOUS
  <2>3. QED
    BY <1>8, <2>1, <2>2, RefsStay DEF GoodBooks, Logs
<1>16. Numbers(c)
  <2>1. \A p \in DOMAIN c.payments : c.payments[p].doc \in DOMAIN c.docs
    <3>1. TAKE p \in DOMAIN c.payments
    <3>2. p \in 1..m \/ p = m + 1
      BY <1>5
    <3>3. QED
      BY <1>3, <1>5, <3>2 DEF GoodBooks, Numbers
  <2>2. \A i, j \in DOMAIN c.docs :
          c.docs[i].kind = c.docs[j].kind /\ c.docs[i].party = c.docs[j].party
            /\ c.docs[i].day = c.docs[j].day => i = j
    BY DEF GoodBooks, Numbers
  <2>3. QED
    BY <2>1, <2>2 DEF Numbers
<1>17. ASSUME ExactBooks(b), b.docs[n].balance = left + amount, c.docs[n].balance = left,
              (c.docs[n].status = "paid") = (left = 0)
       PROVE  ExactBooks(c)
  <2>1. \A i : PaidIn(c.payments, i) = PaidIn(b.payments, i) + IF i = n THEN amount ELSE 0
    <3>1. TAKE i
    <3>2. PaidIn(Append(b.payments, z), i) = PaidIn(b.payments, i) + IF z.doc = i THEN z.amount ELSE 0
      BY ONLY <1>1, <1>3, PaidAppend
    <3>3. QED
      BY <1>3, <1>4, <3>2
  <2>2. \A i : PaidIn(b.payments, i) \in Nat
    BY <1>1, PaidNat
  <2>3. \A i \in DOMAIN b.docs : /\ b.docs[i].balance + PaidIn(b.payments, i) = Total
                                 /\ (b.docs[i].status = "paid") = (b.docs[i].balance = 0)
                                 /\ b.docs[i].balance \in Nat
    BY <1>8, <1>17, AgentAssumption DEF ExactBooks, Settles, Doc
  <2>4. ASSUME NEW i \in DOMAIN c.docs
        PROVE  /\ c.docs[i].balance + PaidIn(c.payments, i) = Total
               /\ (c.docs[i].status = "paid") = (c.docs[i].balance = 0)
    <3>1. CASE i = n
      <4>1. left + amount + PaidIn(b.payments, n) = Total
        BY <1>17, <2>3
      <4>2. PaidIn(c.payments, n) = PaidIn(b.payments, n) + amount
        BY <2>1
      <4>3. QED
        BY <1>17, <2>2, <3>1, <4>1, <4>2
    <3>2. CASE i # n
      BY <2>1, <2>2, <2>3, <2>4, <3>2
    <3>3. QED
      BY <3>1, <3>2
  <2>5. PostsOnce(c)
    BY <1>17, PostsStay DEF ExactBooks
  <2>6. QED
    BY <2>4, <2>5 DEF ExactBooks, Settles
<1>18. Extends(b, c)
  BY DEF Extends, Grows
<1>19. QED
  BY <1>9, <1>10, <1>11, <1>12, <1>13, <1>14, <1>15, <1>16, <1>17, <1>18 DEF Keeps, GoodBooks, Logs

LEMMA NoteMade ==
  ASSUME NEW b, NEW c, NEW x, Added(b, c, x), NEW note \in Note,
         c.notes = Append(b.notes, note),
         c.entries = b.entries, c.docs = b.docs, c.payments = b.payments, c.parties = b.parties,
         x.tool = note.kind, x.outcome = "completed", x.ref = Len(b.notes) + 1
  PROVE  Keeps(b, c) /\ (ExactBooks(b) => ExactBooks(c))
<1> USE DEF Added
<1> DEFINE n == Len(b.notes)
<1>1. b.notes \in Seq(Note) /\ note.kind \in Notes
  BY DEF GoodBooks, BooksTyped, Note
<1>2. /\ n \in Nat /\ DOMAIN b.notes = 1..n /\ DOMAIN c.notes = 1..(n + 1)
      /\ \A k \in 1..n : c.notes[k] = b.notes[k]
      /\ c.notes[n + 1] = note
  BY <1>1, AppendProperties
<1>3. x.ref = n + 1
  OBVIOUS
<1>4. \A kind \in Notes : RowsIn(b.log, {kind}, n + 1) = {}
  BY NoRowsYet
<1>5. x.tool \notin {"draft", "post", "invoice", "bill", "pay_invoice", "pay_bill"}
  BY <1>1 DEF Notes
<1>6. \A i \in DOMAIN b.docs : b.docs[i].kind \in {"invoice", "bill"}
  BY Kinds DEF GoodBooks
<1> HIDE DEF n
<1>7. NotesLogged(c)
  <2>1. ASSUME NEW j \in 1..n PROVE OnceIn(c.log, {c.notes[j].kind}, j)
    <3>1. x.ref # j
      BY <1>2, <1>3, <2>1
    <3>2. OnceIn(b.log, {b.notes[j].kind}, j) => OnceIn(c.log, {b.notes[j].kind}, j)
      BY <3>1, RowsElsewhere
    <3>3. OnceIn(b.log, {b.notes[j].kind}, j)
      BY <1>2 DEF GoodBooks, Logs, NotesLogged
    <3>4. QED
      BY <1>2, <3>2, <3>3
  <2>2. OnceIn(c.log, {note.kind}, n + 1)
    <3>1. PICK m : m = n + 1
      OBVIOUS
    <3>2. /\ x.tool \in {note.kind} /\ x.ref = m /\ x.outcome = "completed"
          /\ RowsIn(b.log, {note.kind}, m) = {} /\ AddsRow(b.log, c.log, x)
      BY <1>1, <1>3, <1>4, <3>1
    <3>3. OnceIn(c.log, {note.kind}, m)
      BY ONLY <3>2, RowsHere
    <3>4. QED
      BY <3>1, <3>3
  <2>3. \A j \in DOMAIN c.notes : j \in 1..n \/ j = n + 1
    BY <1>2
  <2>4. QED
    BY <1>2, <2>1, <2>2, <2>3 DEF NotesLogged
<1>8. EntriesLogged(c)
  BY <1>5, EntriesStay DEF GoodBooks, Logs
<1>9. DocsLogged(c)
  BY <1>5, <1>6, DocsStay DEF GoodBooks, Logs
<1>10. PaymentsLogged(c)
  BY <1>5, PaymentsStay DEF GoodBooks, Logs
<1>11. PartiesLogged(c)
  BY PartiesStay DEF GoodBooks, Logs
<1>12. ConfirmedLogged(c)
  BY <1>1, ConfirmedStay DEF GoodBooks, Logs
<1>13. RefsThere(c)
  <2>1. DOMAIN b.notes \subseteq DOMAIN c.notes /\ x.ref \in DOMAIN c.notes
    BY <1>2, <1>3
  <2>2. QED
    BY <1>5, <2>1, RefsStay DEF GoodBooks, Logs
<1>14. Numbers(c)
  BY DEF GoodBooks, Numbers
<1>15. ASSUME ExactBooks(b) PROVE ExactBooks(c)
  <2>1. PostsOnce(c)
    BY <1>5, <1>15, PostsStay DEF ExactBooks
  <2>2. QED
    BY <1>15, <2>1 DEF ExactBooks, Settles
<1>16. QED
  BY <1>7, <1>8, <1>9, <1>10, <1>11, <1>12, <1>13, <1>14, <1>15 DEF Keeps, GoodBooks, Logs, Extends, Grows

-----------------------------------------------------------------------------
(* A tool, in books that are good, when its call may be executed.          *)

(* The rows that the turn had read have not changed. *)
LEMMA GoesBeside ==
  ASSUME NEW b, NEW s, NEW c, NEW t, Within(s, b), Keeps(b, c), ExactBooks(b) => ExactBooks(c),
         t \in SeenRows, t.entries = s.entries, t.docs = s.docs,
         \A k \in DOMAIN b.entries : c.entries[k] = b.entries[k],
         \A i \in DOMAIN b.docs : c.docs[i] = b.docs[i]
  PROVE  Goes(b, s, c, t)
<1>1. Grows(b, c)
  BY DEF Keeps, Extends
<1>2. Within(t, c)
  BY <1>1 DEF Within, Grows
<1>3. Current(s, b) => Current(t, c)
  BY DEF Within, Current
<1>4. QED
  BY <1>2, <1>3 DEF Goes

LEMMA UnchangedKeeps ==
  ASSUME NEW b, NEW s, GoodBooks(b), Within(s, b), NEW step \in Step, NEW outcome \in Outcomes,
         outcome = "completed" => step.call.tool = "read"
  PROVE  Goes(b, s, Logged(b, step, outcome, 0), s)
<1>1. BooksTyped(b) /\ 0 \in Nat
  BY DEF GoodBooks
<1>2. PICK x : RowOf(x, step, outcome, 0) /\ LogsTo(b, Logged(b, step, outcome, 0), x)
  BY <1>1, LoggedIs
<1>3. PICK c : c = Logged(b, step, outcome, 0)
  OBVIOUS
<1>4. /\ Added(b, c, x) /\ c.entries = b.entries /\ c.docs = b.docs /\ c.payments = b.payments
      /\ c.notes = b.notes /\ c.parties = b.parties
      /\ x.outcome = "completed" => x.tool = "read"
  BY <1>2, <1>3 DEF LogsTo, RowOf, Added
<1>5. Keeps(b, c) /\ (ExactBooks(b) => ExactBooks(c))
  <2>1. \A y \in c.parties : y \in b.parties \/ (y[1] = x.tool /\ y[2] = x.on /\ x.outcome = "blocked")
    BY <1>4
  <2>2. QED
    BY ONLY <1>4, <2>1, NothingMade
<1>6. Goes(b, s, c, s)
  <2>1. s \in SeenRows
    BY DEF Within
  <2>2. QED
    BY <1>4, <1>5, <2>1, GoesBeside
<1>7. QED
  BY <1>3, <1>6

(* What done leaves when its row is added. *)
Leaves(b, s, step, done) == Goes(b, s, Logged(done.books, step, done.outcome, done.ref), done.saw)

LEMMA BlockedLeaves ==
  ASSUME NEW b, NEW s, GoodBooks(b), Within(s, b), NEW step \in Step, NEW done, done = Blocked(b, s)
  PROVE  Leaves(b, s, step, done)
<1>1. /\ done.books = b /\ done.saw = s /\ done.outcome = "blocked" /\ done.ref = 0
      /\ "blocked" \in Outcomes /\ "blocked" # "completed"
  BY DEF Blocked, Outcomes
<1>2. Goes(b, s, Logged(b, step, "blocked", 0), s)
  BY <1>1, UnchangedKeeps
<1>3. QED
  BY <1>1, <1>2 DEF Leaves

LEMMA CompletedIs ==
  ASSUME NEW a, NEW t, NEW n, NEW done, done = Completed(a, t, n)
  PROVE  /\ done.books = a /\ done.saw = t /\ done.outcome = "completed" /\ done.ref = n
         /\ "completed" \in Outcomes
BY DEF Completed, Outcomes

LEMMA DraftKeeps ==
  ASSUME NEW b, NEW s, GoodBooks(b), Within(s, b), NEW step \in Step, step.call.tool = "draft",
         NEW done, done = CreateDraft(step.call, b, s)
  PROVE  Leaves(b, s, step, done)
<1>1. b.entries \in Seq(Entry) /\ BooksTyped(b)
  BY DEF GoodBooks, BooksTyped
<1>2. CASE step.call.sound
  <2>1. done = Completed(Drafted(b, "agent"), s, Len(b.entries) + 1)
    BY <1>2 DEF CreateDraft
  <2>2. PICK a : a = Drafted(b, "agent")
    OBVIOUS
  <2>3. PICK e : e = [origin |-> "agent", poster |-> "nobody"]
    OBVIOUS
  <2>4. e \in Entry
    BY <2>3 DEF Entry
  <2>5. PICK es : es = Append(b.entries, e)
    OBVIOUS
  <2>6. es \in Seq(Entry) /\ \A k \in DOMAIN b.entries : es[k] = b.entries[k]
    BY <1>1, <2>4, <2>5, AppendProperties
  <2>7. a = [b EXCEPT !.entries = es]
    BY <2>2, <2>3, <2>5 DEF Drafted
  <2>8. /\ a.entries = es /\ a.docs = b.docs /\ a.parties = b.parties
        /\ a.payments = b.payments /\ a.notes = b.notes /\ a.log = b.log /\ BooksTyped(a)
    BY <1>1, <2>6, <2>7 DEF BooksTyped
  <2>9. PICK n \in Nat : n = Len(b.entries) + 1
    BY <1>1
  <2>10. done.books = a /\ done.saw = s /\ done.outcome = "completed" /\ done.ref = n
         /\ "completed" \in Outcomes
    BY <2>1, <2>2, <2>9, CompletedIs
  <2>11. PICK x : RowOf(x, step, "completed", n) /\ LogsTo(a, Logged(a, step, "completed", n), x)
    BY <2>8, <2>9, <2>10, LoggedIs
  <2>12. PICK c : c = Logged(a, step, "completed", n)
    OBVIOUS
  <2>13. /\ Added(b, c, x) /\ c.docs = b.docs /\ c.payments = b.payments
         /\ c.parties = b.parties /\ c.notes = b.notes
         /\ c.entries = Append(b.entries, [origin |-> "agent", poster |-> "nobody"])
         /\ x.tool = "draft" /\ x.outcome = "completed" /\ x.ref = Len(b.entries) + 1
    BY <2>3, <2>5, <2>8, <2>9, <2>11, <2>12 DEF LogsTo, RowOf, Added
  <2>14. Keeps(b, c) /\ (ExactBooks(b) => ExactBooks(c))
    BY ONLY <2>13, DraftMade
  <2>15. Goes(b, s, c, s)
    <3>1. s \in SeenRows
      BY DEF Within
    <3>2. /\ \A k \in DOMAIN b.entries : c.entries[k] = b.entries[k]
          /\ \A i \in DOMAIN b.docs : c.docs[i] = b.docs[i]
      BY <2>3, <2>5, <2>6, <2>13
    <3>3. QED
      BY <2>14, <3>1, <3>2, GoesBeside
  <2>16. QED
    BY <2>10, <2>12, <2>15 DEF Leaves
<1>3. CASE ~step.call.sound
  BY <1>3, BlockedLeaves DEF CreateDraft
<1>4. QED
  BY <1>2, <1>3

(* The poster of the n-th entry is changed. *)
LEMMA PosterChanged ==
  ASSUME NEW entries \in Seq(Entry), NEW n \in DOMAIN entries, NEW who \in {"user", "agent"},
         NEW es, es = [entries EXCEPT ![n].poster = who]
  PROVE  /\ es \in Seq(Entry) /\ DOMAIN es = DOMAIN entries
         /\ es[n] = [entries[n] EXCEPT !.poster = who]
         /\ \A k \in DOMAIN entries : k # n => es[k] = entries[k]
<1>1. PICK e : e = [entries[n] EXCEPT !.poster = who]
  OBVIOUS
<1>2. entries[n] \in Entry
  OBVIOUS
<1>3. e \in Entry
  BY <1>1, <1>2 DEF Entry
<1>4. es = [entries EXCEPT ![n] = e]
  BY <1>1
<1>5. es \in Seq(Entry) /\ DOMAIN es = DOMAIN entries
  BY <1>3, <1>4
<1>6. es[n] = e /\ \A k \in DOMAIN entries : k # n => es[k] = entries[k]
  BY <1>4
<1>7. QED
  BY <1>1, <1>3, <1>5, <1>6

LEMMA PostKeeps ==
  ASSUME NEW b, NEW s, GoodBooks(b), Within(s, b), NEW step \in Step, step.call.tool = "post", step.sure,
         NEW done, done = PostEntry(step.call, b, s)
  PROVE  Leaves(b, s, step, done)
<1>1. b.entries \in Seq(Entry) /\ BooksTyped(b) /\ s.entries \in Seq(Entry) /\ s \in SeenRows
  BY DEF GoodBooks, BooksTyped, Within, SeenRows
<1>2. CASE Postable(step.call.on, s)
  <2>1. PICK n : n = step.call.on
    OBVIOUS
  <2>2. n \in DOMAIN b.entries /\ n \in DOMAIN s.entries /\ s.entries[n].poster = "nobody" /\ n \in Nat
    BY <1>1, <1>2, <2>1 DEF Postable, Within
  <2>3. PICK es : es = [b.entries EXCEPT ![n].poster = "agent"]
    OBVIOUS
  <2>4. PICK ts : ts = [s.entries EXCEPT ![n].poster = "agent"]
    OBVIOUS
  <2>5. PICK a : a = [b EXCEPT !.entries[n].poster = "agent"]
    OBVIOUS
  <2>6. PICK t : t = [s EXCEPT !.entries[n].poster = "agent"]
    OBVIOUS
  <2>7. done.books = a /\ done.saw = t /\ done.outcome = "completed" /\ done.ref = n
        /\ "completed" \in Outcomes
    <3>1. done = Completed(a, t, n)
      BY <1>2, <2>1, <2>5, <2>6 DEF PostEntry
    <3>2. QED
      BY ONLY <3>1, CompletedIs
  <2>8. /\ es \in Seq(Entry) /\ es[n] = [b.entries[n] EXCEPT !.poster = "agent"]
        /\ \A k \in DOMAIN b.entries : k # n => es[k] = b.entries[k]
    <3>1. PICK before \in Seq(Entry) : before = b.entries
      BY <1>1
    <3>2. n \in DOMAIN before /\ es = [before EXCEPT ![n].poster = "agent"] /\ "agent" \in {"user", "agent"}
      BY <2>2, <2>3, <3>1
    <3>3. /\ es \in Seq(Entry) /\ es[n] = [before[n] EXCEPT !.poster = "agent"]
          /\ \A k \in DOMAIN before : k # n => es[k] = before[k]
      BY ONLY <3>2, PosterChanged
    <3>4. QED
      BY <3>1, <3>3
  <2>9. /\ ts \in Seq(Entry) /\ DOMAIN ts = DOMAIN s.entries
        /\ ts[n] = [s.entries[n] EXCEPT !.poster = "agent"]
        /\ \A k \in DOMAIN s.entries : k # n => ts[k] = s.entries[k]
    <3>1. PICK before \in Seq(Entry) : before = s.entries
      BY <1>1
    <3>2. n \in DOMAIN before /\ ts = [before EXCEPT ![n].poster = "agent"] /\ "agent" \in {"user", "agent"}
      BY <2>2, <2>4, <3>1
    <3>3. /\ ts \in Seq(Entry) /\ DOMAIN ts = DOMAIN before /\ ts[n] = [before[n] EXCEPT !.poster = "agent"]
          /\ \A k \in DOMAIN before : k # n => ts[k] = before[k]
      BY ONLY <3>2, PosterChanged
    <3>4. QED
      BY <3>1, <3>3
  <2>10. a = [b EXCEPT !.entries = es] /\ t = [s EXCEPT !.entries = ts]
    BY <2>3, <2>4, <2>5, <2>6
  <2>11. /\ a.entries = es /\ a.docs = b.docs /\ a.parties = b.parties
         /\ a.payments = b.payments /\ a.notes = b.notes /\ a.log = b.log /\ BooksTyped(a)
    BY <1>1, <2>8, <2>10 DEF BooksTyped
  <2>12. t.entries = ts /\ t.docs = s.docs /\ t \in SeenRows
    BY <1>1, <2>9, <2>10 DEF SeenRows
  <2>13. PICK x : RowOf(x, step, "completed", n) /\ LogsTo(a, Logged(a, step, "completed", n), x)
    BY <2>2, <2>7, <2>11, LoggedIs
  <2>14. PICK c : c = Logged(a, step, "completed", n)
    OBVIOUS
  <2>15. /\ Added(b, c, x) /\ c.docs = b.docs /\ c.payments = b.payments
         /\ c.parties = b.parties /\ c.notes = b.notes
         /\ c.entries = [b.entries EXCEPT ![n].poster = "agent"]
         /\ x.tool = "post" /\ x.outcome = "completed" /\ x.ref = n /\ x.sure
    BY <2>3, <2>11, <2>13, <2>14 DEF LogsTo, RowOf, Added
  <2>16. Keeps(b, c) /\ (ExactBooks(b) /\ b.entries[n].poster = "nobody" => ExactBooks(c))
    BY ONLY <2>2, <2>15, EntryPosted
  <2>17. Within(t, c)
    BY <2>9, <2>12, <2>16 DEF Within, Keeps, Extends, Grows
  <2>18. ASSUME Current(s, b) PROVE b.entries[n].poster = "nobody" /\ Current(t, c)
    <3>1. s.entries[n] = b.entries[n] /\ \A k \in DOMAIN s.entries : s.entries[k] = b.entries[k]
      BY <2>2, <2>18 DEF Current
    <3>2. ASSUME NEW k \in DOMAIN t.entries PROVE t.entries[k] = c.entries[k]
      <4>1. k \in DOMAIN s.entries /\ k \in DOMAIN b.entries
        BY <2>9, <2>12, <3>2 DEF Within
      <4>2. ts[k] = es[k]
        <5>1. CASE k = n
          BY <2>8, <2>9, <3>1, <5>1
        <5>2. CASE k # n
          BY <2>8, <2>9, <3>1, <4>1, <5>2
        <5>3. QED
          BY <5>1, <5>2
      <4>3. QED
        BY <2>3, <2>12, <2>15, <4>2
    <3>3. \A i \in DOMAIN t.docs : t.docs[i] = c.docs[i]
      BY <2>12, <2>15, <2>18 DEF Current
    <3>4. QED
      BY <2>2, <3>1, <3>2, <3>3 DEF Current
  <2>19. Goes(b, s, c, t)
    BY <2>16, <2>17, <2>18 DEF Goes
  <2>20. QED
    BY <2>7, <2>14, <2>19 DEF Leaves
<1>3. CASE ~Postable(step.call.on, s)
  BY <1>3, BlockedLeaves DEF PostEntry
<1>4. QED
  BY <1>2, <1>3

(* A customer or a vendor is added. *)
LEMMA PartyAdded ==
  ASSUME NEW parties, parties \in SUBSET ({"invoice", "bill"} \X Nat),
         NEW kind \in {"invoice", "bill"}, NEW on \in Nat
  PROVE  parties \cup {<<kind, on>>} \in SUBSET ({"invoice", "bill"} \X Nat)
OBVIOUS

LEMMA DocumentKeeps ==
  ASSUME NEW b, NEW s, GoodBooks(b), Within(s, b), NEW step \in Step, NEW kind \in {"invoice", "bill"},
         step.call.tool = kind, kind = "invoice" => step.sure,
         NEW done, done = CreateDocument(kind, step.call, b, s), done.outcome # "escaped"
  PROVE  Leaves(b, s, step, done)
<1>1. /\ b.docs \in Seq(Doc) /\ BooksTyped(b) /\ step.call.on \in Nat /\ step.call.sound \in BOOLEAN
      /\ b.parties \in SUBSET ({"invoice", "bill"} \X Nat)
      /\ s \in SeenRows /\ s.day \in 1..MaxDay /\ s.parties \in SUBSET ({"invoice", "bill"} \X Nat)
  BY DEF GoodBooks, BooksTyped, Step, Call, Within, SeenRows
<1>2. PICK on \in Nat : on = step.call.on
  BY <1>1
<1>3. PICK parties : parties = b.parties \cup {<<kind, on>>}
  OBVIOUS
<1>4. PICK known : known = [b EXCEPT !.parties = parties]
  OBVIOUS
<1>5. PICK seen : seen = s.parties \cup {<<kind, on>>}
  OBVIOUS
<1>6. PICK t : t = [s EXCEPT !.parties = seen]
  OBVIOUS
<1>7. PICK doc : doc = [kind |-> kind, party |-> on, day |-> s.day, status |-> "draft", balance |-> Total]
  OBVIOUS
<1>8. doc \in Doc /\ doc.kind = kind /\ doc.party = on /\ doc.day = s.day
      /\ doc.status = "draft" /\ doc.balance = Total
  BY <1>1, <1>7, AgentAssumption DEF Doc
<1>9. parties \in SUBSET ({"invoice", "bill"} \X Nat) /\ seen \in SUBSET ({"invoice", "bill"} \X Nat)
  BY <1>1, <1>3, <1>5, PartyAdded
<1>10. /\ known.entries = b.entries /\ known.docs = b.docs /\ known.parties = parties
       /\ known.payments = b.payments /\ known.notes = b.notes /\ known.log = b.log /\ BooksTyped(known)
  BY <1>1, <1>4, <1>9 DEF BooksTyped
<1>11. t \in SeenRows /\ t.entries = s.entries /\ t.docs = s.docs
  BY <1>1, <1>6, <1>9 DEF SeenRows
<1>12. /\ known = [b EXCEPT !.parties = @ \cup {<<kind, step.call.on>>}]
       /\ t = [s EXCEPT !.parties = @ \cup {<<kind, step.call.on>>}]
  BY <1>2, <1>3, <1>4, <1>5, <1>6
<1> DEFINE named == <<kind, step.call.on>> \in b.parties \ s.parties
           taken == \E i \in DOMAIN b.docs : b.docs[i].kind = kind /\ b.docs[i].party = step.call.on
                                                                   /\ b.docs[i].day = s.day
<1>13. ~named /\ (step.call.sound => ~taken)
  BY <1>1 DEF CreateDocument, Escaped
<1>14. CASE ~step.call.sound
  <2>1. done = Blocked(known, t)
    BY <1>12, <1>13, <1>14 DEF CreateDocument
  <2>2. done.books = known /\ done.saw = t /\ done.outcome = "blocked" /\ done.ref = 0
        /\ "blocked" \in Outcomes /\ 0 \in Nat
    BY <2>1 DEF Blocked, Outcomes
  <2>3. PICK x : RowOf(x, step, "blocked", 0) /\ LogsTo(known, Logged(known, step, "blocked", 0), x)
    BY <1>10, <2>2, LoggedIs
  <2>4. PICK c : c = Logged(known, step, "blocked", 0)
    OBVIOUS
  <2>5. /\ Added(b, c, x) /\ c.entries = b.entries /\ c.docs = b.docs
        /\ c.payments = b.payments /\ c.notes = b.notes /\ c.parties = parties
        /\ x.outcome = "blocked" /\ x.tool = kind /\ x.on = on
    BY <1>2, <1>10, <2>3, <2>4 DEF LogsTo, RowOf, Added
  <2>6. \A y \in c.parties : y \in b.parties \/ (y[1] = x.tool /\ y[2] = x.on /\ x.outcome = "blocked")
    BY <1>3, <2>5
  <2>7. x.outcome = "completed" => x.tool = "read"
    BY <2>5
  <2>8. Keeps(b, c) /\ (ExactBooks(b) => ExactBooks(c))
    BY ONLY <2>5, <2>6, <2>7, NothingMade
  <2>9. Goes(b, s, c, t)
    BY <1>11, <2>5, <2>8, GoesBeside
  <2>10. QED
    BY <2>2, <2>4, <2>9 DEF Leaves
<1>15. CASE step.call.sound
  <2>1. ~named /\ ~taken
    BY <1>13, <1>15
  <2>2. done = Completed([known EXCEPT !.docs = Append(@, doc)], t, Len(b.docs) + 1)
    BY <1>2, <1>7, <1>12, <1>15, <2>1 DEF CreateDocument
  <2>3. PICK docs : docs = Append(b.docs, doc)
    OBVIOUS
  <2>4. docs \in Seq(Doc) /\ \A i \in DOMAIN b.docs : docs[i] = b.docs[i]
    BY <1>1, <1>8, <2>3, AppendProperties
  <2>5. PICK a : a = [known EXCEPT !.docs = docs]
    OBVIOUS
  <2>6. /\ a.entries = b.entries /\ a.docs = docs /\ a.parties = parties
        /\ a.payments = b.payments /\ a.notes = b.notes /\ a.log = b.log /\ BooksTyped(a)
    BY <1>10, <2>4, <2>5 DEF BooksTyped
  <2>7. PICK n \in Nat : n = Len(b.docs) + 1
    BY <1>1
  <2>8. done.books = a /\ done.saw = t /\ done.outcome = "completed" /\ done.ref = n
        /\ "completed" \in Outcomes
    <3>1. done = Completed(a, t, n)
      BY <1>10, <2>2, <2>3, <2>5, <2>7
    <3>2. QED
      BY ONLY <3>1, CompletedIs
  <2>9. PICK x : RowOf(x, step, "completed", n) /\ LogsTo(a, Logged(a, step, "completed", n), x)
    BY <2>6, <2>7, <2>8, LoggedIs
  <2>10. PICK c : c = Logged(a, step, "completed", n)
    OBVIOUS
  <2>11. /\ Added(b, c, x) /\ c.entries = b.entries /\ c.payments = b.payments /\ c.notes = b.notes
         /\ c.docs = Append(b.docs, doc) /\ c.parties = b.parties \cup {<<doc.kind, doc.party>>}
         /\ x.tool = doc.kind /\ x.on = doc.party /\ x.outcome = "completed" /\ x.ref = Len(b.docs) + 1
         /\ x.sure = step.sure
    BY <1>2, <1>3, <1>8, <2>3, <2>6, <2>7, <2>9, <2>10 DEF LogsTo, RowOf, Added
  <2>12. \A i \in DOMAIN b.docs : ~(b.docs[i].kind = doc.kind /\ b.docs[i].party = doc.party
                                                              /\ b.docs[i].day = doc.day)
    BY <1>2, <1>8, <2>1
  <2>13. doc.kind = "invoice" => x.sure
    BY <1>8, <2>11
  <2>14. Keeps(b, c) /\ (ExactBooks(b) => ExactBooks(c))
    <3>1. doc \in Doc /\ doc.status = "draft" /\ doc.balance = Total
      BY <1>8
    <3>2. QED
      BY ONLY <3>1, <2>11, <2>12, <2>13, DocMade
  <2>15. Goes(b, s, c, t)
    <3>1. \A i \in DOMAIN b.docs : c.docs[i] = b.docs[i]
      BY <2>3, <2>4, <2>11
    <3>2. \A k \in DOMAIN b.entries : c.entries[k] = b.entries[k]
      BY <2>11
    <3>3. QED
      BY <1>11, <2>14, <3>1, <3>2, GoesBeside
  <2>16. QED
    BY <2>8, <2>10, <2>15 DEF Leaves
<1>16. QED
  BY <1>1, <1>14, <1>15

LEMMA PaidDoc ==
  ASSUME NEW d \in Doc, NEW amount \in Nat, amount <= d.balance, NEW e, e = Paid(d, amount)
  PROVE  /\ e \in Doc /\ e.balance \in Nat /\ d.balance = e.balance + amount
         /\ e.status = IF e.balance = 0 THEN "paid" ELSE "partial"
         /\ e.kind = d.kind /\ e.party = d.party /\ e.day = d.day
<1>1. d.balance \in 0..Total /\ Total \in Nat
  BY AgentAssumption DEF Doc
<1>2. PICK left \in 0..Total : left = d.balance - amount
  BY <1>1
<1>3. PICK status \in {"paid", "partial"} : status = IF d.balance = amount THEN "paid" ELSE "partial"
  OBVIOUS
<1>4. e = [d EXCEPT !.balance = left, !.status = status]
  BY <1>2, <1>3 DEF Paid
<1>5. /\ e \in Doc /\ e.balance = left /\ e.status = status
      /\ e.kind = d.kind /\ e.party = d.party /\ e.day = d.day
  BY <1>2, <1>3, <1>4 DEF Doc
<1>6. left \in Nat /\ d.balance = left + amount /\ (left = 0 <=> d.balance = amount)
  BY <1>1, <1>2
<1>7. QED
  BY <1>3, <1>5, <1>6

LEMMA WrittenDoc ==
  ASSUME NEW d \in Doc, NEW old \in Doc, NEW new \in Doc, NEW e, e = Written(d, old, new)
  PROVE  e \in Doc /\ e.kind = d.kind /\ e.party = d.party /\ e.day = d.day
<1>1. PICK left \in 0..Total : left = IF new.balance = old.balance THEN d.balance ELSE new.balance
  BY DEF Doc
<1>2. PICK status \in {"draft", "posted", "partial", "paid"} :
        status = IF new.status = old.status THEN d.status ELSE new.status
  BY DEF Doc
<1>3. e = [d EXCEPT !.balance = left, !.status = status]
  BY <1>1, <1>2 DEF Written
<1>4. QED
  BY <1>1, <1>2, <1>3 DEF Doc

LEMMA WrittenCurrent ==
  ASSUME NEW old \in Doc, NEW new \in Doc, new.kind = old.kind, new.party = old.party, new.day = old.day
  PROVE  Written(old, old, new) = new
<1>1. Written(old, old, new) = [old EXCEPT !.balance = new.balance, !.status = new.status]
  BY DEF Written
<1>2. QED
  BY <1>1 DEF Doc

LEMMA PayKeeps ==
  ASSUME NEW b, NEW s, GoodBooks(b), Within(s, b), NEW step \in Step, NEW kind \in {"invoice", "bill"},
         step.call.tool \in {"pay_invoice", "pay_bill"}, step.sure,
         NEW done, done = PayDocument(kind, step.call, b, s)
  PROVE  Leaves(b, s, step, done)
<1>1. /\ b.docs \in Seq(Doc) /\ b.payments \in Seq(Payment) /\ BooksTyped(b) /\ step.call.amount \in Nat
      /\ s.docs \in Seq(Doc) /\ s \in SeenRows
  BY DEF GoodBooks, BooksTyped, Step, Call, Payment, Within, SeenRows
<1>2. CASE ~Payable(kind, step.call, s)
  BY <1>2, BlockedLeaves DEF PayDocument
<1>3. CASE Payable(kind, step.call, s)
  <2>1. PICK n : n = step.call.on
    OBVIOUS
  <2>2. PICK amount \in Nat : amount = step.call.amount
    BY <1>1
  <2>3. n \in DOMAIN s.docs /\ amount <= s.docs[n].balance /\ n \in DOMAIN b.docs
    BY <1>3, <2>1, <2>2 DEF Payable, Within
  <2>4. n \in Nat /\ b.docs[n] \in Doc /\ s.docs[n] \in Doc
    BY <1>1, <2>3
  <2>5. PICK old \in Doc : old = s.docs[n]
    BY <2>4
  <2>6. PICK new : new = Paid(old, amount)
    OBVIOUS
  <2>7. /\ new \in Doc /\ new.balance \in Nat /\ old.balance = new.balance + amount
        /\ new.status = IF new.balance = 0 THEN "paid" ELSE "partial"
        /\ new.kind = old.kind /\ new.party = old.party /\ new.day = old.day
    BY <2>3, <2>5, <2>6, PaidDoc
  <2>8. PICK d : d = Written(b.docs[n], old, new)
    OBVIOUS
  <2>9. d \in Doc /\ d.kind = b.docs[n].kind /\ d.party = b.docs[n].party /\ d.day = b.docs[n].day
    BY <2>4, <2>7, <2>8, WrittenDoc
  <2>10. PICK ds : ds = [b.docs EXCEPT ![n] = d]
    OBVIOUS
  <2>11. ds \in Seq(Doc) /\ DOMAIN ds = DOMAIN b.docs
         /\ \A i \in DOMAIN b.docs : ds[i] = IF i = n THEN d ELSE b.docs[i]
    BY <1>1, <2>3, <2>9, <2>10
  <2>12. PICK ts : ts = [s.docs EXCEPT ![n] = new]
    OBVIOUS
  <2>13. ts \in Seq(Doc) /\ DOMAIN ts = DOMAIN s.docs
         /\ \A i \in DOMAIN s.docs : ts[i] = IF i = n THEN new ELSE s.docs[i]
    BY <1>1, <2>3, <2>7, <2>12
  <2>14. PICK z : z = [doc |-> n, amount |-> amount]
    OBVIOUS
  <2>15. z \in Payment
    BY <2>4, <2>14 DEF Payment
  <2>16. PICK payments : payments = Append(b.payments, z)
    OBVIOUS
  <2>17. payments \in Seq([doc : Nat, amount : Nat])
    BY <1>1, <2>15, <2>16 DEF Payment
  <2>18. PICK a : a = [b EXCEPT !.docs = ds, !.payments = payments]
    OBVIOUS
  <2>19. PICK t : t = [s EXCEPT !.docs = ts]
    OBVIOUS
  <2>20. /\ a.entries = b.entries /\ a.docs = ds /\ a.parties = b.parties
         /\ a.payments = payments /\ a.notes = b.notes /\ a.log = b.log /\ BooksTyped(a)
    BY <1>1, <2>11, <2>17, <2>18 DEF BooksTyped
  <2>21. t.entries = s.entries /\ t.docs = ts /\ t \in SeenRows
    BY <1>1, <2>13, <2>19 DEF SeenRows
  <2>22. PICK m \in Nat : m = Len(b.payments) + 1
    BY <1>1
  <2>23. done.books = a /\ done.saw = t /\ done.outcome = "completed" /\ done.ref = m
         /\ "completed" \in Outcomes
    <3>1. a = [b EXCEPT !.docs[n] = Written(@, old, new), !.payments = Append(@, z)]
      BY <2>8, <2>10, <2>16, <2>18
    <3>2. t = [s EXCEPT !.docs[n] = new]
      BY <2>12, <2>19
    <3>3. done = Completed(a, t, m)
      BY <1>3, <2>1, <2>2, <2>5, <2>6, <2>14, <2>22, <3>1, <3>2 DEF PayDocument
    <3>4. QED
      BY ONLY <3>3, CompletedIs
  <2>24. PICK x : RowOf(x, step, "completed", m) /\ LogsTo(a, Logged(a, step, "completed", m), x)
    BY <2>20, <2>22, <2>23, LoggedIs
  <2>25. PICK c : c = Logged(a, step, "completed", m)
    OBVIOUS
  <2>26. /\ Added(b, c, x) /\ c.docs = ds /\ c.payments = Append(b.payments, [doc |-> n, amount |-> amount])
         /\ c.entries = b.entries /\ c.parties = b.parties /\ c.notes = b.notes
         /\ x.tool \in {"pay_invoice", "pay_bill"} /\ x.sure /\ x.outcome = "completed"
         /\ x.ref = Len(b.payments) + 1
    BY <2>14, <2>16, <2>20, <2>22, <2>24, <2>25 DEF LogsTo, RowOf, Added
  <2>27. /\ DOMAIN c.docs = DOMAIN b.docs /\ c.docs[n] = d
         /\ \A i \in DOMAIN b.docs : /\ i # n => c.docs[i] = b.docs[i]
                                     /\ c.docs[i].kind = b.docs[i].kind
                                     /\ c.docs[i].party = b.docs[i].party /\ c.docs[i].day = b.docs[i].day
    BY <2>3, <2>9, <2>11, <2>26
  <2>28. PICK left \in Nat : left = new.balance
    BY <2>7
  <2>29. /\ Keeps(b, c)
         /\ ExactBooks(b) /\ b.docs[n].balance = left + amount /\ c.docs[n].balance = left
              /\ (c.docs[n].status = "paid") = (left = 0) => ExactBooks(c)
    <3>1. n \in DOMAIN b.docs /\ amount \in Nat /\ left \in Nat
      BY <2>3
    <3>2. Added(b, c, x)
      BY <2>26
    <3>3. /\ c.payments = Append(b.payments, [doc |-> n, amount |-> amount])
          /\ c.entries = b.entries /\ c.parties = b.parties /\ c.notes = b.notes
      BY <2>26
    <3>4. /\ x.tool \in {"pay_invoice", "pay_bill"} /\ x.sure /\ x.outcome = "completed"
          /\ x.ref = Len(b.payments) + 1
      BY <2>26
    <3>5. /\ DOMAIN c.docs = DOMAIN b.docs
          /\ \A i \in DOMAIN b.docs : /\ i # n => c.docs[i] = b.docs[i]
                                      /\ c.docs[i].kind = b.docs[i].kind
                                      /\ c.docs[i].party = b.docs[i].party /\ c.docs[i].day = b.docs[i].day
      BY <2>27
    <3>6. QED
      BY ONLY <3>1, <3>2, <3>3, <3>4, <3>5, DocPaid
  <2>30. Within(t, c)
    BY <2>13, <2>21, <2>29 DEF Within, Keeps, Extends, Grows
  <2>31. ASSUME Current(s, b)
         PROVE  /\ Current(t, c) /\ b.docs[n].balance = left + amount /\ c.docs[n].balance = left
                /\ (c.docs[n].status = "paid") = (left = 0)
    <3>1. b.docs[n] = old /\ \A i \in DOMAIN s.docs : s.docs[i] = b.docs[i]
      BY <2>3, <2>5, <2>31 DEF Current
    <3>2. d = new
      BY <2>7, <2>8, <3>1, WrittenCurrent
    <3>3. \A i \in DOMAIN t.docs : t.docs[i] = c.docs[i]
      <4>1. TAKE i \in DOMAIN t.docs
      <4>2. i \in DOMAIN s.docs /\ i \in DOMAIN b.docs
        BY <2>13, <2>21, <4>1 DEF Within
      <4>3. t.docs[i] = (IF i = n THEN new ELSE s.docs[i]) /\ c.docs[i] = IF i = n THEN d ELSE b.docs[i]
        BY <2>11, <2>13, <2>21, <2>26, <4>2
      <4>4. QED
        BY <3>1, <3>2, <4>2, <4>3
    <3>4. \A k \in DOMAIN t.entries : t.entries[k] = c.entries[k]
      BY <2>21, <2>26, <2>31 DEF Current
    <3>5. b.docs[n].balance = left + amount /\ c.docs[n].balance = left
      BY <2>7, <2>27, <2>28, <3>1, <3>2
    <3>6. (c.docs[n].status = "paid") = (left = 0)
      BY <2>7, <2>27, <2>28, <3>2
    <3>7. QED
      BY <3>3, <3>4, <3>5, <3>6 DEF Current
  <2>32. Goes(b, s, c, t)
    BY <2>29, <2>30, <2>31 DEF Goes
  <2>33. QED
    BY <2>23, <2>25, <2>32 DEF Leaves
<1>4. QED
  BY <1>2, <1>3

LEMMA NoteKeeps ==
  ASSUME NEW b, NEW s, GoodBooks(b), Within(s, b), NEW step \in Step, NEW kind \in Notes,
         step.call.tool = kind, NEW done, done = CreateNote(kind, step.call, b, s), done.outcome # "escaped"
  PROVE  Leaves(b, s, step, done)
<1>1. /\ b.notes \in Seq(Note) /\ BooksTyped(b) /\ step.call.on \in Nat /\ step.call.sound \in BOOLEAN
      /\ s \in SeenRows
  BY DEF GoodBooks, BooksTyped, Step, Call, Within
<1>2. PICK note : note = [kind |-> kind, on |-> step.call.on]
  OBVIOUS
<1>3. note \in Note /\ note.kind = kind
  BY <1>1, <1>2 DEF Note
<1> DEFINE taken == kind = "budget" /\ \E i \in DOMAIN b.notes : b.notes[i] = note
<1>4. step.call.sound => ~taken
  BY <1>1, <1>2 DEF CreateNote, Escaped
<1>5. CASE ~step.call.sound
  <2>1. done = Blocked(b, s)
    BY <1>5 DEF CreateNote
  <2>2. QED
    BY <2>1, BlockedLeaves
<1>6. CASE step.call.sound
  <2>1. PICK notes : notes = Append(b.notes, note)
    OBVIOUS
  <2>2. PICK a : a = [b EXCEPT !.notes = notes]
    OBVIOUS
  <2>3. notes \in Seq(Note)
    BY <1>1, <1>3, <2>1
  <2>4. /\ a.entries = b.entries /\ a.docs = b.docs /\ a.parties = b.parties
        /\ a.payments = b.payments /\ a.notes = notes /\ a.log = b.log /\ BooksTyped(a)
    BY <1>1, <2>2, <2>3 DEF BooksTyped
  <2>5. PICK n \in Nat : n = Len(b.notes) + 1
    BY <1>1
  <2>6. done.books = a /\ done.saw = s /\ done.outcome = "completed" /\ done.ref = n
        /\ "completed" \in Outcomes
    <3>1. done = Completed(a, s, n)
      BY <1>2, <1>4, <1>6, <2>1, <2>2, <2>5 DEF CreateNote
    <3>2. QED
      BY ONLY <3>1, CompletedIs
  <2>7. PICK x : RowOf(x, step, "completed", n) /\ LogsTo(a, Logged(a, step, "completed", n), x)
    BY <2>4, <2>5, <2>6, LoggedIs
  <2>8. PICK c : c = Logged(a, step, "completed", n)
    OBVIOUS
  <2>9. /\ Added(b, c, x) /\ c.notes = Append(b.notes, note)
        /\ c.entries = b.entries /\ c.docs = b.docs /\ c.payments = b.payments /\ c.parties = b.parties
        /\ x.tool = note.kind /\ x.outcome = "completed" /\ x.ref = Len(b.notes) + 1
    BY <1>3, <2>1, <2>4, <2>5, <2>7, <2>8 DEF LogsTo, RowOf, Added
  <2>10. Keeps(b, c) /\ (ExactBooks(b) => ExactBooks(c))
    BY ONLY <1>3, <2>9, NoteMade
  <2>11. Goes(b, s, c, s)
    BY <1>1, <2>9, <2>10, GoesBeside
  <2>12. QED
    BY <2>6, <2>8, <2>11 DEF Leaves
<1>7. QED
  BY <1>1, <1>5, <1>6

-----------------------------------------------------------------------------
(* A turn keeps the books as long as it goes on.                           *)

LEMMA GoesTwice ==
  ASSUME NEW a, NEW b, NEW c, NEW s, NEW t, NEW u, Goes(a, s, b, t), Goes(b, t, c, u)
  PROVE  Goes(a, s, c, u)
<1>1. Extends(a, c)
  BY DEF Goes, Keeps, Extends, Grows
<1>2. QED
  BY <1>1 DEF Goes, Keeps

LEMMA RunKeeps ==
  ASSUME NEW b, NEW s, GoodBooks(b), Within(s, b), NEW step \in Step, ~Forbidden(step.call),
         step.call.tool \in Sensitive => step.sure,
         NEW done, done = Run(step.call, b, s), done.outcome # "escaped"
  PROVE  Leaves(b, s, step, done)
<1>1. step.call.tool \in {"draft", "post", "invoice", "bill", "pay_invoice", "pay_bill", "read", "explain"}
                         \cup Notes
  BY DEF Step, Call, Tools, Forbidden
<1>2. CASE step.call.tool = "draft"
  <2>1. done = CreateDraft(step.call, b, s)
    BY <1>2 DEF Run, Notes
  <2>2. QED
    BY <1>2, <2>1, DraftKeeps
<1>3. CASE step.call.tool = "post"
  <2>1. done = PostEntry(step.call, b, s)
    BY <1>3 DEF Run, Notes
  <2>2. step.sure
    BY <1>3 DEF Sensitive
  <2>3. QED
    BY <1>3, <2>1, <2>2, PostKeeps
<1>4. CASE step.call.tool = "invoice"
  <2>1. done = CreateDocument("invoice", step.call, b, s)
    BY <1>4 DEF Run, Notes
  <2>2. step.sure
    BY <1>4 DEF Sensitive
  <2>3. QED
    BY <1>4, <2>1, <2>2, DocumentKeeps
<1>5. CASE step.call.tool = "bill"
  <2>1. done = CreateDocument("bill", step.call, b, s)
    BY <1>5 DEF Run, Notes
  <2>2. QED
    BY <1>5, <2>1, DocumentKeeps
<1>6. CASE step.call.tool = "pay_invoice"
  <2>1. done = PayDocument("invoice", step.call, b, s)
    BY <1>6 DEF Run, Notes
  <2>2. step.sure
    BY <1>6 DEF Sensitive
  <2>3. QED
    BY <1>6, <2>1, <2>2, PayKeeps
<1>7. CASE step.call.tool = "pay_bill"
  <2>1. done = PayDocument("bill", step.call, b, s)
    BY <1>7 DEF Run, Notes
  <2>2. step.sure
    BY <1>7 DEF Sensitive
  <2>3. QED
    BY <1>7, <2>1, <2>2, PayKeeps
<1>8. CASE step.call.tool = "read"
  <2>1. done = Completed(b, s, 0)
    BY <1>8 DEF Run, ReadReport, Notes
  <2>2. done.books = b /\ done.saw = s /\ done.outcome = "completed" /\ done.ref = 0
        /\ "completed" \in Outcomes
    BY <2>1, CompletedIs
  <2>3. QED
    BY <1>8, <2>2, UnchangedKeeps DEF Leaves
<1>9. CASE step.call.tool = "explain"
  BY <1>9 DEF Run, ExplainTransaction, Escaped, Notes
<1>10. CASE step.call.tool \in Notes
  <2>1. done = CreateNote(step.call.tool, step.call, b, s)
    BY <1>10 DEF Run, Notes
  <2>2. QED
    BY <1>10, <2>1, NoteKeeps
<1>11. QED
  BY <1>1, <1>2, <1>3, <1>4, <1>5, <1>6, <1>7, <1>8, <1>9, <1>10

(* t: what a turn that has read s, of the books b, has made of them. *)
TurnKeeps(b, s, t) == /\ t \in [books : {t.books}, saw : {t.saw}, going : BOOLEAN]
                      /\ t.going => Goes(b, s, t.books, t.saw)

LEMMA ExecuteKeeps ==
  ASSUME NEW b, NEW s, NEW t, TurnKeeps(b, s, t), NEW step \in Step
  PROVE  TurnKeeps(b, s, Execute(step, t))
<1> DEFINE needs == step.call.tool \in Sensitive /\ ~step.sure
<1>1. PICK done : done = Run(step.call, t.books, t.saw)
  OBVIOUS
<1>2. CASE ~t.going
  BY <1>2 DEF Execute
<1>3. CASE t.going
  <2>1. /\ GoodBooks(t.books) /\ Within(t.saw, t.books) /\ Goes(b, s, t.books, t.saw)
        /\ t \in [books : {t.books}, saw : {t.saw}, going : BOOLEAN]
    BY <1>3 DEF TurnKeeps, Goes, Keeps
  <2>2. ASSUME NEW c, NEW u, Goes(t.books, t.saw, c, u) PROVE Goes(b, s, c, u)
    BY <2>1, <2>2, GoesTwice
  <2>3. ASSUME NEW outcome \in {"blocked", "confirmation_required"},
               Execute(step, t) = [t EXCEPT !.books = Logged(@, step, outcome, 0)]
        PROVE  TurnKeeps(b, s, Execute(step, t))
    <3>1. outcome \in Outcomes /\ outcome # "completed"
      BY DEF Outcomes
    <3>2. Goes(t.books, t.saw, Logged(t.books, step, outcome, 0), t.saw)
      BY <2>1, <3>1, UnchangedKeeps
    <3>3. PICK c : c = Logged(t.books, step, outcome, 0)
      OBVIOUS
    <3>4. Execute(step, t) = [t EXCEPT !.books = c]
      BY <2>3, <3>3
    <3>5. Goes(b, s, c, t.saw)
      BY <2>2, <3>2, <3>3
    <3>6. QED
      BY <2>1, <3>4, <3>5 DEF TurnKeeps
  <2>4. CASE Forbidden(step.call)
    BY <1>3, <2>3, <2>4 DEF Execute
  <2>5. CASE ~Forbidden(step.call) /\ needs
    BY <1>3, <2>3, <2>5 DEF Execute
  <2>6. CASE ~Forbidden(step.call) /\ ~needs
    <3>1. PICK c : c = Logged(done.books, step, done.outcome, done.ref)
      OBVIOUS
    <3>2. PICK u : u = done.saw
      OBVIOUS
    <3>3. Execute(step, t) = [books |-> c, saw |-> u, going |-> done.outcome # "escaped"]
      BY <1>1, <1>3, <2>6, <3>1, <3>2 DEF Execute
    <3>4. done.outcome # "escaped" => Goes(t.books, t.saw, c, u)
      <4>1. step.call.tool \in Sensitive => step.sure
        BY <2>6 DEF Step
      <4>2. done.outcome # "escaped" => Leaves(t.books, t.saw, step, done)
        BY <1>1, <2>1, <2>6, <4>1, RunKeeps
      <4>3. QED
        BY <3>1, <3>2, <4>2 DEF Leaves
    <3>5. PICK on \in BOOLEAN : on = (done.outcome # "escaped")
      OBVIOUS
    <3>6. on => Goes(b, s, c, u)
      BY <2>2, <3>4, <3>5
    <3>7. Execute(step, t) = [books |-> c, saw |-> u, going |-> on]
      BY <3>3, <3>5
    <3>8. TurnKeeps(b, s, [books |-> c, saw |-> u, going |-> on])
      BY <3>6 DEF TurnKeeps
    <3>9. QED
      BY <3>7, <3>8
  <2>7. QED
    BY <2>4, <2>5, <2>6
<1>4. QED
  BY <1>2, <1>3 DEF TurnKeeps

(* t0: the turn before its first call. *)
TurnsTo(t, steps, t0, n) ==
  t = [k \in 0..n |-> IF k = 0 THEN t0 ELSE Execute(steps[k], t[k - 1])]

LEMMA TurnIs ==
  ASSUME NEW steps, NEW s
  PROVE  Turn(steps, s) = (CHOOSE t : TurnsTo(t, steps, [books |-> books, saw |-> s, going |-> TRUE],
                                              Len(steps)))[Len(steps)]
BY DEF Turn, TurnsTo

LEMMA TurnsAt ==
  ASSUME NEW t, NEW steps, NEW t0, NEW n \in Nat, TurnsTo(t, steps, t0, n)
  PROVE  /\ t[0] = t0
         /\ \A k \in 1..n : t[k] = Execute(steps[k], t[k - 1])
<1>1. t = [k \in 0..n |-> IF k = 0 THEN t0 ELSE Execute(steps[k], t[k - 1])]
  BY DEF TurnsTo
<1>2. 0 \in 0..n /\ \A k \in 1..n : k \in 0..n /\ k # 0
  OBVIOUS
<1>3. QED
  BY <1>1, <1>2

LEMMA TurnsExist ==
  ASSUME NEW steps, NEW t0, NEW n \in Nat
  PROVE  \E t : TurnsTo(t, steps, t0, n)
<1> DEFINE Bad == {k \in Nat : ~ \E t : TurnsTo(t, steps, t0, k)}
<1>1. SUFFICES ASSUME Bad # {} PROVE FALSE
  OBVIOUS
<1>2. PICK k \in Bad : \A m \in Bad : k <= m
  BY <1>1, LeastNat
<1>3. k \in Nat
  OBVIOUS
<1>4. CASE k = 0
  <2> DEFINE s == [j \in 0..0 |-> t0]
  <2>1. s = [j \in 0..0 |-> IF j = 0 THEN t0 ELSE Execute(steps[j], s[j - 1])]
    OBVIOUS
  <2> HIDE DEF s
  <2>2. TurnsTo(s, steps, t0, k)
    BY <1>4, <2>1 DEF TurnsTo
  <2>3. QED
    BY <2>2
<1>5. CASE k # 0
  <2>1. k - 1 \in Nat /\ k - 1 \notin Bad
    BY <1>2, <1>3, <1>5
  <2>2. PICK u : TurnsTo(u, steps, t0, k - 1)
    BY <2>1
  <2>3. /\ u[0] = t0
        /\ \A j \in 1..(k - 1) : u[j] = Execute(steps[j], u[j - 1])
    BY <2>1, <2>2, TurnsAt
  <2> DEFINE s == [j \in 0..k |-> IF j <= k - 1 THEN u[j] ELSE Execute(steps[k], u[k - 1])]
  <2>4. \A j \in 0..(k - 1) : s[j] = u[j]
    BY <1>3
  <2>5. \A j \in 0..k : s[j] = IF j = 0 THEN t0 ELSE Execute(steps[j], s[j - 1])
    <3>1. TAKE j \in 0..k
    <3>2. CASE j = 0
      BY <1>3, <1>5, <2>3, <2>4, <3>2
    <3>3. CASE j \in 1..(k - 1)
      <4>1. j - 1 \in 0..(k - 1) /\ j \in 0..(k - 1) /\ j # 0
        BY <1>3, <3>3
      <4>2. s[j] = u[j] /\ s[j - 1] = u[j - 1]
        BY <2>4, <4>1
      <4> HIDE DEF s
      <4>3. QED
        BY <2>3, <3>3, <4>1, <4>2
    <3>4. CASE j = k
      <4>1. j - 1 \in 0..(k - 1) /\ j # 0
        BY <1>3, <1>5, <3>4
      <4>2. s[j] = Execute(steps[k], u[k - 1]) /\ s[j - 1] = u[k - 1]
        BY <1>3, <2>4, <3>4, <4>1
      <4> HIDE DEF s
      <4>3. QED
        BY <3>4, <4>1, <4>2
    <3>5. QED
      BY <1>3, <3>2, <3>3, <3>4
  <2>6. s = [j \in 0..k |-> s[j]]
    OBVIOUS
  <2> HIDE DEF s
  <2>7. s = [j \in 0..k |-> IF j = 0 THEN t0 ELSE Execute(steps[j], s[j - 1])]
    BY <2>5, <2>6
  <2>8. TurnsTo(s, steps, t0, k)
    BY <2>7 DEF TurnsTo
  <2>9. QED
    BY <2>8
<1>6. QED
  BY <1>4, <1>5

LEMMA TurnDoes ==
  ASSUME GoodBooks(books), NEW s, Within(s, books), NEW steps \in Seq(Step)
  PROVE  TurnKeeps(books, s, Turn(steps, s))
<1> DEFINE n == Len(steps)
           t0 == [books |-> books, saw |-> s, going |-> TRUE]
<1>1. n \in Nat /\ \A k \in 1..n : steps[k] \in Step
  OBVIOUS
<1>2. Turn(steps, s) = (CHOOSE u : TurnsTo(u, steps, t0, n))[n]
  BY TurnIs
<1>3. TurnKeeps(books, s, t0)
  <2>1. Goes(books, s, books, s)
    BY DEF Goes, Keeps, Extends, Grows
  <2>2. QED
    BY <2>1 DEF TurnKeeps
<1> HIDE DEF n, t0
<1>4. PICK t : t = (CHOOSE u : TurnsTo(u, steps, t0, n)) /\ TurnsTo(t, steps, t0, n)
  BY <1>1, TurnsExist
<1>5. t[0] = t0 /\ \A k \in 1..n : t[k] = Execute(steps[k], t[k - 1])
  BY <1>1, <1>4, TurnsAt
<1>6. \A k \in 0..n : TurnKeeps(books, s, t[k])
  <2> DEFINE Bad == {k \in 0..n : ~TurnKeeps(books, s, t[k])}
  <2>1. SUFFICES ASSUME Bad # {} PROVE FALSE
    OBVIOUS
  <2>2. PICK k \in Bad : \A j \in Bad : k <= j
    <3>1. Bad \in SUBSET Nat
      BY <1>1
    <3> HIDE DEF Bad
    <3>2. QED
      BY <2>1, <3>1, LeastNat
  <2>3. k # 0 /\ k \in 1..n /\ k - 1 \in 0..n
    BY <1>1, <1>3, <1>5
  <2>4. TurnKeeps(books, s, t[k - 1])
    BY <2>2, <2>3
  <2>5. steps[k] \in Step
    BY <1>1, <2>3
  <2>6. TurnKeeps(books, s, Execute(steps[k], t[k - 1]))
    BY <2>4, <2>5, ExecuteKeeps
  <2>7. QED
    BY <1>5, <2>3, <2>6
<1>7. QED
  BY <1>1, <1>2, <1>4, <1>6

LEMMA StepsTyped ==
  ASSUME NEW turn \in Turns
  PROVE  Steps(turn) \in Seq(Step)
<1>1. turn.confirmed \in Seq(Call) /\ turn.planned \in Seq(Call)
  BY AgentAssumption
<1> DEFINE sure == [i \in DOMAIN turn.confirmed |-> [call |-> turn.confirmed[i], sure |-> TRUE]]
           unsure == [i \in DOMAIN turn.planned |-> [call |-> turn.planned[i], sure |-> FALSE]]
<1>2. ASSUME NEW calls \in Seq(Call), NEW said \in BOOLEAN
      PROVE  [i \in DOMAIN calls |-> [call |-> calls[i], sure |-> said]] \in Seq(Step)
  <2>1. \A i \in 1..Len(calls) : [call |-> calls[i], sure |-> said] \in Step
    BY DEF Step
  <2>2. DOMAIN calls = 1..Len(calls) /\ Len(calls) \in Nat
    OBVIOUS
  <2>3. PICK m \in Nat : m = Len(calls)
    BY <2>2
  <2>4. [i \in 1..m |-> [call |-> calls[i], sure |-> said]] \in [1..m -> Step]
    BY <2>1, <2>3
  <2>5. [i \in 1..m |-> [call |-> calls[i], sure |-> said]] \in Seq(Step)
    BY <2>3, <2>4, SeqDef
  <2>6. QED
    BY <2>2, <2>3, <2>5
<1>3. sure \in Seq(Step) /\ unsure \in Seq(Step)
  BY <1>1, <1>2
<1> HIDE DEF sure, unsure
<1>4. sure \o unsure \in Seq(Step)
  BY <1>3
<1>5. QED
  BY <1>4 DEF Steps, sure, unsure

(* What a turn commits, of a client that has read what it needs. *)
LEMMA ChattedKeeps ==
  ASSUME GoodBooks(books), NEW c \in Clients, Within(saw[c], books),
         NEW turn \in Turns, Chatted(c, Steps(turn))
  PROVE  /\ Keeps(books, books')
         /\ ExactBooks(books) /\ Current(saw[c], books) => ExactBooks(books')
<1>1. TurnKeeps(books, saw[c], Turn(Steps(turn), saw[c]))
  BY StepsTyped, TurnDoes
<1>2. PICK t : t = Turn(Steps(turn), saw[c])
  OBVIOUS
<1>3. t.going /\ books' = t.books
  BY <1>2 DEF Chatted
<1>4. Goes(books, saw[c], books', t.saw)
  BY <1>1, <1>2, <1>3 DEF TurnKeeps
<1>5. QED
  BY <1>4 DEF Goes

-----------------------------------------------------------------------------
(* What else changes the books: users who post, and Telegram's drafts.     *)

LEMMA UserPostsKeep ==
  ASSUME GoodBooks(books), NEW c \in Clients, Founded(req[c], books), UserPosts(c)
  PROVE  /\ Keeps(books, books')
         /\ ExactBooks(books) /\ Unposted(req[c], books) => ExactBooks(books')
<1>1. books.entries \in Seq(Entry) /\ books.docs \in Seq(Doc) /\ BooksTyped(books)
  BY DEF GoodBooks, BooksTyped
<1>2. CASE req[c].op = "entry" /\ books' = [books EXCEPT !.entries[req[c].on].poster = "user"]
  <2>1. PICK k : k = req[c].on
    OBVIOUS
  <2>2. k \in DOMAIN books.entries
    BY <1>2, <2>1 DEF Founded
  <2>3. PICK es : es = [books.entries EXCEPT ![k].poster = "user"]
    OBVIOUS
  <2>4. /\ es \in Seq(Entry) /\ DOMAIN es = DOMAIN books.entries
        /\ es[k].poster = "user" /\ es[k].origin = books.entries[k].origin
        /\ \A j \in DOMAIN books.entries : j # k => es[j] = books.entries[j]
    <3>1. PICK before \in Seq(Entry) : before = books.entries
      BY <1>1
    <3>2. k \in DOMAIN before /\ es = [before EXCEPT ![k].poster = "user"] /\ "user" \in {"user", "agent"}
      BY <2>2, <2>3, <3>1
    <3>3. /\ es \in Seq(Entry) /\ DOMAIN es = DOMAIN before /\ es[k] = [before[k] EXCEPT !.poster = "user"]
          /\ \A j \in DOMAIN before : j # k => es[j] = before[j]
      BY ONLY <3>2, PosterChanged
    <3>4. before[k] \in Entry
      BY <3>2
    <3>5. es[k].poster = "user" /\ es[k].origin = before[k].origin
      BY <3>3, <3>4 DEF Entry
    <3>6. QED
      BY <3>1, <3>3, <3>5
  <2>5. books' = [books EXCEPT !.entries = es]
    BY <1>2, <2>1, <2>3
  <2>6. /\ books'.entries = es /\ books'.docs = books.docs /\ books'.parties = books.parties
        /\ books'.payments = books.payments /\ books'.notes = books.notes /\ books'.log = books.log
        /\ BooksTyped(books')
    BY <1>1, <2>4, <2>5 DEF BooksTyped
  <2>7. EntriesLogged(books')
    <3>1. EntriesLogged(books)
      BY DEF GoodBooks, Logs
    <3>2. ASSUME NEW j \in DOMAIN es
          PROVE  /\ IF es[j].origin = "agent" THEN OnceIn(books.log, {"draft"}, j)
                                              ELSE RowsIn(books.log, {"draft"}, j) = {}
                 /\ es[j].poster = "agent" => RowsIn(books.log, {"post"}, j) # {}
                 /\ es[j].poster = "nobody" => RowsIn(books.log, {"post"}, j) = {}
      <4>1. CASE j = k
        BY <2>2, <2>4, <3>1, <4>1 DEF EntriesLogged
      <4>2. CASE j # k
        BY <2>4, <3>1, <3>2, <4>2 DEF EntriesLogged
      <4>3. QED
        BY <4>1, <4>2
    <3>3. QED
      BY <2>6, <3>2 DEF EntriesLogged
  <2>8. DocsLogged(books') /\ PaymentsLogged(books') /\ NotesLogged(books') /\ PartiesLogged(books')
        /\ ConfirmedLogged(books') /\ RefsThere(books')
    BY <2>4, <2>6 DEF GoodBooks, Logs, DocsLogged, PaymentsLogged, NotesLogged, PartiesLogged,
                      ConfirmedLogged, RefsThere
  <2>9. Numbers(books')
    BY <2>6 DEF GoodBooks, Numbers
  <2>10. Extends(books, books')
    BY <2>4, <2>6 DEF Extends, Grows
  <2>11. ASSUME ExactBooks(books), Unposted(req[c], books) PROVE ExactBooks(books')
    <3>1. PostsOnce(books) /\ books.entries[k].poster = "nobody"
      BY <1>2, <2>1, <2>11 DEF ExactBooks, Unposted
    <3>2. PostsOnce(books')
      BY <2>2, <2>4, <2>6, <3>1 DEF PostsOnce
    <3>3. QED
      BY <2>6, <2>11, <3>2 DEF ExactBooks, Settles
  <2>12. QED
    BY <2>6, <2>7, <2>8, <2>9, <2>10, <2>11 DEF Keeps, GoodBooks, Logs
<1>3. CASE req[c].op = "document" /\ books' = [books EXCEPT !.docs[req[c].on].status = "posted"]
  <2>1. PICK i : i = req[c].on
    OBVIOUS
  <2>2. i \in DOMAIN books.docs
    BY <1>3, <2>1 DEF Founded
  <2>3. PICK d : d = [books.docs[i] EXCEPT !.status = "posted"]
    OBVIOUS
  <2>4. books.docs[i] \in Doc
    BY <1>1, <2>2
  <2>5. d \in Doc /\ d.kind = books.docs[i].kind /\ d.party = books.docs[i].party
        /\ d.day = books.docs[i].day /\ d.balance = books.docs[i].balance /\ d.status = "posted"
    BY <2>3, <2>4 DEF Doc
  <2>6. PICK ds : ds = [books.docs EXCEPT ![i] = d]
    OBVIOUS
  <2>7. ds \in Seq(Doc) /\ DOMAIN ds = DOMAIN books.docs
        /\ \A j \in DOMAIN books.docs : ds[j] = IF j = i THEN d ELSE books.docs[j]
    BY <1>1, <2>2, <2>5, <2>6
  <2>8. books' = [books EXCEPT !.docs = ds]
    BY <1>3, <2>1, <2>3, <2>6
  <2>9. /\ books'.entries = books.entries /\ books'.docs = ds /\ books'.parties = books.parties
        /\ books'.payments = books.payments /\ books'.notes = books.notes /\ books'.log = books.log
        /\ BooksTyped(books')
    BY <1>1, <2>7, <2>8 DEF BooksTyped
  <2>10. \A j \in DOMAIN ds : /\ ds[j].kind = books.docs[j].kind /\ ds[j].party = books.docs[j].party
                              /\ ds[j].day = books.docs[j].day /\ ds[j].balance = books.docs[j].balance
                              /\ j # i => ds[j].status = books.docs[j].status
    BY <2>5, <2>7
  <2>11. DocsLogged(books')
    BY <2>7, <2>9, <2>10 DEF GoodBooks, Logs, DocsLogged
  <2>12. EntriesLogged(books') /\ PaymentsLogged(books') /\ NotesLogged(books') /\ PartiesLogged(books')
         /\ ConfirmedLogged(books') /\ RefsThere(books')
    BY <2>7, <2>9 DEF GoodBooks, Logs, EntriesLogged, PaymentsLogged, NotesLogged, PartiesLogged,
                      ConfirmedLogged, RefsThere
  <2>13. Numbers(books')
    BY <2>7, <2>9, <2>10 DEF GoodBooks, Numbers
  <2>14. Extends(books, books')
    BY <2>7, <2>9 DEF Extends, Grows
  <2>15. ASSUME ExactBooks(books), Unposted(req[c], books) PROVE ExactBooks(books')
    <3>1. Settles(books) /\ books.docs[i].status = "draft"
      BY <1>3, <2>1, <2>15 DEF ExactBooks, Unposted
    <3>2. \A j \in DOMAIN ds : (ds[j].status = "paid") = (books.docs[j].status = "paid")
      BY <2>5, <2>7, <2>10, <3>1
    <3>3. Settles(books')
      BY <2>7, <2>9, <2>10, <3>1, <3>2 DEF Settles
    <3>4. PostsOnce(books')
      BY <2>9, <2>15 DEF ExactBooks, PostsOnce
    <3>5. QED
      BY <3>3, <3>4 DEF ExactBooks
  <2>16. QED
    BY <2>9, <2>11, <2>12, <2>13, <2>14, <2>15 DEF Keeps, GoodBooks, Logs
<1>4. QED
  BY <1>2, <1>3 DEF UserPosts

LEMMA TelegramDrafts ==
  ASSUME NEW b, GoodBooks(b), NEW c, c = Drafted(b, "telegram")
  PROVE  /\ GoodBooks(c) /\ Grows(b, c) /\ (ExactBooks(b) => ExactBooks(c))
         /\ DOMAIN c.entries = DOMAIN b.entries \cup {Len(b.entries) + 1}
         /\ Len(b.entries) + 1 \notin DOMAIN b.entries
         /\ c.entries[Len(b.entries) + 1].origin = "telegram"
         /\ \A k \in DOMAIN b.entries : c.entries[k].origin = b.entries[k].origin
<1> DEFINE n == Len(b.entries)
<1>1. b.entries \in Seq(Entry) /\ BooksTyped(b)
  BY DEF GoodBooks, BooksTyped
<1>2. PICK e : e = [origin |-> "telegram", poster |-> "nobody"]
  OBVIOUS
<1>3. e \in Entry /\ e.origin = "telegram" /\ e.poster = "nobody"
  BY <1>2 DEF Entry
<1>4. PICK es : es = Append(b.entries, e)
  OBVIOUS
<1>5. /\ n \in Nat /\ DOMAIN b.entries = 1..n /\ DOMAIN es = 1..(n + 1) /\ es \in Seq(Entry)
      /\ \A k \in 1..n : es[k] = b.entries[k]
      /\ es[n + 1] = e
  BY <1>1, <1>3, <1>4, AppendProperties
<1>6. c = [b EXCEPT !.entries = es]
  BY <1>2, <1>4 DEF Drafted
<1>7. /\ c.entries = es /\ c.docs = b.docs /\ c.parties = b.parties
      /\ c.payments = b.payments /\ c.notes = b.notes /\ c.log = b.log /\ BooksTyped(c)
  BY <1>1, <1>5, <1>6 DEF BooksTyped
<1>8. RowsIn(b.log, {"draft"}, n + 1) = {} /\ RowsIn(b.log, {"post"}, n + 1) = {}
  BY NoRowsYet
<1> HIDE DEF n
<1>9. \A k \in DOMAIN c.entries : k \in 1..n \/ k = n + 1
  BY <1>5, <1>7
<1>10. EntriesLogged(c)
  <2>1. EntriesLogged(b)
    BY DEF GoodBooks, Logs
  <2>2. QED
    BY <1>3, <1>5, <1>7, <1>8, <1>9, <2>1 DEF EntriesLogged
<1>11. DocsLogged(c) /\ PaymentsLogged(c) /\ NotesLogged(c) /\ PartiesLogged(c) /\ ConfirmedLogged(c)
  BY <1>7 DEF GoodBooks, Logs, DocsLogged, PaymentsLogged, NotesLogged, PartiesLogged, ConfirmedLogged
<1>12. Grows(b, c)
  BY <1>5, <1>7 DEF Grows
<1>13. RefsThere(c)
  BY <1>7, <1>12 DEF GoodBooks, Logs, RefsThere, Grows
<1>14. Numbers(c)
  BY <1>7 DEF GoodBooks, Numbers
<1>15. ASSUME ExactBooks(b) PROVE ExactBooks(c)
  <2>1. PostsOnce(c)
    BY <1>3, <1>5, <1>7, <1>8, <1>9, <1>15 DEF ExactBooks, PostsOnce
  <2>2. QED
    BY <1>7, <1>15, <2>1 DEF ExactBooks, Settles
<1>16. GoodBooks(c)
  BY <1>7, <1>10, <1>11, <1>13, <1>14 DEF GoodBooks, Logs
<1>17. /\ DOMAIN c.entries = DOMAIN b.entries \cup {n + 1}
       /\ n + 1 \notin DOMAIN b.entries
       /\ c.entries[n + 1].origin = "telegram"
       /\ \A k \in DOMAIN b.entries : c.entries[k].origin = b.entries[k].origin
  BY <1>3, <1>5, <1>7
<1>18. QED
  BY <1>12, <1>15, <1>16, <1>17 DEF n

LEMMA NoBooksGood == GoodBooks(NoBooks) /\ ExactBooks(NoBooks)
<1>1. DOMAIN EmptyBag = {} /\ IsABag(EmptyBag) /\ BagToSet(EmptyBag) = {}
  BY DEF EmptyBag, SetToBag, IsABag, BagToSet
<1>2. /\ <<>> \in Seq(Entry) /\ <<>> \in Seq(Doc) /\ <<>> \in Seq([doc : Nat, amount : Nat])
      /\ <<>> \in Seq(Note) /\ DOMAIN <<>> = {}
  OBVIOUS
<1>3. /\ NoBooks.entries = <<>> /\ NoBooks.docs = <<>> /\ NoBooks.parties = {}
      /\ NoBooks.payments = <<>> /\ NoBooks.notes = <<>> /\ NoBooks.log = EmptyBag
  BY DEF NoBooks
<1>4. BooksTyped(NoBooks)
  BY <1>1, <1>2 DEF BooksTyped, NoBooks
<1>5. Logs(NoBooks)
  BY <1>1, <1>2, <1>3
     DEF Logs, EntriesLogged, DocsLogged, PaymentsLogged, NotesLogged, PartiesLogged, ConfirmedLogged,
         RefsThere
<1>6. Numbers(NoBooks) /\ ExactBooks(NoBooks)
  BY <1>2, <1>3 DEF Numbers, ExactBooks, Settles, PostsOnce
<1>7. QED
  BY <1>4, <1>5, <1>6 DEF GoodBooks

(* Requests, the limits, and the row of the link.                          *)

MessageRequests == [op : {"message"}, does : {"draft", "ask", "reply"} \cup Modes,
                    phase : {"refused", "waits", "limited", "answered"}]

LEMMA Forms ==
  ASSUME NEW r \in Requests
  PROVE  /\ r # Idle => r.op \in {"chat", "message", "entry", "document"}
         /\ r = Idle => r.op = "idle"
         /\ r.op = "message" => r \in MessageRequests
BY DEF Requests, Idle, MessageRequests

LEMMA MessageTyped ==
  ASSUME NEW does \in {"draft", "ask", "reply"} \cup Modes,
         NEW phase \in {"refused", "waits", "limited", "answered"}
  PROVE  /\ Message(does, phase) \in MessageRequests /\ Message(does, phase) \in Requests
         /\ Message(does, phase) # Idle
         /\ Message(does, phase).op = "message"
         /\ Message(does, phase).does = does /\ Message(does, phase).phase = phase
BY DEF Message, MessageRequests, Requests, Idle

LEMMA ChatTyped == [op |-> "chat"] \in Requests /\ [op |-> "chat"] # Idle /\ [op |-> "chat"].op = "chat"
BY DEF Requests, Idle

LEMMA PostTyped ==
  ASSUME NEW what \in {"entry", "document"}, NEW k \in Nat
  PROVE  /\ [op |-> what, on |-> k] \in Requests /\ [op |-> what, on |-> k] # Idle
         /\ [op |-> what, on |-> k].op = what /\ [op |-> what, on |-> k].on = k
BY DEF Requests, Idle

LEMMA IdleTyped == Idle \in Requests /\ Idle.op = "idle"
BY DEF Requests, Idle

LEMMA HandlingTyped ==
  ASSUME NEW text, NEW mode \in Modes
  PROVE  Handling(text, mode) \in {"draft", "ask", "reply"} \cup Modes
BY DEF Handling, Modes

LEMMA SomeClients ==
  ASSUME NEW S \in SUBSET Clients
  PROVE  /\ IsFiniteSet(S) /\ Cardinality(S) \in Nat /\ Cardinality(Clients) \in Nat
         /\ Cardinality(S) <= Cardinality(Clients) /\ Cardinality(Clients) >= 1
<1>1. IsFiniteSet(Clients) /\ Clients # {}
  BY AgentAssumption
<1>2. IsFiniteSet(S) /\ Cardinality(S) <= Cardinality(Clients)
  BY <1>1, FS_Subset
<1>3. Cardinality(S) \in Nat /\ Cardinality(Clients) \in Nat
  BY <1>1, <1>2, FS_CardinalityType
<1>4. Cardinality(Clients) # 0
  BY <1>1, FS_EmptySet
<1>5. QED
  BY <1>2, <1>3, <1>4

(* Fewer, or one less. *)
LEMMA FewerOf ==
  ASSUME NEW S, IsFiniteSet(S), NEW T \in SUBSET S
  PROVE  /\ IsFiniteSet(T) /\ Cardinality(T) \in Nat /\ Cardinality(S) \in Nat
         /\ Cardinality(T) <= Cardinality(S)
         /\ \A x \in S : x \notin T => Cardinality(T) + 1 <= Cardinality(S)
<1>1. IsFiniteSet(T) /\ Cardinality(T) <= Cardinality(S)
  BY FS_Subset
<1>2. Cardinality(T) \in Nat /\ Cardinality(S) \in Nat
  BY <1>1, FS_CardinalityType
<1>3. ASSUME NEW x \in S, x \notin T PROVE Cardinality(T) + 1 <= Cardinality(S)
  <2>1. IsFiniteSet(S \ {x}) /\ Cardinality(S \ {x}) = Cardinality(S) - 1
    BY FS_RemoveElement
  <2>2. T \subseteq S \ {x}
    BY <1>3
  <2>3. Cardinality(T) <= Cardinality(S \ {x})
    BY <2>1, <2>2, FS_Subset
  <2>4. Cardinality(T) <= Cardinality(S) - 1
    BY <2>1, <2>3
  <2>5. QED
    BY <1>2, <2>4
<1>4. QED
  BY <1>1, <1>2, <1>3

LEMMA PromptsFewer ==
  ASSUME ReqInv, serial' = serial, prompts' \in Nat, Asking' \in SUBSET Asking,
         \/ prompts' <= prompts
         \/ prompts' <= prompts + 1 /\ \E c \in Asking : c \notin Asking'
  PROVE  PromptsLeft'
<1>1. Asking \in SUBSET Clients
  BY DEF Asking
<1>2. IsFiniteSet(Asking) /\ Cardinality(Clients) \in Nat
  BY <1>1, SomeClients
<1>3. /\ Cardinality(Asking') \in Nat /\ Cardinality(Asking) \in Nat
      /\ Cardinality(Asking') <= Cardinality(Asking)
      /\ \A x \in Asking : x \notin Asking' => Cardinality(Asking') + 1 <= Cardinality(Asking)
  BY <1>2, FewerOf
<1>4. prompts' + Cardinality(Asking') <= prompts + Cardinality(Asking)
  BY <1>3 DEF ReqInv
<1>5. PICK most : most = IF serial THEN Limit ELSE Limit + Cardinality(Clients) - 1
  OBVIOUS
<1>6. most \in Int
  BY <1>2, <1>5, AgentAssumption DEF ReqInv
<1>7. prompts + Cardinality(Asking) <= most
  BY <1>5 DEF ReqInv, PromptsLeft
<1>8. prompts' + Cardinality(Asking') <= most
  BY <1>3, <1>4, <1>6, <1>7 DEF ReqInv
<1>9. QED
  BY <1>5, <1>8 DEF PromptsLeft

(* A request ends. *)
LEMMA Ends ==
  ASSUME ReqInv, NEW c \in Clients, End(c), prompts' \in Nat,
         prompts' <= prompts \/ (prompts' <= prompts + 1 /\ c \in Asking)
  PROVE  /\ ReqInv' /\ Holders' \subseteq Holders \ {c}
         /\ \A d \in Clients : d # c => req'[d] = req[d]
<1>1. req \in [Clients -> Requests] /\ req' = [req EXCEPT ![c] = Idle] /\ serial' = serial
  BY DEF ReqInv, End
<1>2. /\ req' \in [Clients -> Requests] /\ req'[c] = Idle
      /\ \A d \in Clients : d # c => req'[d] = req[d]
  BY <1>1, IdleTyped
<1>3. Idle.op # "chat" /\ Idle.op # "message"
  BY IdleTyped
<1>4. OneRequest'
  BY <1>1, <1>2 DEF ReqInv, OneRequest
<1>5. Holders' \subseteq Holders \ {c}
  BY <1>2, <1>3 DEF Holders, Deliveries
<1>6. OneHolder'
  <2>1. \A d, e \in Holders : d = e
    BY DEF ReqInv, OneHolder
  <2>2. \A d, e \in Holders' : d = e
    BY <1>5, <2>1
  <2>3. QED
    BY <2>2 DEF OneHolder
<1>7. Asking' \in SUBSET (Asking \ {c})
  BY <1>2, <1>3 DEF Asking, Asks
<1>8. PromptsLeft'
  <2>1. Asking' \in SUBSET Asking /\ c \notin Asking'
    BY <1>7
  <2>2. QED
    BY <1>1, <2>1, PromptsFewer
<1>9. QED
  BY <1>1, <1>2, <1>4, <1>5, <1>6, <1>8 DEF ReqInv

(* A request begins, or goes on: that of client c becomes r. *)
Holds(r) == r.op = "message" /\ r.phase \in {"limited", "answered"}

LEMMA GoesOn ==
  ASSUME ReqInv, NEW c \in Clients, NEW r \in Requests, r # Idle, req' = [req EXCEPT ![c] = r],
         serial' = serial, prompts' = prompts,
         \A d \in Clients : serial /\ req[d] # Idle => d = c,
         Holds(r) => Holders = {},
         Asks(r) => prompts < Limit
  PROVE  /\ ReqInv'
         /\ Holders' \subseteq IF Holds(r) THEN {c} ELSE Holders
         /\ \A d \in Clients : req'[d] = IF d = c THEN r ELSE req[d]
<1>1. req \in [Clients -> Requests] /\ serial \in BOOLEAN /\ prompts \in Nat
  BY DEF ReqInv
<1>2. /\ req' \in [Clients -> Requests]
      /\ \A d \in Clients : req'[d] = IF d = c THEN r ELSE req[d]
  BY <1>1
<1>3. OneRequest'
  BY <1>2 DEF OneRequest
<1>4. Holders' \subseteq IF Holds(r) THEN {c} ELSE Holders
  <2>1. /\ \A d : d \in Holders <=> d \in Clients /\ Holds(req[d])
        /\ \A d : d \in Holders' <=> d \in Clients /\ Holds(req'[d])
    BY DEF Holders, Deliveries, Holds
  <2>2. QED
    BY <1>2, <2>1
<1>5. OneHolder'
  <2>1. \A d, e \in Holders : d = e
    BY DEF ReqInv, OneHolder
  <2>2. \A d, e \in Holders' : d = e
    BY <1>4, <2>1
  <2>3. QED
    BY <2>2 DEF OneHolder
<1>6. PromptsLeft'
  <2>1. CASE ~Asks(r)
    <3>1. Asking' \in SUBSET Asking
      BY <1>2, <2>1 DEF Asking
    <3>2. QED
      BY <1>1, <3>1, PromptsFewer
  <2>2. CASE Asks(r)
    <3>1. Asking' \in SUBSET Clients /\ prompts < Limit /\ Limit \in Nat
      BY <2>2, AgentAssumption DEF Asking
    <3>2. /\ Cardinality(Asking') \in Nat /\ Cardinality(Clients) \in Nat
          /\ Cardinality(Asking') <= Cardinality(Clients)
      BY <3>1, SomeClients
    <3>3. serial => Cardinality(Asking') <= 1
      <4>1. ASSUME serial PROVE Asking' \in SUBSET {c}
        <5>1. \A d \in Clients : d # c => req'[d] = Idle
          BY <1>2, <4>1
        <5>2. ~Asks(Idle)
          BY IdleTyped DEF Asks
        <5>3. QED
          BY <5>1, <5>2 DEF Asking
      <4>2. IsFiniteSet({c}) /\ Cardinality({c}) = 1
        BY FS_Singleton
      <4>3. QED
        BY <4>1, <4>2, FewerOf
    <3>4. prompts + Cardinality(Asking') <= IF serial THEN Limit ELSE Limit + Cardinality(Clients) - 1
      BY <1>1, <3>1, <3>2, <3>3
    <3>5. QED
      BY <3>4 DEF PromptsLeft
  <2>3. QED
    BY <2>1, <2>2
<1>7. QED
  BY <1>1, <1>2, <1>3, <1>4, <1>5, <1>6 DEF ReqInv

-----------------------------------------------------------------------------
(* Messages, the window, and the replies.                                  *)

LEMMA WindowFinite ==
  ASSUME RowsTyped
  PROVE  /\ IsFiniteSet(window) /\ Cardinality(window) \in Nat
         /\ IsFiniteSet(Processed) /\ Cardinality(Processed) \in Nat
         /\ Cardinality(Processed) <= Cardinality(window)
<1>1. Len(messages) \in Nat /\ window \subseteq 1..Len(messages)
  BY DEF RowsTyped
<1>2. IsFiniteSet(1..Len(messages))
  BY <1>1, FS_Interval
<1>3. IsFiniteSet(window)
  BY <1>1, <1>2, FS_Subset
<1>4. Processed \in SUBSET window
  BY DEF Processed
<1>5. QED
  BY <1>3, <1>4, FewerOf

LEMMA RecordedIs ==
  ASSUME RowsTyped, NEW status \in {"processed", "rejected", "rate_limited"}, NEW n \in Nat,
         Recorded(status, n)
  PROVE  /\ messages' \in Seq(Row) /\ Len(messages) + 1 \in Nat
         /\ DOMAIN messages' = DOMAIN messages \cup {Len(messages) + 1}
         /\ Len(messages) + 1 \notin DOMAIN messages
         /\ messages'[Len(messages) + 1].status = status /\ messages'[Len(messages) + 1].entry = n
         /\ \A m \in DOMAIN messages : messages'[m] = messages[m]
<1>1. PICK row : row = [status |-> status, entry |-> n]
  OBVIOUS
<1>2. row \in Row /\ row.status = status /\ row.entry = n
  BY <1>1 DEF Row
<1>3. messages \in Seq(Row) /\ messages' = Append(messages, row)
  BY <1>1 DEF RowsTyped, Recorded
<1>4. QED
  BY <1>2, <1>3, AppendProperties

(* A deliverer that holds nothing more leaves the room as it is. *)
LEMMA RoomStays ==
  ASSUME RowsTyped, RoomHeld, window' \in SUBSET window,
         \A d \in Holders' : d \in Holders /\ req'[d] = req[d]
  PROVE  RoomHeld'
<1>1. IsFiniteSet(window)
  BY WindowFinite
<1>2. Cardinality(window') <= Cardinality(window) /\ Cardinality(window') \in Nat /\ Cardinality(window) \in Nat
  BY <1>1, FewerOf
<1>3. MaxInbound \in Nat
  BY TelegramAssumption
<1>4. ASSUME NEW d \in Holders', req'[d].phase = "answered"
      PROVE  Cardinality(window') + 1 <= MaxInbound
  <2>1. d \in Holders /\ req[d].phase = "answered"
    BY <1>4
  <2>2. Cardinality(window) + 1 <= MaxInbound
    BY <2>1 DEF RoomHeld
  <2>3. QED
    BY <1>2, <1>3, <2>2
<1>5. QED
  BY <1>4 DEF RoomHeld

LEMMA WindowShrinks ==
  ASSUME RowsTyped, WindowKept, messages' = messages, window' \in SUBSET window
  PROVE  WindowKept'
<1>1. IsFiniteSet(Processed)
  BY WindowFinite
<1>2. Processed' \in SUBSET Processed
  BY DEF Processed
<1>3. /\ Cardinality(Processed') <= Cardinality(Processed)
      /\ Cardinality(Processed') \in Nat /\ Cardinality(Processed) \in Nat
  BY <1>1, <1>2, FewerOf
<1>4. MaxInbound \in Nat
  BY TelegramAssumption
<1>5. QED
  BY <1>3, <1>4 DEF WindowKept

LEMMA WindowGrows ==
  ASSUME RowsTyped, WindowKept, NEW status \in {"processed", "rate_limited"}, NEW n \in Nat,
         Recorded(status, n), Counted,
         status = "processed" => Cardinality(window) + 1 <= MaxInbound
  PROVE  WindowKept'
<1>1. /\ DOMAIN messages' = DOMAIN messages \cup {Len(messages) + 1}
      /\ Len(messages) + 1 \notin DOMAIN messages
      /\ messages'[Len(messages) + 1].status = status
      /\ \A m \in DOMAIN messages : messages'[m] = messages[m]
  BY RecordedIs
<1>2. PICK k : k = Len(messages) + 1
  OBVIOUS
<1>3. window' = window \cup {k} /\ window \subseteq DOMAIN messages /\ k \notin window
  BY <1>1, <1>2 DEF Counted, RowsTyped
<1>4. /\ \A m \in window : messages'[m] = messages[m]
      /\ messages'[k].status = status
  BY <1>1, <1>2, <1>3
<1>5. \A m \in window' : messages'[m].status # "rejected"
  BY <1>3, <1>4 DEF WindowKept
<1>6. /\ IsFiniteSet(window) /\ Cardinality(window) \in Nat
      /\ IsFiniteSet(Processed) /\ Cardinality(Processed) \in Nat
      /\ Cardinality(Processed) <= Cardinality(window)
  BY WindowFinite
<1>7. MaxInbound \in Nat
  BY TelegramAssumption
<1>8. Cardinality(Processed') <= MaxInbound
  <2>1. CASE status = "processed"
    <3>1. Processed' = Processed \cup {k} /\ k \notin Processed
      BY <1>3, <1>4, <2>1 DEF Processed
    <3>2. Cardinality(Processed') = Cardinality(Processed) + 1
      BY <1>6, <3>1, FS_AddElement
    <3>3. QED
      BY <1>6, <1>7, <2>1, <3>2
  <2>2. CASE status = "rate_limited"
    <3>1. Processed' = Processed
      BY <1>3, <1>4, <2>2 DEF Processed
    <3>2. QED
      BY <3>1 DEF WindowKept
  <2>3. QED
    BY <2>1, <2>2
<1>9. QED
  BY <1>5, <1>8 DEF WindowKept

LEMMA RepliesSame ==
  ASSUME RepliesTrue, messages' = messages, Extends(books, books')
  PROVE  RepliesTrue'
<1>1. \A k \in DOMAIN books'.entries : books'.entries[k].origin = "telegram" =>
        k \in DOMAIN books.entries /\ books.entries[k].origin = "telegram"
  BY DEF Extends
<1>2. \A k \in DOMAIN books.entries :
        k \in DOMAIN books'.entries /\ books'.entries[k].origin = books.entries[k].origin
  BY DEF Extends, Grows
<1>3. QED
  BY <1>1, <1>2 DEF RepliesTrue

(* A reply that names no entry. *)
LEMMA RepliesName0 ==
  ASSUME RowsTyped, GoodBooks(books), RepliesTrue,
         NEW status \in {"processed", "rejected", "rate_limited"},
         Recorded(status, 0), Extends(books, books')
  PROVE  RepliesTrue'
<1>1. PICK j : j = Len(messages) + 1
  OBVIOUS
<1>2. /\ DOMAIN messages' = DOMAIN messages \cup {j} /\ j \notin DOMAIN messages
      /\ messages'[j].entry = 0
      /\ \A m \in DOMAIN messages : messages'[m] = messages[m]
  BY <1>1, RecordedIs
<1>3. books.entries \in Seq(Entry)
  BY DEF GoodBooks, BooksTyped
<1>4. \A k \in DOMAIN books.entries : k # 0
  BY <1>3
<1>5. \A k \in DOMAIN books'.entries : books'.entries[k].origin = "telegram" =>
        k \in DOMAIN books.entries /\ books.entries[k].origin = "telegram"
  BY DEF Extends
<1>6. \A k \in DOMAIN books.entries :
        k \in DOMAIN books'.entries /\ books'.entries[k].origin = books.entries[k].origin
  BY DEF Extends, Grows
<1>7. \A k \in DOMAIN books.entries :
        {m \in DOMAIN messages' : messages'[m].entry = k} = {m \in DOMAIN messages : messages[m].entry = k}
  BY <1>2, <1>4
<1>8. \A k \in DOMAIN books'.entries : books'.entries[k].origin = "telegram" =>
        Cardinality({m \in DOMAIN messages' : messages'[m].entry = k}) = 1
  BY <1>5, <1>7 DEF RepliesTrue
<1>9. \A m \in DOMAIN messages' : messages'[m].entry # 0 =>
        /\ messages'[m].status = "processed"
        /\ messages'[m].entry \in DOMAIN books'.entries
        /\ books'.entries[messages'[m].entry].origin = "telegram"
  BY <1>2, <1>6 DEF RepliesTrue
<1>10. QED
  BY <1>8, <1>9 DEF RepliesTrue

(* A reply that names the entry it drafted. *)
LEMMA RepliesNameIt ==
  ASSUME RowsTyped, GoodBooks(books), RepliesTrue, books' = Drafted(books, "telegram"),
         Recorded("processed", Len(books.entries) + 1)
  PROVE  RepliesTrue'
<1>1. books.entries \in Seq(Entry)
  BY DEF GoodBooks, BooksTyped
<1>2. PICK n \in Nat : n = Len(books.entries) + 1
  BY <1>1
<1>3. PICK j : j = Len(messages) + 1
  OBVIOUS
<1>4. /\ DOMAIN messages' = DOMAIN messages \cup {j} /\ j \notin DOMAIN messages
      /\ messages'[j].entry = n /\ messages'[j].status = "processed"
      /\ \A m \in DOMAIN messages : messages'[m] = messages[m]
  BY <1>2, <1>3, RecordedIs
<1>5. /\ DOMAIN books'.entries = DOMAIN books.entries \cup {n} /\ n \notin DOMAIN books.entries
      /\ books'.entries[n].origin = "telegram"
      /\ \A k \in DOMAIN books.entries : books'.entries[k].origin = books.entries[k].origin
  BY <1>2, TelegramDrafts
<1>6. n # 0 /\ \A m \in DOMAIN messages : messages[m].entry # n
  BY <1>1, <1>2, <1>5 DEF RepliesTrue
<1>7. {m \in DOMAIN messages' : messages'[m].entry = n} = {j}
  BY <1>4, <1>6
<1>8. Cardinality({j}) = 1
  BY FS_Singleton
<1>9. \A k \in DOMAIN books.entries :
        {m \in DOMAIN messages' : messages'[m].entry = k} = {m \in DOMAIN messages : messages[m].entry = k}
  BY <1>4, <1>5
<1>10. \A k \in DOMAIN books'.entries : books'.entries[k].origin = "telegram" =>
         Cardinality({m \in DOMAIN messages' : messages'[m].entry = k}) = 1
  BY <1>5, <1>7, <1>8, <1>9 DEF RepliesTrue
<1>11. \A m \in DOMAIN messages' : messages'[m].entry # 0 =>
         /\ messages'[m].status = "processed"
         /\ messages'[m].entry \in DOMAIN books'.entries
         /\ books'.entries[messages'[m].entry].origin = "telegram"
  BY <1>4, <1>5 DEF RepliesTrue
<1>12. QED
  BY <1>10, <1>11 DEF RepliesTrue

-----------------------------------------------------------------------------
(* What the turns under way have read.                                     *)

(* A request ends. *)
LEMMA ReadsAfter ==
  ASSUME ReqInv, ReadsInv, NEW c \in Clients, req[c] # Idle, End(c),
         Grows(books, books'), serial => ExactBooks(books')
  PROVE  ReadsInv'
<1>1. /\ req' = [req EXCEPT ![c] = Idle] /\ saw' = [saw EXCEPT ![c] = Unread] /\ serial' = serial
      /\ req \in [Clients -> Requests] /\ saw \in [Clients -> Seen]
  BY DEF End, ReqInv, ReadsInv, ReadsWithin
<1>2. Unread \in Seen
  BY DEF Seen
<1>3. /\ saw' \in [Clients -> Seen] /\ req'[c] = Idle /\ saw'[c] = Unread
      /\ \A d \in Clients : d # c => req'[d] = req[d] /\ saw'[d] = saw[d]
  BY <1>1, <1>2
<1>4. Founded(Idle, books') /\ Unposted(Idle, books')
  BY IdleTyped DEF Founded, Unposted
<1>5. ReadsWithin'
  <2>1. ASSUME NEW d \in Clients
        PROVE  /\ saw'[d] # Unread => req'[d] # Idle /\ Within(saw'[d], books')
               /\ Founded(req'[d], books')
    <3>1. CASE d = c
      BY <1>3, <1>4, <3>1
    <3>2. CASE d # c
      <4>1. /\ saw[d] # Unread => req[d] # Idle /\ Within(saw[d], books)
            /\ Founded(req[d], books)
        BY DEF ReadsInv, ReadsWithin
      <4>2. /\ Within(saw[d], books) => Within(saw[d], books')
            /\ Founded(req[d], books) => Founded(req[d], books')
        BY DEF Within, Founded, Grows
      <4>3. QED
        BY <1>3, <3>2, <4>1, <4>2
    <3>3. QED
      BY <3>1, <3>2
  <2>2. QED
    BY <1>3, <2>1 DEF ReadsWithin
<1>6. ReadsCurrent'
  <2>1. ASSUME serial, NEW d \in Clients
        PROVE  (saw'[d] # Unread => Current(saw'[d], books')) /\ Unposted(req'[d], books')
    <3>1. CASE d = c
      BY <1>3, <1>4, <3>1
    <3>2. CASE d # c
      <4>1. req[d] = Idle
        BY <2>1, <3>2 DEF ReqInv, OneRequest
      <4>2. saw[d] = Unread
        BY <4>1 DEF ReadsInv, ReadsWithin
      <4>3. QED
        BY <1>3, <1>4, <3>2, <4>1, <4>2
    <3>3. QED
      BY <3>1, <3>2
  <2>2. QED
    BY <1>1, <2>1 DEF ReadsCurrent
<1>7. QED
  BY <1>5, <1>6 DEF ReadsInv

(* A request begins, or goes on. *)
LEMMA ReadsStay ==
  ASSUME ReadsInv, NEW c \in Clients, NEW r, r # Idle, Founded(r, books), Unposted(r, books),
         \A d \in Clients : req'[d] = IF d = c THEN r ELSE req[d],
         UNCHANGED <<serial, books, saw>>
  PROVE  ReadsInv'
<1>1. ReadsWithin'
  <2>1. ASSUME NEW d \in Clients
        PROVE  /\ saw[d] # Unread => req'[d] # Idle /\ Within(saw[d], books)
               /\ Founded(req'[d], books)
    <3>1. /\ saw[d] # Unread => req[d] # Idle /\ Within(saw[d], books)
          /\ Founded(req[d], books)
      BY DEF ReadsInv, ReadsWithin
    <3>2. QED
      BY <3>1
  <2>2. QED
    BY <2>1 DEF ReadsInv, ReadsWithin
<1>2. ReadsCurrent'
  <2>1. ASSUME serial, NEW d \in Clients
        PROVE  (saw[d] # Unread => Current(saw[d], books)) /\ Unposted(req'[d], books)
    <3>1. (saw[d] # Unread => Current(saw[d], books)) /\ Unposted(req[d], books)
      BY <2>1 DEF ReadsInv, ReadsCurrent
    <3>2. QED
      BY <3>1
  <2>2. QED
    BY <2>1 DEF ReadsInv, ReadsCurrent
<1>3. QED
  BY <1>1, <1>2 DEF ReadsInv

(* The tools of a turn read. *)
LEMMA RowsRead ==
  ASSUME ReadsInv, BooksTyped(books), today \in 1..MaxDay, NEW c \in Clients, req[c] # Idle, ReadRows(c)
  PROVE  ReadsInv'
<1>1. /\ saw' = [saw EXCEPT ![c] = Rows] /\ UNCHANGED <<serial, today, books, prompts, req>>
      /\ saw \in [Clients -> Seen]
  BY DEF ReadRows, ReadsInv, ReadsWithin
<1>2. /\ Rows \in SeenRows /\ Rows.entries = books.entries /\ Rows.docs = books.docs
  BY DEF Rows, SeenRows, BooksTyped
<1>3. Rows \in Seen /\ Within(Rows, books) /\ Current(Rows, books)
  BY <1>2 DEF Seen, SeenRows, Within, Current
<1>4. /\ saw' \in [Clients -> Seen] /\ saw'[c] = Rows
      /\ \A d \in Clients : d # c => saw'[d] = saw[d]
  BY <1>1, <1>3
<1>5. ReadsWithin'
  <2>1. ASSUME NEW d \in Clients
        PROVE  /\ saw'[d] # Unread => req[d] # Idle /\ Within(saw'[d], books)
               /\ Founded(req[d], books)
    <3>1. /\ saw[d] # Unread => req[d] # Idle /\ Within(saw[d], books)
          /\ Founded(req[d], books)
      BY DEF ReadsInv, ReadsWithin
    <3>2. CASE d = c
      BY <1>3, <1>4, <3>1, <3>2
    <3>3. CASE d # c
      BY <1>4, <3>1, <3>3
    <3>4. QED
      BY <3>2, <3>3
  <2>2. QED
    BY <1>1, <1>4, <2>1 DEF ReadsWithin
<1>6. ReadsCurrent'
  <2>1. ASSUME serial, NEW d \in Clients
        PROVE  (saw'[d] # Unread => Current(saw'[d], books)) /\ Unposted(req[d], books)
    <3>1. (saw[d] # Unread => Current(saw[d], books)) /\ Unposted(req[d], books)
      BY <2>1 DEF ReadsInv, ReadsCurrent
    <3>2. CASE d = c
      BY <1>3, <1>4, <3>1, <3>2
    <3>3. CASE d # c
      BY <1>4, <3>1, <3>3
    <3>4. QED
      BY <3>2, <3>3
  <2>2. serial => ExactBooks(books)
    BY DEF ReadsInv, ReadsCurrent
  <2>3. QED
    BY <1>1, <2>1, <2>2 DEF ReadsCurrent
<1>7. QED
  BY <1>5, <1>6 DEF ReadsInv

(* What a turn, and what a user who posts, leave of the books. *)
LEMMA ChattedReads ==
  ASSUME ReadsInv, GoodBooks(books), NEW c \in Clients, NEW turn \in Turns, Chatted(c, Steps(turn))
  PROVE  GoodBooks(books') /\ Extends(books, books') /\ (serial => ExactBooks(books'))
<1>1. saw[c] # Unread
  BY DEF Chatted
<1>2. Within(saw[c], books)
  BY <1>1 DEF ReadsInv, ReadsWithin
<1>3. serial => ExactBooks(books) /\ Current(saw[c], books)
  BY <1>1 DEF ReadsInv, ReadsCurrent
<1>4. /\ Keeps(books, books')
      /\ ExactBooks(books) /\ Current(saw[c], books) => ExactBooks(books')
  BY <1>2, ChattedKeeps
<1>5. QED
  BY <1>3, <1>4 DEF Keeps

LEMMA PostedReads ==
  ASSUME ReadsInv, GoodBooks(books), NEW c \in Clients, UserPosts(c)
  PROVE  GoodBooks(books') /\ Extends(books, books') /\ (serial => ExactBooks(books'))
<1>1. Founded(req[c], books)
  BY DEF ReadsInv, ReadsWithin
<1>2. serial => ExactBooks(books) /\ Unposted(req[c], books)
  BY DEF ReadsInv, ReadsCurrent
<1>3. /\ Keeps(books, books')
      /\ ExactBooks(books) /\ Unposted(req[c], books) => ExactBooks(books')
  BY <1>1, UserPostsKeep
<1>4. QED
  BY <1>2, <1>3 DEF Keeps

-----------------------------------------------------------------------------
(* The steps.                                                              *)

LEMMA InvHolds ==
  TelegramInv => /\ ReqInv /\ RowsTyped /\ RoomHeld /\ WindowKept /\ RepliesTrue
                 /\ GoodBooks(books) /\ ReadsInv /\ req \in [Clients -> Requests] /\ today \in 1..MaxDay
                 /\ serial \in BOOLEAN /\ prompts \in Nat
BY DEF TelegramInv, ReqInv, RowsTyped

(* Steps that leave Telegram's rows and the books alone. *)
LEMMA RowsStay ==
  ASSUME TelegramInv, ReqInv', ReadsInv', RoomHeld', UNCHANGED <<books, today, link, messages, window>>
  PROVE  TelegramInv'
<1>1. RowsTyped /\ WindowKept /\ RepliesTrue /\ GoodBooks(books)
  BY DEF TelegramInv
<1>2. RowsTyped'
  BY <1>1 DEF RowsTyped
<1>3. WindowKept'
  BY <1>1, WindowShrinks
<1>4. Extends(books, books')
  BY DEF Extends, Grows
<1>5. RepliesTrue'
  BY <1>1, <1>4, RepliesSame
<1>6. GoodBooks(books)'
  BY <1>1
<1>7. QED
  BY <1>2, <1>3, <1>5, <1>6 DEF TelegramInv

(* A request begins. *)
LEMMA BeginsKeep ==
  ASSUME TelegramInv, NEW c \in Clients, NEW r \in Requests, r # Idle, ~Holds(r),
         Asks(r) => prompts < Limit, Founded(r, books), Unposted(r, books),
         Begin(c, r), UNCHANGED <<link, messages, window>>
  PROVE  TelegramInv'
<1>1. ReqInv /\ RowsTyped /\ RoomHeld /\ ReadsInv
  BY InvHolds
<1>2. /\ req' = [req EXCEPT ![c] = r] /\ UNCHANGED <<serial, today, books, prompts, saw>>
      /\ \A d \in Clients : serial /\ req[d] # Idle => d = c
  BY DEF Begin
<1>3. /\ ReqInv' /\ Holders' \subseteq Holders
      /\ \A d \in Clients : req'[d] = IF d = c THEN r ELSE req[d]
  BY <1>1, <1>2, GoesOn
<1>4. RoomHeld'
  <2>1. \A d \in Holders' : d \in Clients /\ Holds(req'[d])
    BY DEF Holders, Deliveries, Holds
  <2>2. \A d \in Holders' : d \in Holders /\ req'[d] = req[d]
    BY <1>3, <2>1
  <2>3. window' \in SUBSET window
    OBVIOUS
  <2>4. QED
    BY <1>1, <2>2, <2>3, RoomStays
<1>5. ReadsInv'
  BY <1>1, <1>2, <1>3, ReadsStay
<1>6. QED
  BY <1>2, <1>3, <1>4, <1>5, RowsStay

LEMMA ReceiveKeeps ==
  ASSUME TelegramInv, NEW c \in Clients, NEW text \in Texts, Receive(c, text)
  PROVE  TelegramInv'
<1>1. link.mode \in Modes
  BY InvHolds DEF RowsTyped
<1>2. PICK r : r = IF link.active THEN Message(Handling(text, link.mode), "waits")
                                  ELSE Message("reply", "refused")
  OBVIOUS
<1>3. r \in Requests /\ r # Idle /\ ~Holds(r) /\ ~Asks(r) /\ r.op = "message"
  <2>1. Handling(text, link.mode) \in {"draft", "ask", "reply"} \cup Modes
    BY <1>1, HandlingTyped
  <2>2. \E does \in {"draft", "ask", "reply"} \cup Modes : \E phase \in {"waits", "refused"} :
          r = Message(does, phase)
    BY <1>2, <2>1
  <2>3. PICK does \in {"draft", "ask", "reply"} \cup Modes, phase \in {"waits", "refused"} :
          r = Message(does, phase)
    BY <2>2
  <2>4. r \in Requests /\ r # Idle /\ r.op = "message" /\ r.phase = phase
    BY <2>3, MessageTyped
  <2>5. QED
    BY <2>4 DEF Holds, Asks
<1>4. Begin(c, r) /\ UNCHANGED <<link, messages, window>>
  BY <1>2 DEF Receive
<1>5. Founded(r, books) /\ Unposted(r, books)
  BY <1>3 DEF Founded, Unposted
<1>6. QED
  BY <1>3, <1>4, <1>5, BeginsKeep

LEMMA BeginChatKeeps ==
  ASSUME TelegramInv, NEW c \in Clients, BeginChat(c), Apart
  PROVE  TelegramInv'
<1>1. PICK r : r = [op |-> "chat"]
  OBVIOUS
<1>2. r \in Requests /\ r # Idle /\ ~Holds(r) /\ Founded(r, books) /\ Unposted(r, books)
  BY <1>1, ChatTyped DEF Holds, Founded, Unposted
<1>3. prompts < Limit /\ Begin(c, r) /\ UNCHANGED <<link, messages, window>>
  BY <1>1 DEF BeginChat, MayChat, Apart
<1>4. QED
  BY <1>2, <1>3, BeginsKeep

LEMMA BeginPostKeeps ==
  ASSUME TelegramInv, NEW c \in Clients, Apart,
         \/ \E k \in DOMAIN books.entries : BeginPostEntry(c, k)
         \/ \E i \in DOMAIN books.docs : BeginPostDocument(c, i)
  PROVE  TelegramInv'
<1>1. books.entries \in Seq(Entry) /\ books.docs \in Seq(Doc)
  BY InvHolds DEF GoodBooks, BooksTyped
<1>2. \A n \in DOMAIN books.entries \cup DOMAIN books.docs : n \in Nat
  BY <1>1
<1>3. UNCHANGED <<link, messages, window>>
  BY DEF Apart
<1>4. ASSUME NEW k \in DOMAIN books.entries, BeginPostEntry(c, k) PROVE TelegramInv'
  <2>1. PICK r : r = [op |-> "entry", on |-> k]
    OBVIOUS
  <2>2. r \in Requests /\ r # Idle /\ r.op = "entry" /\ r.on = k
    BY <1>2, <2>1, PostTyped
  <2>3. books.entries[k].poster = "nobody" /\ Begin(c, r)
    BY <1>4, <2>1 DEF BeginPostEntry
  <2>4. ~Holds(r) /\ ~Asks(r) /\ Founded(r, books) /\ Unposted(r, books)
    BY <2>2, <2>3 DEF Holds, Asks, Founded, Unposted
  <2>5. QED
    BY <1>3, <2>2, <2>3, <2>4, BeginsKeep
<1>5. ASSUME NEW i \in DOMAIN books.docs, BeginPostDocument(c, i) PROVE TelegramInv'
  <2>1. PICK r : r = [op |-> "document", on |-> i]
    OBVIOUS
  <2>2. r \in Requests /\ r # Idle /\ r.op = "document" /\ r.on = i
    BY <1>2, <2>1, PostTyped
  <2>3. books.docs[i].status = "draft" /\ Begin(c, r)
    BY <1>5, <2>1 DEF BeginPostDocument
  <2>4. ~Holds(r) /\ ~Asks(r) /\ Founded(r, books) /\ Unposted(r, books)
    BY <2>2, <2>3 DEF Holds, Asks, Founded, Unposted
  <2>5. QED
    BY <1>3, <2>2, <2>3, <2>4, BeginsKeep
<1>6. QED
  BY <1>4, <1>5

LEMMA LockKeeps ==
  ASSUME TelegramInv, NEW c \in Clients, Lock(c)
  PROVE  TelegramInv'
<1>1. ReqInv /\ RowsTyped /\ RoomHeld /\ ReadsInv /\ req \in [Clients -> Requests]
  BY InvHolds
<1>2. /\ c \in Deliveries /\ Holders = {}
      /\ ~Limited /\ req[c].does = "ask" => MayChat
      /\ req' = [req EXCEPT ![c] = IF Limited THEN Message("reply", "limited")
                                              ELSE Message(@.does, "answered")]
      /\ UNCHANGED <<serial, today, books, prompts, saw, link, messages, window>>
  BY DEF Lock
<1>3. req[c] \in MessageRequests /\ req[c] # Idle
  <2>1. req[c].op = "message" /\ req[c] \in Requests
    BY <1>1, <1>2 DEF Deliveries
  <2>2. QED
    BY <2>1, Forms
<1>4. PICK does : does = req[c].does
  OBVIOUS
<1>5. does \in {"draft", "ask", "reply"} \cup Modes
  BY <1>3, <1>4 DEF MessageRequests
<1>6. PICK r : r = IF Limited THEN Message("reply", "limited") ELSE Message(does, "answered")
  OBVIOUS
<1>7. /\ r \in Requests /\ r # Idle /\ r.op = "message"
      /\ r.phase = "answered" => ~Limited
      /\ Asks(r) => ~Limited /\ does = "ask"
  <2>1. CASE Limited
    <3>1. r = Message("reply", "limited")
      BY <1>6, <2>1
    <3>2. r \in Requests /\ r # Idle /\ r.op = "message" /\ r.phase = "limited"
      BY <3>1, MessageTyped
    <3>3. QED
      BY <3>2 DEF Asks
  <2>2. CASE ~Limited
    <3>1. r = Message(does, "answered")
      BY <1>6, <2>2
    <3>2. r \in Requests /\ r # Idle /\ r.op = "message" /\ r.does = does
      BY <1>5, <3>1, MessageTyped
    <3>3. QED
      BY <2>2, <3>2 DEF Asks
  <2>3. QED
    BY <2>1, <2>2
<1>8. req' = [req EXCEPT ![c] = r]
  BY <1>2, <1>4, <1>6
<1>9. Asks(r) => prompts < Limit
  BY <1>2, <1>4, <1>7 DEF MayChat
<1>10. \A d \in Clients : serial /\ req[d] # Idle => d = c
  BY <1>1, <1>3 DEF ReqInv, OneRequest
<1>11. /\ ReqInv' /\ Holders' \subseteq IF Holds(r) THEN {c} ELSE Holders
       /\ \A d \in Clients : req'[d] = IF d = c THEN r ELSE req[d]
  BY <1>1, <1>2, <1>7, <1>8, <1>9, <1>10, GoesOn
<1>12. RoomHeld'
  <2>1. Holders' \subseteq {c}
    BY <1>2, <1>11
  <2>2. Cardinality(window) \in Nat /\ MaxInbound \in Nat
    BY <1>1, WindowFinite, TelegramAssumption
  <2>3. ~Limited => Cardinality(window) + 1 <= MaxInbound
    BY <2>2 DEF Limited
  <2>4. \A d \in Holders' : req'[d] = r
    BY <1>11, <2>1
  <2>5. window' = window
    BY <1>2
  <2>6. QED
    BY <1>7, <2>3, <2>4, <2>5 DEF RoomHeld
<1>13. ReadsInv'
  <2>1. Founded(r, books) /\ Unposted(r, books)
    BY <1>7 DEF Founded, Unposted
  <2>2. QED
    BY <1>1, <1>2, <1>7, <1>11, <2>1, ReadsStay
<1>14. QED
  BY <1>2, <1>11, <1>12, <1>13, RowsStay

(* A delivery that ends, whatever it has replied. *)
LEMMA DeliveryEnds ==
  ASSUME TelegramInv, NEW c \in Clients, req[c] # Idle, End(c), ReqInv',
         GoodBooks(books'), Grows(books, books'), serial => ExactBooks(books'),
         link' \in [mode : Modes, active : BOOLEAN],
         messages' \in Seq(Row), window' \in SUBSET DOMAIN messages', WindowKept', RepliesTrue', RoomHeld'
  PROVE  TelegramInv'
<1>1. RowsTyped'
  BY DEF End, RowsTyped, TelegramInv
<1>2. GoodBooks(books)'
  OBVIOUS
<1>3. ReqInv /\ ReadsInv
  BY InvHolds
<1>4. ReadsInv'
  BY <1>3, ReadsAfter
<1>5. QED
  BY <1>1, <1>2, <1>4 DEF TelegramInv

LEMMA NoHolderLeft ==
  ASSUME OneHolder, NEW c \in Holders, Holders' \subseteq Holders \ {c}
  PROVE  RoomHeld'
<1>1. Holders' = {}
  BY DEF OneHolder
<1>2. QED
  BY <1>1 DEF RoomHeld

LEMMA NoOneMore ==
  ASSUME RowsTyped, RoomHeld, NEW c \in Clients, Holders' \subseteq Holders \ {c},
         \A d \in Clients : d # c => req'[d] = req[d], window' = window
  PROVE  RoomHeld'
<1>1. \A d \in Holders' : d \in Holders /\ req'[d] = req[d]
  BY DEF Holders, Deliveries
<1>2. window' \in SUBSET window
  OBVIOUS
<1>3. QED
  BY <1>1, <1>2, RoomStays

LEMMA BooksAlone ==
  ASSUME TelegramInv, books' = books
  PROVE  GoodBooks(books') /\ Extends(books, books') /\ Grows(books, books')
         /\ (serial => ExactBooks(books'))
BY InvHolds DEF ReadsInv, ReadsCurrent, Extends, Grows

LEMMA RefuseKeeps ==
  ASSUME TelegramInv, NEW c \in Clients, Refuse(c)
  PROVE  TelegramInv'
<1>1. ReqInv /\ RowsTyped /\ RoomHeld /\ WindowKept /\ RepliesTrue /\ GoodBooks(books) /\ prompts \in Nat
  BY InvHolds
<1>2. /\ Recorded("rejected", 0) /\ End(c) /\ UNCHANGED <<books, prompts, link, window>>
      /\ req[c] # Idle
  BY IdleTyped DEF Refuse, Deliveries
<1>3. prompts' \in Nat /\ prompts' <= prompts
  BY <1>1, <1>2
<1>4. /\ ReqInv' /\ Holders' \subseteq Holders \ {c}
      /\ \A d \in Clients : d # c => req'[d] = req[d]
  BY <1>1, <1>2, <1>3, Ends
<1>5. RoomHeld'
  BY <1>1, <1>2, <1>4, NoOneMore
<1>6. "rejected" \in {"processed", "rejected", "rate_limited"} /\ 0 \in Nat
  OBVIOUS
<1>7. /\ messages' \in Seq(Row) /\ DOMAIN messages' = DOMAIN messages \cup {Len(messages) + 1}
      /\ \A m \in DOMAIN messages : messages'[m] = messages[m]
  BY <1>1, <1>2, <1>6, RecordedIs
<1>8. window \in SUBSET DOMAIN messages
  BY <1>1 DEF RowsTyped
<1>9. WindowKept'
  <2>1. \A m \in window : messages'[m] = messages[m]
    BY <1>7, <1>8
  <2>2. Processed' = Processed
    BY <1>2, <2>1 DEF Processed
  <2>3. QED
    BY <1>1, <1>2, <2>1, <2>2 DEF WindowKept
<1>10. RepliesTrue'
  <2>1. Extends(books, books')
    BY <1>2 DEF Extends, Grows
  <2>2. QED
    BY <1>1, <1>2, <1>6, <2>1, RepliesName0
<1>11. /\ GoodBooks(books') /\ Grows(books, books') /\ (serial => ExactBooks(books'))
       /\ window' \in SUBSET DOMAIN messages' /\ link' \in [mode : Modes, active : BOOLEAN]
  BY <1>1, <1>2, <1>7, <1>8, BooksAlone DEF RowsTyped
<1>12. QED
  BY <1>2, <1>4, <1>5, <1>7, <1>9, <1>10, <1>11, DeliveryEnds

(* What is the same of the two deliveries that are counted. *)
LEMMA CountedEnds ==
  ASSUME TelegramInv, NEW c \in Holders, End(c), Counted,
         NEW status \in {"processed", "rate_limited"}, NEW n \in Nat, Recorded(status, n),
         status = "processed" => req[c].phase = "answered",
         GoodBooks(books'), Grows(books, books'), serial => ExactBooks(books'),
         RepliesTrue', link' \in [mode : Modes, active : BOOLEAN],
         prompts' \in Nat, prompts' <= prompts \/ (prompts' <= prompts + 1 /\ c \in Asking)
  PROVE  TelegramInv'
<1>1. ReqInv /\ RowsTyped /\ RoomHeld /\ WindowKept /\ c \in Clients /\ req[c] # Idle
  BY InvHolds, IdleTyped DEF Holders, Deliveries
<1>2. ReqInv' /\ Holders' \subseteq Holders \ {c}
  BY <1>1, Ends
<1>3. RoomHeld'
  BY <1>1, <1>2, NoHolderLeft DEF ReqInv
<1>4. status = "processed" => Cardinality(window) + 1 <= MaxInbound
  BY <1>1 DEF RoomHeld
<1>5. WindowKept'
  BY <1>1, <1>4, WindowGrows
<1>6. status \in {"processed", "rejected", "rate_limited"}
  OBVIOUS
<1>7. messages' \in Seq(Row) /\ DOMAIN messages' = DOMAIN messages \cup {Len(messages) + 1}
  BY <1>1, <1>6, RecordedIs
<1>8. window' \in SUBSET DOMAIN messages'
  BY <1>1, <1>7 DEF RowsTyped, Counted
<1>9. QED
  BY <1>1, <1>2, <1>3, <1>5, <1>7, <1>8, DeliveryEnds

LEMMA LimitReplyKeeps ==
  ASSUME TelegramInv, NEW c \in Clients, LimitReply(c)
  PROVE  TelegramInv'
<1>1. RowsTyped /\ RepliesTrue /\ GoodBooks(books) /\ prompts \in Nat
  BY InvHolds
<1>2. /\ Recorded("rate_limited", 0) /\ Counted /\ End(c) /\ UNCHANGED <<books, prompts, link>>
      /\ c \in Holders
  BY DEF LimitReply, Holders
<1>3. /\ "rate_limited" \in {"processed", "rejected", "rate_limited"}
      /\ "rate_limited" \in {"processed", "rate_limited"} /\ 0 \in Nat
  OBVIOUS
<1>4. RepliesTrue'
  <2>1. Extends(books, books')
    BY <1>2 DEF Extends, Grows
  <2>2. QED
    BY <1>1, <1>2, <1>3, <2>1, RepliesName0
<1>5. /\ GoodBooks(books') /\ Grows(books, books') /\ (serial => ExactBooks(books'))
      /\ prompts' \in Nat /\ prompts' <= prompts /\ link' \in [mode : Modes, active : BOOLEAN]
  BY <1>1, <1>2, BooksAlone DEF RowsTyped
<1>6. QED
  BY <1>2, <1>3, <1>4, <1>5, CountedEnds

LEMMA AnswerKeeps ==
  ASSUME TelegramInv, NEW c \in Clients, Answer(c)
  PROVE  TelegramInv'
<1>1. RowsTyped /\ RepliesTrue /\ GoodBooks(books) /\ ReadsInv /\ prompts \in Nat
      /\ link \in [mode : Modes, active : BOOLEAN]
  BY InvHolds DEF RowsTyped
<1>2. /\ c \in Holders /\ req[c].op = "message" /\ req[c].phase = "answered" /\ Counted /\ End(c)
  BY DEF Answer, Holders, Deliveries
<1>3. "processed" \in {"processed", "rejected", "rate_limited"} /\ "processed" \in {"processed", "rate_limited"}
      /\ 0 \in Nat
  OBVIOUS
<1>4. CASE /\ req[c].does = "draft" /\ books' = Drafted(books, "telegram")
           /\ Recorded("processed", Len(books.entries) + 1) /\ UNCHANGED <<prompts, link>>
  <2>1. GoodBooks(books') /\ Grows(books, books') /\ (serial => ExactBooks(books'))
    <3>1. serial => ExactBooks(books)
      BY <1>1 DEF ReadsInv, ReadsCurrent
    <3>2. /\ GoodBooks(books') /\ Grows(books, books')
          /\ ExactBooks(books) => ExactBooks(books')
      BY <1>1, <1>4, TelegramDrafts
    <3>3. QED
      BY <3>1, <3>2
  <2>2. RepliesTrue'
    BY <1>1, <1>4, RepliesNameIt
  <2>3. PICK n \in Nat : n = Len(books.entries) + 1
    BY <1>1 DEF GoodBooks, BooksTyped
  <2>4. Recorded("processed", n)
    BY <1>4, <2>3
  <2>5. link' \in [mode : Modes, active : BOOLEAN] /\ prompts' \in Nat /\ prompts' <= prompts
    BY <1>1, <1>4
  <2>6. QED
    BY <1>2, <1>3, <2>1, <2>2, <2>4, <2>5, CountedEnds
<1>5. CASE /\ req[c].does = "ask" /\ \E turn \in Planned : Chatted(c, Steps(turn))
           /\ Recorded("processed", 0) /\ UNCHANGED link
  <2>1. PICK turn \in Turns : Chatted(c, Steps(turn))
    BY <1>5 DEF Planned
  <2>2. GoodBooks(books') /\ Extends(books, books') /\ (serial => ExactBooks(books'))
    BY <1>1, <2>1, ChattedReads
  <2>3. RepliesTrue'
    BY <1>1, <1>3, <1>5, <2>2, RepliesName0
  <2>4. prompts' \in Nat /\ prompts' <= prompts + 1
    BY <1>1, <2>1 DEF Chatted
  <2>5. c \in Asking
    BY <1>2, <1>5 DEF Asking, Asks, Holders, Deliveries
  <2>6. link' \in [mode : Modes, active : BOOLEAN]
    BY <1>1, <1>5
  <2>7. Grows(books, books')
    BY <2>2 DEF Extends, Grows
  <2>8. QED
    BY <1>2, <1>3, <1>5, <2>2, <2>3, <2>4, <2>5, <2>6, <2>7, CountedEnds
<1>6. CASE /\ Recorded("processed", 0) /\ UNCHANGED <<books, prompts>>
           /\ link' \in [mode : Modes, active : BOOLEAN]
  <2>1. RepliesTrue'
    <3>1. Extends(books, books')
      BY <1>6 DEF Extends, Grows
    <3>2. QED
      BY <1>1, <1>3, <1>6, <3>1, RepliesName0
  <2>2. /\ GoodBooks(books') /\ Grows(books, books') /\ (serial => ExactBooks(books'))
        /\ prompts' \in Nat /\ prompts' <= prompts
    BY <1>1, <1>6, BooksAlone
  <2>3. QED
    BY <1>2, <1>3, <1>6, <2>1, <2>2, CountedEnds
<1>7. CASE /\ req[c].does \in Modes /\ link' = [link EXCEPT !.mode = req[c].does]
           /\ Recorded("processed", 0) /\ UNCHANGED <<books, prompts>>
  <2>1. link' \in [mode : Modes, active : BOOLEAN]
    BY <1>1, <1>7
  <2>2. QED
    BY <1>6, <1>7, <2>1
<1>8. CASE Recorded("processed", 0) /\ UNCHANGED <<books, prompts, link>>
  BY <1>1, <1>6, <1>8
<1>9. QED
  BY <1>4, <1>5, <1>7, <1>8 DEF Answer

(* A request beside Telegram ends. *)
LEMMA EndKeeps ==
  ASSUME TelegramInv, NEW c \in Clients, req[c] # Idle, End(c),
         GoodBooks(books'), Extends(books, books'), serial => ExactBooks(books'),
         prompts' \in Nat, prompts' <= prompts \/ (prompts' <= prompts + 1 /\ c \in Asking),
         UNCHANGED <<link, messages, window>>
  PROVE  TelegramInv'
<1>1. ReqInv /\ RowsTyped /\ RoomHeld /\ WindowKept /\ RepliesTrue
  BY InvHolds
<1>2. /\ ReqInv' /\ Holders' \subseteq Holders \ {c}
      /\ \A d \in Clients : d # c => req'[d] = req[d]
  BY <1>1, Ends
<1>3. RoomHeld'
  BY <1>1, <1>2, NoOneMore
<1>4. WindowKept'
  BY <1>1, WindowShrinks
<1>5. RepliesTrue'
  BY <1>1, RepliesSame
<1>6. /\ link' \in [mode : Modes, active : BOOLEAN] /\ Grows(books, books')
      /\ messages' \in Seq(Row) /\ window' \in SUBSET DOMAIN messages'
  BY <1>1 DEF RowsTyped, Extends
<1>7. QED
  BY <1>2, <1>3, <1>4, <1>5, <1>6, DeliveryEnds

LEMMA ChatKeeps ==
  ASSUME TelegramInv, NEW c \in Clients, NEW turn \in Turns, Chat(c, turn), Apart
  PROVE  TelegramInv'
<1>1. ReadsInv /\ GoodBooks(books) /\ prompts \in Nat
  BY InvHolds
<1>2. /\ req[c].op = "chat" /\ Chatted(c, Steps(turn)) /\ End(c) /\ UNCHANGED <<link, messages, window>>
  BY DEF Chat, Apart
<1>3. GoodBooks(books') /\ Extends(books, books') /\ (serial => ExactBooks(books'))
  BY <1>1, <1>2, ChattedReads
<1>4. prompts' \in Nat /\ prompts' <= prompts + 1 /\ c \in Asking
  BY <1>1, <1>2 DEF Chatted, Asking, Asks
<1>5. req[c] # Idle
  BY <1>2, IdleTyped
<1>6. QED
  BY <1>2, <1>3, <1>4, <1>5, EndKeeps

LEMMA UserPostsKeeps ==
  ASSUME TelegramInv, NEW c \in Clients, UserPosts(c), Apart
  PROVE  TelegramInv'
<1>1. ReadsInv /\ GoodBooks(books) /\ prompts \in Nat
  BY InvHolds
<1>2. /\ req[c].op \in {"entry", "document"} /\ End(c) /\ UNCHANGED prompts
      /\ UNCHANGED <<link, messages, window>>
  BY DEF UserPosts, Apart
<1>3. GoodBooks(books') /\ Extends(books, books') /\ (serial => ExactBooks(books'))
  BY <1>1, PostedReads
<1>4. req[c] # Idle /\ prompts' \in Nat /\ prompts' <= prompts
  BY <1>1, <1>2, IdleTyped
<1>5. QED
  BY <1>2, <1>3, <1>4, EndKeeps

LEMMA RollbackKeeps ==
  ASSUME TelegramInv, NEW c \in Clients, Rollback(c), Apart
  PROVE  TelegramInv'
<1>1. req[c] # Idle /\ End(c) /\ UNCHANGED <<books, prompts, link, messages, window>>
  BY DEF Rollback, Apart
<1>2. prompts' \in Nat /\ prompts' <= prompts
  BY <1>1, InvHolds
<1>3. GoodBooks(books') /\ Extends(books, books') /\ (serial => ExactBooks(books'))
  BY <1>1, BooksAlone
<1>4. QED
  BY <1>1, <1>2, <1>3, EndKeeps

(* Steps in which no request moves. *)
LEMMA OutsideKeeps ==
  ASSUME TelegramInv, UNCHANGED <<serial, req, books, messages>>, ReadsInv',
         prompts' \in Nat, prompts' <= prompts, today' \in 1..MaxDay,
         window' \in SUBSET window, link' \in [mode : Modes, active : BOOLEAN]
  PROVE  TelegramInv'
<1>1. ReqInv /\ RowsTyped /\ RoomHeld /\ WindowKept /\ RepliesTrue
  BY InvHolds
<1>2. ReqInv'
  <2>1. OneRequest' /\ OneHolder' /\ Asking' = Asking
    BY <1>1 DEF ReqInv, OneRequest, OneHolder, Holders, Deliveries, Asking
  <2>2. Asking' \in SUBSET Asking
    BY <2>1
  <2>3. PromptsLeft'
    BY <1>1, <2>2, PromptsFewer
  <2>4. QED
    BY <1>1, <2>1, <2>3 DEF ReqInv
<1>3. RoomHeld'
  <2>1. \A d \in Holders' : d \in Holders /\ req'[d] = req[d]
    BY DEF Holders, Deliveries
  <2>2. QED
    BY <1>1, <2>1, RoomStays
<1>4. RowsTyped'
  BY <1>1 DEF RowsTyped
<1>5. WindowKept'
  BY <1>1, WindowShrinks
<1>6. GoodBooks(books') /\ Extends(books, books')
  BY BooksAlone
<1>7. RepliesTrue'
  BY <1>1, <1>6, RepliesSame
<1>8. GoodBooks(books)'
  BY <1>6
<1>9. QED
  BY <1>2, <1>3, <1>4, <1>5, <1>7, <1>8 DEF TelegramInv

LEMMA ReadKeeps ==
  ASSUME TelegramInv, NEW c \in Clients, req[c] # Idle, ReadRows(c), UNCHANGED <<link, messages, window>>
  PROVE  TelegramInv'
<1>1. ReadsInv /\ GoodBooks(books) /\ RowsTyped /\ prompts \in Nat /\ today \in 1..MaxDay
  BY InvHolds
<1>2. ReadsInv'
  BY <1>1, RowsRead DEF GoodBooks
<1>3. UNCHANGED <<serial, today, books, prompts, req>>
  BY DEF ReadRows
<1>4. link' \in [mode : Modes, active : BOOLEAN]
  BY <1>1 DEF RowsTyped
<1>5. QED
  BY <1>1, <1>2, <1>3, <1>4, OutsideKeeps

LEMMA StepKeeps == TelegramInv /\ [Next]_vars => TelegramInv'
<1> SUFFICES ASSUME TelegramInv, [Next]_vars PROVE TelegramInv'
  OBVIOUS
<1>1. /\ ReadsInv /\ prompts \in Nat /\ today \in 1..MaxDay
      /\ link \in [mode : Modes, active : BOOLEAN]
  BY InvHolds DEF RowsTyped
<1>2. ASSUME UNCHANGED <<serial, req, books, saw>> PROVE ReadsInv'
  BY <1>1, <1>2 DEF ReadsInv, ReadsWithin, ReadsCurrent
<1>3. ASSUME NEW c \in Clients, Deliver(c) PROVE TelegramInv'
  <2>1. ASSUME ReadForAnswer(c) PROVE TelegramInv'
    <3>1. req[c] # Idle /\ ReadRows(c) /\ UNCHANGED <<link, messages, window>>
      BY <2>1, IdleTyped DEF ReadForAnswer, Deliveries
    <3>2. QED
      BY <3>1, ReadKeeps
  <2>2. QED
    BY <1>3, <2>1, ReceiveKeeps, LockKeeps, RefuseKeeps, LimitReplyKeeps, AnswerKeeps DEF Deliver
<1>4. ASSUME NEW c \in Clients, BeginChat(c) /\ Apart PROVE TelegramInv'
  BY <1>4, BeginChatKeeps
<1>5. ASSUME NEW c \in Clients, ReadForChat(c) /\ Apart PROVE TelegramInv'
  <2>1. req[c] # Idle /\ ReadRows(c) /\ UNCHANGED <<link, messages, window>>
    BY <1>5, IdleTyped DEF ReadForChat, Apart
  <2>2. QED
    BY <2>1, ReadKeeps
<1>6. ASSUME NEW c \in Clients, NEW turn \in Turns, Chat(c, turn) /\ Apart PROVE TelegramInv'
  BY <1>6, ChatKeeps
<1>7. ASSUME NEW c \in Clients, NEW k \in DOMAIN books.entries, BeginPostEntry(c, k) /\ Apart
      PROVE  TelegramInv'
  BY <1>7, BeginPostKeeps
<1>8. ASSUME NEW c \in Clients, NEW i \in DOMAIN books.docs, BeginPostDocument(c, i) /\ Apart
      PROVE  TelegramInv'
  BY <1>8, BeginPostKeeps
<1>9. ASSUME NEW c \in Clients, (UserPosts(c) \/ Rollback(c)) /\ Apart PROVE TelegramInv'
  BY <1>9, UserPostsKeeps, RollbackKeeps
<1>10. ASSUME NEW l \in [mode : Modes, active : BOOLEAN], Relink(l) PROVE TelegramInv'
  <2>1. /\ link' = l /\ UNCHANGED <<serial, today, books, prompts, req, saw, messages, window>>
    BY <1>10 DEF Relink
  <2>2. QED
    BY <1>1, <1>2, <2>1, OutsideKeeps
<1>11. CASE Expire
  <2>1. window' \in SUBSET window /\ UNCHANGED <<serial, today, books, prompts, req, saw, link, messages>>
    BY <1>11 DEF Expire
  <2>2. QED
    BY <1>1, <1>2, <2>1, OutsideKeeps
<1>12. CASE Leave /\ Apart
  <2>1. /\ prompts > 0 /\ prompts' = prompts - 1 /\ UNCHANGED <<serial, today, books, req, saw>>
        /\ UNCHANGED <<link, messages, window>>
    BY <1>12 DEF Leave, Apart
  <2>2. prompts' \in Nat /\ prompts' <= prompts
    BY <1>1, <2>1
  <2>3. QED
    BY <1>1, <1>2, <2>1, <2>2, OutsideKeeps
<1>13. CASE Midnight /\ Apart
  <2>1. /\ today < MaxDay /\ today' = today + 1 /\ UNCHANGED <<serial, books, prompts, req, saw>>
        /\ UNCHANGED <<link, messages, window>>
    BY <1>13 DEF Midnight, Apart
  <2>2. today' \in 1..MaxDay
    BY <1>1, <2>1, AgentAssumption
  <2>3. QED
    BY <1>1, <1>2, <2>1, <2>2, OutsideKeeps
<1>14. CASE UNCHANGED vars
  BY <1>1, <1>2, <1>14, OutsideKeeps DEF vars
<1>15. QED
  BY <1>3, <1>4, <1>5, <1>6, <1>7, <1>8, <1>9, <1>10, <1>11, <1>12, <1>13, <1>14 DEF Next

LEMMA InitKeeps == Init => TelegramInv
<1> SUFFICES ASSUME Init PROVE TelegramInv
  OBVIOUS
<1>1. /\ serial \in BOOLEAN /\ today = 1 /\ prompts = 0 /\ books = NoBooks
      /\ req = [c \in Clients |-> Idle] /\ saw = [c \in Clients |-> Unread]
      /\ messages = <<>> /\ window = {}
      /\ link \in [mode : Modes, active : {TRUE}]
  BY DEF Init, AgentInit
<1>2. /\ req \in [Clients -> Requests] /\ \A c \in Clients : req[c] = Idle
      /\ Idle.op # "message" /\ ~Asks(Idle)
  BY <1>1, IdleTyped DEF Asks
<1>3. Holders = {} /\ Asking = {}
  BY <1>2 DEF Holders, Deliveries, Asking
<1>4. OneRequest /\ OneHolder /\ RoomHeld
  BY <1>2, <1>3 DEF OneRequest, OneHolder, RoomHeld
<1>5. PromptsLeft
  <2>1. Cardinality(Asking) = 0
    BY <1>3, FS_EmptySet
  <2>2. Cardinality(Clients) \in Nat /\ Cardinality(Clients) >= 1
    BY SomeClients
  <2>3. Limit \in Nat
    BY AgentAssumption
  <2>4. QED
    BY <1>1, <2>1, <2>2, <2>3 DEF PromptsLeft
<1>6. ReqInv
  BY <1>1, <1>2, <1>4, <1>5 DEF ReqInv
<1>7. RowsTyped
  <2>1. 1 \in 1..MaxDay
    BY AgentAssumption
  <2>2. link \in [mode : Modes, active : BOOLEAN]
    BY <1>1
  <2>3. <<>> \in Seq(Row)
    OBVIOUS
  <2>4. QED
    BY <1>1, <2>1, <2>2, <2>3 DEF RowsTyped
<1>8. WindowKept
  <2>1. Processed = {}
    BY <1>1 DEF Processed
  <2>2. Cardinality(Processed) = 0
    BY <2>1, FS_EmptySet
  <2>3. QED
    BY <1>1, <2>2, TelegramAssumption DEF WindowKept
<1>9. GoodBooks(books) /\ ExactBooks(books)
  BY <1>1, NoBooksGood
<1>10. RepliesTrue
  <2>1. books.entries = <<>>
    BY <1>1 DEF NoBooks
  <2>2. QED
    BY <1>1, <2>1 DEF RepliesTrue
<1>11. ReadsInv
  <2>1. saw \in [Clients -> Seen] /\ \A c \in Clients : saw[c] = Unread
    BY <1>1 DEF Seen
  <2>2. \A c \in Clients : Founded(req[c], books) /\ Unposted(req[c], books)
    BY <1>2, IdleTyped DEF Founded, Unposted
  <2>3. QED
    BY <1>9, <2>1, <2>2 DEF ReadsInv, ReadsWithin, ReadsCurrent
<1>12. QED
  BY <1>4, <1>6, <1>7, <1>8, <1>9, <1>10, <1>11 DEF TelegramInv

LEMMA InvAlways == Spec => []TelegramInv
BY InitKeeps, StepKeeps, PTL DEF Spec

-----------------------------------------------------------------------------
(* The rows of the assistant and of Telegram are well formed. *)
THEOREM TelegramTyped == Spec => []TypeOK
<1>1. ASSUME TelegramInv PROVE TypeOK
  <2>1. /\ ReqInv /\ RowsTyped /\ BooksTyped(books) /\ saw \in [Clients -> Seen]
    BY <1>1 DEF TelegramInv, GoodBooks, ReadsInv, ReadsWithin
  <2>2. BooksOK
    BY <2>1 DEF BooksTyped, BooksOK
  <2>3. QED
    BY <2>1, <2>2 DEF TypeOK, ReqInv, RowsTyped
<1>2. QED
  BY <1>1, InvAlways, PTL

(* However turns, deliveries and users overlap, what the assistant wrote   *)
(* and posted is in its log by completed calls, what it wrote by exactly   *)
(* one, nothing without a confirmation that asks for one; a party is billed*)
(* once a day, and a balance is between zero and the total.  One request at*)
(* a time, whatever is confirmed again, planned, lost or sent again, what  *)
(* it posted is there by one call too, and payments and balance of a       *)
(* document add up to its total; that is not so when turns overlap.        *)
(* _execute_tool, ConfirmationEngine, record_payment.                      *)
THEOREM AgentExplained == Spec => [](ActionsExplained /\ ConfirmationsBounded)
<1>1. ASSUME TelegramInv PROVE ActionsExplained
  <2>1. Logs(books) /\ (serial => PostsOnce(books))
    BY <1>1 DEF TelegramInv, GoodBooks, ReadsInv, ReadsCurrent, ExactBooks
  <2>2. /\ \A tools, n : RowsOf(tools, n) = RowsIn(books.log, tools, n)
        /\ \A tools, n : Once(tools, n) <=> OnceIn(books.log, tools, n)
        /\ BagToSet(books.log) = DOMAIN books.log
    BY DEF RowsOf, RowsIn, Once, OnceIn, BagToSet
  <2>3. \A k \in DOMAIN books.entries :
          /\ IF books.entries[k].origin = "agent" THEN Once({"draft"}, k) ELSE RowsOf({"draft"}, k) = {}
          /\ books.entries[k].poster = "agent" => RowsOf({"post"}, k) # {}
          /\ books.entries[k].poster = "nobody" => RowsOf({"post"}, k) = {}
    BY <2>1, <2>2 DEF Logs, EntriesLogged
  <2>4. \A k \in DOMAIN books.entries :
          serial => IF books.entries[k].poster = "agent" THEN Once({"post"}, k) ELSE RowsOf({"post"}, k) = {}
    BY <2>1, <2>2 DEF PostsOnce
  <2>5. /\ \A i \in DOMAIN books.docs : Once({books.docs[i].kind}, i)
        /\ \A p \in DOMAIN books.payments : Once({"pay_invoice", "pay_bill"}, p)
        /\ \A j \in DOMAIN books.notes : Once({books.notes[j].kind}, j)
    BY <2>1, <2>2 DEF Logs, DocsLogged, PaymentsLogged, NotesLogged
  <2>6. \A x \in books.parties :
          \E row \in BagToSet(books.log) : /\ row.tool = x[1] /\ row.on = x[2]
                                           /\ row.outcome \in {"completed", "blocked"}
    BY <2>1, <2>2 DEF Logs, PartiesLogged
  <2>7. \A row \in BagToSet(books.log) :
          row.outcome = "completed" /\ ~row.sure => row.tool \in {"draft", "bill", "read"} \cup Notes
    BY <2>1, <2>2 DEF Logs, ConfirmedLogged
  <2>8. QED
    BY <2>3, <2>4, <2>5, <2>6, <2>7 DEF ActionsExplained
<1>2. ASSUME TelegramInv PROVE ConfirmationsBounded
  <2>1. GoodBooks(books) /\ (serial => Settles(books))
    BY <1>2 DEF TelegramInv, ReadsInv, ReadsCurrent, ExactBooks
  <2>2. \A i : PaidOf(i) = PaidIn(books.payments, i)
    BY DEF PaidOf, PaidIn
  <2>3. \A i \in DOMAIN books.docs : books.docs[i].balance \in 0..Total
    <3>1. books.docs \in Seq(Doc)
      BY <2>1 DEF GoodBooks, BooksTyped
    <3>2. \A i \in DOMAIN books.docs : books.docs[i] \in Doc
      BY <3>1
    <3>3. QED
      BY <3>2 DEF Doc
  <2>4. \A i, j \in DOMAIN books.docs :
          <<books.docs[i].kind, books.docs[i].party, books.docs[i].day>>
            = <<books.docs[j].kind, books.docs[j].party, books.docs[j].day>> => i = j
    BY <2>1 DEF GoodBooks, Numbers
  <2>5. \A i \in DOMAIN books.docs : serial =>
          /\ books.docs[i].balance + PaidOf(i) = Total
          /\ (books.docs[i].status = "paid") = (books.docs[i].balance = 0)
    BY <2>1, <2>2 DEF Settles
  <2>6. QED
    BY <2>3, <2>4, <2>5 DEF ConfirmationsBounded
<1>3. QED
  BY <1>1, <1>2, InvAlways, PTL

(* The limit of prompts is passed by no more than the turns that are under *)
(* way at once, and not at all when they come one by one                   *)
(* (_check_agent_rate_limit).                                              *)
THEOREM PromptsLimited == Spec => []PromptsBounded
<1>1. ASSUME TelegramInv PROVE PromptsBounded
  <2>1. PromptsLeft /\ prompts \in Nat /\ serial \in BOOLEAN
    BY <1>1 DEF TelegramInv, ReqInv
  <2>2. Asking \in SUBSET Clients
    BY DEF Asking
  <2>3. Cardinality(Asking) \in Nat /\ Cardinality(Clients) \in Nat
    BY <2>2, SomeClients
  <2>4. Limit \in Nat
    BY AgentAssumption
  <2>5. QED
    BY <2>1, <2>3, <2>4 DEF PromptsLeft, PromptsBounded
<1>2. QED
  BY <1>1, InvAlways, PTL

(* Telegram's replies are so, and no more messages are answered in a       *)
(* minute than the limit lets (process_inbound_message, _is_rate_limited). *)
THEOREM RepliesHold == Spec => []RepliesExplained
<1>1. ASSUME TelegramInv PROVE RepliesExplained
  BY <1>1 DEF TelegramInv, WindowKept, RepliesTrue, Processed, RepliesExplained
<1>2. QED
  BY <1>1, InvAlways, PTL

=============================================================================
