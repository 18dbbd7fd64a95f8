---------------------------- MODULE ImportsProofs ---------------------------
(***************************************************************************)
(* What becomes of bank rows, proved of Imports for any files, merchants   *)
(* and number of clients.                                                  *)
(*                                                                         *)
(* However requests overlap, every outflow was drafted once or is among    *)
(* the failed rows of its import: an import only ever adds transactions    *)
(* with their drafts, and nothing else changes how many there are.  One    *)
(* request at a time, what a request has read is what the tables say, and  *)
(* so a row is imported once and a merchant has one rule.                  *)
(***************************************************************************)
EXTENDS Imports, FiniteSetTheorems, SequenceTheorems, NaturalsInduction, WellFoundedInduction, TLAPS

-----------------------------------------------------------------------------
(* Sequences. *)

LEMMA LeastNat ==
  ASSUME NEW T \in SUBSET Nat, T # {}
  PROVE  \E n \in T : \A m \in T : n <= m
<1> DEFINE R == OpToRel(<, Nat)
<1>1. IsWellFoundedOn(R, Nat)
  BY NatLessThanWellFounded
<1> HIDE DEF R
<1>2. PICK n \in T : \A m \in T : ~(<<m, n>> \in R)
  BY <1>1, WFMin
<1>3. \A m \in T : ~(m < n)
  BY <1>2 DEF R, OpToRel
<1>4. QED
  BY <1>3

LEMMA FunctionIsSeq ==
  ASSUME NEW S, NEW n \in Nat, NEW g \in [1..n -> S]
  PROVE  g \in Seq(S) /\ Len(g) = n
<1>1. g \in Seq(S)
  BY SeqDef
<1>2. Len(g) \in Nat /\ DOMAIN g = 1..Len(g)
  BY <1>1, LenProperties
<1>3. 1..Len(g) = 1..n
  BY <1>2
<1>4. QED
  BY <1>1, <1>2, <1>3

(* No member comes twice. *)
Distinct(q) == \A i, j \in DOMAIN q : q[i] = q[j] => i = j

LEMMA AppendAt ==
  ASSUME NEW S, NEW q \in Seq(S), NEW x \in S
  PROVE  /\ Append(q, x) \in Seq(S)
         /\ Len(Append(q, x)) = Len(q) + 1
         /\ DOMAIN Append(q, x) = 1..(Len(q) + 1)
         /\ DOMAIN q = 1..Len(q) /\ Len(q) \in Nat
         /\ \A i \in 1..Len(q) : Append(q, x)[i] = q[i]
         /\ Append(q, x)[Len(q) + 1] = x
<1>1. Append(q, x) \in Seq(S) /\ Len(Append(q, x)) = Len(q) + 1
  BY AppendProperties
<1>2. QED
  BY <1>1, AppendProperties, LenProperties

LEMMA ConcatAt ==
  ASSUME NEW S, NEW p \in Seq(S), NEW q \in Seq(S)
  PROVE  /\ p \o q \in Seq(S)
         /\ Len(p \o q) = Len(p) + Len(q)
         /\ DOMAIN (p \o q) = 1..(Len(p) + Len(q))
         /\ DOMAIN p = 1..Len(p) /\ Len(p) \in Nat
         /\ DOMAIN q = 1..Len(q) /\ Len(q) \in Nat
         /\ \A i \in 1..Len(p) : (p \o q)[i] = p[i]
         /\ \A j \in 1..Len(q) : (p \o q)[Len(p) + j] = q[j]
<1>1. /\ DOMAIN p = 1..Len(p) /\ Len(p) \in Nat
      /\ DOMAIN q = 1..Len(q) /\ Len(q) \in Nat
  BY LenProperties
<1>2. /\ p \o q \in Seq(S)
      /\ Len(p \o q) = Len(p) + Len(q)
      /\ \A i \in 1..(Len(p) + Len(q)) : (p \o q)[i] = IF i <= Len(p) THEN p[i] ELSE q[i - Len(p)]
  BY ConcatProperties
<1>3. DOMAIN (p \o q) = 1..(Len(p) + Len(q))
  BY <1>2, LenProperties
<1>4. \A i \in 1..Len(p) : (p \o q)[i] = p[i]
  BY <1>1, <1>2
<1>5. \A j \in 1..Len(q) : (p \o q)[Len(p) + j] = q[j]
  <2>1. TAKE j \in 1..Len(q)
  <2>2. Len(p) + j \in 1..(Len(p) + Len(q)) /\ ~(Len(p) + j <= Len(p)) /\ (Len(p) + j) - Len(p) = j
    BY <1>1
  <2>3. QED
    BY <1>2, <2>2
<1>6. QED
  BY <1>1, <1>2, <1>3, <1>4, <1>5

-----------------------------------------------------------------------------
(* What an import makes of its rows. *)

NewRow == [row : Rows, status : {"pending", "matched"}]
NewDraft == [of : Nat, account : Accounts]
Progress == [new : Seq(NewRow), drafts : Seq(NewDraft), imported : Nat, failed : Nat]

(* After n rows: the drafts are those of the matched rows, a row out of    *)
(* which nothing came is counted.                                          *)
Tallied(s, n) ==
  /\ s \in Progress
  /\ \A k \in DOMAIN s.drafts : s.drafts[k].of \in DOMAIN s.new /\ s.new[s.drafts[k].of].status = "matched"
  /\ \A k, l \in DOMAIN s.drafts : s.drafts[k].of = s.drafts[l].of => k = l
  /\ \A i \in DOMAIN s.new : s.new[i].status = "matched" => \E k \in DOMAIN s.drafts : s.drafts[k].of = i
  /\ \A i \in DOMAIN s.new : s.new[i].status = "pending" /\ Flow[s.new[i].row] = "out" => s.failed > 0
  /\ s.imported <= Len(s.new) /\ Len(s.new) <= s.imported + s.failed
  /\ s.imported + s.failed <= n

LEMMA KnownAt ==
  ASSUME txs \in Seq(Tx), NEW new \in Seq(NewRow)
  PROVE  /\ Known(new) \in Seq(Rows)
         /\ DOMAIN Known(new) = 1..(Len(txs) + Len(new))
         /\ Len(txs) \in Nat /\ Len(new) \in Nat
         /\ DOMAIN txs = 1..Len(txs) /\ DOMAIN new = 1..Len(new)
         /\ \A i \in 1..Len(txs) : Known(new)[i] = txs[i].row
         /\ \A j \in 1..Len(new) : Known(new)[Len(txs) + j] = new[j].row
<1> DEFINE p == [i \in DOMAIN txs |-> txs[i].row]
           q == [i \in DOMAIN new |-> new[i].row]
<1>1. /\ Len(txs) \in Nat /\ Len(new) \in Nat
      /\ DOMAIN txs = 1..Len(txs) /\ DOMAIN new = 1..Len(new)
  BY LenProperties
<1>2. p \in [1..Len(txs) -> Rows] /\ q \in [1..Len(new) -> Rows]
  <2>1. \A i \in DOMAIN txs : txs[i] \in Tx
    BY <1>1, ElementOfSeq
  <2>2. \A i \in DOMAIN new : new[i] \in NewRow
    BY <1>1, ElementOfSeq
  <2>3. QED
    BY <1>1, <2>1, <2>2 DEF Tx, NewRow
<1>3. p \in Seq(Rows) /\ Len(p) = Len(txs) /\ q \in Seq(Rows) /\ Len(q) = Len(new)
  <2> HIDE DEF p, q
  <2>1. QED
    BY <1>1, <1>2, FunctionIsSeq
<1>4. Known(new) = p \o q
  BY DEF Known
<1>5. /\ \A i \in 1..Len(txs) : p[i] = txs[i].row
      /\ \A j \in 1..Len(new) : q[j] = new[j].row
  BY <1>1
<1> HIDE DEF p, q
<1>6. /\ p \o q \in Seq(Rows)
      /\ DOMAIN (p \o q) = 1..(Len(txs) + Len(new))
      /\ \A i \in 1..Len(txs) : (p \o q)[i] = p[i]
      /\ \A j \in 1..Len(new) : (p \o q)[Len(txs) + j] = q[j]
  <2>1. ASSUME NEW u \in Seq(Rows), NEW v \in Seq(Rows)
        PROVE  /\ u \o v \in Seq(Rows)
               /\ DOMAIN (u \o v) = 1..(Len(u) + Len(v))
               /\ \A i \in 1..Len(u) : (u \o v)[i] = u[i]
               /\ \A j \in 1..Len(v) : (u \o v)[Len(u) + j] = v[j]
    BY ConcatAt
  <2>2. /\ p \o q \in Seq(Rows)
        /\ DOMAIN (p \o q) = 1..(Len(p) + Len(q))
        /\ \A i \in 1..Len(p) : (p \o q)[i] = p[i]
        /\ \A j \in 1..Len(q) : (p \o q)[Len(p) + j] = q[j]
    BY <1>3, <2>1
  <2>3. QED
    BY <1>3, <2>2
<1>7. QED
  BY <1>1, <1>4, <1>5, <1>6

(* A row that none of those known is stays the only one of its kind. *)
LEMMA SeenIs ==
  ASSUME txs \in Seq(Tx), NEW new \in Seq(NewRow), NEW r,
         NEW n, n = Cardinality({i \in DOMAIN Known(new) : Known(new)[i] = r})
  PROVE  /\ n \in Nat
         /\ n = 0 => \A i \in DOMAIN Known(new) : Known(new)[i] # r
<1> DEFINE D == DOMAIN Known(new)
           T == {i \in D : Known(new)[i] = r}
<1>1. Len(txs) + Len(new) \in Nat /\ D = 1..(Len(txs) + Len(new))
  BY KnownAt
<1>2. IsFiniteSet(D)
  BY <1>1, FS_Interval
<1>3. IsFiniteSet(T)
  BY <1>2, FS_Subset
<1>4. n = Cardinality(T)
  OBVIOUS
<1>5. n \in Nat
  BY <1>3, <1>4, FS_CardinalityType
<1>6. n = 0 => T = {}
  BY <1>3, <1>4, FS_EmptySet
<1>7. QED
  BY <1>5, <1>6

(* What a row comes to: a failure, nothing, or a transaction, which was    *)
(* drafted when it is matched.                                             *)
Failed(t, s) == /\ t.new = s.new /\ t.drafts = s.drafts
                /\ t.imported = s.imported /\ t.failed = s.failed + 1

Added(t, s, x) ==
  /\ t.new = Append(s.new, x)
  /\ x.status = "pending" => t.drafts = s.drafts
  /\ x.status = "matched" =>
       \E a \in Accounts : t.drafts = Append(s.drafts, [of |-> Len(s.new) + 1, account |-> a])
  /\ \/ /\ t.imported = s.imported + 1 /\ t.failed = s.failed
        /\ ~(x.status = "pending" /\ Flow[x.row] = "out")
     \/ t.imported = s.imported /\ t.failed = s.failed + 1

LEMMA ImportRowIs ==
  ASSUME ImportsAssumption, txs \in Seq(Tx), hasCash \in BOOLEAN,
         NEW r \in Rows, NEW pick \in [Merchants -> Accounts],
         NEW s \in Progress
  PROVE  LET t == ImportRow(r, pick, s) IN
           /\ t \in Progress
           /\ \/ Failed(t, s)
              \/ t = s
              \/ /\ \A i \in DOMAIN Known(s.new) : Known(s.new)[i] # r
                 /\ \E x \in NewRow : x.row = r /\ Added(t, s, x)
<1> DEFINE seen == Cardinality({i \in DOMAIN Known(s.new) : Known(s.new)[i] = r})
           drafted == Flow[r] = "out" /\ hasCash
           done == Flow[r] = "in" \/ drafted
           a == pick[Merchant[r]]
           x == [row |-> r, status |-> IF drafted THEN "matched" ELSE "pending"]
           y == [of |-> Len(s.new) + 1, account |-> a]
           u == [s EXCEPT !.failed = @ + 1]
           w == [new      |-> Append(s.new, x),
                 drafts   |-> IF drafted THEN Append(s.drafts, y) ELSE s.drafts,
                 imported |-> s.imported + (IF done THEN 1 ELSE 0),
                 failed   |-> s.failed + (IF done THEN 0 ELSE 1)]
           t == ImportRow(r, pick, s)
<1>1. /\ s.new \in Seq(NewRow) /\ s.drafts \in Seq(NewDraft)
      /\ s.imported \in Nat /\ s.failed \in Nat
  BY DEF Progress
<1>2. /\ seen \in Nat
      /\ seen = 0 => \A i \in DOMAIN Known(s.new) : Known(s.new)[i] # r
  BY <1>1, SeenIs
<1>3. a \in Accounts
  BY DEF ImportsAssumption
<1>4. t = CASE Flow[r] = "bad" \/ seen > 1 -> u
            [] Flow[r] # "bad" /\ seen = 1 -> s
            [] OTHER -> w
  BY DEF ImportRow
<1>5. u \in Progress /\ Failed(u, s)
  <2>1. u = [new |-> s.new, drafts |-> s.drafts, imported |-> s.imported, failed |-> s.failed + 1]
    BY DEF Progress
  <2> HIDE DEF u
  <2>2. u.new = s.new /\ u.drafts = s.drafts /\ u.imported = s.imported /\ u.failed = s.failed + 1
    BY <2>1
  <2>3. u \in Progress
    BY <1>1, <2>1 DEF Progress
  <2>4. QED
    BY <2>2, <2>3 DEF Failed
<1>6. x \in NewRow /\ x.row = r /\ x.status = IF drafted THEN "matched" ELSE "pending"
  BY DEF NewRow
<1>7. w \in Progress /\ Added(w, s, x)
  <2>1. /\ w.new = Append(s.new, x)
        /\ w.drafts = IF drafted THEN Append(s.drafts, y) ELSE s.drafts
        /\ w.imported = s.imported + (IF done THEN 1 ELSE 0)
        /\ w.failed = s.failed + (IF done THEN 0 ELSE 1)
        /\ w = [new |-> w.new, drafts |-> w.drafts, imported |-> w.imported, failed |-> w.failed]
    OBVIOUS
  <2>2. y \in NewDraft
    <3>1. Len(s.new) \in Nat
      BY <1>1, LenProperties
    <3>2. QED
      BY <1>3, <3>1 DEF NewDraft
  <2>3. Append(s.new, x) \in Seq(NewRow) /\ Append(s.drafts, y) \in Seq(NewDraft)
    <3> HIDE DEF x, y
    <3>1. QED
      BY <1>1, <1>6, <2>2, AppendAt
  <2>4. /\ x.status = "pending" => w.drafts = s.drafts
        /\ x.status = "matched" => w.drafts = Append(s.drafts, y)
    <3> HIDE DEF w, y
    <3>1. QED
      BY <2>1
  <2>5. \/ /\ w.imported = s.imported + 1 /\ w.failed = s.failed
           /\ ~(x.status = "pending" /\ Flow[x.row] = "out")
        \/ w.imported = s.imported /\ w.failed = s.failed + 1
    <3> HIDE DEF w
    <3>1. CASE done
      BY <1>1, <2>1, <3>1
    <3>2. CASE ~done
      BY <1>1, <2>1, <3>2
    <3>3. QED
      BY <3>1, <3>2
  <2>6. w.drafts \in Seq(NewDraft) /\ w.imported \in Nat /\ w.failed \in Nat
    <3> HIDE DEF w, x, y
    <3>1. QED
      BY <1>1, <2>1, <2>3
  <2>7. x.status = "matched" =>
          \E b \in Accounts : w.drafts = Append(s.drafts, [of |-> Len(s.new) + 1, account |-> b])
    <3> HIDE DEF w, x
    <3>1. QED
      BY <1>3, <2>4
  <2> HIDE DEF w, x, y
  <2>8. w \in Progress
    BY <2>1, <2>3, <2>6 DEF Progress
  <2>9. QED
    BY <2>1, <2>4, <2>5, <2>7, <2>8 DEF Added
<1> HIDE DEF seen, a, u, w, x, t
<1>8. CASE Flow[r] = "bad" \/ seen > 1
  BY <1>4, <1>5, <1>8 DEF t
<1>9. CASE ~(Flow[r] = "bad" \/ seen > 1) /\ seen = 1
  BY <1>4, <1>9 DEF t
<1>10. CASE ~(Flow[r] = "bad" \/ seen > 1) /\ seen # 1
  <2>1. seen = 0
    BY <1>2, <1>10
  <2>2. t = w
    BY <1>4, <1>10
  <2>3. t \in Progress /\ \E z \in NewRow : z.row = r /\ Added(t, s, z)
    BY <1>6, <1>7, <2>2
  <2>4. \A i \in DOMAIN Known(s.new) : Known(s.new)[i] # r
    BY <1>2, <2>1
  <2>5. QED
    BY <2>3, <2>4 DEF t
<1>11. QED
  BY <1>8, <1>9, <1>10

(* One row more. *)
LEMMA AddedTallied ==
  ASSUME NEW n \in Nat, NEW s, Tallied(s, n), NEW t \in Progress, NEW x \in NewRow, Added(t, s, x)
  PROVE  Tallied(t, n + 1)
<1> DEFINE m == Len(s.new)
           l == Len(s.drafts)
<1>1. /\ s.new \in Seq(NewRow) /\ s.drafts \in Seq(NewDraft)
      /\ s.imported \in Nat /\ s.failed \in Nat
  BY DEF Tallied, Progress
<1>2. m \in Nat /\ l \in Nat
  BY <1>1, LenProperties
<1>3. /\ Len(t.new) = m + 1
      /\ DOMAIN t.new = 1..(m + 1) /\ DOMAIN s.new = 1..m
      /\ \A i \in 1..m : t.new[i] = s.new[i]
      /\ t.new[m + 1] = x
  BY <1>1, AppendAt DEF Added
<1>4. DOMAIN s.drafts = 1..l
  BY <1>1, LenProperties
<1>5. ASSUME x.status = "matched"
      PROVE  /\ DOMAIN t.drafts = 1..(l + 1)
             /\ \A k \in 1..l : t.drafts[k] = s.drafts[k]
             /\ t.drafts[l + 1].of = m + 1
  <2>1. PICK a \in Accounts : t.drafts = Append(s.drafts, [of |-> m + 1, account |-> a])
    BY <1>5 DEF Added
  <2>2. PICK y \in NewDraft : y.of = m + 1 /\ t.drafts = Append(s.drafts, y)
    BY <1>2, <2>1 DEF NewDraft
  <2>3. QED
    BY <1>1, <2>2, AppendAt
<1>6. x.status = "pending" => t.drafts = s.drafts
  BY DEF Added
<1>7. \/ t.imported = s.imported + 1 /\ t.failed = s.failed /\ ~(x.status = "pending" /\ Flow[x.row] = "out")
      \/ t.imported = s.imported /\ t.failed = s.failed + 1
  BY DEF Added
<1>8. x.status \in {"pending", "matched"}
  BY DEF NewRow
<1>9. /\ \A k \in 1..l : s.drafts[k].of \in 1..m /\ s.new[s.drafts[k].of].status = "matched"
      /\ \A j, k \in 1..l : s.drafts[j].of = s.drafts[k].of => j = k
      /\ \A i \in 1..m : s.new[i].status = "matched" => \E k \in 1..l : s.drafts[k].of = i
      /\ \A i \in 1..m : s.new[i].status = "pending" /\ Flow[s.new[i].row] = "out" => s.failed > 0
      /\ s.imported <= m /\ m <= s.imported + s.failed
      /\ s.imported + s.failed <= n
  BY <1>3, <1>4 DEF Tallied
<1> HIDE DEF m, l
<1>10. /\ \A i \in 1..(m + 1) : i \in 1..m \/ i = m + 1
       /\ \A k \in 1..(l + 1) : k \in 1..l \/ k = l + 1
       /\ \A i \in 1..m : i \in 1..(m + 1)
       /\ m + 1 \in 1..(m + 1) /\ l + 1 \in 1..(l + 1) /\ m + 1 \notin 1..m
       /\ \A k \in 1..l : k \in 1..(l + 1)
  BY <1>2
<1>11. \A i \in 1..(m + 1) : t.new[i].status = "pending" /\ Flow[t.new[i].row] = "out" => t.failed > 0
  <2>1. t.failed \in Nat /\ t.failed >= s.failed
    BY <1>1, <1>7
  <2>2. ASSUME NEW i \in 1..m, t.new[i].status = "pending", Flow[t.new[i].row] = "out"
        PROVE  t.failed > 0
    <3>1. s.new[i].status = "pending" /\ Flow[s.new[i].row] = "out"
      BY <1>3, <2>2
    <3>2. s.failed > 0
      BY <1>9, <3>1
    <3>3. QED
      BY <1>1, <2>1, <3>2
  <2>3. ASSUME t.new[m + 1].status = "pending", Flow[t.new[m + 1].row] = "out"
        PROVE  t.failed > 0
    <3>1. t.failed = s.failed + 1
      BY <1>3, <1>7, <2>3
    <3>2. QED
      BY <1>1, <3>1
  <2>4. QED
    BY <1>10, <2>2, <2>3
<1>12. /\ t.imported <= Len(t.new) /\ Len(t.new) <= t.imported + t.failed
       /\ t.imported + t.failed <= n + 1
  <2>1. /\ Len(t.new) = m + 1 /\ m \in Nat
        /\ s.imported \in Nat /\ s.failed \in Nat
        /\ s.imported <= m /\ m <= s.imported + s.failed /\ s.imported + s.failed <= n
    BY <1>1, <1>2, <1>3, <1>9
  <2>2. CASE t.imported = s.imported + 1 /\ t.failed = s.failed
    BY <2>1, <2>2
  <2>3. CASE t.imported = s.imported /\ t.failed = s.failed + 1
    BY <2>1, <2>3
  <2>4. QED
    BY <1>7, <2>2, <2>3
<1>13. CASE x.status = "matched"
  <2>1. \A k \in 1..(l + 1) : t.drafts[k].of \in 1..(m + 1) /\ t.new[t.drafts[k].of].status = "matched"
    <3>1. ASSUME NEW k \in 1..l
          PROVE  t.drafts[k].of \in 1..(m + 1) /\ t.new[t.drafts[k].of].status = "matched"
      <4>1. t.drafts[k] = s.drafts[k] /\ s.drafts[k].of \in 1..m
        BY <1>5, <1>9, <1>13
      <4>2. PICK i \in 1..m : i = s.drafts[k].of /\ t.drafts[k].of = i
        BY <4>1
      <4>3. s.new[i].status = "matched"
        BY <1>9, <4>2
      <4>4. i \in 1..(m + 1) /\ t.new[i].status = "matched"
        BY <1>3, <1>10, <4>3
      <4>5. QED
        BY <4>2, <4>4
    <3>2. t.drafts[l + 1].of = m + 1 /\ t.new[m + 1].status = "matched"
      BY <1>3, <1>5, <1>13
    <3>3. QED
      BY <1>10, <3>1, <3>2
  <2>2. ASSUME NEW j \in 1..(l + 1), NEW k \in 1..(l + 1), t.drafts[j].of = t.drafts[k].of
        PROVE  j = k
    <3>1. \A i \in 1..l : t.drafts[i].of = s.drafts[i].of /\ s.drafts[i].of \in 1..m
      BY <1>5, <1>9, <1>13
    <3>2. t.drafts[l + 1].of = m + 1
      BY <1>5, <1>13
    <3>3. CASE j \in 1..l /\ k \in 1..l
      BY <1>9, <2>2, <3>1, <3>3
    <3>4. CASE j = l + 1 \/ k = l + 1
      BY <1>10, <2>2, <3>1, <3>2, <3>4
    <3>5. QED
      BY <1>10, <3>3, <3>4
  <2>3. \A i \in 1..(m + 1) : t.new[i].status = "matched" => \E k \in 1..(l + 1) : t.drafts[k].of = i
    <3>1. ASSUME NEW i \in 1..m, t.new[i].status = "matched"
          PROVE  \E k \in 1..(l + 1) : t.drafts[k].of = i
      <4>1. PICK k \in 1..l : s.drafts[k].of = i
        BY <1>3, <1>9, <3>1
      <4>2. k \in 1..(l + 1) /\ t.drafts[k] = s.drafts[k]
        BY <1>5, <1>10, <1>13
      <4>3. QED
        BY <4>1, <4>2
    <3>2. t.drafts[l + 1].of = m + 1
      BY <1>5, <1>13
    <3>3. QED
      BY <1>10, <3>1, <3>2
  <2>4. DOMAIN t.drafts = 1..(l + 1)
    BY <1>5, <1>13
  <2>5. QED
    BY <1>3, <1>11, <1>12, <2>1, <2>2, <2>3, <2>4 DEF Tallied
<1>14. CASE x.status = "pending"
  <2>1. t.drafts = s.drafts /\ DOMAIN t.drafts = 1..l
    BY <1>4, <1>6, <1>14
  <2>2. ASSUME NEW k \in 1..l
        PROVE  t.drafts[k].of \in 1..(m + 1) /\ t.new[t.drafts[k].of].status = "matched"
    <3>1. PICK i \in 1..m : i = s.drafts[k].of /\ t.drafts[k].of = i /\ s.new[i].status = "matched"
      BY <1>9, <2>1
    <3>2. i \in 1..(m + 1) /\ t.new[i].status = "matched"
      BY <1>3, <1>10, <3>1
    <3>3. QED
      BY <3>1, <3>2
  <2>3. ASSUME NEW i \in 1..(m + 1), t.new[i].status = "matched"
        PROVE  \E k \in 1..l : t.drafts[k].of = i
    <3>1. i # m + 1
      BY <1>3, <1>14, <2>3
    <3>2. i \in 1..m /\ s.new[i].status = "matched"
      BY <1>3, <1>10, <2>3, <3>1
    <3>3. QED
      BY <1>9, <2>1, <3>2
  <2>4. \A j, k \in 1..l : t.drafts[j].of = t.drafts[k].of => j = k
    BY <1>9, <2>1
  <2>5. QED
    BY <1>3, <1>11, <1>12, <2>1, <2>2, <2>3, <2>4 DEF Tallied
<1>15. QED
  BY <1>8, <1>13, <1>14

LEMMA ImportRowTallied ==
  ASSUME ImportsAssumption, txs \in Seq(Tx), hasCash \in BOOLEAN,
         NEW r \in Rows, NEW pick \in [Merchants -> Accounts],
         NEW n \in Nat, NEW s, Tallied(s, n)
  PROVE  Tallied(ImportRow(r, pick, s), n + 1)
<1> DEFINE t == ImportRow(r, pick, s)
<1>1. s \in Progress
  BY DEF Tallied
<1>2. t \in Progress /\ (Failed(t, s) \/ t = s \/ \E x \in NewRow : Added(t, s, x))
  BY <1>1, ImportRowIs
<1> HIDE DEF t
<1>3. s.imported \in Nat /\ s.failed \in Nat /\ Len(s.new) \in Nat
  BY <1>1, LenProperties DEF Progress
<1>4. CASE Failed(t, s)
  BY <1>2, <1>3, <1>4, SMTT(60) DEF Tallied, Failed, t
<1>5. CASE t = s
  BY <1>3, <1>5 DEF Tallied, t
<1>6. CASE \E x \in NewRow : Added(t, s, x)
  BY <1>2, <1>6, AddedTallied DEF t
<1>7. QED
  BY <1>2, <1>4, <1>5, <1>6

(* Rows that are known once stay so. *)
LEMMA ImportRowDistinct ==
  ASSUME ImportsAssumption, txs \in Seq(Tx), hasCash \in BOOLEAN,
         NEW r \in Rows, NEW pick \in [Merchants -> Accounts],
         NEW s \in Progress, Distinct(Known(s.new))
  PROVE  Distinct(Known(ImportRow(r, pick, s).new))
<1> DEFINE t == ImportRow(r, pick, s)
<1>1. \/ t.new = s.new
      \/ /\ \A i \in DOMAIN Known(s.new) : Known(s.new)[i] # r
         /\ \E x \in NewRow : x.row = r /\ t.new = Append(s.new, x)
  <2> HIDE DEF t
  <2>1. \/ Failed(t, s)
        \/ t = s
        \/ /\ \A i \in DOMAIN Known(s.new) : Known(s.new)[i] # r
           /\ \E x \in NewRow : x.row = r /\ Added(t, s, x)
    BY ImportRowIs DEF t
  <2>2. Failed(t, s) \/ t = s => t.new = s.new
    BY DEF Failed
  <2>3. \A x \in NewRow : Added(t, s, x) => t.new = Append(s.new, x)
    BY DEF Added
  <2>4. QED
    BY <2>1, <2>2, <2>3
<1> HIDE DEF t
<1>2. CASE t.new = s.new
  BY <1>2 DEF t
<1>3. ASSUME \A i \in DOMAIN Known(s.new) : Known(s.new)[i] # r,
             NEW x \in NewRow, x.row = r, t.new = Append(s.new, x)
      PROVE  Distinct(Known(t.new))
  <2> DEFINE m == Len(txs)
             l == Len(s.new)
             p == Known(s.new)
             q == Known(t.new)
  <2>1. s.new \in Seq(NewRow)
    BY DEF Progress
  <2>2. /\ t.new \in Seq(NewRow) /\ Len(t.new) = l + 1
        /\ \A j \in 1..l : t.new[j] = s.new[j]
        /\ t.new[l + 1] = x
    BY <1>3, <2>1, AppendAt
  <2>3. /\ m \in Nat /\ l \in Nat /\ DOMAIN p = 1..(m + l)
        /\ \A i \in 1..m : p[i] = txs[i].row
        /\ \A j \in 1..l : p[m + j] = s.new[j].row
    BY <2>1, KnownAt
  <2>4. /\ DOMAIN q = 1..(m + Len(t.new))
        /\ \A i \in 1..m : q[i] = txs[i].row
        /\ \A j \in 1..Len(t.new) : q[m + j] = t.new[j].row
    BY <2>2, KnownAt
  <2> HIDE DEF m, l, p, q
  <2>5. DOMAIN q = 1..(m + l + 1) /\ q[m + l + 1] = r
    <3>1. m + Len(t.new) = m + l + 1 /\ l + 1 \in 1..Len(t.new) /\ m + (l + 1) = m + l + 1
      BY <2>2, <2>3
    <3>2. QED
      BY <1>3, <2>2, <2>4, <3>1
  <2>6. \A i \in 1..(m + l) : q[i] = p[i]
    <3>1. TAKE i \in 1..(m + l)
    <3>2. CASE i \in 1..m
      BY <2>3, <2>4, <3>2
    <3>3. CASE i > m
      <4>1. i - m \in 1..l /\ i - m \in 1..Len(t.new) /\ m + (i - m) = i
        BY <2>2, <2>3, <3>3
      <4>2. p[i] = s.new[i - m].row /\ q[i] = t.new[i - m].row
        BY <2>3, <2>4, <4>1
      <4>3. QED
        BY <2>2, <4>1, <4>2
    <3>4. QED
      BY <2>3, <3>2, <3>3
  <2>7. \A i \in 1..(m + l) : p[i] # r
    BY <1>3, <2>3 DEF p
  <2>8. \A i, j \in 1..(m + l) : p[i] = p[j] => i = j
    BY <2>3 DEF Distinct, p
  <2>9. ASSUME NEW i \in 1..(m + l + 1), NEW j \in 1..(m + l + 1), q[i] = q[j]
        PROVE  i = j
    <3>1. \A k \in 1..(m + l + 1) : k \in 1..(m + l) \/ k = m + l + 1
      <4>1. PICK z \in Nat : z = m + l
        BY <2>3
      <4>2. \A k \in 1..(z + 1) : k \in 1..z \/ k = z + 1
        OBVIOUS
      <4>3. QED
        BY <4>1, <4>2
    <3>2. CASE i \in 1..(m + l) /\ j \in 1..(m + l)
      BY <2>6, <2>8, <2>9, <3>2
    <3>3. CASE i = m + l + 1 \/ j = m + l + 1
      BY <2>5, <2>6, <2>7, <2>9, <3>1, <3>3
    <3>4. QED
      BY <3>1, <3>2, <3>3
  <2>10. QED
    BY <2>5, <2>9 DEF Distinct, q
<1>4. QED
  BY <1>1, <1>2, <1>3 DEF t

(* The recursion over the rows of a file. *)
Start == [new |-> <<>>, drafts |-> <<>>, imported |-> 0, failed |-> 0]

RowsUpTo(g, f, pick, n) ==
  g = [k \in 0..n |-> IF k = 0 THEN Start ELSE ImportRow(f[k], pick, g[k - 1])]

LEMMA ImportedIs ==
  ASSUME NEW f, NEW pick
  PROVE  Imported(f, pick) = (CHOOSE g : RowsUpTo(g, f, pick, Len(f)))[Len(f)]
BY DEF Imported, RowsUpTo, Start

LEMMA RowsAt ==
  ASSUME NEW g, NEW f, NEW pick, NEW n \in Nat, RowsUpTo(g, f, pick, n)
  PROVE  /\ g[0] = Start
         /\ \A k \in 1..n : g[k] = ImportRow(f[k], pick, g[k - 1])
<1>1. g = [k \in 0..n |-> IF k = 0 THEN Start ELSE ImportRow(f[k], pick, g[k - 1])]
  BY DEF RowsUpTo
<1>2. 0 \in 0..n /\ \A k \in 1..n : k \in 0..n /\ k # 0
  OBVIOUS
<1>3. QED
  BY <1>1, <1>2

LEMMA RowsExist ==
  ASSUME NEW f, NEW pick, NEW n \in Nat
  PROVE  \E g : RowsUpTo(g, f, pick, n)
<1> DEFINE Bad == {k \in Nat : ~ \E g : RowsUpTo(g, f, pick, k)}
<1>1. SUFFICES ASSUME Bad # {} PROVE FALSE
  OBVIOUS
<1>2. PICK k \in Bad : \A m \in Bad : k <= m
  BY <1>1, LeastNat
<1>3. k \in Nat
  OBVIOUS
<1>4. CASE k = 0
  <2> DEFINE g == [i \in 0..0 |-> Start]
  <2>1. g = [i \in 0..0 |-> IF i = 0 THEN Start ELSE ImportRow(f[i], pick, g[i - 1])]
    OBVIOUS
  <2> HIDE DEF g
  <2>2. RowsUpTo(g, f, pick, k)
    BY <1>4, <2>1 DEF RowsUpTo
  <2>3. QED
    BY <2>2
<1>5. CASE k # 0
  <2>1. k - 1 \in Nat /\ k - 1 \notin Bad
    BY <1>2, <1>3, <1>5
  <2>2. PICK t : RowsUpTo(t, f, pick, k - 1)
    BY <2>1
  <2>3. /\ t[0] = Start
        /\ \A i \in 1..(k - 1) : t[i] = ImportRow(f[i], pick, t[i - 1])
    BY <2>1, <2>2, RowsAt
  <2> DEFINE g == [i \in 0..k |-> IF i <= k - 1 THEN t[i] ELSE ImportRow(f[k], pick, t[k - 1])]
  <2>4. \A i \in 0..(k - 1) : g[i] = t[i]
    BY <1>3
  <2>5. \A i \in 0..k : g[i] = IF i = 0 THEN Start ELSE ImportRow(f[i], pick, g[i - 1])
    <3>1. TAKE i \in 0..k
    <3>2. CASE i = 0
      BY <1>3, <1>5, <2>3, <2>4, <3>2
    <3>3. CASE i \in 1..(k - 1)
      <4>1. i - 1 \in 0..(k - 1) /\ i \in 0..(k - 1) /\ i # 0
        BY <1>3, <3>3
      <4>2. g[i] = t[i] /\ g[i - 1] = t[i - 1]
        BY <2>4, <4>1
      <4> HIDE DEF g
      <4>3. QED
        BY <2>3, <3>3, <4>1, <4>2
    <3>4. CASE i = k
      <4>1. i - 1 \in 0..(k - 1) /\ i # 0
        BY <1>3, <1>5, <3>4
      <4>2. g[i] = ImportRow(f[k], pick, t[k - 1]) /\ g[i - 1] = t[k - 1]
        BY <1>3, <2>4, <3>4, <4>1
      <4> HIDE DEF g
      <4>3. QED
        BY <3>4, <4>1, <4>2
    <3>5. QED
      BY <1>3, <3>2, <3>3, <3>4
  <2>6. g = [i \in 0..k |-> g[i]]
    OBVIOUS
  <2> HIDE DEF g
  <2>7. g = [i \in 0..k |-> IF i = 0 THEN Start ELSE ImportRow(f[i], pick, g[i - 1])]
    BY <2>5, <2>6
  <2>8. RowsUpTo(g, f, pick, k)
    BY <2>7 DEF RowsUpTo
  <2>9. QED
    BY <2>8
<1>6. QED
  BY <1>4, <1>5

RowsOnce == \A i, j \in DOMAIN txs : txs[i].row = txs[j].row => i = j

LEMMA StartTallied ==
  ASSUME txs \in Seq(Tx)
  PROVE  Tallied(Start, 0) /\ (RowsOnce => Distinct(Known(Start.new)))
<1>1. Start.new = <<>> /\ Start.drafts = <<>> /\ Start.imported = 0 /\ Start.failed = 0
  BY DEF Start
<1>2. <<>> \in Seq(NewRow) /\ <<>> \in Seq(NewDraft) /\ Len(<<>>) = 0 /\ DOMAIN <<>> = {}
  BY EmptySeq
<1>3. Start \in Progress
  BY <1>2 DEF Start, Progress
<1>4. Tallied(Start, 0)
  BY <1>1, <1>2, <1>3 DEF Tallied
<1>5. ASSUME RowsOnce
      PROVE  Distinct(Known(<<>>))
  <2>1. /\ Len(txs) \in Nat /\ DOMAIN txs = 1..Len(txs)
        /\ DOMAIN Known(<<>>) = 1..(Len(txs) + 0)
        /\ \A i \in 1..Len(txs) : Known(<<>>)[i] = txs[i].row
    BY <1>2, KnownAt
  <2>2. DOMAIN Known(<<>>) = DOMAIN txs
    BY <2>1
  <2>3. QED
    BY <1>5, <2>1, <2>2 DEF Distinct, RowsOnce
<1>6. QED
  BY <1>1, <1>4, <1>5

LEMMA ImportedTallied ==
  ASSUME ImportsAssumption, txs \in Seq(Tx), hasCash \in BOOLEAN,
         NEW f \in Seq(Rows), NEW pick \in [Merchants -> Accounts]
  PROVE  /\ Tallied(Imported(f, pick), Len(f))
         /\ RowsOnce => Distinct(Known(Imported(f, pick).new))
<1> DEFINE n == Len(f)
<1>1. n \in Nat /\ DOMAIN f = 1..n /\ \A k \in 1..n : f[k] \in Rows
  BY LenProperties, ElementOfSeq
<1> HIDE DEF n
<1>2. PICK g : g = (CHOOSE h : RowsUpTo(h, f, pick, n)) /\ RowsUpTo(g, f, pick, n)
  BY <1>1, RowsExist
<1>3. Imported(f, pick) = g[n]
  BY <1>2, ImportedIs DEF n
<1>4. /\ g[0] = Start
      /\ \A k \in 1..n : g[k] = ImportRow(f[k], pick, g[k - 1])
  BY <1>1, <1>2, RowsAt
<1> DEFINE Good(k) == Tallied(g[k], k) /\ (RowsOnce => Distinct(Known(g[k].new)))
           Bad == {k \in 0..n : ~Good(k)}
<1>5. ASSUME Bad # {} PROVE FALSE
  <2>1. PICK k \in Bad : \A m \in Bad : k <= m
    <3>1. Bad \in SUBSET Nat
      BY <1>1
    <3> HIDE DEF Bad
    <3>2. QED
      BY <1>5, <3>1, LeastNat
  <2>2. k # 0
    BY <1>4, <2>1, StartTallied
  <2>3. k \in 1..n /\ k - 1 \in 0..n /\ k - 1 \in Nat /\ (k - 1) + 1 = k
    BY <1>1, <2>2
  <2>4. k - 1 \notin Bad
    BY <2>1, <2>3
  <2>5. Good(k - 1)
    BY <2>3, <2>4
  <2>6. PICK s : s = g[k - 1]
    OBVIOUS
  <2>7. PICK r \in Rows : r = f[k]
    BY <1>1, <2>3
  <2>8. g[k] = ImportRow(r, pick, s)
    BY <1>4, <2>3, <2>6, <2>7
  <2>9. PICK m \in Nat : m = k - 1
    BY <2>3
  <2>10. Tallied(s, m) /\ s \in Progress
    BY <2>5, <2>6, <2>9 DEF Tallied
  <2>11. Tallied(ImportRow(r, pick, s), m + 1)
    BY <2>10, ImportRowTallied
  <2>12. Tallied(g[k], k)
    BY <2>3, <2>8, <2>9, <2>11
  <2>13. ASSUME RowsOnce PROVE Distinct(Known(g[k].new))
    <3>1. Distinct(Known(s.new))
      BY <2>5, <2>6, <2>13
    <3>2. QED
      BY <2>8, <2>10, <3>1, ImportRowDistinct
  <2>14. Good(k)
    BY <2>12, <2>13
  <2>15. QED
    BY <2>14
<1>6. n \in 0..n
  BY <1>1
<1>7. Good(n)
  BY <1>5, <1>6
<1>8. QED
  BY <1>3, <1>7 DEF n

-----------------------------------------------------------------------------
(* The inductive invariant: the tables, and the requests in flight. *)

ImportReq == [op : {"import"}, total : Nat, done : Progress]
PostReq == [op : {"post"}, entry : Nat, teaches : BOOLEAN, merchant : Merchants, account : Accounts,
            rule : Nat, revive : BOOLEAN, rewrite : BOOLEAN]
MemoryReq == [op : {"memory"}, memory : Nat, keywords : BOOLEAN, active : BOOLEAN, switch : BOOLEAN]

ReqsTyped == /\ serial \in BOOLEAN
             /\ req \in [Clients -> {Idle} \cup ImportReq \cup PostReq \cup MemoryReq]

MemoriesTyped ==
  /\ memories \in Seq(Memory)
  /\ \A i \in DOMAIN memories : memories[i].merchant = None <=> memories[i].account = None

(* The transactions of a batch, and what it says of them. *)
TxsOf(b) == {i \in DOMAIN txs : txs[i].batch = b}

BatchCounts(b) ==
  /\ Cardinality(TxsOf(b)) \in batches[b].imported..(batches[b].imported + batches[b].failed)
  /\ batches[b].imported + batches[b].failed <= batches[b].total

BankRows ==
  /\ hasCash \in BOOLEAN /\ txs \in Seq(Tx) /\ entries \in Seq(Entry) /\ batches \in Seq(Batch)
  /\ \A i \in DOMAIN txs : txs[i].batch \in DOMAIN batches
  /\ \A k \in DOMAIN entries : entries[k].tx \in DOMAIN txs /\ txs[entries[k].tx].status = "matched"
  /\ \A k, l \in DOMAIN entries : entries[k].tx = entries[l].tx => k = l
  /\ \A i \in DOMAIN txs : txs[i].status = "matched" => \E k \in DOMAIN entries : entries[k].tx = i
  /\ \A i \in DOMAIN txs : txs[i].status = "pending" /\ Flow[txs[i].row] = "out" =>
       batches[txs[i].batch].status = "failed"
  /\ \A b \in DOMAIN batches : BatchCounts(b)

(* What a request names is there, and an import has counted what it did.   *)
RequestHolds(r) ==
  /\ r.op = "import" => Tallied(r.done, r.total)
  /\ r.op = "post" => /\ r.entry \in DOMAIN entries /\ r.merchant = MerchantOf(r.entry)
                      /\ r.rule \in {0} \cup DOMAIN memories
  /\ r.op = "memory" => r.memory \in DOMAIN memories

ImportsInv == /\ ReqsTyped /\ MemoriesTyped /\ BankRows
              /\ \A c \in Clients : RequestHolds(req[c])

(* One request at a time: what it has read is what the tables say.         *)
RulesOnce == \A i, j \in DOMAIN memories :
               IsRule(i) /\ memories[i].merchant = memories[j].merchant => i = j

PostCurrent(r) ==
  /\ r.account = entries[r.entry].account /\ r.teaches = Teaches(r.entry)
  /\ r.teaches /\ r.rule = 0 => RulesFor(r.merchant) = {}
  /\ r.rule # 0 => /\ memories[r.rule].merchant = r.merchant
                   /\ ~r.revive => memories[r.rule].active
                   /\ ~r.rewrite => memories[r.rule].account = r.account

ReadsCurrent ==
  \A c \in Clients : /\ req[c].op = "import" => Distinct(Known(req[c].done.new))
                     /\ req[c].op = "post" => PostCurrent(req[c])

OneAtATime == \A c, d \in Clients : req[c] # Idle /\ req[d] # Idle => c = d

SerialInv == serial => OneAtATime /\ RowsOnce /\ RulesOnce /\ ReadsCurrent

-----------------------------------------------------------------------------
(* Requests. *)

(* The operation tells what a request has. *)
LEMMA ReqIs ==
  ASSUME ReqsTyped, NEW c \in Clients
  PROVE  /\ req[c].op = "import" => req[c] \in ImportReq
         /\ req[c].op = "post" => req[c] \in PostReq
         /\ req[c].op = "memory" => req[c] \in MemoryReq
         /\ req[c].op \in {"import", "post", "memory"} => req[c] # Idle
BY DEF ReqsTyped, Idle, ImportReq, PostReq, MemoryReq

(* A step never takes a row away, nor makes it another one's.              *)
Grows ==
  /\ \A i \in DOMAIN txs : i \in DOMAIN txs' /\ txs'[i] = txs[i]
  /\ \A k \in DOMAIN entries : k \in DOMAIN entries' /\ entries'[k].tx = entries[k].tx
  /\ \A i \in DOMAIN memories : i \in DOMAIN memories'

LEMMA RequestStays ==
  ASSUME BankRows, Grows, NEW r, RequestHolds(r)
  PROVE  RequestHolds(r)'
<1>1. r.op = "import" => Tallied(r.done, r.total)
  BY DEF RequestHolds
<1>2. ASSUME r.op = "post"
      PROVE  /\ r.entry \in DOMAIN entries' /\ r.merchant = MerchantOf(r.entry)'
             /\ r.rule \in {0} \cup DOMAIN memories'
  <2>1. /\ r.entry \in DOMAIN entries /\ r.merchant = MerchantOf(r.entry)
        /\ r.rule \in {0} \cup DOMAIN memories
    BY <1>2 DEF RequestHolds
  <2>2. entries[r.entry].tx \in DOMAIN txs
    BY <2>1 DEF BankRows
  <2>3. entries'[r.entry].tx = entries[r.entry].tx /\ txs'[entries[r.entry].tx] = txs[entries[r.entry].tx]
    BY <2>1, <2>2 DEF Grows
  <2>4. QED
    BY <2>1, <2>3 DEF Grows, MerchantOf
<1>3. r.op = "memory" => r.memory \in DOMAIN memories'
  BY DEF RequestHolds, Grows
<1>4. QED
  BY <1>1, <1>2, <1>3 DEF RequestHolds

(* It ends, or goes on as it was. *)
LEMMA EndKeeps ==
  ASSUME ImportsInv, Grows, NEW c \in Clients, End(c)
  PROVE  ReqsTyped' /\ \A d \in Clients : RequestHolds(req[d])'
<1>1. req' = [req EXCEPT ![c] = Idle] /\ serial' = serial
  BY DEF End
<1>2. ReqsTyped'
  BY <1>1 DEF ImportsInv, ReqsTyped
<1>3. ASSUME NEW d \in Clients
      PROVE  RequestHolds(req[d])'
  <2>1. CASE d = c
    <3>1. req'[d] = Idle
      BY <1>1, <2>1 DEF ImportsInv, ReqsTyped
    <3>2. QED
      BY <3>1 DEF RequestHolds, Idle
  <2>2. CASE d # c
    <3>1. req'[d] = req[d]
      BY <1>1, <2>2 DEF ImportsInv, ReqsTyped
    <3>2. PICK r : r = req[d]
      OBVIOUS
    <3>3. RequestHolds(r)'
      BY <3>2, RequestStays DEF ImportsInv
    <3>4. req'[d] = r
      BY <3>1, <3>2
    <3>5. QED
      BY <3>3, <3>4 DEF RequestHolds
  <2>3. QED
    BY <2>1, <2>2
<1>4. QED
  BY <1>2, <1>3

LEMMA OthersKeep ==
  ASSUME ImportsInv, Grows, UNCHANGED <<serial, req>>
  PROVE  ReqsTyped' /\ \A d \in Clients : RequestHolds(req[d])'
<1>1. ReqsTyped'
  BY DEF ImportsInv, ReqsTyped
<1>2. ASSUME NEW d \in Clients
      PROVE  RequestHolds(req[d])'
  <2>1. PICK r : r = req[d]
    OBVIOUS
  <2>2. RequestHolds(r)'
    BY <2>1, RequestStays DEF ImportsInv
  <2>3. req'[d] = r
    BY <2>1
  <2>4. QED
    BY <2>2, <2>3 DEF RequestHolds
<1>3. QED
  BY <1>1, <1>2

LEMMA BeginKeeps ==
  ASSUME ImportsInv, NEW c \in Clients, NEW r \in ImportReq \cup PostReq \cup MemoryReq,
         Begin(c, r), RequestHolds(r)
  PROVE  ImportsInv'
<1>1. req' = [req EXCEPT ![c] = r] /\ serial' = serial /\ UNCHANGED <<hasCash, txs, entries, batches, memories>>
  BY DEF Begin, db
<1>2. ReqsTyped'
  BY <1>1 DEF ImportsInv, ReqsTyped
<1>3. MemoriesTyped'
  BY <1>1 DEF ImportsInv, MemoriesTyped
<1>4. BankRows'
  BY <1>1 DEF ImportsInv, BankRows, BatchCounts, TxsOf
<1>5. ASSUME NEW d \in Clients
      PROVE  RequestHolds(req[d])'
  <2>1. req'[d] = IF d = c THEN r ELSE req[d]
    BY <1>1 DEF ImportsInv, ReqsTyped
  <2>2. PICK x : x = req'[d] /\ RequestHolds(x)
    BY <2>1 DEF ImportsInv
  <2>3. QED
    BY <1>1, <2>2 DEF RequestHolds, MerchantOf
<1>6. QED
  BY <1>2, <1>3, <1>4, <1>5 DEF ImportsInv

LEMMA EntriesChange ==
  ASSUME BankRows, UNCHANGED <<hasCash, txs, batches>>, entries' \in Seq(Entry),
         DOMAIN entries' = DOMAIN entries, \A k \in DOMAIN entries : entries'[k].tx = entries[k].tx
  PROVE  BankRows'
<1>1. hasCash' \in BOOLEAN /\ txs' \in Seq(Tx) /\ entries' \in Seq(Entry) /\ batches' \in Seq(Batch)
  BY DEF BankRows
<1>2. /\ \A k \in DOMAIN entries' : entries'[k].tx \in DOMAIN txs' /\ txs'[entries'[k].tx].status = "matched"
      /\ \A k, l \in DOMAIN entries' : entries'[k].tx = entries'[l].tx => k = l
  BY DEF BankRows
<1>3. ASSUME NEW i \in DOMAIN txs', txs'[i].status = "matched"
      PROVE  \E k \in DOMAIN entries' : entries'[k].tx = i
  <2>1. PICK k \in DOMAIN entries : entries[k].tx = i
    BY <1>3 DEF BankRows
  <2>2. entries'[k].tx = i /\ k \in DOMAIN entries'
    BY <2>1
  <2>3. QED
    BY <2>2
<1>4. /\ \A i \in DOMAIN txs' : txs'[i].batch \in DOMAIN batches'
      /\ \A i \in DOMAIN txs' : txs'[i].status = "pending" /\ Flow[txs'[i].row] = "out" =>
           batches'[txs'[i].batch].status = "failed"
  BY DEF BankRows
<1>5. \A b \in DOMAIN batches' : BatchCounts(b)'
  BY ZenonT(60) DEF BankRows, BatchCounts, TxsOf
<1>6. QED
  BY <1>1, <1>2, <1>3, <1>4, <1>5 DEF BankRows

LEMMA BankRowsStay ==
  ASSUME BankRows, UNCHANGED <<hasCash, txs, entries, batches>>
  PROVE  BankRows'
BY DEF BankRows, BatchCounts, TxsOf

(* A memory that changes, and one more. *)
LEMMA MemoriesChange ==
  ASSUME MemoriesTyped, NEW i \in DOMAIN memories, NEW x \in Memory,
         x.merchant = None <=> x.account = None, memories' = [memories EXCEPT ![i] = x]
  PROVE  MemoriesTyped' /\ DOMAIN memories' = DOMAIN memories
<1>1. memories \in Seq(Memory) /\ i \in 1..Len(memories)
  BY LenProperties DEF MemoriesTyped
<1>2. memories' \in Seq(Memory)
  BY <1>1, ExceptSeq
<1>3. DOMAIN memories' = DOMAIN memories
  OBVIOUS
<1>4. \A j \in DOMAIN memories : memories'[j] = IF j = i THEN x ELSE memories[j]
  OBVIOUS
<1>5. QED
  BY <1>2, <1>3, <1>4 DEF MemoriesTyped

LEMMA MemoriesGrow ==
  ASSUME MemoriesTyped, NEW x \in Memory,
         x.merchant = None <=> x.account = None, memories' = Append(memories, x)
  PROVE  MemoriesTyped' /\ \A i \in DOMAIN memories : i \in DOMAIN memories'
<1>1. memories \in Seq(Memory)
  BY DEF MemoriesTyped
<1>2. /\ memories' \in Seq(Memory)
      /\ DOMAIN memories' = 1..(Len(memories) + 1)
      /\ DOMAIN memories = 1..Len(memories) /\ Len(memories) \in Nat
      /\ \A i \in 1..Len(memories) : memories'[i] = memories[i]
      /\ memories'[Len(memories) + 1] = x
  <2>1. ASSUME NEW q \in Seq(Memory)
        PROVE  /\ Append(q, x) \in Seq(Memory)
               /\ DOMAIN Append(q, x) = 1..(Len(q) + 1)
               /\ DOMAIN q = 1..Len(q) /\ Len(q) \in Nat
               /\ \A i \in 1..Len(q) : Append(q, x)[i] = q[i]
               /\ Append(q, x)[Len(q) + 1] = x
    BY AppendAt
  <2>2. QED
    BY <1>1, <2>1
<1>3. \A i \in 1..(Len(memories) + 1) : i \in 1..Len(memories) \/ i = Len(memories) + 1
  BY <1>2
<1>4. \A i \in 1..Len(memories) : i \in 1..(Len(memories) + 1)
  BY <1>2
<1>5. \A i \in DOMAIN memories' : memories'[i].merchant = None <=> memories'[i].account = None
  BY <1>2, <1>3 DEF MemoriesTyped
<1>6. QED
  BY <1>2, <1>4, <1>5 DEF MemoriesTyped

-----------------------------------------------------------------------------
(* ImportsInv is kept, action by action. *)

LEMMA BeginImportKeeps ==
  ASSUME ImportsAssumption, ImportsInv, NEW c \in Clients, NEW f \in Files, BeginImport(c, f)
  PROVE  ImportsInv'
<1>1. PICK pick \in [Merchants -> Accounts] :
        Begin(c, [op |-> "import", total |-> Len(f), done |-> Imported(f, pick)])
  BY DEF BeginImport
<1>2. f \in Seq(Rows) /\ Len(f) \in Nat
  BY LenProperties DEF ImportsAssumption
<1>3. txs \in Seq(Tx) /\ hasCash \in BOOLEAN
  BY DEF ImportsInv, BankRows
<1>4. Tallied(Imported(f, pick), Len(f))
  BY <1>2, <1>3, ImportedTallied
<1>5. PICK d : d = Imported(f, pick)
  OBVIOUS
<1>6. d \in Progress /\ Tallied(d, Len(f))
  BY <1>4, <1>5 DEF Tallied
<1>7. PICK r \in ImportReq : r = [op |-> "import", total |-> Len(f), done |-> d]
  BY <1>2, <1>6 DEF ImportReq
<1>8. RequestHolds(r)
  BY <1>6, <1>7 DEF RequestHolds
<1>9. Begin(c, r)
  BY <1>1, <1>5, <1>7
<1>10. QED
  BY <1>8, <1>9, BeginKeeps

LEMMA BeginPostKeeps ==
  ASSUME ImportsAssumption, ImportsInv, NEW c \in Clients, NEW k \in DOMAIN entries, BeginPost(c, k)
  PROVE  ImportsInv'
<1> DEFINE m == MerchantOf(k)
<1>1. /\ txs \in Seq(Tx) /\ entries \in Seq(Entry) /\ memories \in Seq(Memory)
      /\ entries[k].tx \in DOMAIN txs
  BY DEF ImportsInv, BankRows, MemoriesTyped
<1>2. k \in Nat /\ entries[k].account \in Accounts
  <2>1. k \in 1..Len(entries) /\ Len(entries) \in Nat
    BY <1>1, LenProperties
  <2>2. entries[k] \in Entry
    BY <1>1, <2>1, ElementOfSeq
  <2>3. QED
    BY <2>1, <2>2 DEF Entry
<1>3. m \in Merchants
  <2>1. txs[entries[k].tx] \in Tx
    BY <1>1, LenProperties, ElementOfSeq
  <2>2. QED
    BY <2>1 DEF MerchantOf, Tx, ImportsAssumption
<1>4. PICK i \in {0} \cup DOMAIN memories :
        Begin(c, [op |-> "post", entry |-> k, teaches |-> Teaches(k),
                  merchant |-> m, account |-> entries[k].account, rule |-> i,
                  revive  |-> i # 0 /\ ~memories[i].active,
                  rewrite |-> i # 0 /\ memories[i].account # entries[k].account])
  BY DEF BeginPost, Rewritable, RulesFor
<1>5. i \in Nat
  BY <1>1, LenProperties
<1>6. PICK t, u, v \in BOOLEAN : t = Teaches(k) /\ u = (i # 0 /\ ~memories[i].active)
                                 /\ v = (i # 0 /\ memories[i].account # entries[k].account)
  BY DEF Teaches
<1> HIDE DEF m
<1>7. PICK r \in PostReq : r = [op |-> "post", entry |-> k, teaches |-> t, merchant |-> m,
                                account |-> entries[k].account, rule |-> i, revive |-> u, rewrite |-> v]
  BY <1>2, <1>3, <1>5 DEF PostReq
<1>8. RequestHolds(r)
  BY <1>7 DEF RequestHolds, m
<1>9. Begin(c, r)
  BY <1>4, <1>6, <1>7
<1>10. QED
  BY <1>8, <1>9, BeginKeeps

LEMMA BeginUpdateMemoryKeeps ==
  ASSUME ImportsInv, NEW c \in Clients, NEW i \in DOMAIN memories,
         NEW active \in BOOLEAN, NEW keywords \in BOOLEAN, BeginUpdateMemory(c, i, active, keywords)
  PROVE  ImportsInv'
<1>1. i \in Nat
  BY LenProperties DEF ImportsInv, MemoriesTyped
<1>2. PICK s \in BOOLEAN : s = (active # memories[i].active)
  OBVIOUS
<1>3. PICK r \in MemoryReq : r = [op |-> "memory", memory |-> i, keywords |-> keywords, active |-> active, switch |-> s]
  BY <1>1, <1>2 DEF MemoryReq
<1>4. RequestHolds(r)
  BY <1>3 DEF RequestHolds
<1>5. Begin(c, r)
  BY <1>2, <1>3 DEF BeginUpdateMemory
<1>6. QED
  BY <1>4, <1>5, BeginKeeps

LEMMA EntryKeeps ==
  ASSUME ImportsInv, UNCHANGED <<serial, hasCash, txs, batches, memories, req>>,
         entries' \in Seq(Entry), DOMAIN entries' = DOMAIN entries,
         \A k \in DOMAIN entries : entries'[k].tx = entries[k].tx
  PROVE  ImportsInv'
<1>1. BankRows'
  BY EntriesChange DEF ImportsInv
<1>2. MemoriesTyped'
  BY DEF ImportsInv, MemoriesTyped
<1>3. Grows
  BY DEF Grows
<1>4. QED
  BY <1>1, <1>2, <1>3, OthersKeep DEF ImportsInv

LEMMA EntryChanges ==
  ASSUME entries \in Seq(Entry), NEW k \in DOMAIN entries, NEW x \in Entry, x.tx = entries[k].tx,
         entries' = [entries EXCEPT ![k] = x]
  PROVE  /\ entries' \in Seq(Entry) /\ DOMAIN entries' = DOMAIN entries
         /\ \A l \in DOMAIN entries : entries'[l].tx = entries[l].tx
<1>1. k \in 1..Len(entries)
  BY LenProperties
<1>2. entries' \in Seq(Entry)
  BY <1>1, ExceptSeq
<1>3. QED
  BY <1>2

LEMMA CorrectKeeps ==
  ASSUME ImportsInv, NEW c \in Clients, NEW k \in DOMAIN entries, NEW a \in Accounts, Correct(c, k, a)
  PROVE  ImportsInv'
<1>1. entries \in Seq(Entry) /\ entries[k] \in Entry
  BY LenProperties, ElementOfSeq DEF ImportsInv, BankRows
<1> DEFINE x == [entries[k] EXCEPT !.account = a]
<1>2. x \in Entry /\ x.tx = entries[k].tx
  BY <1>1 DEF Entry
<1>3. entries' = [entries EXCEPT ![k] = x]
  BY DEF Correct
<1> HIDE DEF x
<1>4. QED
  BY <1>1, <1>2, <1>3, EntryChanges, EntryKeeps DEF Correct

LEMMA DiscardKeeps ==
  ASSUME ImportsInv, NEW c \in Clients, NEW k \in DOMAIN entries, Discard(c, k)
  PROVE  ImportsInv'
<1>1. entries \in Seq(Entry) /\ entries[k] \in Entry
  BY LenProperties, ElementOfSeq DEF ImportsInv, BankRows
<1> DEFINE x == [entries[k] EXCEPT !.status = "deleted"]
<1>2. x \in Entry /\ x.tx = entries[k].tx
  BY <1>1 DEF Entry
<1>3. entries' = [entries EXCEPT ![k] = x]
  BY DEF Discard
<1> HIDE DEF x
<1>4. QED
  BY <1>1, <1>2, <1>3, EntryChanges, EntryKeeps DEF Discard

LEMMA ToggleCashKeeps ==
  ASSUME ImportsInv, ToggleCash
  PROVE  ImportsInv'
<1>1. BankRows'
  BY DEF ImportsInv, BankRows, BatchCounts, TxsOf, ToggleCash
<1>2. MemoriesTyped' /\ Grows
  BY DEF ImportsInv, MemoriesTyped, ToggleCash, Grows
<1>3. QED
  BY <1>1, <1>2, OthersKeep DEF ImportsInv, ToggleCash

LEMMA RollbackKeeps ==
  ASSUME ImportsInv, NEW c \in Clients, Rollback(c)
  PROVE  ImportsInv'
<1>1. BankRows'
  BY BankRowsStay DEF ImportsInv, Rollback, db
<1>2. MemoriesTyped' /\ Grows
  BY DEF ImportsInv, MemoriesTyped, Rollback, db, Grows
<1>3. QED
  BY <1>1, <1>2, EndKeeps DEF ImportsInv, Rollback

LEMMA DeleteMemoryKeeps ==
  ASSUME ImportsInv, NEW c \in Clients, NEW i \in DOMAIN memories, DeleteMemory(c, i)
  PROVE  ImportsInv'
<1>1. memories \in Seq(Memory) /\ memories[i] \in Memory
  BY LenProperties, ElementOfSeq DEF ImportsInv, MemoriesTyped
<1> DEFINE x == [memories[i] EXCEPT !.active = FALSE]
<1>2. x \in Memory /\ x.merchant = memories[i].merchant /\ x.account = memories[i].account
  BY <1>1 DEF Memory
<1>3. memories' = [memories EXCEPT ![i] = x]
  BY DEF DeleteMemory
<1> HIDE DEF x
<1>4. x.merchant = None <=> x.account = None
  BY <1>2 DEF ImportsInv, MemoriesTyped
<1>5. MemoriesTyped' /\ DOMAIN memories' = DOMAIN memories
  BY <1>2, <1>3, <1>4, MemoriesChange DEF ImportsInv
<1>6. BankRows' /\ Grows
  BY <1>5, BankRowsStay DEF ImportsInv, DeleteMemory, Grows
<1>7. QED
  BY <1>5, <1>6, OthersKeep DEF ImportsInv, DeleteMemory

LEMMA CreateMemoryKeeps ==
  ASSUME ImportsInv, NEW c \in Clients, CreateMemory(c)
  PROVE  ImportsInv'
<1> DEFINE x == [merchant |-> None, account |-> None, active |-> TRUE]
<1>1. x \in Memory /\ x.merchant = None /\ x.account = None
  BY DEF Memory
<1>2. memories' = Append(memories, x)
  BY DEF CreateMemory
<1> HIDE DEF x
<1>3. MemoriesTyped' /\ \A i \in DOMAIN memories : i \in DOMAIN memories'
  BY <1>1, <1>2, MemoriesGrow DEF ImportsInv
<1>4. BankRows' /\ Grows
  BY <1>3, BankRowsStay DEF ImportsInv, CreateMemory, Grows
<1>5. QED
  BY <1>3, <1>4, OthersKeep DEF ImportsInv, CreateMemory

LEMMA UpdateMemoryKeeps ==
  ASSUME ImportsInv, NEW c \in Clients, UpdateMemory(c)
  PROVE  ImportsInv'
<1>1. PICK r : r = req[c]
  OBVIOUS
<1>2. r.op = "memory" /\ r \in MemoryReq /\ RequestHolds(r)
  BY <1>1, ReqIs DEF ImportsInv, UpdateMemory
<1>3. PICK i \in DOMAIN memories : i = r.memory
  BY <1>2 DEF RequestHolds
<1>4. memories \in Seq(Memory) /\ memories[i] \in Memory
  BY LenProperties, ElementOfSeq DEF ImportsInv, MemoriesTyped
<1> DEFINE y == Updated(memories[i], r)
<1>5. y \in Memory /\ (y.merchant = None <=> y.account = None)
  <2>1. memories[i].merchant = None <=> memories[i].account = None
    BY DEF ImportsInv, MemoriesTyped
  <2>2. r.active \in BOOLEAN
    BY <1>2 DEF MemoryReq
  <2>3. /\ memories[i].merchant \in Merchants \cup {None} /\ memories[i].account \in Accounts \cup {None}
        /\ memories[i].active \in BOOLEAN
    BY <1>4 DEF Memory
  <2>4. PICK a \in BOOLEAN : a = IF r.switch THEN r.active ELSE memories[i].active
    BY <2>2, <2>3
  <2>5. CASE r.keywords
    <3>1. y = [merchant |-> None, account |-> None, active |-> a]
      BY <2>4, <2>5 DEF Updated
    <3>2. QED
      BY <3>1 DEF Memory
  <2>6. CASE ~r.keywords
    <3>1. y = [merchant |-> memories[i].merchant, account |-> memories[i].account, active |-> a]
      BY <2>4, <2>6 DEF Updated
    <3>2. QED
      BY <2>1, <2>3, <3>1 DEF Memory
  <2>7. QED
    BY <2>5, <2>6
<1>6. memories' = [memories EXCEPT ![i] = y]
  BY <1>1, <1>3 DEF UpdateMemory
<1> HIDE DEF y
<1>7. MemoriesTyped' /\ DOMAIN memories' = DOMAIN memories
  BY <1>5, <1>6, MemoriesChange DEF ImportsInv
<1>8. BankRows' /\ Grows
  BY <1>7, BankRowsStay DEF ImportsInv, UpdateMemory, Grows
<1>9. QED
  BY <1>7, <1>8, EndKeeps DEF ImportsInv, UpdateMemory

LEMMA LearnedKeeps ==
  ASSUME ImportsAssumption, MemoriesTyped, NEW r \in PostReq, r.rule \in {0} \cup DOMAIN memories,
         memories' = Learned(r)
  PROVE  MemoriesTyped' /\ \A i \in DOMAIN memories : i \in DOMAIN memories'
<1>1. /\ r.teaches \in BOOLEAN /\ r.merchant \in Merchants /\ r.account \in Accounts
      /\ r.revive \in BOOLEAN /\ r.rewrite \in BOOLEAN
  BY DEF PostReq
<1>2. r.merchant # None /\ r.account # None
  BY <1>1 DEF ImportsAssumption
<1>3. CASE ~r.teaches
  BY <1>3 DEF Learned, MemoriesTyped
<1>4. CASE r.teaches /\ r.rule = 0
  <2> DEFINE x == [merchant |-> r.merchant, account |-> r.account, active |-> TRUE]
  <2>1. x \in Memory /\ x.merchant # None /\ x.account # None
    BY <1>1, <1>2 DEF Memory
  <2>2. memories' = Append(memories, x)
    BY <1>4 DEF Learned
  <2> HIDE DEF x
  <2>3. QED
    BY <2>1, <2>2, MemoriesGrow
<1>5. CASE r.teaches /\ r.rule # 0
  <2>1. PICK i \in DOMAIN memories : i = r.rule
    BY <1>5
  <2>2. memories[i] \in Memory
    BY LenProperties, ElementOfSeq DEF MemoriesTyped
  <2>3. memories[i].merchant = None <=> memories[i].account = None
    BY DEF MemoriesTyped
  <2>4. /\ memories[i].merchant \in Merchants \cup {None} /\ memories[i].account \in Accounts \cup {None}
        /\ memories[i].active \in BOOLEAN
    BY <2>2 DEF Memory
  <2>5. PICK a \in BOOLEAN : a = (memories[i].active \/ r.revive)
    OBVIOUS
  <2> DEFINE x == Taught(memories[i], r)
  <2>6. x \in Memory /\ (x.merchant = None <=> x.account = None)
    <3>1. CASE r.rewrite
      <4>1. x = [merchant |-> r.merchant, account |-> r.account, active |-> a]
        BY <2>5, <3>1 DEF Taught
      <4>2. QED
        BY <1>1, <1>2, <4>1 DEF Memory
    <3>2. CASE ~r.rewrite
      <4>1. x = [merchant |-> memories[i].merchant, account |-> memories[i].account, active |-> a]
        BY <2>5, <3>2 DEF Taught
      <4>2. QED
        BY <2>3, <2>4, <4>1 DEF Memory
    <3>3. QED
      BY <3>1, <3>2
  <2>7. memories' = [memories EXCEPT ![i] = x]
    BY <1>5, <2>1 DEF Learned
  <2> HIDE DEF x
  <2>8. QED
    BY <2>6, <2>7, MemoriesChange
<1>6. QED
  BY <1>1, <1>3, <1>4, <1>5

LEMMA PostKeeps ==
  ASSUME ImportsAssumption, ImportsInv, NEW c \in Clients, Post(c)
  PROVE  ImportsInv'
<1>1. PICK r : r = req[c]
  OBVIOUS
<1>2. r.op = "post" /\ r \in PostReq /\ RequestHolds(r)
  BY <1>1, ReqIs DEF ImportsInv, Post
<1>3. PICK k \in DOMAIN entries : k = r.entry
  BY <1>2 DEF RequestHolds
<1>4. r.rule \in {0} \cup DOMAIN memories
  BY <1>2 DEF RequestHolds
<1>5. memories' = Learned(r) /\ entries' = [entries EXCEPT ![k].status = "posted"]
  BY <1>1, <1>3 DEF Post
<1>6. MemoriesTyped' /\ \A i \in DOMAIN memories : i \in DOMAIN memories'
  BY <1>2, <1>4, <1>5, LearnedKeeps DEF ImportsInv
<1>7. entries \in Seq(Entry) /\ entries[k] \in Entry
  BY LenProperties, ElementOfSeq DEF ImportsInv, BankRows
<1> DEFINE x == [entries[k] EXCEPT !.status = "posted"]
<1>8. x \in Entry /\ x.tx = entries[k].tx
  BY <1>7 DEF Entry
<1>9. entries' = [entries EXCEPT ![k] = x]
  BY <1>5
<1> HIDE DEF x
<1>10. /\ entries' \in Seq(Entry) /\ DOMAIN entries' = DOMAIN entries
       /\ \A l \in DOMAIN entries : entries'[l].tx = entries[l].tx
  BY <1>7, <1>8, <1>9, EntryChanges
<1>11. BankRows'
  BY <1>10, EntriesChange DEF ImportsInv, Post
<1>12. Grows
  BY <1>6, <1>10 DEF Grows, Post
<1>13. QED
  BY <1>6, <1>11, <1>12, EndKeeps DEF ImportsInv, Post

(* What a committed import d leaves of w rows, the tables having had n     *)
(* transactions, e drafts and b - 1 batches.                               *)
Left(d, w, n, e, b) ==
  /\ n \in Nat /\ e \in Nat /\ b \in Nat \ {0} /\ Tallied(d, w)
  /\ txs' \in Seq(Tx) /\ entries' \in Seq(Entry) /\ batches' \in Seq(Batch)
  /\ DOMAIN txs = 1..n /\ DOMAIN txs' = 1..(n + Len(d.new))
  /\ \A i \in 1..n : txs'[i] = txs[i]
  /\ \A j \in 1..Len(d.new) : /\ txs'[n + j].row = d.new[j].row /\ txs'[n + j].batch = b
                              /\ txs'[n + j].status = d.new[j].status
  /\ DOMAIN entries = 1..e /\ DOMAIN entries' = 1..(e + Len(d.drafts))
  /\ \A k \in 1..e : entries'[k] = entries[k]
  /\ \A k \in 1..Len(d.drafts) : entries'[e + k].tx = n + d.drafts[k].of
  /\ DOMAIN batches = 1..(b - 1) /\ DOMAIN batches' = 1..b
  /\ \A a \in 1..(b - 1) : batches'[a] = batches[a]
  /\ batches'[b] = [total |-> w, imported |-> d.imported, failed |-> d.failed, status |-> Outcome(d)]

LEMMA ImportLeaves ==
  ASSUME ImportsAssumption, ImportsInv, NEW c \in Clients, Import(c),
         NEW d, d = req[c].done, NEW n, n = Len(txs), NEW e, e = Len(entries), NEW b, b = Len(batches) + 1
  PROVE  Left(d, req[c].total, n, e, b)
<1>1. req[c] \in ImportReq /\ Tallied(d, req[c].total)
  BY ReqIs DEF ImportsInv, RequestHolds, Import
<1>2. /\ d.new \in Seq(NewRow) /\ d.drafts \in Seq(NewDraft)
      /\ d.imported \in Nat /\ d.failed \in Nat /\ req[c].total \in Nat
  BY <1>1 DEF Tallied, Progress, ImportReq
<1>3. txs \in Seq(Tx) /\ entries \in Seq(Entry) /\ batches \in Seq(Batch)
  BY DEF ImportsInv, BankRows
<1>4. /\ n \in Nat /\ e \in Nat /\ b \in Nat \ {0} /\ DOMAIN txs = 1..n /\ DOMAIN entries = 1..e
      /\ DOMAIN batches = 1..(b - 1) /\ Len(d.new) \in Nat /\ DOMAIN d.new = 1..Len(d.new)
      /\ Len(d.drafts) \in Nat /\ DOMAIN d.drafts = 1..Len(d.drafts)
  <2>1. /\ Len(d.new) \in Nat /\ DOMAIN d.new = 1..Len(d.new)
        /\ Len(d.drafts) \in Nat /\ DOMAIN d.drafts = 1..Len(d.drafts)
    BY <1>2, LenProperties
  <2>2. /\ n \in Nat /\ DOMAIN txs = 1..n
        /\ e \in Nat /\ DOMAIN entries = 1..e
    BY <1>3, LenProperties
  <2>3. b \in Nat \ {0} /\ DOMAIN batches = 1..(b - 1)
    <3>1. Len(batches) \in Nat /\ DOMAIN batches = 1..Len(batches)
      BY <1>3, LenProperties
    <3>2. b - 1 = Len(batches)
      BY <3>1
    <3>3. QED
      BY <3>1, <3>2
  <2>4. QED
    BY <2>1, <2>2, <2>3
<1>5. b <= MaxBatches /\ n + Len(d.new) <= MaxTxs /\ MaxTxs \in Nat /\ MaxBatches \in Nat
  BY DEF Import, ImportsAssumption
<1> DEFINE p == [i \in DOMAIN d.new |-> [row |-> d.new[i].row, batch |-> b, status |-> d.new[i].status]]
           q == Drafts(d.drafts)
           x == [total |-> req[c].total, imported |-> d.imported, failed |-> d.failed, status |-> Outcome(d)]
<1>6. txs' = txs \o p /\ entries' = entries \o q /\ batches' = Append(batches, x)
  BY DEF Import
<1>7. p \in Seq(Tx) /\ Len(p) = Len(d.new)
  <2>1. ASSUME NEW i \in 1..Len(d.new)
        PROVE  [row |-> d.new[i].row, batch |-> b, status |-> d.new[i].status] \in Tx
    <3>1. d.new[i] \in NewRow
      BY <1>2, <2>1, ElementOfSeq
    <3>2. b \in 1..MaxBatches
      BY <1>4, <1>5
    <3>3. QED
      BY <3>1, <3>2 DEF Tx, NewRow
  <2>2. p \in [1..Len(d.new) -> Tx]
    BY <1>4, <2>1
  <2> HIDE DEF p
  <2>3. QED
    BY <1>4, <2>2, FunctionIsSeq
<1>8. q \in Seq(Entry) /\ Len(q) = Len(d.drafts)
  <2>1. ASSUME NEW k \in 1..Len(d.drafts)
        PROVE  [tx |-> n + d.drafts[k].of, account |-> d.drafts[k].account, status |-> "draft"] \in Entry
    <3>1. d.drafts[k] \in NewDraft
      BY <1>2, <2>1, ElementOfSeq
    <3>2. d.drafts[k].of \in 1..Len(d.new)
      BY <1>1, <1>4 DEF Tallied
    <3>3. n + d.drafts[k].of \in 1..MaxTxs
      <4>1. ASSUME NEW l \in Nat, NEW o \in 1..l, n + l <= MaxTxs
            PROVE  n + o \in 1..MaxTxs
        BY <1>4, <1>5, <4>1
      <4>2. QED
        BY <1>4, <1>5, <3>2, <4>1
    <3>4. QED
      BY <3>1, <3>3 DEF Entry, NewDraft
  <2>2. q \in [1..Len(d.drafts) -> Entry]
    BY <1>4, <2>1 DEF Drafts
  <2> HIDE DEF q
  <2>3. QED
    BY <1>4, <2>2, FunctionIsSeq
<1>9. x \in Batch /\ x.status = Outcome(d)
  BY <1>2 DEF Batch, Outcome
<1>10. \A j \in 1..Len(d.new) : /\ p[j].row = d.new[j].row /\ p[j].batch = b
                                /\ p[j].status = d.new[j].status
  BY <1>4
<1>11. \A k \in 1..Len(d.drafts) : q[k].tx = n + d.drafts[k].of
  BY <1>4 DEF Drafts
<1> HIDE DEF p, q
<1>12. /\ txs' \in Seq(Tx) /\ DOMAIN txs' = 1..(n + Len(d.new))
       /\ \A i \in 1..n : txs'[i] = txs[i]
       /\ \A j \in 1..Len(d.new) : txs'[n + j] = p[j]
  <2>1. ASSUME NEW u \in Seq(Tx), NEW v \in Seq(Tx)
        PROVE  /\ u \o v \in Seq(Tx)
               /\ DOMAIN (u \o v) = 1..(Len(u) + Len(v))
               /\ \A i \in 1..Len(u) : (u \o v)[i] = u[i]
               /\ \A j \in 1..Len(v) : (u \o v)[Len(u) + j] = v[j]
    BY ConcatAt
  <2>2. /\ txs \o p \in Seq(Tx)
        /\ DOMAIN (txs \o p) = 1..(Len(txs) + Len(p))
        /\ \A i \in 1..Len(txs) : (txs \o p)[i] = txs[i]
        /\ \A j \in 1..Len(p) : (txs \o p)[Len(txs) + j] = p[j]
    BY <1>3, <1>7, <2>1
  <2>3. QED
    BY <1>6, <1>7, <2>2
<1>13. /\ entries' \in Seq(Entry) /\ DOMAIN entries' = 1..(e + Len(d.drafts))
       /\ \A k \in 1..e : entries'[k] = entries[k]
       /\ \A k \in 1..Len(d.drafts) : entries'[e + k] = q[k]
  <2>1. ASSUME NEW u \in Seq(Entry), NEW v \in Seq(Entry)
        PROVE  /\ u \o v \in Seq(Entry)
               /\ DOMAIN (u \o v) = 1..(Len(u) + Len(v))
               /\ \A i \in 1..Len(u) : (u \o v)[i] = u[i]
               /\ \A j \in 1..Len(v) : (u \o v)[Len(u) + j] = v[j]
    BY ConcatAt
  <2>2. /\ entries \o q \in Seq(Entry)
        /\ DOMAIN (entries \o q) = 1..(Len(entries) + Len(q))
        /\ \A k \in 1..Len(entries) : (entries \o q)[k] = entries[k]
        /\ \A k \in 1..Len(q) : (entries \o q)[Len(entries) + k] = q[k]
    BY <1>3, <1>8, <2>1
  <2>3. QED
    BY <1>6, <1>8, <2>2
<1>14. /\ batches' \in Seq(Batch) /\ DOMAIN batches' = 1..b
       /\ \A a \in 1..(b - 1) : batches'[a] = batches[a]
       /\ batches'[b] = x
  <2> HIDE DEF x
  <2>1. ASSUME NEW u \in Seq(Batch)
        PROVE  /\ Append(u, x) \in Seq(Batch)
               /\ DOMAIN Append(u, x) = 1..(Len(u) + 1)
               /\ Len(u) \in Nat
               /\ \A a \in 1..Len(u) : Append(u, x)[a] = u[a]
               /\ Append(u, x)[Len(u) + 1] = x
    BY <1>9, AppendAt
  <2>2. Len(batches) = b - 1
    BY <1>3, LenProperties
  <2>3. /\ Append(batches, x) \in Seq(Batch)
        /\ DOMAIN Append(batches, x) = 1..(Len(batches) + 1)
        /\ \A a \in 1..Len(batches) : Append(batches, x)[a] = batches[a]
        /\ Append(batches, x)[Len(batches) + 1] = x
    BY <1>3, <2>1
  <2>4. QED
    BY <1>6, <2>2, <2>3
<1>15. \A j \in 1..Len(d.new) : /\ txs'[n + j].row = d.new[j].row /\ txs'[n + j].batch = b
                                /\ txs'[n + j].status = d.new[j].status
  <2>1. TAKE j \in 1..Len(d.new)
  <2>2. txs'[n + j] = p[j]
    BY <1>12, Zenon
  <2>3. p[j].row = d.new[j].row /\ p[j].batch = b /\ p[j].status = d.new[j].status
    BY <1>10, Zenon
  <2>4. QED
    BY <2>2, <2>3, Zenon
<1>16. \A k \in 1..Len(d.drafts) : entries'[e + k].tx = n + d.drafts[k].of
  BY <1>11, <1>13
<1>17. batches'[b] = [total |-> req[c].total, imported |-> d.imported,
                      failed |-> d.failed, status |-> Outcome(d)]
  BY <1>14
<1>18. QED
  BY <1>1, <1>4, <1>12, <1>13, <1>14, <1>15, <1>16, <1>17, Zenon DEF Left

LEMMA ImportKeeps ==
  ASSUME ImportsAssumption, ImportsInv, NEW c \in Clients, Import(c)
  PROVE  ImportsInv'
<1>1. PICK d, w, n, e, b : Left(d, w, n, e, b)
  BY ImportLeaves
<1>2. PICK m, l : m = Len(d.new) /\ l = Len(d.drafts)
  OBVIOUS
<1>3. /\ n \in Nat /\ e \in Nat /\ b \in Nat \ {0} /\ Tallied(d, w)
      /\ txs' \in Seq(Tx) /\ entries' \in Seq(Entry) /\ batches' \in Seq(Batch)
  BY <1>1 DEF Left
<1>4. /\ DOMAIN txs = 1..n /\ DOMAIN txs' = 1..(n + m)
      /\ \A i \in 1..n : txs'[i] = txs[i]
      /\ \A j \in 1..m : /\ txs'[n + j].row = d.new[j].row /\ txs'[n + j].batch = b
                         /\ txs'[n + j].status = d.new[j].status
  BY <1>1, <1>2, Zenon DEF Left
<1>5. /\ DOMAIN entries = 1..e /\ DOMAIN entries' = 1..(e + l)
      /\ \A k \in 1..e : entries'[k] = entries[k]
      /\ \A k \in 1..l : entries'[e + k].tx = n + d.drafts[k].of
  BY <1>1, <1>2, Zenon DEF Left
<1>6. /\ DOMAIN batches = 1..(b - 1) /\ DOMAIN batches' = 1..b
      /\ \A a \in 1..(b - 1) : batches'[a] = batches[a]
      /\ batches'[b].total = w /\ batches'[b].imported = d.imported
      /\ batches'[b].failed = d.failed /\ batches'[b].status = Outcome(d)
  BY <1>1 DEF Left
<1>7. d.new \in Seq(NewRow) /\ d.drafts \in Seq(NewDraft) /\ d.imported \in Nat /\ d.failed \in Nat
  BY <1>3 DEF Tallied, Progress
<1>8. m \in Nat /\ l \in Nat /\ DOMAIN d.new = 1..m /\ DOMAIN d.drafts = 1..l
  BY <1>2, <1>7, LenProperties
<1>9. \A i \in 1..(n + m) : i \in 1..n \/ \E j \in 1..m : i = n + j
  <2>1. TAKE i \in 1..(n + m)
  <2>2. CASE i > n
    <3>1. i - n \in 1..m /\ i = n + (i - n)
      BY <1>3, <1>8, <2>2
    <3>2. QED
      BY <3>1
  <2>3. QED
    BY <1>3, <2>2
<1>10. \A k \in 1..(e + l) : k \in 1..e \/ \E j \in 1..l : k = e + j
  <2>1. TAKE k \in 1..(e + l)
  <2>2. CASE k > e
    <3>1. k - e \in 1..l /\ k = e + (k - e)
      BY <1>3, <1>8, <2>2
    <3>2. QED
      BY <3>1
  <2>3. QED
    BY <1>3, <2>2
<1>11. /\ \A j \in 1..m : n + j \in 1..(n + m) /\ n + j \notin 1..n
       /\ \A i \in 1..n : i \in 1..(n + m)
       /\ \A k \in 1..l : e + k \in 1..(e + l)
       /\ \A k \in 1..e : k \in 1..(e + l)
       /\ \A a \in 1..b : a \in 1..(b - 1) \/ a = b
       /\ \A a \in 1..(b - 1) : a \in 1..b /\ a # b
       /\ b \in 1..b
  BY <1>3, <1>8
<1>12. /\ \A k \in 1..l : d.drafts[k].of \in 1..m /\ d.new[d.drafts[k].of].status = "matched"
       /\ \A j, k \in 1..l : d.drafts[j].of = d.drafts[k].of => j = k
       /\ \A i \in 1..m : d.new[i].status = "matched" => \E k \in 1..l : d.drafts[k].of = i
       /\ \A i \in 1..m : d.new[i].status = "pending" /\ Flow[d.new[i].row] = "out" => d.failed > 0
       /\ d.imported <= m /\ m <= d.imported + d.failed
       /\ d.imported + d.failed <= w
  BY <1>2, <1>3, <1>8 DEF Tallied
<1>13. /\ \A i \in 1..n : txs[i].batch \in 1..(b - 1)
       /\ \A k \in 1..e : entries[k].tx \in 1..n /\ txs[entries[k].tx].status = "matched"
       /\ \A j, k \in 1..e : entries[j].tx = entries[k].tx => j = k
       /\ \A i \in 1..n : txs[i].status = "matched" => \E k \in 1..e : entries[k].tx = i
       /\ \A i \in 1..n : txs[i].status = "pending" /\ Flow[txs[i].row] = "out" =>
            batches[txs[i].batch].status = "failed"
       /\ \A a \in 1..(b - 1) : BatchCounts(a)
  BY <1>4, <1>5, <1>6, ZenonT(60) DEF ImportsInv, BankRows
<1>14. \A i \in 1..(n + m) : txs'[i].batch \in 1..b
  BY <1>4, <1>9, <1>11, <1>13
<1>15. \A k \in 1..(e + l) : entries'[k].tx \in 1..(n + m) /\ txs'[entries'[k].tx].status = "matched"
  <2>1. ASSUME NEW k \in 1..e
        PROVE  entries'[k].tx \in 1..(n + m) /\ txs'[entries'[k].tx].status = "matched"
    <3>1. entries'[k].tx = entries[k].tx /\ entries[k].tx \in 1..n /\ txs[entries[k].tx].status = "matched"
      BY <1>5, <1>13
    <3>2. QED
      BY <1>4, <1>11, <3>1
  <2>2. ASSUME NEW k \in 1..l
        PROVE  entries'[e + k].tx \in 1..(n + m) /\ txs'[entries'[e + k].tx].status = "matched"
    <3>1. entries'[e + k].tx = n + d.drafts[k].of
      BY <1>5
    <3>2. d.drafts[k].of \in 1..m /\ d.new[d.drafts[k].of].status = "matched"
      BY <1>12
    <3>3. txs'[n + d.drafts[k].of].status = "matched"
      BY <1>4, <3>2
    <3>4. QED
      BY <1>11, <3>1, <3>2, <3>3
  <2>3. QED
    BY <1>10, <2>1, <2>2
<1>16. ASSUME NEW j \in 1..(e + l), NEW k \in 1..(e + l), entries'[j].tx = entries'[k].tx
       PROVE  j = k
  <2>1. \A i \in 1..e : entries'[i].tx = entries[i].tx /\ entries'[i].tx \in 1..n
    BY <1>5, <1>13
  <2>2. \A i \in 1..l : /\ entries'[e + i].tx = n + d.drafts[i].of
                        /\ d.drafts[i].of \in 1..m /\ entries'[e + i].tx \notin 1..n
    <3>1. TAKE i \in 1..l
    <3>2. PICK a \in 1..m : a = d.drafts[i].of
      BY <1>12
    <3>3. entries'[e + i].tx = n + a
      BY <1>5, <3>2
    <3>4. n + a \notin 1..n
      BY <1>11
    <3>5. QED
      BY <3>2, <3>3, <3>4
  <2>3. CASE j \in 1..e /\ k \in 1..e
    BY <1>13, <1>16, <2>1, <2>3
  <2>4. ASSUME NEW u \in 1..l, NEW v \in 1..l, j = e + u, k = e + v
        PROVE  j = k
    <3>1. n + d.drafts[u].of = n + d.drafts[v].of
      BY <1>16, <2>2, <2>4
    <3>2. d.drafts[u].of = d.drafts[v].of
      <4>1. ASSUME NEW x \in 1..m, NEW y \in 1..m, n + x = n + y
            PROVE  x = y
        <5>1. n \in Int /\ x \in Int /\ y \in Int
          BY <1>3, <1>8
        <5>2. QED
          BY <4>1, <5>1
      <4>2. QED
        BY <2>2, <3>1, <4>1
    <3>3. u = v
      BY <1>12, <3>2
    <3>4. QED
      BY <2>4, <3>3
  <2>5. QED
    BY <1>10, <1>16, <2>1, <2>2, <2>3, <2>4
<1>17. ASSUME NEW i \in 1..(n + m), txs'[i].status = "matched"
       PROVE  \E k \in 1..(e + l) : entries'[k].tx = i
  <2>1. CASE i \in 1..n
    <3>1. txs[i].status = "matched"
      BY <1>4, <1>17, <2>1
    <3>2. PICK k \in 1..e : entries[k].tx = i
      BY <1>13, <2>1, <3>1
    <3>3. entries'[k].tx = i /\ k \in 1..(e + l)
      BY <1>5, <1>11, <3>2
    <3>4. QED
      BY <3>3
  <2>2. ASSUME NEW j \in 1..m, i = n + j
        PROVE  \E k \in 1..(e + l) : entries'[k].tx = i
    <3>1. d.new[j].status = "matched"
      BY <1>4, <1>17, <2>2
    <3>2. PICK k \in 1..l : d.drafts[k].of = j
      BY <1>12, <3>1
    <3>3. entries'[e + k].tx = i /\ e + k \in 1..(e + l)
      BY <1>5, <1>11, <2>2, <3>2
    <3>4. QED
      BY <3>3
  <2>3. QED
    BY <1>9, <2>1, <2>2
<1>18. ASSUME NEW i \in 1..(n + m), txs'[i].status = "pending", Flow[txs'[i].row] = "out"
       PROVE  batches'[txs'[i].batch].status = "failed"
  <2>1. CASE i \in 1..n
    <3>1. txs'[i] = txs[i] /\ batches[txs[i].batch].status = "failed" /\ txs[i].batch \in 1..(b - 1)
      BY <1>4, <1>13, <1>18, <2>1
    <3>2. QED
      BY <1>6, <3>1
  <2>2. ASSUME NEW j \in 1..m, i = n + j
        PROVE  batches'[txs'[i].batch].status = "failed"
    <3>1. d.new[j].status = "pending" /\ Flow[d.new[j].row] = "out" /\ txs'[i].batch = b
      BY <1>4, <1>18, <2>2
    <3>2. d.failed # 0
      BY <1>7, <1>12, <3>1
    <3>3. QED
      BY <1>6, <3>1, <3>2 DEF Outcome
  <2>3. QED
    BY <1>9, <2>1, <2>2
<1>19. ASSUME NEW a \in 1..b
       PROVE  BatchCounts(a)'
  <2>1. CASE a \in 1..(b - 1)
    <3>1. \A i \in 1..n : txs'[i].batch = txs[i].batch
      BY <1>4
    <3>2. \A j \in 1..m : txs'[n + j].batch # a
      BY <1>4, <1>11, <2>1
    <3>3. TxsOf(a)' = TxsOf(a)
      BY <1>4, <1>9, <1>11, <3>1, <3>2 DEF TxsOf
    <3>4. batches'[a] = batches[a] /\ BatchCounts(a)
      BY <1>6, <1>13, <2>1
    <3>5. QED
      BY <3>3, <3>4 DEF BatchCounts
  <2>2. CASE a = b
    <3>1. \A i \in 1..n : txs'[i].batch # b
      BY <1>4, <1>11, <1>13
    <3>2. \A j \in 1..m : txs'[n + j].batch = b
      BY <1>4
    <3>3. TxsOf(a)' = (n + 1)..(n + m)
      <4>1. \A i \in (n + 1)..(n + m) : i \in 1..(n + m) /\ i \notin 1..n
        BY <1>3, <1>8
      <4>2. \A j \in 1..m : n + j \in (n + 1)..(n + m)
        BY <1>3, <1>8
      <4>3. TxsOf(a)' = {i \in 1..(n + m) : txs'[i].batch = b}
        BY <1>4, <2>2 DEF TxsOf
      <4>4. ASSUME NEW i \in (n + 1)..(n + m)
            PROVE  txs'[i].batch = b
        <5>1. PICK j \in 1..m : i = n + j
          BY <1>9, <4>1
        <5>2. QED
          BY <3>2, <5>1
      <4>5. ASSUME NEW i \in 1..(n + m), txs'[i].batch = b
            PROVE  i \in (n + 1)..(n + m)
        <5>1. PICK j \in 1..m : i = n + j
          BY <1>9, <3>1, <4>5
        <5>2. QED
          BY <4>2, <5>1
      <4>6. QED
        BY <4>1, <4>3, <4>4, <4>5
    <3>4. Cardinality((n + 1)..(n + m)) = m
      <4>1. n + 1 \in Int /\ n + m \in Int
        BY <1>3, <1>8
      <4>2. Cardinality((n + 1)..(n + m)) = IF n + 1 > n + m THEN 0 ELSE (n + m) - (n + 1) + 1
        BY <4>1, FS_Interval
      <4>3. QED
        BY <1>3, <1>8, <4>2
    <3>5. m \in d.imported..(d.imported + d.failed)
      BY <1>7, <1>8, <1>12
    <3>6. QED
      BY <1>6, <1>12, <2>2, <3>3, <3>4, <3>5 DEF BatchCounts
  <2>3. QED
    BY <1>11, <2>1, <2>2
<1>20. BankRows'
  <2>1. hasCash' \in BOOLEAN
    BY DEF ImportsInv, BankRows, Import
  <2>2. QED
    BY <1>3, <1>4, <1>5, <1>6, <1>14, <1>15, <1>16, <1>17, <1>18, <1>19, <2>1 DEF BankRows
<1>21. MemoriesTyped' /\ Grows
  <2>1. memories' = memories
    BY DEF Import
  <2>2. QED
    BY <1>4, <1>5, <1>11, <2>1 DEF Grows, MemoriesTyped, ImportsInv
<1>22. QED
  BY <1>20, <1>21, EndKeeps DEF ImportsInv, Import

-----------------------------------------------------------------------------
(* One request at a time. *)

LEMMA IdleReads ==
  ASSUME \A d \in Clients : req[d] = Idle
  PROVE  OneAtATime /\ ReadsCurrent
<1>1. Idle.op = "idle"
  BY DEF Idle
<1>2. QED
  BY <1>1 DEF OneAtATime, ReadsCurrent

LEMMA EndLeavesIdle ==
  ASSUME ReqsTyped, OneAtATime, NEW c \in Clients, req[c] # Idle, End(c)
  PROVE  OneAtATime' /\ ReadsCurrent'
<1>1. \A d \in Clients : req'[d] = Idle
  BY DEF ReqsTyped, OneAtATime, End
<1>2. Idle.op = "idle"
  BY DEF Idle
<1>3. QED
  BY <1>1, <1>2 DEF OneAtATime, ReadsCurrent

(* A change while no request is in flight. *)
LEMMA AtOnceIdle ==
  ASSUME serial, NEW c \in Clients, AtOnce(c), UNCHANGED req
  PROVE  OneAtATime' /\ ReadsCurrent'
<1>1. \A d \in Clients : req'[d] = Idle
  BY DEF AtOnce
<1>2. Idle.op = "idle"
  BY DEF Idle
<1>3. QED
  BY <1>1, <1>2 DEF OneAtATime, ReadsCurrent

LEMMA BeginReads ==
  ASSUME ReqsTyped, SerialInv, serial, NEW c \in Clients, NEW r, Begin(c, r),
         r.op = "import" => Distinct(Known(r.done.new)), r.op = "post" => PostCurrent(r)
  PROVE  SerialInv'
<1>1. req' = [req EXCEPT ![c] = r] /\ UNCHANGED <<txs, entries, memories>>
  BY DEF Begin, db
<1>2. \A d \in Clients : req'[d] = IF d = c THEN r ELSE Idle
  BY <1>1 DEF Begin, AtOnce, ReqsTyped
<1>3. OneAtATime'
  BY <1>2 DEF OneAtATime
<1>4. RowsOnce' /\ RulesOnce'
  BY <1>1 DEF SerialInv, RowsOnce, RulesOnce, IsRule
<1>5. ASSUME NEW d \in Clients
      PROVE  /\ req'[d].op = "import" => Distinct(Known(req[d].done.new))'
             /\ req'[d].op = "post" => PostCurrent(req[d])'
  <2>1. CASE d = c
    <3>1. req'[d] = r
      BY <1>2, <2>1
    <3>2. Known(req[d].done.new)' = Known(r.done.new)
      <4>1. ASSUME NEW q PROVE Known(q)' = Known(q)
        BY <1>1 DEF Known
      <4>2. Known(req[d].done.new)' = Known(r.done.new)'
        BY <3>1 DEF Known
      <4>3. QED
        BY <4>1, <4>2
    <3>3. req'[d].op = "import" => Distinct(Known(req[d].done.new))'
      BY <3>1, <3>2 DEF Distinct
    <3>4. PostCurrent(r) => PostCurrent(req[d])'
      BY <1>1, <3>1 DEF PostCurrent, Teaches, MerchantOf, RulesFor
    <3>5. QED
      BY <3>1, <3>3, <3>4
  <2>2. CASE d # c
    <3>1. req'[d].op = "idle"
      BY <1>2, <2>2 DEF Idle
    <3>2. QED
      BY <3>1
  <2>3. QED
    BY <2>1, <2>2
<1>6. ReadsCurrent'
  BY <1>5 DEF ReadsCurrent
<1>7. QED
  BY <1>3, <1>4, <1>6 DEF SerialInv

LEMMA BeginImportReads ==
  ASSUME ImportsAssumption, ImportsInv, SerialInv, serial, NEW c \in Clients, NEW f \in Files, BeginImport(c, f)
  PROVE  SerialInv'
<1>1. PICK pick \in [Merchants -> Accounts] :
        Begin(c, [op |-> "import", total |-> Len(f), done |-> Imported(f, pick)])
  BY DEF BeginImport
<1>2. f \in Seq(Rows) /\ txs \in Seq(Tx) /\ hasCash \in BOOLEAN
  BY DEF ImportsAssumption, ImportsInv, BankRows
<1>3. Distinct(Known(Imported(f, pick).new))
  BY <1>2, ImportedTallied DEF SerialInv
<1>4. PICK r : r = [op |-> "import", total |-> Len(f), done |-> Imported(f, pick)]
  OBVIOUS
<1>5. r.op = "import" /\ r.done = Imported(f, pick)
  BY <1>4
<1>6. Begin(c, r)
  BY <1>1, <1>4
<1>7. QED
  BY <1>3, <1>5, <1>6, BeginReads DEF ImportsInv

LEMMA BeginPostReads ==
  ASSUME ImportsInv, SerialInv, serial, NEW c \in Clients, NEW k \in DOMAIN entries, BeginPost(c, k)
  PROVE  SerialInv'
<1> DEFINE m == MerchantOf(k)
<1>1. PICK i \in IF Teaches(k) /\ RulesFor(m) # {} THEN RulesFor(m) ELSE {0} :
        Begin(c, [op |-> "post", entry |-> k, teaches |-> Teaches(k),
                  merchant |-> m, account |-> entries[k].account, rule |-> i,
                  revive  |-> i # 0 /\ ~memories[i].active,
                  rewrite |-> i # 0 /\ memories[i].account # entries[k].account])
  BY DEF BeginPost, Rewritable
<1>2. \A j \in RulesFor(m) : j # 0 /\ memories[j].merchant = m
  BY LenProperties DEF ImportsInv, MemoriesTyped, RulesFor
<1>3. PICK t, u, v \in BOOLEAN : t = Teaches(k) /\ u = (i # 0 /\ ~memories[i].active)
                                 /\ v = (i # 0 /\ memories[i].account # entries[k].account)
  BY DEF Teaches
<1> HIDE DEF m
<1>4. PICK r : r = [op |-> "post", entry |-> k, teaches |-> t, merchant |-> m,
                    account |-> entries[k].account, rule |-> i, revive |-> u, rewrite |-> v]
  OBVIOUS
<1>5. /\ r.op = "post" /\ r.entry = k /\ r.teaches = t /\ r.merchant = m
      /\ r.account = entries[k].account /\ r.rule = i /\ r.revive = u /\ r.rewrite = v
  BY <1>4
<1>6. t /\ i = 0 => RulesFor(m) = {}
  BY <1>1, <1>2, <1>3
<1>7. i # 0 => i \in RulesFor(m)
  BY <1>1
<1>8. PostCurrent(r)
  <2>1. r.account = entries[r.entry].account /\ r.teaches = Teaches(r.entry)
    BY <1>3, <1>5
  <2>2. r.teaches /\ r.rule = 0 => RulesFor(r.merchant) = {}
    BY <1>5, <1>6
  <2>3. r.rule # 0 => /\ memories[r.rule].merchant = r.merchant
                      /\ ~r.revive => memories[r.rule].active
                      /\ ~r.rewrite => memories[r.rule].account = r.account
    BY <1>2, <1>3, <1>5, <1>7
  <2>4. QED
    BY <2>1, <2>2, <2>3 DEF PostCurrent
<1>9. Begin(c, r)
  BY <1>1, <1>3, <1>4
<1>10. QED
  BY <1>5, <1>8, <1>9, BeginReads DEF ImportsInv

(* What is learned is a rule in use, and no second one of its merchant.    *)
LEMMA LearnedRule ==
  ASSUME ImportsAssumption, MemoriesTyped, RulesOnce, NEW r \in PostReq, PostCurrent(r),
         r.rule \in {0} \cup DOMAIN memories, r.teaches, memories' = Learned(r)
  PROVE  /\ RulesOnce'
         /\ \E i \in DOMAIN memories' : /\ memories'[i].merchant = r.merchant
                                        /\ memories'[i].account = r.account /\ memories'[i].active
<1>1. r.merchant \in Merchants /\ r.revive \in BOOLEAN /\ r.rewrite \in BOOLEAN
  BY DEF PostReq
<1>2. memories \in Seq(Memory) /\ DOMAIN memories = 1..Len(memories) /\ Len(memories) \in Nat
  BY LenProperties DEF MemoriesTyped
<1>3. CASE r.rule = 0
  <2> DEFINE x == [merchant |-> r.merchant, account |-> r.account, active |-> TRUE]
             n == Len(memories)
  <2>1. x \in Memory /\ x.merchant = r.merchant /\ x.account = r.account /\ x.active
    BY <1>1 DEF Memory, PostReq
  <2>2. memories' = Append(memories, x)
    BY <1>3 DEF Learned
  <2> HIDE DEF x
  <2>3. /\ DOMAIN memories' = 1..(n + 1)
        /\ \A i \in 1..n : memories'[i] = memories[i]
        /\ memories'[n + 1] = x
    <3>1. ASSUME NEW q \in Seq(Memory)
          PROVE  /\ DOMAIN Append(q, x) = 1..(Len(q) + 1)
                 /\ \A i \in 1..Len(q) : Append(q, x)[i] = q[i]
                 /\ Append(q, x)[Len(q) + 1] = x
      BY <2>1, AppendAt
    <3>2. QED
      BY <1>2, <2>2, <3>1
  <2>4. \A i \in 1..n : memories[i].merchant # r.merchant
    BY <1>2, <1>3 DEF PostCurrent, RulesFor
  <2>5. \A i, j \in 1..n : IsRule(i) /\ memories[i].merchant = memories[j].merchant => i = j
    BY <1>2 DEF RulesOnce
  <2> HIDE DEF n
  <2>6. n + 1 \in 1..(n + 1) /\ \A i \in 1..(n + 1) : i \in 1..n \/ i = n + 1
    BY <1>2 DEF n
  <2>7. ASSUME NEW i \in 1..(n + 1), NEW j \in 1..(n + 1), memories'[i].merchant # None,
               memories'[i].merchant = memories'[j].merchant
        PROVE  i = j
    <3>1. CASE i \in 1..n /\ j \in 1..n
      BY <2>3, <2>5, <2>7, <3>1 DEF IsRule
    <3>2. CASE i = n + 1 \/ j = n + 1
      BY <2>1, <2>3, <2>4, <2>6, <2>7, <3>2
    <3>3. QED
      BY <2>6, <3>1, <3>2
  <2>8. RulesOnce'
    BY <2>3, <2>7 DEF RulesOnce, IsRule
  <2>9. QED
    BY <2>1, <2>3, <2>6, <2>8
<1>4. CASE r.rule # 0
  <2>1. PICK i \in DOMAIN memories : i = r.rule
    BY <1>4
  <2>2. /\ memories[i].merchant = r.merchant
        /\ ~r.revive => memories[i].active
        /\ ~r.rewrite => memories[i].account = r.account
    BY <1>4, <2>1 DEF PostCurrent
  <2>3. memories' = [memories EXCEPT ![i] = Taught(memories[i], r)]
    BY <1>4, <2>1 DEF Learned
  <2>4. /\ Taught(memories[i], r).merchant = r.merchant /\ Taught(memories[i], r).account = r.account
        /\ Taught(memories[i], r).active
    BY <2>2 DEF Taught
  <2>5. /\ DOMAIN memories' = DOMAIN memories
        /\ memories'[i].merchant = r.merchant /\ memories'[i].account = r.account /\ memories'[i].active
        /\ \A j \in DOMAIN memories : memories'[j].merchant = memories[j].merchant
    <3>1. PICK x : x = Taught(memories[i], r)
      OBVIOUS
    <3>2. memories' = [memories EXCEPT ![i] = x]
      BY <2>3, <3>1
    <3>3. DOMAIN memories' = DOMAIN memories /\ \A j \in DOMAIN memories : memories'[j] = IF j = i THEN x ELSE memories[j]
      BY <3>2
    <3>4. QED
      BY <2>2, <2>4, <3>1, <3>3
  <2>6. RulesOnce'
    BY <2>5 DEF RulesOnce, IsRule
  <2>7. QED
    BY <2>5, <2>6
<1>5. QED
  BY <1>3, <1>4

LEMMA PostReads ==
  ASSUME ImportsAssumption, ImportsInv, SerialInv, serial, NEW c \in Clients, Post(c)
  PROVE  SerialInv'
<1>1. PICK r : r = req[c]
  OBVIOUS
<1>2. r.op = "post" /\ r \in PostReq /\ RequestHolds(r) /\ r # Idle
  BY <1>1, ReqIs DEF ImportsInv, Post
<1>3. OneAtATime' /\ ReadsCurrent'
  BY <1>1, <1>2, EndLeavesIdle DEF SerialInv, ImportsInv, Post
<1>4. RowsOnce'
  BY DEF SerialInv, RowsOnce, Post
<1>5. memories' = Learned(r) /\ PostCurrent(r) /\ r.rule \in {0} \cup DOMAIN memories /\ RulesOnce
  BY <1>1, <1>2 DEF SerialInv, ReadsCurrent, RequestHolds, Post
<1>6. RulesOnce'
  <2>1. CASE r.teaches
    BY <1>2, <1>5, <2>1, LearnedRule DEF ImportsInv
  <2>2. CASE ~r.teaches
    BY <1>5, <2>2 DEF Learned, RulesOnce, IsRule
  <2>3. QED
    BY <2>1, <2>2
<1>7. QED
  BY <1>3, <1>4, <1>6 DEF SerialInv

LEMMA ImportReads ==
  ASSUME ImportsAssumption, ImportsInv, SerialInv, serial, NEW c \in Clients, Import(c)
  PROVE  SerialInv'
<1>1. PICK r : r = req[c]
  OBVIOUS
<1>2. r.op = "import" /\ r \in ImportReq /\ r # Idle
  BY <1>1, ReqIs DEF ImportsInv, Import
<1>3. OneAtATime' /\ ReadsCurrent'
  BY <1>1, <1>2, EndLeavesIdle DEF SerialInv, ImportsInv, Import
<1>4. RulesOnce'
  BY DEF SerialInv, RulesOnce, IsRule, Import
<1>5. PICK d, n, e, b : d = req[c].done /\ n = Len(txs) /\ Left(d, req[c].total, n, e, b)
  BY ImportLeaves
<1>6. PICK q : q = d.new
  OBVIOUS
<1>7. q \in Seq(NewRow) /\ Distinct(Known(q))
  BY <1>1, <1>2, <1>5, <1>6 DEF SerialInv, ReadsCurrent, Left, Tallied, Progress
<1>8. txs \in Seq(Tx)
  BY DEF ImportsInv, BankRows
<1>9. PICK p : p = Known(q)
  OBVIOUS
<1>10. /\ DOMAIN p = 1..(n + Len(q)) /\ n \in Nat /\ Len(q) \in Nat
       /\ DOMAIN txs = 1..n
       /\ \A i \in 1..n : p[i] = txs[i].row
       /\ \A j \in 1..Len(q) : p[n + j] = q[j].row
  BY <1>5, <1>7, <1>8, <1>9, KnownAt
<1>11. /\ DOMAIN txs' = 1..(n + Len(q))
       /\ \A i \in 1..n : txs'[i] = txs[i]
       /\ \A j \in 1..Len(q) : txs'[n + j].row = q[j].row
  BY <1>5, <1>6 DEF Left
<1>12. ASSUME NEW i \in 1..(n + Len(q))
       PROVE  txs'[i].row = p[i]
  <2>1. CASE i \in 1..n
    BY <1>10, <1>11, <2>1
  <2>2. CASE i > n
    <3>1. PICK j \in 1..Len(q) : i = n + j
      <4>1. i - n \in 1..Len(q) /\ i = n + (i - n)
        BY <1>10, <2>2
      <4>2. QED
        BY <4>1
    <3>2. QED
      BY <1>10, <1>11, <3>1
  <2>3. QED
    BY <1>10, <2>1, <2>2
<1>13. RowsOnce'
  BY <1>7, <1>9, <1>10, <1>11, <1>12 DEF RowsOnce, Distinct
<1>14. QED
  BY <1>3, <1>4, <1>13 DEF SerialInv

LEMMA UpdateMemoryReads ==
  ASSUME ImportsInv, SerialInv, serial, NEW c \in Clients, UpdateMemory(c)
  PROVE  SerialInv'
<1>1. PICK r : r = req[c]
  OBVIOUS
<1>2. r.op = "memory" /\ RequestHolds(r) /\ r # Idle
  BY <1>1, ReqIs DEF ImportsInv, UpdateMemory
<1>3. OneAtATime' /\ ReadsCurrent'
  BY <1>1, <1>2, EndLeavesIdle DEF SerialInv, ImportsInv, UpdateMemory
<1>4. RowsOnce'
  BY DEF SerialInv, RowsOnce, UpdateMemory
<1>5. PICK i, x : i = r.memory /\ x = Updated(memories[i], r)
  OBVIOUS
<1>6. memories' = [memories EXCEPT ![i] = x] /\ i \in DOMAIN memories
  BY <1>1, <1>2, <1>5 DEF UpdateMemory, RequestHolds
<1>7. x.merchant = None \/ x.merchant = memories[i].merchant
  BY <1>5 DEF Updated
<1>8. /\ DOMAIN memories' = DOMAIN memories
      /\ \A j \in DOMAIN memories : memories'[j].merchant = None \/ memories'[j].merchant = memories[j].merchant
  BY <1>6, <1>7
<1>9. RulesOnce'
  BY <1>8 DEF SerialInv, RulesOnce, IsRule
<1>10. QED
  BY <1>3, <1>4, <1>9 DEF SerialInv

LEMMA ChangeReads ==
  ASSUME ImportsInv, SerialInv, serial, NEW c \in Clients,
         \/ \E k \in DOMAIN entries : Discard(c, k) \/ \E a \in Accounts : Correct(c, k, a)
         \/ \E i \in DOMAIN memories : DeleteMemory(c, i)
         \/ CreateMemory(c)
  PROVE  SerialInv'
<1>1. AtOnce(c) /\ UNCHANGED <<serial, txs, req>>
  BY DEF Discard, Correct, DeleteMemory, CreateMemory
<1>2. OneAtATime' /\ ReadsCurrent'
  BY <1>1, AtOnceIdle
<1>3. RowsOnce'
  BY <1>1 DEF SerialInv, RowsOnce
<1>4. RulesOnce'
  <2>1. CASE memories' = memories
    BY <2>1 DEF SerialInv, RulesOnce, IsRule
  <2>2. ASSUME NEW i \in DOMAIN memories, DeleteMemory(c, i)
        PROVE  RulesOnce'
    <3>1. memories' = [memories EXCEPT ![i].active = FALSE]
      BY <2>2 DEF DeleteMemory
    <3>2. memories[i] \in Memory
      BY LenProperties, ElementOfSeq DEF ImportsInv, MemoriesTyped
    <3>3. [memories[i] EXCEPT !.active = FALSE].merchant = memories[i].merchant
      BY <3>2 DEF Memory
    <3>4. DOMAIN memories' = DOMAIN memories /\ \A j \in DOMAIN memories : memories'[j].merchant = memories[j].merchant
      BY <3>1, <3>3
    <3>5. QED
      BY <3>4 DEF SerialInv, RulesOnce, IsRule
  <2>3. CASE CreateMemory(c)
    <3> DEFINE x == [merchant |-> None, account |-> None, active |-> TRUE]
               n == Len(memories)
    <3>1. x \in Memory /\ x.merchant = None /\ memories \in Seq(Memory)
      BY DEF Memory, ImportsInv, MemoriesTyped
    <3>2. memories' = Append(memories, x)
      BY <2>3 DEF CreateMemory
    <3> HIDE DEF x
    <3>3. /\ DOMAIN memories' = 1..(n + 1) /\ DOMAIN memories = 1..n /\ n \in Nat
          /\ \A i \in 1..n : memories'[i] = memories[i]
          /\ memories'[n + 1] = x
      <4>1. ASSUME NEW q \in Seq(Memory)
            PROVE  /\ DOMAIN Append(q, x) = 1..(Len(q) + 1) /\ DOMAIN q = 1..Len(q) /\ Len(q) \in Nat
                   /\ \A i \in 1..Len(q) : Append(q, x)[i] = q[i]
                   /\ Append(q, x)[Len(q) + 1] = x
        BY <3>1, AppendAt
      <4>2. QED
        BY <3>1, <3>2, <4>1
    <3>4. \A i \in 1..(n + 1) : i \in 1..n \/ i = n + 1
      BY <3>3
    <3> HIDE DEF n
    <3>5. \A i \in 1..(n + 1) : memories'[i].merchant # None => i \in 1..n
      BY <3>1, <3>3, <3>4
    <3>6. \A i, j \in 1..n : memories[i].merchant # None /\ memories[i].merchant = memories[j].merchant => i = j
      BY <3>3 DEF SerialInv, RulesOnce, IsRule
    <3>7. ASSUME NEW i \in 1..(n + 1), NEW j \in 1..(n + 1), memories'[i].merchant # None,
                 memories'[i].merchant = memories'[j].merchant
          PROVE  i = j
      <4>1. i \in 1..n /\ j \in 1..n
        BY <3>5, <3>7
      <4>2. QED
        BY <3>3, <3>6, <3>7, <4>1
    <3>8. QED
      BY <3>3, <3>7 DEF RulesOnce, IsRule
  <2>4. QED
    BY <2>1, <2>2, <2>3 DEF Discard, Correct
<1>5. QED
  BY <1>2, <1>3, <1>4 DEF SerialInv

LEMMA SilentReads ==
  ASSUME SerialInv, UNCHANGED <<serial, txs, entries, memories, req>>
  PROVE  SerialInv'
<1>1. ASSUME serial
      PROVE  OneAtATime' /\ RowsOnce' /\ RulesOnce'
  BY <1>1 DEF SerialInv, OneAtATime, RowsOnce, RulesOnce, IsRule
<1>2. ASSUME serial, NEW d \in Clients
      PROVE  /\ req'[d].op = "import" => Distinct(Known(req[d].done.new))'
             /\ req'[d].op = "post" => PostCurrent(req[d])'
  <2>1. /\ req[d].op = "import" => Distinct(Known(req[d].done.new))
        /\ req[d].op = "post" => PostCurrent(req[d])
    BY <1>2 DEF SerialInv, ReadsCurrent
  <2>2. Known(req[d].done.new)' = Known(req[d].done.new)
    BY DEF Known
  <2>3. PostCurrent(req[d]) => PostCurrent(req[d])'
    BY DEF PostCurrent, Teaches, MerchantOf, RulesFor
  <2>4. QED
    BY <2>1, <2>2, <2>3 DEF Distinct
<1>3. QED
  BY <1>1, <1>2 DEF SerialInv, ReadsCurrent

LEMMA RollbackReads ==
  ASSUME ImportsInv, SerialInv, serial, NEW c \in Clients, Rollback(c)
  PROVE  SerialInv'
<1>1. OneAtATime' /\ ReadsCurrent'
  BY EndLeavesIdle DEF SerialInv, ImportsInv, Rollback
<1>2. RowsOnce' /\ RulesOnce'
  BY DEF SerialInv, RowsOnce, RulesOnce, IsRule, Rollback, db
<1>3. QED
  BY <1>1, <1>2 DEF SerialInv

-----------------------------------------------------------------------------
(* The theorems. *)

LEMMA ImportsInit ==
  ASSUME ImportsAssumption, Init
  PROVE  ImportsInv /\ SerialInv
<1>1. /\ <<>> \in Seq(Tx) /\ <<>> \in Seq(Entry) /\ <<>> \in Seq(Batch) /\ <<>> \in Seq(Memory)
      /\ DOMAIN <<>> = {}
  BY EmptySeq
<1>2. BankRows /\ MemoriesTyped
  BY <1>1 DEF BankRows, MemoriesTyped, Init
<1>3. ReqsTyped /\ \A c \in Clients : req[c] = Idle
  BY DEF ReqsTyped, Init
<1>4. \A c \in Clients : RequestHolds(req[c])
  BY <1>3 DEF RequestHolds, Idle
<1>5. OneAtATime /\ ReadsCurrent
  BY <1>3, IdleReads
<1>6. RowsOnce /\ RulesOnce
  BY <1>1 DEF RowsOnce, RulesOnce, Init
<1>7. QED
  BY <1>2, <1>3, <1>4, <1>5, <1>6 DEF ImportsInv, SerialInv

LEMMA ImportsStep ==
  ASSUME ImportsAssumption, ImportsInv, [Next]_vars
  PROVE  ImportsInv'
<1>1. CASE ToggleCash
  BY <1>1, ToggleCashKeeps
<1>2. ASSUME NEW c \in Clients, NEW f \in Files, BeginImport(c, f) PROVE ImportsInv'
  BY <1>2, BeginImportKeeps
<1>3. ASSUME NEW c \in Clients, NEW k \in DOMAIN entries,
             BeginPost(c, k) \/ Discard(c, k) \/ \E a \in Accounts : Correct(c, k, a)
      PROVE  ImportsInv'
  BY <1>3, BeginPostKeeps, DiscardKeeps, CorrectKeeps
<1>4. ASSUME NEW c \in Clients, NEW i \in DOMAIN memories,
             \/ DeleteMemory(c, i) \/ ExpireMemory(c, i)
             \/ \E active, keywords \in BOOLEAN : BeginUpdateMemory(c, i, active, keywords)
      PROVE  ImportsInv'
  BY <1>4, DeleteMemoryKeeps, BeginUpdateMemoryKeeps DEF ExpireMemory
<1>5. ASSUME NEW c \in Clients, CreateMemory(c) \/ Import(c) \/ Post(c) \/ UpdateMemory(c) \/ Rollback(c)
      PROVE  ImportsInv'
  BY <1>5, CreateMemoryKeeps, ImportKeeps, PostKeeps, UpdateMemoryKeeps, RollbackKeeps
<1>6. CASE UNCHANGED vars
  <2>1. UNCHANGED <<serial, hasCash, txs, entries, batches, memories, req>>
    BY <1>6 DEF vars, db
  <2>2. BankRows' /\ MemoriesTyped' /\ Grows
    BY <2>1, BankRowsStay DEF ImportsInv, MemoriesTyped, Grows
  <2>3. QED
    BY <2>1, <2>2, OthersKeep DEF ImportsInv
<1>7. QED
  BY <1>1, <1>2, <1>3, <1>4, <1>5, <1>6 DEF Next

LEMMA SerialStep ==
  ASSUME ImportsAssumption, ImportsInv, SerialInv, [Next]_vars
  PROVE  SerialInv'
<1>1. serial' = serial
  BY ZenonT(60) DEF Next, vars, db, ToggleCash, BeginImport, BeginPost, Begin, Discard, Correct, DeleteMemory,
         ExpireMemory, BeginUpdateMemory, CreateMemory, Import, Post, UpdateMemory, Rollback, End
<1>2. CASE ~serial
  BY <1>1, <1>2 DEF SerialInv
<1>3. CASE serial
  <2>1. CASE ToggleCash
    BY <2>1, SilentReads DEF ToggleCash
  <2>2. ASSUME NEW c \in Clients, NEW f \in Files, BeginImport(c, f) PROVE SerialInv'
    BY <1>3, <2>2, BeginImportReads
  <2>3. ASSUME NEW c \in Clients, NEW k \in DOMAIN entries,
               BeginPost(c, k) \/ Discard(c, k) \/ \E a \in Accounts : Correct(c, k, a)
        PROVE  SerialInv'
    BY <1>3, <2>3, BeginPostReads, ChangeReads
  <2>4. ASSUME NEW c \in Clients, NEW i \in DOMAIN memories, DeleteMemory(c, i) \/ ExpireMemory(c, i)
        PROVE  SerialInv'
    BY <1>3, <2>4, ChangeReads DEF ExpireMemory
  <2>5. ASSUME NEW c \in Clients, NEW i \in DOMAIN memories, NEW active \in BOOLEAN, NEW keywords \in BOOLEAN,
               BeginUpdateMemory(c, i, active, keywords)
        PROVE  SerialInv'
    <3>1. PICK r : r.op = "memory" /\ Begin(c, r)
      BY <2>5 DEF BeginUpdateMemory
    <3>2. QED
      BY <1>3, <3>1, BeginReads DEF ImportsInv
  <2>6. ASSUME NEW c \in Clients, CreateMemory(c) \/ Import(c) \/ Post(c) \/ UpdateMemory(c) \/ Rollback(c)
        PROVE  SerialInv'
    BY <1>3, <2>6, ChangeReads, ImportReads, PostReads, UpdateMemoryReads, RollbackReads
  <2>7. CASE UNCHANGED vars
    BY <2>7, SilentReads DEF vars, db
  <2>8. QED
    BY <2>1, <2>2, <2>3, <2>4, <2>5, <2>6, <2>7 DEF Next
<1>4. QED
  BY <1>2, <1>3 DEF SerialInv

LEMMA CountsFollow ==
  ASSUME ImportsInv
  PROVE  PendingExplained
<1>1. ASSUME NEW i \in DOMAIN txs, Flow[txs[i].row] = "out"
      PROVE  LET n == Cardinality({k \in DOMAIN entries : entries[k].tx = i}) IN
             IF txs[i].status = "matched" THEN n = 1
             ELSE n = 0 /\ batches[txs[i].batch].status = "failed"
  <2> DEFINE T == {k \in DOMAIN entries : entries[k].tx = i}
  <2>1. CASE txs[i].status = "matched"
    <3>1. PICK k \in DOMAIN entries : entries[k].tx = i
      BY <2>1 DEF ImportsInv, BankRows
    <3>2. \A l \in DOMAIN entries : entries[l].tx = i => l = k
      BY <3>1 DEF ImportsInv, BankRows
    <3>3. T = {k}
      BY <3>1, <3>2
    <3> HIDE DEF T
    <3>4. Cardinality(T) = 1
      BY <3>3, FS_Singleton
    <3>5. QED
      BY <2>1, <3>4 DEF T
  <2>2. CASE txs[i].status # "matched"
    <3>1. T = {}
      BY <2>2 DEF ImportsInv, BankRows
    <3>2. txs[i] \in Tx
      BY LenProperties, ElementOfSeq DEF ImportsInv, BankRows
    <3>3. txs[i].status = "pending"
      BY <2>2, <3>2 DEF Tx
    <3>4. batches[txs[i].batch].status = "failed"
      BY <1>1, <3>3 DEF ImportsInv, BankRows
    <3> HIDE DEF T
    <3>5. Cardinality(T) = 0
      BY <3>1, FS_EmptySet
    <3>6. QED
      BY <2>2, <3>4, <3>5 DEF T
  <2>3. QED
    BY <2>1, <2>2
<1>2. ASSUME NEW b \in DOMAIN batches
      PROVE  BatchCounts(b)
  BY DEF ImportsInv, BankRows
<1>3. QED
  BY <1>1, <1>2 DEF PendingExplained, BatchCounts, TxsOf

(* However requests interleave, the model's types are kept, an outflow     *)
(* that an import brought in has exactly one draft or is among the failed  *)
(* rows of its import, and of what is imported, learned and edited one     *)
(* request at a time there is one transaction of a row and one rule of a   *)
(* merchant.                                                               *)
THEOREM ImportsSafe ==
  ASSUME ImportsAssumption
  PROVE  Spec => [](TypeOK /\ PendingExplained /\ ImportedOnce /\ OneRuleEach)
<1>1. Init => ImportsInv /\ SerialInv
  BY ImportsInit
<1>2. ImportsInv /\ SerialInv /\ [Next]_vars => (ImportsInv /\ SerialInv)'
  BY ImportsStep, SerialStep
<1>3. ImportsInv => TypeOK
  BY DEF ImportsInv, ReqsTyped, MemoriesTyped, BankRows, TypeOK
<1>4. ImportsInv => PendingExplained
  BY CountsFollow
<1>5. SerialInv => ImportedOnce /\ OneRuleEach
  BY DEF SerialInv, RowsOnce, RulesOnce, ImportedOnce, OneRuleEach
<1>6. QED
  BY <1>1, <1>2, <1>3, <1>4, <1>5, PTL DEF Spec

(* The rule that a post leaves is what is suggested next. *)
LEMMA PostTeaches ==
  ASSUME ImportsAssumption, ImportsInv, SerialInv, serial, NEW c \in Clients, Post(c),
         NEW k \in DOMAIN entries, entries[k].status = "draft", entries'[k].status = "posted", Teaches(k)
  PROVE  LET m == MerchantOf(k) IN
         /\ entries[k].account \in Suggestions(m)'
         /\ Matching(m)' \subseteq RulesFor(m)' => Suggestions(m)' = {entries[k].account}
<1>1. PICK r : r = req[c]
  OBVIOUS
<1>2. r.op = "post" /\ r \in PostReq /\ RequestHolds(r)
  BY <1>1, ReqIs DEF ImportsInv, Post
<1>3. /\ memories' = Learned(r) /\ entries' = [entries EXCEPT ![r.entry].status = "posted"] /\ txs' = txs
      /\ PostCurrent(r) /\ r.rule \in {0} \cup DOMAIN memories /\ r.entry \in DOMAIN entries
      /\ r.merchant = MerchantOf(r.entry) /\ RulesOnce
  BY <1>1, <1>2 DEF SerialInv, ReadsCurrent, RequestHolds, Post
<1>4. k = r.entry
  BY <1>3
<1>5. /\ r.teaches /\ r.account = entries[k].account /\ r.merchant = MerchantOf(k)
  BY <1>3, <1>4 DEF PostCurrent
<1>6. RulesOnce' /\ \E i \in DOMAIN memories' : /\ memories'[i].merchant = r.merchant
                                                /\ memories'[i].account = r.account /\ memories'[i].active
  BY <1>2, <1>3, <1>5, LearnedRule DEF ImportsInv
<1>7. PICK i \in DOMAIN memories' : /\ memories'[i].merchant = r.merchant
                                    /\ memories'[i].account = r.account /\ memories'[i].active
  BY <1>6
<1>8. PICK m \in Merchants : m = r.merchant
  BY <1>2 DEF PostReq
<1>9. m # None /\ m \in Alike[m]
  BY <1>8 DEF ImportsAssumption
<1>10. i \in Matching(m)'
  BY <1>7, <1>8, <1>9 DEF Matching, IsRule
<1>11. Suggestions(m)' = {memories'[j].account : j \in Matching(m)'}
  BY <1>10 DEF Suggestions
<1>12. r.account \in Suggestions(m)'
  BY <1>7, <1>10, <1>11
<1>13. ASSUME Matching(m)' \subseteq RulesFor(m)'
       PROVE  Suggestions(m)' = {r.account}
  <2>1. ASSUME NEW j \in Matching(m)'
        PROVE  j = i
    <3>1. j \in DOMAIN memories' /\ memories'[j].merchant = m
      BY <1>13, <2>1 DEF RulesFor
    <3>2. QED
      BY <1>6, <1>7, <1>8, <1>9, <3>1 DEF RulesOnce, IsRule
  <2>2. QED
    BY <1>7, <1>10, <1>11, <2>1
<1>14. MerchantOf(k)' = MerchantOf(k)
  <2>1. entries[k] \in Entry
    BY LenProperties, ElementOfSeq DEF ImportsInv, BankRows
  <2>2. [entries[k] EXCEPT !.status = "posted"].tx = entries[k].tx
    BY <2>1 DEF Entry
  <2>3. entries'[k].tx = entries[k].tx
    BY <1>3, <1>4, <2>2
  <2>4. QED
    BY <1>3, <2>3 DEF MerchantOf
<1>15. Suggestions(MerchantOf(k))' = Suggestions(m)' /\ Matching(MerchantOf(k))' = Matching(m)'
       /\ RulesFor(MerchantOf(k))' = RulesFor(m)'
  BY <1>5, <1>8, <1>14 DEF Suggestions, Matching, RulesFor
<1>16. QED
  BY <1>5, <1>12, <1>13, <1>15

(* A post that keeps the account of the keywords leaves what is suggested  *)
(* for the merchant as it was.                                             *)
LEMMA PostTeachesNothing ==
  ASSUME ImportsAssumption, ImportsInv, SerialInv, serial, NEW c \in Clients, Post(c),
         NEW k \in DOMAIN entries, entries[k].status = "draft", entries'[k].status = "posted", ~Teaches(k)
  PROVE  LET m == MerchantOf(k) IN Suggestions(m)' = Suggestions(m)
<1>1. PICK r : r = req[c]
  OBVIOUS
<1>2. r.op = "post" /\ r \in PostReq /\ RequestHolds(r)
  BY <1>1, ReqIs DEF ImportsInv, Post
<1>3. /\ memories' = Learned(r) /\ entries' = [entries EXCEPT ![r.entry].status = "posted"] /\ txs' = txs
      /\ PostCurrent(r) /\ r.entry \in DOMAIN entries
  BY <1>1, <1>2 DEF SerialInv, ReadsCurrent, RequestHolds, Post
<1>4. k = r.entry
  BY <1>3
<1>5. ~r.teaches
  BY <1>3, <1>4 DEF PostCurrent
<1>6. memories' = memories
  BY <1>3, <1>5 DEF Learned
<1>7. MerchantOf(k)' = MerchantOf(k)
  <2>1. entries[k] \in Entry
    BY LenProperties, ElementOfSeq DEF ImportsInv, BankRows
  <2>2. [entries[k] EXCEPT !.status = "posted"].tx = entries[k].tx
    BY <2>1 DEF Entry
  <2>3. entries'[k].tx = entries[k].tx
    BY <1>3, <1>4, <2>2
  <2>4. QED
    BY <1>3, <2>3 DEF MerchantOf
<1>8. QED
  BY <1>6, <1>7 DEF Suggestions, Matching, IsRule

(* Nothing but a post makes a draft posted. *)
LEMMA OnlyPosted ==
  ASSUME ImportsAssumption, ImportsInv, [Next]_vars, NEW k \in DOMAIN entries,
         entries[k].status = "draft", entries'[k].status = "posted"
  PROVE  \E c \in Clients : Post(c)
<1>1. entries \in Seq(Entry) /\ DOMAIN entries = 1..Len(entries)
  BY LenProperties DEF ImportsInv, BankRows
<1>2. entries' # entries
  OBVIOUS
<1>3. \A c \in Clients, l \in DOMAIN entries, a \in Accounts : ~Correct(c, l, a)
  <2>1. ASSUME NEW c \in Clients, NEW l \in DOMAIN entries, NEW a \in Accounts, Correct(c, l, a)
        PROVE  FALSE
    <3>1. entries[l] \in Entry
      BY <1>1, ElementOfSeq
    <3>2. [entries[l] EXCEPT !.account = a].status = entries[l].status
      BY <3>1 DEF Entry
    <3>3. entries'[k].status = entries[k].status
      BY <2>1, <3>2 DEF Correct
    <3>4. QED
      BY <3>3
  <2>2. QED
    BY <2>1
<1>4. \A c \in Clients, l \in DOMAIN entries : ~Discard(c, l)
  <2>1. ASSUME NEW c \in Clients, NEW l \in DOMAIN entries, Discard(c, l)
        PROVE  FALSE
    <3>1. entries[l] \in Entry
      BY <1>1, ElementOfSeq
    <3>2. [entries[l] EXCEPT !.status = "deleted"].status = "deleted"
      BY <3>1 DEF Entry
    <3>3. entries'[k].status = entries[k].status \/ entries'[k].status = "deleted"
      BY <2>1, <3>2 DEF Discard
    <3>4. QED
      BY <3>3
  <2>2. QED
    BY <2>1
<1>5. \A c \in Clients : ~Import(c)
  <2>1. ASSUME NEW c \in Clients, Import(c)
        PROVE  FALSE
    <3>1. PICK d, w, n, e, b : Left(d, w, n, e, b)
      BY <2>1, ImportLeaves, ZenonT(60)
    <3>2. entries'[k] = entries[k]
      BY <3>1 DEF Left
    <3>3. QED
      BY <3>2
  <2>2. QED
    BY <2>1
<1>6. QED
  BY <1>2, <1>3, <1>4, <1>5 DEF Next, vars, db, ToggleCash, BeginImport, BeginPost, Begin, DeleteMemory,
     ExpireMemory, BeginUpdateMemory, CreateMemory, UpdateMemory, Rollback

(* One request at a time: what a post teaches is what the next import      *)
(* suggests for the merchant, and one that keeps the account of the        *)
(* keywords changes nothing of it, whatever rule there was.                *)
THEOREM LearnedIsUsedNext ==
  ASSUME ImportsAssumption
  PROVE  Spec => LearnedIsUsed
<1> DEFINE Used == serial => \A k \in DOMAIN entries :
             entries[k].status = "draft" /\ entries'[k].status = "posted" =>
               LET m == MerchantOf(k) IN
               IF Teaches(k)
               THEN /\ entries[k].account \in Suggestions(m)'
                    /\ Matching(m)' \subseteq RulesFor(m)' => Suggestions(m)' = {entries[k].account}
               ELSE Suggestions(m)' = Suggestions(m)
<1>1. Init => ImportsInv /\ SerialInv
  BY ImportsInit
<1>2. ImportsInv /\ SerialInv /\ [Next]_vars => (ImportsInv /\ SerialInv)'
  BY ImportsStep, SerialStep
<1>3. ImportsInv /\ SerialInv /\ [Next]_vars => Used
  <2>1. ASSUME ImportsInv, SerialInv, [Next]_vars, serial, NEW k \in DOMAIN entries,
               entries[k].status = "draft", entries'[k].status = "posted"
        PROVE  LET m == MerchantOf(k) IN
               IF Teaches(k)
               THEN /\ entries[k].account \in Suggestions(m)'
                    /\ Matching(m)' \subseteq RulesFor(m)' => Suggestions(m)' = {entries[k].account}
               ELSE Suggestions(m)' = Suggestions(m)
    <3>1. PICK c \in Clients : Post(c)
      BY <2>1, OnlyPosted
    <3>2. CASE Teaches(k)
      BY <2>1, <3>1, <3>2, PostTeaches
    <3>3. CASE ~Teaches(k)
      BY <2>1, <3>1, <3>3, PostTeachesNothing
    <3>4. QED
      BY <3>2, <3>3
  <2>2. QED
    BY <2>1
<1>4. QED
  BY <1>1, <1>2, <1>3, PTL DEF Spec, LearnedIsUsed
=============================================================================
