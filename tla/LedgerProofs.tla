---------------------------- MODULE LedgerProofs ----------------------------
(***************************************************************************)
(* The safety of the books, proved of Ledger for any set of entries and    *)
(* accounts and for lines of any number and amount.                        *)
(***************************************************************************)
EXTENDS Ledger, FiniteSets, FiniteSetTheorems, WellFoundedInduction, TLAPS

-----------------------------------------------------------------------------
(* Sums.  SumOver folds over the domain of a function by a recursive       *)
(* function on its subsets.  That this function exists, and each fact      *)
(* about sums, is shown by a smallest subset for which it would fail,      *)
(* which there would be because the subsets of a finite set are well       *)
(* founded by inclusion.                                                   *)

(* A member of a set, the one the folds of the community modules take. *)
Pick(s) == CHOOSE x \in s : TRUE

(* g sums f over every subset of S. *)
Sums(g, f, S) ==
  g = [s \in SUBSET S |-> IF s = {} THEN 0 ELSE f[Pick(s)] + g[s \ {Pick(s)}]]

TheSums(f, S) == CHOOSE g : Sums(g, f, S)

LEMMA SumOverIs ==
  ASSUME NEW f
  PROVE  SumOver(f) = TheSums(f, DOMAIN f)[DOMAIN f]
BY DEF SumOver, FoldFunction, FoldFunctionOnSet, MapThenFoldSet, TheSums, Sums, Pick

LEMMA SumsAt ==
  ASSUME NEW f, NEW S, NEW g, Sums(g, f, S), NEW s \in SUBSET S
  PROVE  /\ s = {} => g[s] = 0
         /\ s # {} => Pick(s) \in s /\ g[s] = f[Pick(s)] + g[s \ {Pick(s)}]
<1>1. s # {} => Pick(s) \in s
  BY DEF Pick
<1>2. g[s] = IF s = {} THEN 0 ELSE f[Pick(s)] + g[s \ {Pick(s)}]
  BY DEF Sums
<1>3. QED
  BY <1>1, <1>2

(* A set of finite sets that is not empty has a minimal member. *)
LEMMA LeastSubset ==
  ASSUME NEW S, IsFiniteSet(S), NEW T \in SUBSET (SUBSET S), T # {}
  PROVE  \E s \in T : \A t \in T : t \subseteq s => t = s
<1>1. T \subseteq FiniteSubsetsOf(S)
  BY FS_FiniteSubsetsOfFinite
<1>2. \E s \in T : \A t \in T : ~(<<t, s>> \in StrictSubsetOrdering(S))
  <2> DEFINE R == StrictSubsetOrdering(S)
             F == FiniteSubsetsOf(S)
  <2>1. IsWellFoundedOn(R, F)
    BY FS_StrictSubsetOrderingWellFounded
  <2> HIDE DEF R, F
  <2>2. T \subseteq F
    BY <1>1 DEF F
  <2>3. \E s \in T : \A t \in T : ~(<<t, s>> \in R)
    BY <2>1, <2>2, WFMin
  <2>4. QED
    BY <2>3 DEF R
<1>3. QED
  BY <1>2 DEF StrictSubsetOrdering

(* Two such g agree wherever both are defined. *)
LEMMA SumsAgree ==
  ASSUME NEW f, NEW S, NEW T, IsFiniteSet(S), NEW g, NEW h, Sums(g, f, S), Sums(h, f, T),
         NEW s \in SUBSET S, s \in SUBSET T
  PROVE  g[s] = h[s]
<1> DEFINE Bad == {t \in SUBSET (S \cap T) : g[t] # h[t]}
<1>1. SUFFICES ASSUME Bad # {} PROVE FALSE
  OBVIOUS
<1>2. Bad \in SUBSET (SUBSET S)
  OBVIOUS
<1>3. PICK t \in Bad : \A u \in Bad : u \subseteq t => u = t
  <2> HIDE DEF Bad
  <2>1. QED
    BY <1>1, <1>2, LeastSubset
<1>4. t # {}
  BY <1>3, SumsAt
<1>5. t \in SUBSET S /\ t \in SUBSET T
  BY <1>3
<1>6. Pick(t) \in t
  BY <1>4, <1>5, SumsAt
<1>7. t \ {Pick(t)} \notin Bad
  BY <1>3, <1>6
<1>8. g[t \ {Pick(t)}] = h[t \ {Pick(t)}]
  BY <1>5, <1>7
<1>9. g[t] = h[t]
  BY <1>4, <1>5, <1>8, SumsAt
<1>10. QED
  BY <1>9, <1>3

(* There is one for every finite set. *)
LEMMA SumsExist ==
  ASSUME NEW f, NEW S, IsFiniteSet(S)
  PROVE  \E g : Sums(g, f, S)
<1> DEFINE Bad == {T \in SUBSET S : ~ \E g : Sums(g, f, T)}
<1>1. SUFFICES ASSUME Bad # {} PROVE FALSE
  OBVIOUS
<1>2. PICK U \in Bad : \A W \in Bad : W \subseteq U => W = U
  <2>1. Bad \in SUBSET (SUBSET S)
    OBVIOUS
  <2> HIDE DEF Bad
  <2>2. QED
    BY <1>1, <2>1, LeastSubset
<1>3. U \in SUBSET S /\ IsFiniteSet(U)
  BY <1>2, FS_Subset
<1>4. \A W \in SUBSET U : W # U => \E g : Sums(g, f, W)
  BY <1>2, <1>3
<1> DEFINE val == [W \in SUBSET U |-> TheSums(f, W)[W]]
           h == [s \in SUBSET U |-> IF s = {} THEN 0 ELSE f[Pick(s)] + val[s \ {Pick(s)}]]
<1>5. ASSUME NEW W \in SUBSET U, W # U
      PROVE  val[W] = h[W]
  <2>1. PICK g : g = TheSums(f, W) /\ Sums(g, f, W)
    BY <1>4, <1>5 DEF TheSums
  <2>2. val[W] = g[W]
    BY <2>1
  <2>3. CASE W = {}
    <3>1. g[W] = 0
      BY <2>1, <2>3 DEF Sums
    <3>2. QED
      BY <2>2, <2>3, <3>1
  <2>4. CASE W # {}
    <3> DEFINE V == W \ {Pick(W)}
    <3>1. Pick(W) \in W
      BY <2>4 DEF Pick
    <3>2. V \in SUBSET U /\ V \in SUBSET W /\ V # U /\ IsFiniteSet(W) /\ IsFiniteSet(V)
      BY <1>3, <1>5, <3>1, FS_Subset
    <3>3. PICK k : k = TheSums(f, V) /\ Sums(k, f, V)
      BY <1>4, <3>2 DEF TheSums
    <3>4. val[V] = k[V]
      BY <3>2, <3>3
    <3>5. k[V] = g[V]
      <4>1. Sums(k, f, V) /\ Sums(g, f, W)
        BY <2>1, <3>3
      <4>2. V \in SUBSET V /\ V \in SUBSET W /\ IsFiniteSet(V)
        BY <3>2
      <4> HIDE DEF V, h, val
      <4>3. QED
        BY <4>1, <4>2, SumsAgree
    <3>6. g[W] = f[Pick(W)] + g[V]
      BY <2>1, <2>4, SumsAt
    <3>7. h[W] = f[Pick(W)] + val[V]
      BY <2>4
    <3>8. QED
      BY <2>2, <3>4, <3>5, <3>6, <3>7
  <2>5. QED
    BY <2>3, <2>4
<1>6. ASSUME NEW s \in SUBSET U, s # {}
      PROVE  val[s \ {Pick(s)}] = h[s \ {Pick(s)}]
  <2>1. Pick(s) \in s
    BY <1>6 DEF Pick
  <2>2. s \ {Pick(s)} \in SUBSET U /\ s \ {Pick(s)} # U
    BY <2>1
  <2> HIDE DEF h, val
  <2>3. QED
    BY <1>5, <2>2
<1>7. Sums(h, f, U)
  <2>1. h = [s \in SUBSET U |-> IF s = {} THEN 0 ELSE f[Pick(s)] + h[s \ {Pick(s)}]]
    <3> DEFINE L(s) == IF s = {} THEN 0 ELSE f[Pick(s)] + val[s \ {Pick(s)}]
               R(s) == IF s = {} THEN 0 ELSE f[Pick(s)] + h[s \ {Pick(s)}]
    <3>1. \A s \in SUBSET U : L(s) = R(s)
      <4> HIDE DEF h, val
      <4>1. QED
        BY <1>6
    <3>2. h = [s \in SUBSET U |-> L(s)]
      OBVIOUS
    <3> HIDE DEF h, val, L, R
    <3>3. h = [s \in SUBSET U |-> R(s)]
      BY <3>1, <3>2
    <3>4. QED
      BY <3>3 DEF R
  <2>2. QED
    BY <2>1 DEF Sums
<1>8. QED
  BY <1>2, <1>7

(* The sum of f over the subset s of its domain. *)
SumOn(f, s) == TheSums(f, DOMAIN f)[s]

LEMMA SumOnIs ==
  ASSUME NEW f, IsFiniteSet(DOMAIN f)
  PROVE  /\ SumOver(f) = SumOn(f, DOMAIN f)
         /\ SumOn(f, {}) = 0
         /\ \A s \in SUBSET (DOMAIN f) :
              s # {} => Pick(s) \in s /\ SumOn(f, s) = f[Pick(s)] + SumOn(f, s \ {Pick(s)})
<1>1. PICK g : g = TheSums(f, DOMAIN f) /\ Sums(g, f, DOMAIN f)
  BY SumsExist DEF TheSums
<1>2. \A s : SumOn(f, s) = g[s]
  BY <1>1 DEF SumOn
<1>3. SumOver(f) = g[DOMAIN f]
  BY <1>1, SumOverIs
<1>4. g[{}] = 0
  BY <1>1 DEF Sums
<1>5. \A s \in SUBSET (DOMAIN f) :
        s # {} => Pick(s) \in s /\ g[s] = f[Pick(s)] + g[s \ {Pick(s)}]
  <2>1. Sums(g, f, DOMAIN f)
    BY <1>1
  <2>2. QED
    BY <2>1, SumsAt
<1>6. QED
  BY <1>2, <1>3, <1>4, <1>5

(* The sum of integers is one, and it is one addition more or less,        *)
(* whichever member is taken out: the order of a fold does not matter.     *)
LEMMA SumOnInt ==
  ASSUME NEW f, IsFiniteSet(DOMAIN f), \A x \in DOMAIN f : f[x] \in Int
  PROVE  \A s \in SUBSET (DOMAIN f) : SumOn(f, s) \in Int
<1> DEFINE Bad == {s \in SUBSET (DOMAIN f) : SumOn(f, s) \notin Int}
<1>1. SUFFICES ASSUME Bad # {} PROVE FALSE
  OBVIOUS
<1>2. PICK s \in Bad : \A t \in Bad : t \subseteq s => t = s
  <2>1. Bad \in SUBSET (SUBSET (DOMAIN f))
    OBVIOUS
  <2> HIDE DEF Bad
  <2>2. QED
    BY <1>1, <2>1, LeastSubset
<1>3. s # {}
  <2>1. SumOn(f, {}) \in Int
    BY SumOnIs
  <2>2. QED
    BY <1>2, <2>1
<1>4. Pick(s) \in s /\ SumOn(f, s) = f[Pick(s)] + SumOn(f, s \ {Pick(s)})
  BY <1>2, <1>3, SumOnIs
<1>5. SumOn(f, s \ {Pick(s)}) \in Int
  BY <1>2, <1>4
<1>6. QED
  BY <1>2, <1>4, <1>5

LEMMA SumOnWithout ==
  ASSUME NEW f, IsFiniteSet(DOMAIN f), \A x \in DOMAIN f : f[x] \in Int
  PROVE  \A s \in SUBSET (DOMAIN f) : \A x \in s : SumOn(f, s) = f[x] + SumOn(f, s \ {x})
<1> DEFINE Bad == {s \in SUBSET (DOMAIN f) : \E x \in s : SumOn(f, s) # f[x] + SumOn(f, s \ {x})}
<1>1. SUFFICES ASSUME Bad # {} PROVE FALSE
  OBVIOUS
<1>2. PICK s \in Bad : \A t \in Bad : t \subseteq s => t = s
  <2>1. Bad \in SUBSET (SUBSET (DOMAIN f))
    OBVIOUS
  <2> HIDE DEF Bad
  <2>2. QED
    BY <1>1, <2>1, LeastSubset
<1>3. PICK x \in s : SumOn(f, s) # f[x] + SumOn(f, s \ {x})
  BY <1>2
<1>4. PICK y \in s : SumOn(f, s) = f[y] + SumOn(f, s \ {y})
  BY <1>2, <1>3, SumOnIs, ZenonT(60)
<1>5. x # y
  BY <1>3, <1>4
<1>6. SumOn(f, s \ {y}) = f[x] + SumOn(f, (s \ {y}) \ {x})
  <2>1. s \ {y} \notin Bad /\ s \ {y} \in SUBSET (DOMAIN f) /\ x \in s \ {y}
    BY <1>2, <1>5
  <2>2. QED
    BY <2>1
<1>7. SumOn(f, s \ {x}) = f[y] + SumOn(f, (s \ {x}) \ {y})
  <2>1. s \ {x} \notin Bad /\ s \ {x} \in SUBSET (DOMAIN f) /\ y \in s \ {x}
    BY <1>2, <1>5
  <2>2. QED
    BY <2>1
<1>8. (s \ {y}) \ {x} = (s \ {x}) \ {y}
  OBVIOUS
<1>9. SumOn(f, (s \ {x}) \ {y}) \in Int /\ f[x] \in Int /\ f[y] \in Int
  BY <1>2, SumOnInt
<1>10. SumOn(f, s) = f[y] + (f[x] + SumOn(f, (s \ {x}) \ {y}))
  BY <1>4, <1>6, <1>8
<1>11. SumOn(f, s) = f[x] + (f[y] + SumOn(f, (s \ {x}) \ {y}))
  BY <1>9, <1>10
<1>12. QED
  BY <1>3, <1>7, <1>11

(* Functions that agree on s have the same sum over it, and a function     *)
(* that is nowhere negative, or everywhere zero, a sum that is not either. *)
LEMMA SumOnSame ==
  ASSUME NEW f, NEW g, IsFiniteSet(DOMAIN f), IsFiniteSet(DOMAIN g)
  PROVE  \A s \in SUBSET (DOMAIN f) :
           s \subseteq DOMAIN g /\ (\A x \in s : f[x] = g[x]) => SumOn(f, s) = SumOn(g, s)
<1> DEFINE Bad == {s \in SUBSET (DOMAIN f) : /\ s \subseteq DOMAIN g /\ \A x \in s : f[x] = g[x]
                                             /\ SumOn(f, s) # SumOn(g, s)}
<1>1. SUFFICES ASSUME Bad # {} PROVE FALSE
  OBVIOUS
<1>2. PICK s \in Bad : \A t \in Bad : t \subseteq s => t = s
  <2>1. Bad \in SUBSET (SUBSET (DOMAIN f))
    OBVIOUS
  <2> HIDE DEF Bad
  <2>2. QED
    BY <1>1, <2>1, LeastSubset
<1>3. s # {}
  <2>1. SumOn(f, {}) = SumOn(g, {})
    BY SumOnIs
  <2>2. QED
    BY <1>2, <2>1
<1>4. Pick(s) \in s /\ SumOn(f, s) = f[Pick(s)] + SumOn(f, s \ {Pick(s)})
  BY <1>2, <1>3, SumOnIs
<1>5. SumOn(g, s) = g[Pick(s)] + SumOn(g, s \ {Pick(s)})
  BY <1>2, <1>3, SumOnIs
<1>6. SumOn(f, s \ {Pick(s)}) = SumOn(g, s \ {Pick(s)})
  BY <1>2, <1>4
<1>7. QED
  BY <1>2, <1>4, <1>5, <1>6

(* f with the values of its domain but x. *)
Without(f, x) == [y \in DOMAIN f \ {x} |-> f[y]]

LEMMA SumOfNone ==
  ASSUME NEW f, DOMAIN f = {}
  PROVE  SumOver(f) = 0
<1>1. IsFiniteSet(DOMAIN f)
  BY FS_EmptySet
<1>2. QED
  BY <1>1, SumOnIs

LEMMA SumInt ==
  ASSUME NEW S, IsFiniteSet(S), NEW f \in [S -> Int]
  PROVE  SumOver(f) \in Int
<1>1. IsFiniteSet(DOMAIN f) /\ \A x \in DOMAIN f : f[x] \in Int
  OBVIOUS
<1>2. SumOn(f, DOMAIN f) \in Int
  BY <1>1, SumOnInt
<1>3. QED
  BY <1>1, <1>2, SumOnIs

LEMMA SumWithout ==
  ASSUME NEW S, IsFiniteSet(S), NEW f \in [S -> Int], NEW x \in S
  PROVE  \E n \in Int : n = SumOver(Without(f, x)) /\ SumOver(f) = f[x] + n
<1> DEFINE g == Without(f, x)
<1>1. DOMAIN f = S /\ \A y \in DOMAIN f : f[y] \in Int
  OBVIOUS
<1>2. g \in [S \ {x} -> Int] /\ DOMAIN g = S \ {x} /\ IsFiniteSet(S \ {x})
  BY FS_Subset DEF Without
<1>3. \A y \in S \ {x} : f[y] = g[y]
  BY DEF Without
<1> HIDE DEF g
<1>4. SumOver(f) = SumOn(f, S) /\ SumOver(g) = SumOn(g, S \ {x})
  BY <1>1, <1>2, SumOnIs
<1>5. SumOn(f, S) = f[x] + SumOn(f, S \ {x})
  BY <1>1, SumOnWithout
<1>6. SumOn(f, S \ {x}) = SumOn(g, S \ {x})
  BY <1>1, <1>2, <1>3, SumOnSame
<1>7. SumOver(g) \in Int
  BY <1>2, SumInt
<1>8. QED
  BY <1>2, <1>4, <1>5, <1>6, <1>7 DEF g

(* Changing one term changes the sum by the difference. *)
LEMMA SumChange ==
  ASSUME NEW S, IsFiniteSet(S), NEW f \in [S -> Int], NEW g \in [S -> Int], NEW x \in S,
         \A y \in S : y # x => g[y] = f[y]
  PROVE  SumOver(g) = SumOver(f) - f[x] + g[x]
<1>1. Without(f, x) = Without(g, x)
  BY DEF Without
<1>2. PICK n \in Int : n = SumOver(Without(f, x)) /\ SumOver(f) = f[x] + n
  BY SumWithout
<1>3. PICK m \in Int : m = SumOver(Without(g, x)) /\ SumOver(g) = g[x] + m
  BY SumWithout
<1>4. SumOver(f) = f[x] + n /\ SumOver(g) = g[x] + n
  BY <1>1, <1>2, <1>3
<1>5. f[x] \in Int /\ g[x] \in Int
  OBVIOUS
<1>6. QED
  BY <1>4, <1>5

(* A sum has the sign of its terms, and opposite terms the opposite sum. *)
LEMMA SumNat ==
  ASSUME NEW S, IsFiniteSet(S), NEW f \in [S -> Nat]
  PROVE  SumOver(f) \in Nat
<1> DEFINE Bad == {s \in SUBSET S : SumOn(f, s) \notin Nat}
<1>0. SumOver(f) = SumOn(f, S)
  BY SumOnIs
<1>1. SUFFICES ASSUME Bad # {} PROVE FALSE
  BY <1>0
<1>2. PICK s \in Bad : \A t \in Bad : t \subseteq s => t = s
  <2>1. Bad \in SUBSET (SUBSET S)
    OBVIOUS
  <2> HIDE DEF Bad
  <2>2. QED
    BY <1>1, <2>1, LeastSubset
<1>3. s # {}
  <2>1. SumOn(f, {}) \in Nat
    BY SumOnIs
  <2>2. QED
    BY <1>2, <2>1
<1>4. Pick(s) \in s /\ SumOn(f, s) = f[Pick(s)] + SumOn(f, s \ {Pick(s)})
  BY <1>2, <1>3, SumOnIs
<1>5. SumOn(f, s \ {Pick(s)}) \in Nat
  BY <1>2, <1>4
<1>6. QED
  BY <1>2, <1>4, <1>5

LEMMA SumPlus ==
  ASSUME NEW S, IsFiniteSet(S), NEW f \in [S -> Int], NEW g \in [S -> Int], NEW h \in [S -> Int],
         \A x \in S : h[x] = f[x] + g[x]
  PROVE  SumOver(h) = SumOver(f) + SumOver(g)
<1> DEFINE Bad == {s \in SUBSET S : SumOn(h, s) # SumOn(f, s) + SumOn(g, s)}
<1>0. /\ SumOver(f) = SumOn(f, S) /\ SumOver(g) = SumOn(g, S) /\ SumOver(h) = SumOn(h, S)
      /\ SumOn(f, {}) = 0 /\ SumOn(g, {}) = 0 /\ SumOn(h, {}) = 0
  BY SumOnIs
<1>1. SUFFICES ASSUME Bad # {} PROVE FALSE
  BY <1>0
<1>2. PICK s \in Bad : \A t \in Bad : t \subseteq s => t = s
  <2>1. Bad \in SUBSET (SUBSET S)
    OBVIOUS
  <2> HIDE DEF Bad
  <2>2. QED
    BY <1>1, <2>1, LeastSubset
<1>3. s # {}
  <2>1. SumOn(h, {}) = SumOn(f, {}) + SumOn(g, {})
    BY <1>0
  <2>2. QED
    BY <1>2, <2>1
<1> DEFINE x == Pick(s)
<1>4. /\ x \in s
      /\ SumOn(f, s) = f[x] + SumOn(f, s \ {x})
      /\ SumOn(g, s) = g[x] + SumOn(g, s \ {x})
      /\ SumOn(h, s) = h[x] + SumOn(h, s \ {x})
  BY <1>2, <1>3, SumOnIs
<1>5. SumOn(h, s \ {x}) = SumOn(f, s \ {x}) + SumOn(g, s \ {x})
  BY <1>2, <1>4
<1>6. /\ SumOn(f, s \ {x}) \in Int /\ SumOn(g, s \ {x}) \in Int
      /\ f[x] \in Int /\ g[x] \in Int /\ h[x] = f[x] + g[x]
  BY <1>2, <1>4, SumOnInt
<1>7. QED
  BY <1>2, <1>4, <1>5, <1>6

LEMMA SumZero ==
  ASSUME NEW S, IsFiniteSet(S), NEW f \in [S -> Int], \A x \in S : f[x] = 0
  PROVE  SumOver(f) = 0
<1>1. SumOver(f) = SumOver(f) + SumOver(f)
  BY SumPlus
<1>2. PICK n \in Int : n = SumOver(f)
  BY SumInt
<1>3. \A k \in Int : k = k + k => k = 0
  OBVIOUS
<1>4. QED
  BY <1>1, <1>2, <1>3

LEMMA SumNegated ==
  ASSUME NEW S, IsFiniteSet(S), NEW f \in [S -> Int], NEW g \in [S -> Int],
         \A x \in S : g[x] = -f[x]
  PROVE  SumOver(g) = -SumOver(f)
<1>1. SumOver([x \in S |-> 0]) = SumOver(f) + SumOver(g)
  BY SumPlus
<1>2. SumOver([x \in S |-> 0]) = 0
  BY SumZero
<1>3. SumOver(f) \in Int /\ SumOver(g) \in Int
  BY SumInt
<1>4. QED
  BY <1>1, <1>2, <1>3

(* The sum of a family with one term that counts, or none. *)
LEMMA SumOnly ==
  ASSUME NEW S, IsFiniteSet(S), NEW f \in [S -> Int], NEW x \in S,
         \A y \in S : y # x => f[y] = 0
  PROVE  SumOver(f) = f[x]
<1> DEFINE z == [y \in S |-> 0]
<1>1. z \in [S -> Int] /\ z[x] = 0 /\ \A y \in S : y # x => f[y] = z[y]
  OBVIOUS
<1>2. SumOver(z) = 0
  BY SumZero
<1> HIDE DEF z
<1>3. SumOver(f) = SumOver(z) - z[x] + f[x]
  BY <1>1, SumChange
<1>4. f[x] \in Int
  OBVIOUS
<1>5. QED
  BY <1>1, <1>2, <1>3, <1>4

(* A sum over part of a set is the sum over the set of the terms that      *)
(* count, the others being zero.                                           *)
LEMMA SumExtended ==
  ASSUME NEW S, IsFiniteSet(S), NEW T \in SUBSET S, NEW f \in [T -> Int], NEW g \in [S -> Int],
         \A x \in S : g[x] = IF x \in T THEN f[x] ELSE 0
  PROVE  SumOver(f) = SumOver(g)
<1> DEFINE Bad == {s \in SUBSET S : SumOn(g, s) # SumOn(f, s \cap T)}
<1>0. /\ DOMAIN f = T /\ DOMAIN g = S /\ IsFiniteSet(T)
      /\ \A x \in T : f[x] \in Int
      /\ \A x \in S : g[x] \in Int
  BY FS_Subset
<1>1. /\ SumOver(f) = SumOn(f, T) /\ SumOver(g) = SumOn(g, S)
      /\ SumOn(f, {}) = 0 /\ SumOn(g, {}) = 0
  BY <1>0, SumOnIs
<1>2. S \cap T = T
  OBVIOUS
<1>3. SUFFICES ASSUME Bad # {} PROVE FALSE
  BY <1>1, <1>2
<1>4. PICK s \in Bad : \A t \in Bad : t \subseteq s => t = s
  <2>1. Bad \in SUBSET (SUBSET S)
    OBVIOUS
  <2> HIDE DEF Bad
  <2>2. QED
    BY <1>3, <2>1, LeastSubset
<1>5. PICK x : x \in s
  BY <1>1, <1>4
<1>6. SumOn(g, s) = g[x] + SumOn(g, s \ {x})
  BY <1>0, <1>4, <1>5, SumOnWithout
<1>7. SumOn(g, s \ {x}) = SumOn(f, (s \ {x}) \cap T)
  BY <1>4, <1>5
<1>8. CASE x \in T
  <2>1. SumOn(f, s \cap T) = f[x] + SumOn(f, (s \cap T) \ {x})
    BY <1>0, <1>5, <1>8, SumOnWithout
  <2>2. (s \cap T) \ {x} = (s \ {x}) \cap T /\ g[x] = f[x]
    BY <1>4, <1>5, <1>8
  <2>3. QED
    BY <1>4, <1>6, <1>7, <2>1, <2>2
<1>9. CASE x \notin T
  <2>1. (s \ {x}) \cap T = s \cap T /\ g[x] = 0
    BY <1>4, <1>5, <1>9
  <2>2. PICK n \in Int : n = SumOn(g, s \ {x})
    BY <1>0, <1>4, SumOnInt
  <2>3. SumOn(g, s) = n
    BY <1>6, <2>1, <2>2
  <2>4. QED
    BY <1>4, <1>7, <2>1, <2>2, <2>3
<1>10. QED
  BY <1>8, <1>9
-----------------------------------------------------------------------------
(* Reversals. *)

(* The lines of a reversal are lines again. *)
LEMMA SwapSidesType ==
  ASSUME NEW b \in Batch
  PROVE  /\ SwapSides(b) \in Batch
         /\ DOMAIN SwapSides(b) = DOMAIN b
<1>1. b = [i \in 1..Len(b) |-> b[i]] /\ Len(b) \in Nat /\ DOMAIN b = 1..Len(b)
  BY DEF Batch
<1>2. \A i \in 1..Len(b) : SwapSides(b)[i] \in Line
  <2>1. \A i \in 1..Len(b) : b[i] \in Line
    BY <1>1 DEF Batch
  <2>2. QED
    BY <1>1, <2>1 DEF SwapSides, Line
<1>3. SwapSides(b) \in [1..Len(b) -> Line]
  BY <1>1, <1>2 DEF SwapSides
<1>4. SwapSides(b) \in Seq(Line)
  BY <1>1, <1>3
<1>5. QED
  BY <1>4 DEF SwapSides, Batch

LEMMA ReversedType ==
  ASSUME NEW ls \in Lines
  PROVE  Reversed(ls) \in Lines
BY SwapSidesType DEF Reversed, Lines

(* Exchanging the sides exchanges the totals: the sums run over the same   *)
(* amounts, so nothing about summation itself is needed.                   *)
LEMMA SwapSidesTotals ==
  ASSUME NEW b \in Batch
  PROVE  DebitsOf(SwapSides(b)) = CreditsOf(b) /\ CreditsOf(SwapSides(b)) = DebitsOf(b)
<1>1. [i \in DOMAIN SwapSides(b) |-> SwapSides(b)[i].debit] = [i \in DOMAIN b |-> b[i].credit]
  BY DEF SwapSides
<1>2. [i \in DOMAIN SwapSides(b) |-> SwapSides(b)[i].credit] = [i \in DOMAIN b |-> b[i].debit]
  BY DEF SwapSides
<1>3. QED
  BY <1>1, <1>2 DEF DebitsOf, CreditsOf

LEMMA ReversedTotals ==
  ASSUME NEW ls \in Lines
  PROVE  TotalDebit(Reversed(ls)) = TotalCredit(ls) /\ TotalCredit(Reversed(ls)) = TotalDebit(ls)
<1>1. \A q \in DOMAIN ls : /\ DebitsOf(Reversed(ls)[q]) = CreditsOf(ls[q])
                           /\ CreditsOf(Reversed(ls)[q]) = DebitsOf(ls[q])
  BY SwapSidesTotals DEF Reversed, Lines
<1>2. DOMAIN Reversed(ls) = DOMAIN ls
  BY DEF Reversed
<1>3. [q \in DOMAIN Reversed(ls) |-> DebitsOf(Reversed(ls)[q])] = [q \in DOMAIN ls |-> CreditsOf(ls[q])]
  BY <1>1, <1>2
<1>4. [q \in DOMAIN Reversed(ls) |-> CreditsOf(Reversed(ls)[q])] = [q \in DOMAIN ls |-> DebitsOf(ls[q])]
  BY <1>1, <1>2
<1>5. QED
  BY <1>3, <1>4 DEF TotalDebit, TotalCredit

(* A reversal balances because the entry it reverses does. *)
LEMMA ReversedBalanced ==
  ASSUME NEW ls \in Lines, Balanced(ls)
  PROVE  Balanced(Reversed(ls))
<1>1. \A q \in DOMAIN ls : SingleSided(Reversed(ls)[q])
  BY DEF Balanced, SingleSided, Reversed, SwapSides, Lines, Batch, Line
<1>2. QED
  BY <1>1, ReversedTotals DEF Balanced, Reversed

-----------------------------------------------------------------------------
LEMMA LedgerInvInit == LedgerInit => LedgerInv
BY NoneAssumption DEF LedgerInit, LedgerInv, LedgerTypeOK, BooksBalance, ReversalMirrors,
  OneReversal, LinksMatchStatus, Booked, Exists

(* A draft is linked to nothing, so writing one disturbs no booked entry. *)
LEMMA WriteDraftInv ==
  ASSUME LedgerInv, NEW e \in Requests, WriteDraft(e)
  PROVE  LedgerInv'
<1> USE NoneAssumption DEF LedgerInv, Exists, Booked
<1>1. LedgerTypeOK'
  BY DEF LedgerTypeOK, WriteDraft, IsDraft
<1>2. \A x \in Requests : x # e => entries'[x] = entries[x]
  BY DEF WriteDraft, LedgerTypeOK
<1>3. entries'[e] = None \/ (entries'[e].status = "draft" /\ entries'[e].voids = None
                                                        /\ entries'[e].voidedBy = None)
  BY DEF WriteDraft, IsDraft
<1>4. entries[e] = None \/ entries[e].status = "draft"
  BY DEF WriteDraft
<1>5. BooksBalance'
  BY <1>2, <1>3 DEF BooksBalance
<1>6. ReversalMirrors'
  <2>1. SUFFICES ASSUME NEW x \in Requests, entries'[x] # None, entries'[x].status = "voided"
                 PROVE  LET r == entries'[x].voidedBy IN
                          /\ r # None
                          /\ entries'[r] # None /\ entries'[r].status # "draft"
                          /\ entries'[r].voids = x
                          /\ entries'[r].lines = Reversed(entries'[x].lines)
    BY DEF ReversalMirrors
  <2>2. x # e /\ entries'[x] = entries[x] /\ entries[x] \in Entry
    BY <2>1, <1>2, <1>3 DEF LedgerTypeOK
  <2>3. entries[x].voidedBy \in Requests /\ entries[x].voidedBy # e
    BY <2>1, <2>2, <1>4 DEF ReversalMirrors, Entry
  <2>4. QED
    BY <2>1, <2>2, <2>3, <1>2 DEF ReversalMirrors
<1>7. OneReversal'
  <2>1. SUFFICES ASSUME NEW r \in Requests, entries'[r] # None, entries'[r].voids # None
                 PROVE  LET x == entries'[r].voids IN
                          entries'[x] # None /\ entries'[x].status = "voided"
                                            /\ entries'[x].voidedBy = r
    BY DEF OneReversal
  <2>2. r # e /\ entries'[r] = entries[r] /\ entries[r] \in Entry
    BY <2>1, <1>2, <1>3 DEF LedgerTypeOK
  <2>3. entries[r].voids \in Requests /\ entries[r].voids # e
    BY <2>1, <2>2, <1>4 DEF OneReversal, Entry
  <2>4. QED
    BY <2>1, <2>2, <2>3, <1>2 DEF OneReversal
<1>8. LinksMatchStatus'
  BY <1>2, <1>3 DEF LinksMatchStatus
<1>9. QED
  BY <1>1, <1>5, <1>6, <1>7, <1>8

LEMMA BookInv ==
  ASSUME LedgerInv, NEW e \in Requests, Book(e)
  PROVE  LedgerInv'
<1> USE NoneAssumption DEF LedgerInv, Exists, Booked
<1>0. entries[e] \in Entry /\ entries[e].status = "draft"
  BY DEF Book, LedgerTypeOK
<1>1. /\ \A x \in Requests : x # e => entries'[x] = entries[x]
      /\ entries'[e] = [entries[e] EXCEPT !.status = "posted"]
  BY DEF Book, LedgerTypeOK
<1>2. entries'[e] \in Entry
  BY <1>0, <1>1 DEF Entry, Statuses
<1>3. entries'[e] # None
  BY <1>2
<1>4. /\ entries'[e].status = "posted" /\ entries'[e].lines = entries[e].lines
      /\ entries'[e].voids = entries[e].voids /\ entries'[e].voidedBy = entries[e].voidedBy
  BY <1>0, <1>1 DEF Entry
<1>5. LedgerTypeOK'
  BY <1>2 DEF LedgerTypeOK, Book
<1>6. BooksBalance'
  BY <1>1, <1>3, <1>4 DEF BooksBalance, Book
<1>7. ReversalMirrors'
  <2>1. SUFFICES ASSUME NEW x \in Requests, entries'[x] # None, entries'[x].status = "voided"
                 PROVE  LET r == entries'[x].voidedBy IN
                          /\ r # None
                          /\ entries'[r] # None /\ entries'[r].status # "draft"
                          /\ entries'[r].voids = x
                          /\ entries'[r].lines = Reversed(entries'[x].lines)
    BY DEF ReversalMirrors
  <2>2. x # e /\ entries'[x] = entries[x] /\ entries[x] \in Entry
    BY <2>1, <1>1, <1>4 DEF LedgerTypeOK
  <2>3. entries[x].voidedBy \in Requests /\ entries[x].voidedBy # e
    BY <2>1, <2>2, <1>0 DEF ReversalMirrors, Entry
  <2>4. QED
    BY <2>1, <2>2, <2>3, <1>1 DEF ReversalMirrors
<1>8. OneReversal'
  BY <1>0, <1>1, <1>3, <1>4 DEF OneReversal, LinksMatchStatus, Book
<1>9. LinksMatchStatus'
  BY <1>0, <1>1, <1>3, <1>4 DEF LinksMatchStatus, Book
<1>10. QED
  BY <1>5, <1>6, <1>7, <1>8, <1>9

(* Nothing in the books names an entry that was not there. *)
LEMMA EnterInv ==
  ASSUME LedgerInv, NEW e \in Requests, Enter(e)
  PROVE  LedgerInv'
<1> USE NoneAssumption DEF LedgerInv, Exists, Booked
<1>0. /\ entries[e] = None
      /\ entries'[e] \in Entry /\ entries'[e] # None
      /\ entries'[e].status = "posted" /\ Balanced(entries'[e].lines)
      /\ entries'[e].voids = None /\ entries'[e].voidedBy = None
  BY DEF Enter
<1>1. LedgerTypeOK' /\ \A x \in Requests : x # e => entries'[x] = entries[x]
  BY <1>0 DEF Enter, LedgerTypeOK
<1>2. BooksBalance'
  BY <1>0, <1>1 DEF BooksBalance
<1>3. ReversalMirrors'
  <2>1. SUFFICES ASSUME NEW x \in Requests, entries'[x] # None, entries'[x].status = "voided"
                 PROVE  LET r == entries'[x].voidedBy IN
                          /\ r # None
                          /\ entries'[r] # None /\ entries'[r].status # "draft"
                          /\ entries'[r].voids = x
                          /\ entries'[r].lines = Reversed(entries'[x].lines)
    BY DEF ReversalMirrors
  <2>2. x # e /\ entries'[x] = entries[x] /\ entries[x] \in Entry
    BY <2>1, <1>0, <1>1 DEF LedgerTypeOK
  <2>3. entries[x].voidedBy \in Requests /\ entries[x].voidedBy # e
    BY <2>1, <2>2, <1>0 DEF ReversalMirrors, Entry
  <2>4. QED
    BY <2>1, <2>2, <2>3, <1>1 DEF ReversalMirrors
<1>4. OneReversal'
  <2>1. SUFFICES ASSUME NEW r \in Requests, entries'[r] # None, entries'[r].voids # None
                 PROVE  LET x == entries'[r].voids IN
                          entries'[x] # None /\ entries'[x].status = "voided"
                                            /\ entries'[x].voidedBy = r
    BY DEF OneReversal
  <2>2. r # e /\ entries'[r] = entries[r] /\ entries[r] \in Entry
    BY <2>1, <1>0, <1>1 DEF LedgerTypeOK
  <2>3. entries[r].voids \in Requests /\ entries[r].voids # e
    BY <2>1, <2>2, <1>0 DEF OneReversal, Entry
  <2>4. QED
    BY <2>1, <2>2, <2>3, <1>1 DEF OneReversal
<1>5. LinksMatchStatus'
  BY <1>0, <1>1 DEF LinksMatchStatus
<1>6. QED
  BY <1>1, <1>2, <1>3, <1>4, <1>5

(* The mirror image balances, and the pair it forms is the only one that   *)
(* names either entry: e was posted, so nothing had reversed it.           *)
LEMMA ReverseInv ==
  ASSUME LedgerInv, NEW e \in Requests, NEW r \in Requests, Reverse(e, r)
  PROVE  LedgerInv'
<1> USE NoneAssumption DEF LedgerInv, Exists, Booked
<1>0. entries[e] \in Entry /\ entries[e].status = "posted" /\ entries[e].voidedBy = None
      /\ entries[r] = None /\ e # r
  BY DEF Reverse, LedgerTypeOK, LinksMatchStatus
<1>1. /\ \A x \in Requests : x # e /\ x # r => entries'[x] = entries[x]
      /\ entries'[e] = [entries[e] EXCEPT !.status = "voided", !.voidedBy = r]
      /\ entries'[r] = [status |-> "posted", header |-> r, lines |-> Reversed(entries[e].lines),
                        voids |-> e, voidedBy |-> None]
  BY <1>0 DEF Reverse, LedgerTypeOK
<1>2. entries'[e] \in Entry /\ entries'[r] \in Entry
  <2>1. entries[e].lines \in Lines /\ Reversed(entries[e].lines) \in Lines
    BY <1>0, ReversedType DEF Entry
  <2>2. entries'[e] \in Entry
    BY <1>0, <1>1 DEF Entry, Statuses
  <2>3. entries'[r] \in Entry
    BY <2>1, <1>1 DEF Entry, Statuses
  <2>4. QED
    BY <2>2, <2>3
<1>3. entries'[e] # None /\ entries'[r] # None
  BY <1>2
<1>4. /\ entries'[e].status = "voided" /\ entries'[e].lines = entries[e].lines
      /\ entries'[e].voids = entries[e].voids /\ entries'[e].voidedBy = r
  BY <1>0, <1>1 DEF Entry
<1>5. /\ entries'[r].status = "posted" /\ entries'[r].lines = Reversed(entries[e].lines)
      /\ entries'[r].voids = e /\ entries'[r].voidedBy = None
  BY <1>1
<1>6. LedgerTypeOK'
  BY <1>2 DEF LedgerTypeOK, Reverse
<1>7. BooksBalance'
  <2>1. Balanced(entries[e].lines) /\ entries[e].lines \in Lines
    BY <1>0 DEF BooksBalance, Entry
  <2>2. QED
    BY <2>1, <1>1, <1>4, <1>5, ReversedBalanced, ZenonT(60) DEF BooksBalance
<1>8. ReversalMirrors'
  <2>1. SUFFICES ASSUME NEW x \in Requests, entries'[x] # None, entries'[x].status = "voided"
                 PROVE  LET q == entries'[x].voidedBy IN
                          /\ q # None
                          /\ entries'[q] # None /\ entries'[q].status # "draft"
                          /\ entries'[q].voids = x
                          /\ entries'[q].lines = Reversed(entries'[x].lines)
    BY DEF ReversalMirrors
  <2>2. CASE x = e
    BY <2>2, <1>3, <1>4, <1>5
  <2>3. CASE x # e
    <3>1. x # r /\ entries'[x] = entries[x] /\ entries[x] \in Entry
      BY <2>1, <2>3, <1>1, <1>5 DEF LedgerTypeOK
    <3>2. entries[x].voidedBy \in Requests /\ entries[x].voidedBy # r
      BY <2>1, <3>1, <1>0 DEF ReversalMirrors, Entry
    <3>3. CASE entries[x].voidedBy = e
      BY <2>1, <3>1, <3>3, <1>3, <1>4 DEF ReversalMirrors
    <3>4. CASE entries[x].voidedBy # e
      BY <2>1, <3>1, <3>2, <3>4, <1>1 DEF ReversalMirrors
    <3>5. QED
      BY <3>3, <3>4
  <2>4. QED
    BY <2>2, <2>3
<1>9. OneReversal'
  <2>1. SUFFICES ASSUME NEW q \in Requests, entries'[q] # None, entries'[q].voids # None
                 PROVE  LET x == entries'[q].voids IN
                          entries'[x] # None /\ entries'[x].status = "voided"
                                            /\ entries'[x].voidedBy = q
    BY DEF OneReversal
  <2>2. CASE q = r
    BY <2>2, <1>3, <1>4, <1>5
  <2>3. CASE q # r
    <3>1. entries[q] # None /\ entries[q] \in Entry /\ entries'[q].voids = entries[q].voids
      <4>1. CASE q = e
        BY <4>1, <1>0, <1>4
      <4>2. CASE q # e
        BY <4>2, <2>1, <2>3, <1>1 DEF LedgerTypeOK
      <4>3. QED
        BY <4>1, <4>2
    <3>2. entries[q].voids \in Requests /\ entries[q].voids # r /\ entries[q].voids # e
      BY <2>1, <3>1, <1>0 DEF OneReversal, Entry
    <3>3. QED
      BY <2>1, <3>1, <3>2, <1>1 DEF OneReversal
  <2>4. QED
    BY <2>2, <2>3
<1>10. LinksMatchStatus'
  <2>1. SUFFICES ASSUME NEW x \in Requests, entries'[x] # None
                 PROVE  /\ entries'[x].status # "voided" => entries'[x].voidedBy = None
                        /\ entries'[x].status = "draft" => entries'[x].voids = None
    BY DEF LinksMatchStatus, Exists
  <2>2. CASE x = e
    BY <2>2, <1>4
  <2>3. CASE x = r
    BY <2>3, <1>5
  <2>4. CASE x # e /\ x # r
    <3>1. entries'[x] = entries[x]
      BY <2>4, <1>1 DEF LedgerTypeOK
    <3>2. QED
      BY <2>1, <3>1 DEF LinksMatchStatus, Exists
  <2>5. QED
    BY <2>2, <2>3, <2>4
<1>11. QED
  BY <1>6, <1>7, <1>8, <1>9, <1>10

LEMMA LedgerInvStep == LedgerInv /\ [LedgerNext]_entries => LedgerInv'
<1> SUFFICES ASSUME LedgerInv, [LedgerNext]_entries
             PROVE  LedgerInv'
  OBVIOUS
<1>1. CASE LedgerNext
  BY <1>1, WriteDraftInv, BookInv, EnterInv, ReverseInv DEF LedgerNext
<1>2. CASE UNCHANGED entries
  BY <1>2 DEF LedgerInv, LedgerTypeOK, BooksBalance, ReversalMirrors, OneReversal,
    LinksMatchStatus, Booked, Exists
<1>3. QED
  BY <1>1, <1>2

(* The books balance, every voided entry is mirrored by its reversal and   *)
(* no entry is reversed twice, for every history of drafts, postings and   *)
(* voids.                                                                  *)
THEOREM LedgerSafe == LedgerSpec => []LedgerInv
<1>1. QED
  BY LedgerInvInit, LedgerInvStep, PTL DEF LedgerSpec

(* One step never changes a booked entry except to void it. *)
LEMMA LedgerStepFreezes ==
  ASSUME LedgerInv, LedgerNext, NEW e \in Requests, Booked(e)
  PROVE  /\ entries'[e] # None
         /\ entries'[e].header = entries[e].header
         /\ entries'[e].lines = entries[e].lines
         /\ entries'[e].voids = entries[e].voids
         /\ \/ entries'[e].status = entries[e].status
               /\ entries'[e].voidedBy = entries[e].voidedBy
            \/ entries[e].status = "posted" /\ entries'[e].status = "voided"
<1> USE NoneAssumption
<1>0. entries[e] \in Entry /\ entries[e] # None /\ entries[e].status # "draft"
  BY DEF LedgerInv, LedgerTypeOK, Booked, Exists
<1>1. ASSUME NEW x \in Requests, WriteDraft(x)
      PROVE  entries'[e] = entries[e]
  BY <1>1, <1>0 DEF WriteDraft, Booked, Exists, LedgerInv, LedgerTypeOK
<1>2. ASSUME NEW x \in Requests, Book(x)
      PROVE  entries'[e] = entries[e]
  BY <1>2, <1>0 DEF Book, LedgerInv, LedgerTypeOK
<1>3. ASSUME NEW x \in Requests, Enter(x)
      PROVE  entries'[e] = entries[e]
  BY <1>3, <1>0 DEF Enter, Exists, LedgerInv, LedgerTypeOK
<1>4. ASSUME NEW x \in Requests, NEW r \in Requests, Reverse(x, r)
      PROVE  \/ entries'[e] = entries[e]
             \/ /\ entries'[e] = [entries[e] EXCEPT !.status = "voided", !.voidedBy = r]
                /\ entries[e].status = "posted"
  BY <1>4, <1>0 DEF Reverse, Exists, LedgerInv, LedgerTypeOK
<1>5. ASSUME NEW r \in Requests,
             entries'[e] = [entries[e] EXCEPT !.status = "voided", !.voidedBy = r]
      PROVE  /\ entries'[e] # None /\ entries'[e].status = "voided"
             /\ entries'[e].header = entries[e].header
             /\ entries'[e].lines = entries[e].lines
             /\ entries'[e].voids = entries[e].voids
  <2>1. entries'[e] \in Entry
    BY <1>0, <1>5 DEF Entry, Statuses
  <2>2. QED
    BY <2>1, <1>0, <1>5 DEF Entry
<1>6. QED
  BY <1>0, <1>1, <1>2, <1>3, <1>4, <1>5 DEF LedgerNext

(* A posted entry is immutable, over every behaviour of the books. *)
THEOREM LedgerFrozen == LedgerSpec => FrozenOnceBooked
<1>1. LedgerInv /\ [LedgerNext]_entries =>
      [\A e \in Requests : Booked(e) =>
         /\ entries'[e] # None
         /\ entries'[e].header = entries[e].header
         /\ entries'[e].lines = entries[e].lines
         /\ entries'[e].voids = entries[e].voids
         /\ \/ entries'[e].status = entries[e].status
               /\ entries'[e].voidedBy = entries[e].voidedBy
            \/ entries[e].status = "posted" /\ entries'[e].status = "voided"]_entries
  BY LedgerStepFreezes
<1>2. QED
  BY <1>1, LedgerSafe, PTL DEF LedgerSpec, FrozenOnceBooked

-----------------------------------------------------------------------------
(* Account balances. *)

LEMMA LineIndices ==
  ASSUME NEW b \in Batch
  PROVE  IsFiniteSet(DOMAIN b) /\ \A i \in DOMAIN b : b[i] \in Line
<1>1. Len(b) \in Nat /\ DOMAIN b = 1..Len(b)
  BY DEF Batch
<1>2. IsFiniteSet(1..Len(b))
  BY <1>1, FS_Interval
<1>3. QED
  BY <1>1, <1>2 DEF Batch

(* What one batch of lines moves into account a. *)
MovedBy(b, a) ==
  [i \in DOMAIN b |-> IF b[i].account = a THEN b[i].debit - b[i].credit ELSE 0]

LEMMA MovedByInt ==
  ASSUME NEW b \in Batch, NEW a
  PROVE  MovedBy(b, a) \in [DOMAIN b -> Int] /\ SumOver(MovedBy(b, a)) \in Int
<1>1. MovedBy(b, a) \in [DOMAIN b -> Int]
  BY LineIndices DEF MovedBy, Line
<1>2. QED
  BY <1>1, LineIndices, SumInt

LEMMA NetInt ==
  ASSUME NEW ls \in Lines, NEW a
  PROVE  /\ [q \in Requests |-> SumOver(MovedBy(ls[q], a))] \in [Requests -> Int]
         /\ Net(ls, a) = SumOver([q \in Requests |-> SumOver(MovedBy(ls[q], a))])
         /\ Net(ls, a) \in Int
<1>1. DOMAIN ls = Requests /\ \A q \in Requests : ls[q] \in Batch
  BY DEF Lines
<1>2. [q \in Requests |-> SumOver(MovedBy(ls[q], a))] \in [Requests -> Int]
  BY <1>1, MovedByInt
<1>3. Net(ls, a) = SumOver([q \in Requests |-> SumOver(MovedBy(ls[q], a))])
  BY <1>1 DEF Net, MovedBy
<1>4. QED
  BY <1>2, <1>3, SumInt, RequestsAssumption

(* A reversal moves the opposite. *)
LEMMA NetReversed ==
  ASSUME NEW ls \in Lines, NEW a
  PROVE  Net(Reversed(ls), a) = -Net(ls, a)
<1> DEFINE f == [q \in Requests |-> SumOver(MovedBy(ls[q], a))]
           g == [q \in Requests |-> SumOver(MovedBy(Reversed(ls)[q], a))]
<1>1. Reversed(ls) \in Lines
  BY ReversedType
<1>2. f \in [Requests -> Int] /\ Net(ls, a) = SumOver(f)
  BY NetInt
<1>3. g \in [Requests -> Int] /\ Net(Reversed(ls), a) = SumOver(g)
  BY <1>1, NetInt
<1>4. \A q \in Requests : g[q] = -f[q]
  <2>1. SUFFICES ASSUME NEW q \in Requests
                 PROVE  SumOver(MovedBy(Reversed(ls)[q], a)) = -SumOver(MovedBy(ls[q], a))
    OBVIOUS
  <2>2. PICK b \in Batch : b = ls[q]
    BY DEF Lines
  <2>3. Reversed(ls)[q] = SwapSides(b)
    BY <2>2 DEF Reversed, Lines
  <2>4. SwapSides(b) \in Batch /\ DOMAIN SwapSides(b) = DOMAIN b
    BY SwapSidesType
  <2>5. \A i \in DOMAIN b : MovedBy(SwapSides(b), a)[i] = -MovedBy(b, a)[i]
    BY LineIndices DEF SwapSides, MovedBy, Line
  <2>6. MovedBy(b, a) \in [DOMAIN b -> Int] /\ MovedBy(SwapSides(b), a) \in [DOMAIN b -> Int]
    BY <2>4, MovedByInt
  <2>7. SumOver(MovedBy(SwapSides(b), a)) = -SumOver(MovedBy(b, a))
    BY <2>5, <2>6, LineIndices, SumNegated
  <2>8. QED
    BY <2>2, <2>3, <2>7
<1> HIDE DEF f, g
<1>5. QED
  BY <1>2, <1>3, <1>4, SumNegated, RequestsAssumption

(* What the entries that are counted move into account a. *)
LEMMA BalanceTerms ==
  ASSUME LedgerInv, NEW a
  PROVE  /\ IsFiniteSet(Counted)
         /\ [x \in Counted |-> Net(entries[x].lines, a)] \in [Counted -> Int]
<1>1. IsFiniteSet(Counted)
  BY RequestsAssumption, FS_Subset DEF Counted
<1>2. \A x \in Counted : entries[x].lines \in Lines
  BY DEF Counted, Booked, Exists, LedgerInv, LedgerTypeOK, Entry
<1>3. QED
  BY <1>1, <1>2, NetInt

(* The only step that voids an entry reverses it. *)
LEMMA VoidingReverses ==
  ASSUME LedgerInv, LedgerNext, NEW e \in Requests,
         Booked(e), entries[e].status = "posted", entries'[e].status = "voided"
  PROVE  \E r \in Requests : Reverse(e, r)
<1> USE NoneAssumption
<1>0. entries[e] \in Entry /\ entries[e] # None
  BY DEF LedgerInv, LedgerTypeOK, Booked, Exists
<1>1. ASSUME NEW x \in Requests, WriteDraft(x) \/ Book(x) \/ Enter(x)
      PROVE  entries'[e] = entries[e]
  BY <1>0, <1>1 DEF WriteDraft, Book, Enter, Booked, Exists, LedgerInv, LedgerTypeOK
<1>2. ASSUME NEW x \in Requests, NEW r \in Requests, Reverse(x, r), x # e
      PROVE  entries'[e] = entries[e]
  BY <1>0, <1>2 DEF Reverse, Exists, LedgerInv, LedgerTypeOK
<1>3. QED
  BY <1>1, <1>2 DEF LedgerNext

LEMMA ReverseUndoes ==
  ASSUME LedgerInv, NEW e \in Requests, NEW r \in Requests, Reverse(e, r), NEW a
  PROVE  AccountBalance(a)' = AccountBalance(a) - Net(entries[e].lines, a)
<1> USE NoneAssumption DEF LedgerInv, Exists
<1>0. entries[e] \in Entry /\ entries[e].status = "posted" /\ entries[r] = None /\ e # r
  BY DEF Reverse, LedgerTypeOK
<1>1. PICK ls \in Lines : ls = entries[e].lines
  BY <1>0 DEF Entry
<1>2. /\ entries'[e] = [entries[e] EXCEPT !.status = "voided", !.voidedBy = r]
      /\ entries'[r] = [status |-> "posted", header |-> r, lines |-> Reversed(ls),
                        voids |-> e, voidedBy |-> None]
      /\ \A x \in Requests : x # e /\ x # r => entries'[x] = entries[x]
  BY <1>0, <1>1 DEF Reverse, LedgerTypeOK
<1>3. entries'[e] # None /\ entries'[r] # None
  <2>1. entries'[e] \in Entry
    BY <1>0, <1>2 DEF Entry, Statuses
  <2>2. Reversed(ls) \in Lines
    BY ReversedType
  <2>3. entries'[r] \in Entry
    BY <1>2, <2>2 DEF Entry, Statuses
  <2>4. QED
    BY <2>1, <2>3
<1>4. /\ entries'[e].status = "voided" /\ entries'[e].lines = ls
      /\ entries'[r].status = "posted" /\ entries'[r].lines = Reversed(ls)
  BY <1>0, <1>1, <1>2 DEF Entry
<1>5. r \notin Counted /\ e \in Counted
  BY <1>0 DEF Counted, Booked
<1>6. Counted' = Counted \cup {r}
  BY <1>0, <1>2, <1>3, <1>4 DEF Counted, Booked
<1> DEFINE f == [x \in Counted |-> Net(entries[x].lines, a)]
<1>7. PICK g : g = [x \in Counted' |-> Net(entries'[x].lines, a)]
  OBVIOUS
<1>8. AccountBalance(a) = SumOver(f) /\ AccountBalance(a)' = SumOver(g)
  BY <1>7 DEF AccountBalance
<1>9. IsFiniteSet(Counted') /\ g \in [Counted' -> Int]
  <2>1. LedgerInv'
    BY ReverseInv
  <2>2. \A x \in Counted' : entries'[x].lines \in Lines
    BY <2>1 DEF Counted, Booked, LedgerTypeOK, Entry
  <2>3. QED
    BY <1>7, <2>2, NetInt, RequestsAssumption, FS_Subset DEF Counted
<1>10. \A x \in Counted : g[x] = f[x]
  BY <1>1, <1>2, <1>4, <1>5, <1>6, <1>7 DEF Counted
<1>11. Without(g, r) = f
  BY <1>5, <1>6, <1>7, <1>10 DEF Without
<1>12. g[r] = -Net(ls, a)
  BY <1>4, <1>6, <1>7, NetReversed
<1> HIDE DEF f
<1>13. PICK n \in Int : n = SumOver(Without(g, r)) /\ SumOver(g) = g[r] + n
  BY <1>6, <1>9, SumWithout
<1>14. Net(ls, a) \in Int
  BY NetInt
<1>15. QED
  BY <1>1, <1>8, <1>11, <1>12, <1>13, <1>14

(* Over every history of the books, voiding an entry takes exactly what it *)
(* had moved out of every account balance.                                 *)
THEOREM LedgerVoidingUndoes == LedgerSpec => VoidingUndoes
<1>1. LedgerInv /\ [LedgerNext]_entries =>
      [\A e \in Requests :
         Booked(e) /\ entries[e].status = "posted" /\ entries'[e].status = "voided" =>
           \A a \in Accounts :
             AccountBalance(a)' = AccountBalance(a) - Net(entries[e].lines, a)]_entries
  BY VoidingReverses, ReverseUndoes
<1>2. QED
  BY <1>1, LedgerSafe, PTL DEF LedgerSpec, VoidingUndoes
=============================================================================
