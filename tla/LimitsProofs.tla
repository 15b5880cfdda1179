------------------------------ MODULE LimitsProofs ------------------------------
(* Proofs about what limits a run: BudgetMeter, for any nodes, calls, costs   *)
(* and bounds, and Gateway, for any callers, bills and retry policy, which    *)
(* rest on what a sum over a finite set is; and the Slack bot with its gate,  *)
(* for any requests, plans and budgets.                                       *)
EXTENDS BudgetMeter, Gateway, SlackBot, FiniteSetTheorems, WellFoundedInduction, TLAPS

(***************************************************************************)
(* Sums over a finite set, as the fold of the library computes them: one   *)
(* element at a time, in an order of CHOOSE's.                             *)
(***************************************************************************)
Pick(s) == CHOOSE x \in s : TRUE
Summed(f, it, s) == IF s = {} THEN 0 ELSE f[Pick(s)] + it[s \ {Pick(s)}]
Summing(S, f, it) == it = [s \in SUBSET S |-> Summed(f, it, s)]

(* What holds of a set when it holds of all smaller ones holds of all.      *)
LEMMA SubsetsOfFinite ==
  ASSUME NEW S, IsFiniteSet(S), NEW T \in SUBSET SUBSET S,
         \A s \in SUBSET S : (\A r \in SUBSET s : r # s => r \in T) => s \in T
  PROVE  T = SUBSET S
<1>. DEFINE B == (SUBSET S) \ T
<1>. SUFFICES ASSUME B # {} PROVE FALSE
  OBVIOUS
<1>1. IsWellFoundedOn(StrictSubsetOrdering(S), FiniteSubsetsOf(S))
  BY FS_StrictSubsetOrderingWellFounded
<1>2. FiniteSubsetsOf(S) = SUBSET S
  BY FS_FiniteSubsetsOfFinite
<1>3. B \subseteq FiniteSubsetsOf(S)
  BY <1>2
<1>. HIDE DEF B
<1>4. PICK s \in B : \A r \in B : ~(<<r, s>> \in StrictSubsetOrdering(S))
  BY <1>1, <1>3, WFMin
<1>5. s \in SUBSET S /\ s \notin T
  BY DEF B
<1>6. \A r \in SUBSET s : r # s => r \in T
  <2>. SUFFICES ASSUME NEW r \in SUBSET s, r # s, r \notin T PROVE FALSE
    OBVIOUS
  <2>1. r \in B
    BY <1>5 DEF B
  <2>2. <<r, s>> \in StrictSubsetOrdering(S)
    BY <1>5 DEF StrictSubsetOrdering
  <2>. QED  BY <1>4, <2>1, <2>2
<1>. QED  BY <1>5, <1>6

(* The fold of the sets of at most k elements.                              *)
Small(S, k) == {s \in SUBSET S : Cardinality(s) <= k}
SummingSmall(S, f, k, it) == it = [s \in Small(S, k) |-> Summed(f, it, s)]

LEMMA PickIs ==
  ASSUME NEW S, IsFiniteSet(S), NEW s \in SUBSET S, s # {}
  PROVE  /\ Pick(s) \in s /\ IsFiniteSet(s) /\ Cardinality(s) \in Nat
         /\ s \ {Pick(s)} \in SUBSET S
         /\ Cardinality(s \ {Pick(s)}) = Cardinality(s) - 1
<1>1. Pick(s) \in s
  BY DEF Pick
<1>2. IsFiniteSet(s)
  BY FS_Subset
<1>. QED  BY <1>1, <1>2, FS_CardinalityType, FS_RemoveElement

LEMMA LargerIsSummed ==
  ASSUME NEW S, IsFiniteSet(S), NEW f, NEW k \in Nat, NEW it, SummingSmall(S, f, k, it)
  PROVE  \E more : SummingSmall(S, f, k + 1, more)
<1>. DEFINE more == [s \in Small(S, k + 1) |-> Summed(f, it, s)]
<1>1. \A s \in SUBSET S : IsFiniteSet(s) /\ Cardinality(s) \in Nat
  BY FS_Subset, FS_CardinalityType
<1>2. \A s \in Small(S, k) : s \in Small(S, k + 1) /\ more[s] = it[s]
  <2>. SUFFICES ASSUME NEW s \in Small(S, k) PROVE s \in Small(S, k + 1) /\ more[s] = it[s]
    OBVIOUS
  <2>1. s \in Small(S, k + 1)
    BY <1>1 DEF Small
  <2>2. it[s] = Summed(f, it, s)
    BY DEF SummingSmall
  <2>. QED  BY <2>1, <2>2
<1>3. ASSUME NEW s \in Small(S, k + 1)
      PROVE  Summed(f, more, s) = Summed(f, it, s)
  <2>1. CASE s = {}
    BY <2>1 DEF Summed
  <2>2. CASE s # {}
    <3>1. s \in SUBSET S /\ Cardinality(s) <= k + 1
      BY DEF Small
    <3>2. s \ {Pick(s)} \in SUBSET S /\ Cardinality(s \ {Pick(s)}) = Cardinality(s) - 1
      BY <2>2, <3>1, PickIs
    <3>3. s \ {Pick(s)} \in Small(S, k)
      BY <1>1, <3>1, <3>2 DEF Small
    <3>. HIDE DEF more
    <3>. QED  BY <1>2, <2>2, <3>3 DEF Summed
  <2>. QED  BY <2>1, <2>2
<1>4. \A s \in Small(S, k + 1) : more[s] = Summed(f, it, s)
  OBVIOUS
<1>5. more = [s \in Small(S, k + 1) |-> more[s]]
  OBVIOUS
<1>. HIDE DEF more
<1>6. SummingSmall(S, f, k + 1, more)
  BY <1>3, <1>4, <1>5 DEF SummingSmall
<1>. QED  BY <1>6

LEMMA SummingExists ==
  ASSUME NEW S, IsFiniteSet(S), NEW f
  PROVE  \E it : Summing(S, f, it)
<1>. DEFINE T == {k \in Nat : ~ \E it : SummingSmall(S, f, k, it)}
<1>1. \A s \in SUBSET S : IsFiniteSet(s) /\ Cardinality(s) \in Nat /\ Cardinality(s) <= Cardinality(S)
  BY FS_Subset, FS_CardinalityType
<1>2. \E it : SummingSmall(S, f, 0, it)
  <2>. DEFINE it == [s \in Small(S, 0) |-> 0]
  <2>1. \A s \in Small(S, 0) : s = {}
    BY <1>1, FS_EmptySet DEF Small
  <2>2. \A s \in Small(S, 0) : Summed(f, it, s) = 0
    BY <2>1 DEF Summed
  <2>3. SummingSmall(S, f, 0, it)
    BY <2>2 DEF SummingSmall
  <2>. QED  BY <2>3
<1>3. T = {}
  <2>. SUFFICES ASSUME T # {} PROVE FALSE
    OBVIOUS
  <2>1. PICK k \in T : \A j \in T : ~(<<j, k>> \in OpToRel(<, Nat))
    BY NatLessThanWellFounded, WFMin
  <2>2. k \in Nat /\ k # 0
    BY <1>2
  <2>3. k - 1 \in Nat /\ k - 1 \notin T
    <3>1. k - 1 \in Nat /\ k - 1 < k
      BY <2>2
    <3>2. <<k - 1, k>> \in OpToRel(<, Nat)
      BY <2>2, <3>1 DEF OpToRel
    <3>. HIDE DEF T
    <3>. QED  BY <2>1, <3>1, <3>2
  <2>4. PICK it : SummingSmall(S, f, k - 1, it)
    BY <2>3
  <2>5. \E more : SummingSmall(S, f, (k - 1) + 1, more)
    BY <2>3, <2>4, LargerIsSummed
  <2>6. (k - 1) + 1 = k
    BY <2>2
  <2>. QED  BY <2>1, <2>5, <2>6
<1>4. Cardinality(S) \in Nat
  BY FS_CardinalityType
<1>5. PICK it : SummingSmall(S, f, Cardinality(S), it)
  BY <1>3, <1>4
<1>6. Small(S, Cardinality(S)) = SUBSET S
  BY <1>1 DEF Small
<1>7. Summing(S, f, it)
  BY <1>5, <1>6 DEF SummingSmall, Summing
<1>. QED  BY <1>7

(* Whichever element is taken first, the sum is the same.                   *)
SumIs(f, it, s) ==
  it[s] \in Nat /\ (s = {} => it[s] = 0) /\ \A x \in s : it[s] = f[x] + it[s \ {x}]

LEMMA SumOfAny ==
  ASSUME NEW S, IsFiniteSet(S), NEW f, \A x \in S : f[x] \in Nat, NEW it, Summing(S, f, it)
  PROVE  \A s \in SUBSET S : SumIs(f, it, s)
<1>. DEFINE T == {s \in SUBSET S : SumIs(f, it, s)}
<1>1. \A s \in SUBSET S : it[s] = Summed(f, it, s)
  BY DEF Summing
<1>2. ASSUME NEW s \in SUBSET S, \A r \in SUBSET s : r # s => r \in T
      PROVE  s \in T
  <2>1. CASE s = {}
    <3>1. it[s] = 0
      BY <1>1, <2>1 DEF Summed
    <3>2. SumIs(f, it, s)
      BY <2>1, <3>1 DEF SumIs
    <3>. QED  BY <3>2
  <2>2. CASE s # {}
    <3>. DEFINE p == Pick(s)
    <3>1. p \in s
      BY <2>2, PickIs
    <3>2. it[s] = f[p] + it[s \ {p}]
      BY <1>1, <2>2 DEF Summed
    <3>. HIDE DEF p
    <3>3. s \ {p} \in T
      BY <1>2, <3>1
    <3>4. it[s \ {p}] \in Nat /\ it[s] \in Nat
      BY <3>1, <3>2, <3>3 DEF SumIs
    <3>5. ASSUME NEW x \in s, x # p PROVE it[s] = f[x] + it[s \ {x}]
      <4>. DEFINE rest == (s \ {p}) \ {x}
      <4>1. s \ {x} \in T /\ rest \in T
        <5>1. rest \in SUBSET s /\ rest # s
          BY <3>1
        <5>. HIDE DEF rest
        <5>. QED  BY <1>2, <5>1
      <4>2. it[s \ {p}] = f[x] + it[rest]
        BY <3>3, <3>5 DEF SumIs
      <4>3. it[s \ {x}] = f[p] + it[rest]
        <5>1. rest = (s \ {x}) \ {p} /\ p \in s \ {x}
          BY <3>1, <3>5
        <5>. HIDE DEF rest
        <5>. QED  BY <4>1, <5>1 DEF SumIs
      <4>4. f[p] \in Nat /\ f[x] \in Nat /\ it[rest] \in Nat
        BY <3>1, <4>1 DEF SumIs
      <4>. HIDE DEF T, rest
      <4>. QED  BY <3>2, <4>2, <4>3, <4>4
    <3>6. SumIs(f, it, s)
      BY <2>2, <3>2, <3>4, <3>5 DEF SumIs
    <3>. QED  BY <3>6
  <2>. QED  BY <2>1, <2>2
<1>3. T \in SUBSET SUBSET S
  OBVIOUS
<1>. HIDE DEF T
<1>4. T = SUBSET S
  BY <1>2, <1>3, SubsetsOfFinite
<1>. QED  BY <1>4 DEF T

(* Two functions that agree on a set have one sum over it.                  *)
LEMMA SumsAgree ==
  ASSUME NEW S, IsFiniteSet(S), NEW R, IsFiniteSet(R), NEW f, NEW g,
         NEW it, Summing(S, f, it), NEW jt, Summing(R, g, jt)
  PROVE  \A s \in SUBSET (S \cap R) : (\A x \in s : f[x] = g[x]) => it[s] = jt[s]
<1>. DEFINE T == {s \in SUBSET (S \cap R) : (\A x \in s : f[x] = g[x]) => it[s] = jt[s]}
<1>0. IsFiniteSet(S \cap R)
  BY FS_Intersection
<1>1. \A s \in SUBSET (S \cap R) : it[s] = Summed(f, it, s) /\ jt[s] = Summed(g, jt, s)
  BY DEF Summing
<1>2. ASSUME NEW s \in SUBSET (S \cap R), \A r \in SUBSET s : r # s => r \in T
      PROVE  s \in T
  <2>1. CASE s = {}
    BY <1>1, <2>1 DEF Summed
  <2>2. CASE s # {}
    <3>1. Pick(s) \in s
      BY <1>0, <2>2, PickIs
    <3>2. s \ {Pick(s)} \in T
      BY <1>2, <3>1
    <3>. QED  BY <1>1, <2>2, <3>1, <3>2 DEF Summed
  <2>. QED  BY <2>1, <2>2
<1>3. T \in SUBSET SUBSET (S \cap R)
  OBVIOUS
<1>. HIDE DEF T
<1>4. T = SUBSET (S \cap R)
  BY <1>0, <1>2, <1>3, SubsetsOfFinite
<1>. QED  BY <1>4 DEF T

LEMMA TotalSums ==
  ASSUME NEW S, IsFiniteSet(S), NEW f, DOMAIN f = S
  PROVE  \E it : Summing(S, f, it) /\ Total(f) = it[S]
<1>. DEFINE it == CHOOSE h : Summing(DOMAIN f, f, h)
<1>1. \E h : Summing(DOMAIN f, f, h)
  BY SummingExists
<1>2. Summing(DOMAIN f, f, it)
  BY <1>1, Zenon
<1>3. Total(f) = it[DOMAIN f]
  BY Zenon DEF Total, MapThenSumSet, MapThenFoldSet, Summing, Summed, Pick
<1>. HIDE DEF it
<1>. QED  BY <1>2, <1>3

(***************************************************************************)
(* What a total is when its function gains or changes an element.          *)
(***************************************************************************)
LEMMA TotalIs ==
  ASSUME NEW S, IsFiniteSet(S), NEW f \in [S -> Nat]
  PROVE  Total(f) \in Nat /\ (S = {} => Total(f) = 0)
<1>1. PICK it : Summing(S, f, it) /\ Total(f) = it[S]
  BY TotalSums
<1>2. SumIs(f, it, S)
  BY <1>1, SumOfAny
<1>. QED  BY <1>1, <1>2 DEF SumIs

IsWithout(g, f, x, S) ==
  /\ IsFiniteSet(S) /\ f \in [S -> Nat] /\ x \in S
  /\ g \in [S \ {x} -> Nat] /\ \A y \in S \ {x} : g[y] = f[y]

LEMMA TotalLess ==
  ASSUME NEW S, NEW f, NEW x, NEW g, IsWithout(g, f, x, S)
  PROVE  Total(f) = Total(g) + f[x]
<1>0. /\ IsFiniteSet(S) /\ f \in [S -> Nat] /\ x \in S
      /\ g \in [S \ {x} -> Nat] /\ \A y \in S \ {x} : g[y] = f[y]
  BY DEF IsWithout
<1>1. PICK it : Summing(S, f, it) /\ Total(f) = it[S]
  BY <1>0, TotalSums
<1>2. IsFiniteSet(S \ {x})
  BY <1>0, FS_Subset
<1>3. PICK jt : Summing(S \ {x}, g, jt) /\ Total(g) = jt[S \ {x}]
  BY <1>0, <1>2, TotalSums
<1>4. it[S] = f[x] + it[S \ {x}] /\ it[S \ {x}] \in Nat
  <2>1. SumIs(f, it, S) /\ SumIs(f, it, S \ {x})
    BY <1>0, <1>1, SumOfAny
  <2>. QED  BY <1>0, <2>1 DEF SumIs
<1>5. S \ {x} \in SUBSET (S \cap (S \ {x}))
  OBVIOUS
<1>6. it[S \ {x}] = jt[S \ {x}]
  BY <1>0, <1>1, <1>2, <1>3, <1>5, SumsAgree
<1>. QED  BY <1>0, <1>1, <1>3, <1>4, <1>6

IsChanged(g, f, x, k, S) ==
  /\ IsFiniteSet(S) /\ f \in [S -> Nat] /\ x \in S /\ k \in Nat
  /\ g = [f EXCEPT ![x] = k]

LEMMA TotalChanges ==
  ASSUME NEW S, NEW f, NEW x, NEW k, NEW g, IsChanged(g, f, x, k, S)
  PROVE  Total(g) + f[x] = Total(f) + k /\ Total(f) \in Nat /\ Total(g) \in Nat
<1>. DEFINE h == [y \in S \ {x} |-> f[y]]
<1>0. IsFiniteSet(S) /\ f \in [S -> Nat] /\ x \in S /\ k \in Nat
  BY DEF IsChanged
<1>1. g \in [S -> Nat] /\ h \in [S \ {x} -> Nat] /\ g[x] = k
      /\ \A y \in S \ {x} : h[y] = f[y] /\ h[y] = g[y]
  BY <1>0 DEF IsChanged
<1>2. IsFiniteSet(S \ {x})
  BY <1>0, FS_Subset
<1>. HIDE DEF h
<1>3. Total(f) = Total(h) + f[x]
  <2>1. IsWithout(h, f, x, S)
    BY <1>0, <1>1 DEF IsWithout
  <2>. QED  BY <2>1, TotalLess
<1>4. Total(g) = Total(h) + g[x]
  <2>1. IsWithout(h, g, x, S)
    BY <1>0, <1>1 DEF IsWithout
  <2>. QED  BY <2>1, TotalLess
<1>5. Total(h) \in Nat /\ f[x] \in Nat
  BY <1>0, <1>1, <1>2, TotalIs
<1>. QED  BY <1>0, <1>1, <1>3, <1>4, <1>5

LEMMA TotalOfFirst ==
  ASSUME NEW l \in Nat, NEW s \in [1..l -> Nat], NEW t \in [1..(l + 1) -> Nat],
         \A i \in 1..l : s[i] = t[i]
  PROVE  Total(t) = Total(s) + t[l + 1]
<1>. DEFINE x == l + 1
            S == 1..x
<1>1. x \in S /\ IsFiniteSet(S)
  BY FS_Interval
<1>2. S \ {x} = 1..l
  <2>1. \A i : i \in S \ {x} <=> i \in 1..l
    BY SMT
  <2>. HIDE DEF S, x
  <2>. QED  BY <2>1
<1>3. t \in [S -> Nat]
  OBVIOUS
<1>. HIDE DEF S, x
<1>4. s \in [S \ {x} -> Nat] /\ \A i \in S \ {x} : s[i] = t[i]
  BY <1>2
<1>5. Total(t) = Total(s) + t[x]
  <2>1. IsWithout(s, t, x, S)
    BY <1>1, <1>3, <1>4 DEF IsWithout
  <2>. QED  BY <2>1, TotalLess
<1>. QED  BY <1>5 DEF x

LEMMA TotalOfAppend ==
  ASSUME NEW s \in Seq(Nat), NEW k \in Nat
  PROVE  Total(Append(s, k)) = Total(s) + k
<1>1. PICK l \in Nat : l = Len(s)
  OBVIOUS
<1>2. s \in [1..l -> Nat]
  BY <1>1
<1>. DEFINE t == Append(s, k)
<1>3. t[l + 1] = k /\ \A i \in 1..l : s[i] = t[i]
  BY <1>1
<1>4. t \in [1..(l + 1) -> Nat]
  <2>1. t \in Seq(Nat) /\ Len(t) = l + 1
    BY <1>1
  <2>. HIDE DEF t
  <2>2. t \in [1..Len(t) -> Nat]
    BY <2>1
  <2>. QED  BY <2>1, <2>2
<1>. HIDE DEF t
<1>5. Total(t) = Total(s) + t[l + 1]
  BY <1>2, <1>3, <1>4, TotalOfFirst, Zenon
<1>. QED  BY <1>3, <1>5 DEF t

(* A total is at most the greatest value for each element.                  *)
LEMMA TotalIsAtMost ==
  ASSUME NEW S, IsFiniteSet(S), NEW f \in [S -> Nat], NEW m \in Nat, \A x \in S : f[x] <= m
  PROVE  Total(f) <= m * Cardinality(S)
<1>1. PICK it : Summing(S, f, it) /\ Total(f) = it[S]
  BY TotalSums
<1>. DEFINE T == {s \in SUBSET S : it[s] <= m * Cardinality(s)}
<1>2. \A s \in SUBSET S : SumIs(f, it, s)
  <2>1. \A x \in S : f[x] \in Nat
    OBVIOUS
  <2>. QED  BY <1>1, <2>1, SumOfAny
<1>3. ASSUME NEW s \in SUBSET S, \A r \in SUBSET s : r # s => r \in T
      PROVE  s \in T
  <2>1. CASE s = {}
    <3>1. it[s] = 0 /\ Cardinality(s) = 0
      BY <1>2, <2>1, FS_EmptySet DEF SumIs
    <3>2. it[s] <= m * Cardinality(s)
      BY <3>1
    <3>. QED  BY <3>2
  <2>2. CASE s # {}
    <3>1. /\ Pick(s) \in s /\ Cardinality(s) \in Nat
          /\ Cardinality(s \ {Pick(s)}) = Cardinality(s) - 1
      BY <2>2, PickIs
    <3>. DEFINE p == Pick(s)
    <3>2. s \ {p} \in T
      BY <1>3, <3>1
    <3>3. it[s] = f[p] + it[s \ {p}] /\ f[p] \in Nat /\ f[p] <= m /\ it[s \ {p}] \in Nat
      <4>1. SumIs(f, it, s) /\ SumIs(f, it, s \ {p})
        BY <1>2
      <4>. QED  BY <3>1, <4>1 DEF SumIs
    <3>4. it[s \ {p}] <= m * (Cardinality(s) - 1)
      BY <3>1, <3>2
    <3>5. m * (Cardinality(s) - 1) = m * Cardinality(s) - m
      BY <3>1
    <3>6. it[s] <= m * Cardinality(s)
      <4>. DEFINE mc == m * Cardinality(s)
      <4>1. mc \in Nat
        BY <3>1
      <4>. HIDE DEF mc, T, p
      <4>2. it[s \ {p}] <= mc - m
        BY <3>4, <3>5 DEF mc
      <4>3. it[s] <= mc
        BY <3>3, <4>1, <4>2
      <4>. QED  BY <4>3 DEF mc
    <3>. QED  BY <3>6
  <2>. QED  BY <2>1, <2>2
<1>4. T \in SUBSET SUBSET S
  OBVIOUS
<1>. HIDE DEF T
<1>5. T = SUBSET S
  BY <1>3, <1>4, SubsetsOfFinite
<1>6. S \in T
  BY <1>5
<1>. QED  BY <1>1, <1>6 DEF T

(* The greatest element of a finite set of numbers.                         *)
LEMMA MaxIs ==
  ASSUME NEW S \in SUBSET Int, IsFiniteSet(S), S # {}
  PROVE  Max(S) \in S /\ \A x \in S : x <= Max(S)
<1>. DEFINE T == {s \in SUBSET S : s # {} => \E x \in s : \A y \in s : x >= y}
<1>1. ASSUME NEW s \in SUBSET S, \A r \in SUBSET s : r # s => r \in T
      PROVE  s \in T
  <2>. SUFFICES ASSUME NEW p \in s PROVE \E x \in s : \A y \in s : x >= y
    OBVIOUS
  <2>1. s \ {p} \in T
    BY <1>1
  <2>2. CASE s \ {p} = {}
    <3>1. \A y \in s : p >= y
      BY <2>2
    <3>. QED  BY <3>1
  <2>3. CASE s \ {p} # {}
    <3>1. PICK x \in s \ {p} : \A y \in s \ {p} : x >= y
      BY <2>1, <2>3
    <3>2. x \in Int /\ p \in Int /\ \A y \in s : y \in Int
      OBVIOUS
    <3>3. CASE x >= p
      <4>1. \A y \in s : x >= y
        BY <3>1, <3>3
      <4>. QED  BY <4>1
    <3>4. CASE ~(x >= p)
      <4>1. \A y \in s : p >= y
        <5>. SUFFICES ASSUME NEW y \in s PROVE p >= y
          OBVIOUS
        <5>1. y = p \/ x >= y
          BY <3>1
        <5>2. p > x /\ y \in Int
          BY <3>2, <3>4
        <5>3. p >= p /\ (x >= y => p >= y)
          BY <3>2, <5>2
        <5>. QED  BY <5>1, <5>3
      <4>. QED  BY <4>1
    <3>. QED  BY <3>3, <3>4
  <2>. QED  BY <2>2, <2>3
<1>2. T \in SUBSET SUBSET S
  OBVIOUS
<1>. HIDE DEF T
<1>3. T = SUBSET S
  BY <1>1, <1>2, SubsetsOfFinite
<1>4. \E x \in S : \A y \in S : x >= y
  <2>1. S \in T
    BY <1>3
  <2>. QED  BY <2>1 DEF T
<1>5. Max(S) \in S /\ \A y \in S : Max(S) >= y
  BY <1>4 DEF Max
<1>. QED  BY <1>5

-------------------------------------------------------------------------------
(***************************************************************************)
(* BudgetMeter.                                                            *)
(***************************************************************************)
Wrappers == {"new", "admitted", "body", "checking", "refused", "raised", "ended"}
MaxCall == Max({Cost[c] : c \in Call})
Spent == Total([c \in Made |-> Cost[c]])

MeterTyped ==
  /\ iterations \in Nat /\ tokens \in Nat
  /\ wrapper \in [Node -> Wrappers]
  /\ scope \in [Node -> Nat]
  /\ unclaimed \in [Node -> SUBSET Call]
  /\ Made \subseteq Call /\ maker \in [Made -> Node]
  /\ told \subseteq Made
  /\ reported \in [Node -> Nat]
  /\ unseen \in Seq(Nat)

(* A call no node has reported by hand is among those metered in the scope  *)
(* of the node that made it, so reporting it charges nothing.               *)
Remembered == \A c \in Made \ told : c \in unclaimed[maker[c]]

(* A scope is empty before its node begins, and on its event when it ends.  *)
Scoped ==
  /\ Total(scope) = tokens
  /\ \A n \in Node :
       /\ wrapper[n] \in {"new", "admitted", "refused"} => scope[n] = 0
       /\ reported[n] = IF wrapper[n] \in {"raised", "ended"} THEN scope[n] ELSE 0

(* While nothing unseen was charged, a run past its ceiling keeps room for  *)
(* a call of each node that may still make one.                             *)
Spending == {n \in Node : wrapper[n] \in {"admitted", "body"}}
Overshoot ==
  /\ Cardinality(Running) <= Width
  /\ unseen = <<>> =>
       \/ tokens < MaxTokens
       \/ tokens + MaxCall * Cardinality(Spending) < MaxTokens + MaxCall * Width

MeterInv == MeterTyped /\ Remembered /\ tokens = Spent + Total(unseen) /\ Scoped /\ Overshoot

LEMMA MaxCallIs ==
  ASSUME BudgetAssumption
  PROVE  MaxCall \in Nat /\ \A c \in Call : Cost[c] \in Nat /\ Cost[c] <= MaxCall
<1>. DEFINE S == {Cost[c] : c \in Call}
<1>1. S \in SUBSET Int /\ S # {} /\ \A c \in Call : Cost[c] \in S /\ Cost[c] \in Nat
  BY DEF BudgetAssumption
<1>2. Cost \in Surjection(Call, S)
  BY DEF BudgetAssumption, Surjection
<1>3. IsFiniteSet(S)
  <2>. HIDE DEF S
  <2>. QED  BY <1>2, FS_Surjection DEF BudgetAssumption
<1>4. MaxCall = Max(S)
  BY DEF MaxCall
<1>5. S \subseteq Nat
  BY <1>1
<1>. HIDE DEF S
<1>6. Max(S) \in S /\ \A x \in S : x <= Max(S)
  BY <1>1, <1>3, MaxIs
<1>. QED  BY <1>1, <1>4, <1>5, <1>6

LEMMA CardsAre ==
  ASSUME BudgetAssumption
  PROVE  \A S \in SUBSET Node : IsFiniteSet(S) /\ Cardinality(S) \in Nat
BY FS_Subset, FS_CardinalityType DEF BudgetAssumption

(* A step that charges nothing and lets nobody run who did not.             *)
LEMMA NothingCharged ==
  ASSUME BudgetAssumption, MeterInv, tokens' = tokens, unseen' = unseen,
         \/ Running' \subseteq Running /\ (Spending' \subseteq Spending \/ tokens < MaxTokens)
         \/ Cardinality(Running') <= Width /\ tokens < MaxTokens
  PROVE  Overshoot'
<1>1. /\ IsFiniteSet(Running) /\ Cardinality(Running) \in Nat
      /\ IsFiniteSet(Spending) /\ Cardinality(Spending) \in Nat
  BY CardsAre DEF Running, Spending
<1>2. Cardinality(Running) <= Width
  BY DEF MeterInv, Overshoot
<1>3. Cardinality(Running') <= Width
  <2>1. CASE Running' \subseteq Running
    <3>1. Cardinality(Running') <= Cardinality(Running) /\ IsFiniteSet(Running')
      BY <1>1, <2>1, FS_Subset
    <3>2. Cardinality(Running') \in Nat
      BY <3>1, FS_CardinalityType
    <3>. QED  BY <1>1, <1>2, <3>1, <3>2 DEF BudgetAssumption
  <2>. QED  BY <2>1
<1>4. CASE tokens < MaxTokens
  BY <1>3, <1>4 DEF Overshoot
<1>5. CASE ~(tokens < MaxTokens)
  <2>1. Spending' \subseteq Spending
    BY <1>5
  <2>2. Cardinality(Spending') <= Cardinality(Spending) /\ IsFiniteSet(Spending')
    BY <1>1, <2>1, FS_Subset
  <2>3. Cardinality(Spending') \in Nat
    BY <2>2, FS_CardinalityType
  <2>4. MaxCall * Cardinality(Spending') <= MaxCall * Cardinality(Spending)
        /\ MaxCall * Cardinality(Spending') \in Nat /\ MaxCall * Cardinality(Spending) \in Nat
        /\ MaxCall * Width \in Nat
    BY <1>1, <2>2, <2>3, MaxCallIs DEF BudgetAssumption
  <2>5. unseen = <<>> => tokens + MaxCall * Cardinality(Spending) < MaxTokens + MaxCall * Width
    BY <1>5 DEF MeterInv, Overshoot
  <2>6. tokens \in Nat /\ MaxTokens \in Nat
    BY DEF MeterInv, MeterTyped, BudgetAssumption
  <2>7. unseen = <<>> => tokens + MaxCall * Cardinality(Spending') < MaxTokens + MaxCall * Width
    <3>. DEFINE a == MaxCall * Cardinality(Spending')
                b == MaxCall * Cardinality(Spending)
                w == MaxCall * Width
    <3>. HIDE DEF a, b, w
    <3>1. a <= b /\ a \in Nat /\ b \in Nat /\ w \in Nat
      BY <2>4 DEF a, b, w
    <3>2. unseen = <<>> => tokens + b < MaxTokens + w
      BY <2>5 DEF b, w
    <3>3. unseen = <<>> => tokens + a < MaxTokens + w
      BY <2>6, <3>1, <3>2
    <3>. QED  BY <3>3 DEF a, w
  <2>. QED  BY <1>3, <2>7 DEF Overshoot
<1>. QED  BY <1>4, <1>5

(* What a step leaves alone of the sums.                                    *)
LEMMA SumsStay ==
  ASSUME MeterInv, tokens' = tokens, unseen' = unseen, maker' = maker
  PROVE  tokens' = Spent' + Total(unseen)'
BY DEF MeterInv, Spent, Made

(* The steps that move one wrapper and change nothing that is summed.       *)
LEMMA MoveKeeps ==
  ASSUME BudgetAssumption, MeterInv, NEW n \in Node, NEW step \in Wrappers,
         MovesTo(n, step), iterations' \in Nat,
         UNCHANGED <<tokens, scope, unclaimed, maker, told, unseen>>,
         \/ /\ reported' = reported
            /\ \/ wrapper[n] = "new" /\ step = "refused"
               \/ wrapper[n] = "new" /\ step = "admitted" /\ tokens < MaxTokens /\ Cardinality(Running) < Width
               \/ wrapper[n] = "admitted" /\ step = "body"
               \/ wrapper[n] = "checking" /\ step = "body" /\ tokens < MaxTokens
         \/ /\ reported' = [reported EXCEPT ![n] = scope[n]]
            /\ wrapper[n] \in {"body", "checking"} /\ step \in {"raised", "ended"}
  PROVE  MeterInv'
<1>1. wrapper' = [wrapper EXCEPT ![n] = step] /\ wrapper \in [Node -> Wrappers]
  BY DEF MovesTo, MeterInv, MeterTyped
<1>2. wrapper'[n] = step /\ \A m \in Node : m # n => wrapper'[m] = wrapper[m]
  BY <1>1
<1>3. MeterTyped'
  BY <1>1 DEF MeterInv, MeterTyped, Made
<1>4. Remembered'
  BY DEF MeterInv, Remembered, Made
<1>5. tokens' = Spent' + Total(unseen)'
  BY SumsStay
<1>6. Total(scope)' = tokens'
  BY DEF MeterInv, Scoped
<1>7. ASSUME NEW m \in Node
      PROVE  /\ wrapper'[m] \in {"new", "admitted", "refused"} => scope'[m] = 0
             /\ reported'[m] = IF wrapper'[m] \in {"raised", "ended"} THEN scope'[m] ELSE 0
  <2>1. /\ wrapper[m] \in {"new", "admitted", "refused"} => scope[m] = 0
        /\ reported[m] = IF wrapper[m] \in {"raised", "ended"} THEN scope[m] ELSE 0
    BY DEF MeterInv, Scoped
  <2>2. reported \in [Node -> Nat]
    BY DEF MeterInv, MeterTyped
  <2>3. CASE m = n
    BY <1>2, <2>1, <2>2, <2>3
  <2>4. CASE m # n
    <3>1. wrapper'[m] = wrapper[m] /\ scope'[m] = scope[m]
      BY <1>2, <2>4
    <3>2. reported'[m] = reported[m]
      BY <2>2, <2>4
    <3>. QED  BY <2>1, <3>1, <3>2
  <2>. QED  BY <2>3, <2>4
<1>8. Overshoot'
  <2>1. CASE step = "admitted"
    <3>1. Running' \subseteq Running \union {n}
      BY <1>2 DEF Running
    <3>2. IsFiniteSet(Running) /\ Cardinality(Running) \in Nat /\ IsFiniteSet(Running') /\ Cardinality(Running') \in Nat
      BY CardsAre DEF Running
    <3>3. IsFiniteSet(Running \union {n}) /\ Cardinality(Running \union {n}) <= Cardinality(Running) + 1
      <4>1. n \notin Running
        BY <2>1 DEF Running, Wrappers
      <4>2. IsFiniteSet(Running \union {n}) /\ Cardinality(Running \union {n}) = Cardinality(Running) + 1
        BY <3>2, <4>1, FS_AddElement
      <4>. QED  BY <3>2, <4>2
    <3>4. Cardinality(Running') <= Cardinality(Running \union {n})
      BY <3>1, <3>3, FS_Subset
    <3>5. Cardinality(Running \union {n}) \in Nat /\ Width \in Nat
      BY <3>3, FS_CardinalityType DEF BudgetAssumption
    <3>6. Cardinality(Running) < Width /\ tokens < MaxTokens
      BY <2>1
    <3>7. Cardinality(Running') <= Width
      BY <3>2, <3>3, <3>4, <3>5, <3>6
    <3>. QED  BY <3>6, <3>7, NothingCharged
  <2>2. CASE step # "admitted"
    <3>1. Running' \subseteq Running
      BY <1>2, <2>2 DEF Running
    <3>2. Spending' \subseteq Spending \/ tokens < MaxTokens
      BY <1>2, <2>2 DEF Spending
    <3>. QED  BY <3>1, <3>2, NothingCharged
  <2>. QED  BY <2>1, <2>2
<1>. QED  BY <1>3, <1>4, <1>5, <1>6, <1>7, <1>8 DEF MeterInv, Scoped

LEMMA ScopesTotal ==
  ASSUME IsFiniteSet(Node), scope \in [Node -> Nat], NEW n \in Node, NEW k \in Nat
  PROVE  Total([scope EXCEPT ![n] = scope[n] + k]) = Total(scope) + k
<1>. DEFINE v == scope[n] + k
            g == [scope EXCEPT ![n] = v]
<1>1. v \in Nat /\ scope[n] \in Nat
  OBVIOUS
<1>. HIDE DEF v
<1>2. IsChanged(g, scope, n, v, Node)
  BY <1>1 DEF IsChanged
<1>. HIDE DEF g
<1>3. Total(g) + scope[n] = Total(scope) + v /\ Total(scope) \in Nat /\ Total(g) \in Nat
  BY <1>2, TotalChanges
<1>4. Total(g) = Total(scope) + k
  BY <1>1, <1>3 DEF v
<1>. QED  BY <1>4 DEF g, v

(* A scope is charged.                                                      *)
LEMMA ScopeIsCharged ==
  ASSUME BudgetAssumption, MeterInv, NEW n \in Node, NEW k \in Nat, wrapper[n] = "body",
         Charge(n, k), reported' = reported,
         \/ wrapper' = wrapper
         \/ MovesTo(n, "checking")
  PROVE  tokens' = tokens + k /\ tokens' \in Nat /\ scope' \in [Node -> Nat] /\ Scoped'
<1>1. /\ scope \in [Node -> Nat] /\ tokens \in Nat /\ wrapper \in [Node -> Wrappers]
      /\ reported \in [Node -> Nat]
  BY DEF MeterInv, MeterTyped
<1>2. scope' = [scope EXCEPT ![n] = scope[n] + k] /\ tokens' = tokens + k
  BY <1>1 DEF Charge
<1>3. scope[n] \in Nat /\ scope[n] + k \in Nat
  BY <1>1
<1>4. Total([scope EXCEPT ![n] = scope[n] + k]) = Total(scope) + k
  BY <1>1, ScopesTotal DEF BudgetAssumption
<1>5. [scope EXCEPT ![n] = scope[n] + k] \in [Node -> Nat]
  BY <1>1, <1>3
<1>6. Total([scope EXCEPT ![n] = scope[n] + k]) \in Nat
  BY <1>5, TotalIs DEF BudgetAssumption
<1>7. Total(scope) = tokens
  BY DEF MeterInv, Scoped
<1>8. Total(scope)' = tokens'
  <2>1. Total(scope') = tokens + k
    BY <1>1, <1>2, <1>3, <1>4, <1>6, <1>7
  <2>. QED  BY <1>2, <2>1
<1>9. ASSUME NEW m \in Node
      PROVE  /\ wrapper'[m] \in {"new", "admitted", "refused"} => scope'[m] = 0
             /\ reported'[m] = IF wrapper'[m] \in {"raised", "ended"} THEN scope'[m] ELSE 0
  <2>1. /\ wrapper[m] \in {"new", "admitted", "refused"} => scope[m] = 0
        /\ reported[m] = IF wrapper[m] \in {"raised", "ended"} THEN scope[m] ELSE 0
    BY DEF MeterInv, Scoped
  <2>2. CASE m = n
    <3>1. wrapper'[m] \in {"body", "checking"}
      BY <1>1, <2>2 DEF MovesTo
    <3>2. reported'[m] = 0
      BY <2>1, <2>2
    <3>. QED  BY <3>1, <3>2
  <2>3. CASE m # n
    <3>1. wrapper'[m] = wrapper[m] /\ scope'[m] = scope[m] /\ reported'[m] = reported[m]
      BY <1>1, <1>2, <2>3 DEF MovesTo
    <3>. QED  BY <2>1, <3>1
  <2>. QED  BY <2>2, <2>3
<1>. QED  BY <1>1, <1>2, <1>5, <1>8, <1>9 DEF Scoped

LEMMA SpentIs ==
  ASSUME BudgetAssumption, MeterInv
  PROVE  /\ [c \in Made |-> Cost[c]] \in [Made -> Nat] /\ IsFiniteSet(Made)
         /\ Spent \in Nat /\ unseen \in [1..Len(unseen) -> Nat] /\ Total(unseen) \in Nat
         /\ \A c \in Call : Cost[c] \in Nat
<1>1. Made \subseteq Call /\ \A c \in Call : Cost[c] \in Nat
  BY DEF MeterInv, MeterTyped, BudgetAssumption
<1>2. IsFiniteSet(Made)
  BY <1>1, FS_Subset DEF BudgetAssumption
<1>3. [c \in Made |-> Cost[c]] \in [Made -> Nat]
  BY <1>1
<1>4. Spent \in Nat
  BY <1>2, <1>3, TotalIs DEF Spent
<1>5. unseen \in [1..Len(unseen) -> Nat] /\ Len(unseen) \in Nat
  BY DEF MeterInv, MeterTyped
<1>6. IsFiniteSet(1..Len(unseen))
  BY <1>5, FS_Interval
<1>7. Total(unseen) \in Nat
  BY <1>5, <1>6, TotalIs
<1>. QED  BY <1>1, <1>2, <1>3, <1>4, <1>5, <1>7

(* A call is metered: one charge, in the scope of the node that made it.     *)
LEMMA LlmEndKeeps ==
  ASSUME BudgetAssumption, MeterInv, NEW n \in Node, NEW c \in Call, LlmEnd(n, c)
  PROVE  MeterInv'
<1>. DEFINE cost == [x \in Made |-> Cost[x]]
            more == [x \in Made \union {c} |-> Cost[x]]
<1>1. /\ wrapper[n] = "body" /\ c \in Call \ Made
      /\ maker' = [x \in Made \union {c} |-> IF x = c THEN n ELSE maker[x]]
      /\ Charge(n, Cost[c]) /\ unclaimed' = [unclaimed EXCEPT ![n] = @ \union {c}]
      /\ MovesTo(n, "checking")
      /\ iterations' = iterations /\ told' = told /\ reported' = reported /\ unseen' = unseen
  BY DEF LlmEnd, At
<1>2. MeterTyped
  BY DEF MeterInv
<1>3. Made' = Made \union {c}
  BY <1>1 DEF Made
<1>4. Cost[c] \in Nat /\ IsFiniteSet(Made) /\ cost \in [Made -> Nat] /\ Spent \in Nat
      /\ Total(unseen) \in Nat /\ \A x \in Call : Cost[x] \in Nat
  BY SpentIs
<1>5. /\ tokens' = tokens + Cost[c] /\ tokens' \in Nat /\ scope' \in [Node -> Nat] /\ Scoped'
  BY <1>1, <1>4, ScopeIsCharged
<1>6. MeterTyped'
  <2>1. maker' \in [Made' -> Node] /\ Made' \subseteq Call /\ told' \subseteq Made'
    BY <1>1, <1>2, <1>3 DEF MeterTyped
  <2>2. wrapper' \in [Node -> Wrappers] /\ unclaimed' \in [Node -> SUBSET Call]
    BY <1>1, <1>2 DEF MeterTyped, MovesTo, Wrappers
  <2>. QED  BY <1>1, <1>2, <1>5, <2>1, <2>2 DEF MeterTyped
<1>7. Remembered'
  <2>. SUFFICES ASSUME NEW x \in Made' \ told' PROVE x \in unclaimed'[maker'[x]]
    BY DEF Remembered
  <2>1. CASE x = c
    BY <1>1, <1>2, <2>1 DEF MeterTyped
  <2>2. CASE x # c
    <3>1. x \in Made \ told /\ maker'[x] = maker[x] /\ maker[x] \in Node
      BY <1>1, <1>2, <1>3, <2>2 DEF MeterTyped
    <3>2. x \in unclaimed[maker[x]]
      BY <3>1 DEF MeterInv, Remembered
    <3>. QED  BY <1>1, <1>2, <3>1, <3>2 DEF MeterTyped
  <2>. QED  BY <2>1, <2>2
<1>8. tokens' = Spent' + Total(unseen)'
  <2>1. more \in [Made \union {c} -> Nat] /\ c \in Made \union {c} /\ (Made \union {c}) \ {c} = Made
        /\ more[c] = Cost[c] /\ \A x \in Made : cost[x] = more[x]
    BY <1>1, <1>2, <1>4 DEF MeterTyped
  <2>2. IsFiniteSet(Made \union {c})
    BY <1>4, FS_AddElement
  <2>3. cost \in [(Made \union {c}) \ {c} -> Nat] /\ \A x \in (Made \union {c}) \ {c} : cost[x] = more[x]
    BY <1>4, <2>1
  <2>. HIDE DEF cost, more
  <2>4. Total(more) = Total(cost) + more[c]
    <3>1. IsWithout(cost, more, c, Made \union {c})
      BY <2>1, <2>2, <2>3 DEF IsWithout
    <3>. QED  BY <3>1, TotalLess
  <2>5. Total(cost) = Spent
    BY DEF Spent, cost
  <2>6. Total(more) = Spent'
    BY <1>3 DEF Spent, more
  <2>7. tokens = Spent + Total(unseen) /\ tokens \in Nat
    BY <1>2 DEF MeterInv, MeterTyped
  <2>8. Total(unseen)' = Total(unseen)
    BY <1>1
  <2>. QED  BY <1>4, <1>5, <2>1, <2>4, <2>5, <2>6, <2>7, <2>8
<1>9. Overshoot'
  <2>1. wrapper'[n] = "checking" /\ \A m \in Node : m # n => wrapper'[m] = wrapper[m]
    BY <1>1, <1>2 DEF MeterTyped, MovesTo
  <2>2. Running' = Running /\ Spending' = Spending \ {n} /\ n \in Spending
    BY <1>1, <2>1 DEF Running, Spending
  <2>3. /\ IsFiniteSet(Spending) /\ Cardinality(Spending) \in Nat
        /\ IsFiniteSet(Running) /\ Cardinality(Running) \in Nat /\ Cardinality(Running) <= Width
    BY CardsAre DEF Spending, Running, MeterInv, Overshoot
  <2>4. Cardinality(Spending') = Cardinality(Spending) - 1
    BY <2>2, <2>3, FS_RemoveElement
  <2>5. Cardinality(Spending) <= Cardinality(Running)
    <3>1. Spending \subseteq Running
      BY DEF Spending, Running
    <3>. QED  BY <2>3, <3>1, FS_Subset
  <2>6. Cardinality(Running') <= Width
    BY <2>2, <2>3
  <2>7. unseen = <<>> => tokens' + MaxCall * Cardinality(Spending') < MaxTokens + MaxCall * Width
    <3>. DEFINE s == Cardinality(Spending)
    <3>1. /\ MaxCall \in Nat /\ Cost[c] <= MaxCall /\ Cost[c] \in Nat /\ MaxTokens \in Nat /\ Width \in Nat
          /\ tokens \in Nat /\ s \in Nat /\ s <= Width
      BY <1>2, <2>3, <2>5, MaxCallIs DEF MeterTyped, BudgetAssumption
    <3>2. unseen = <<>> => tokens < MaxTokens \/ tokens + MaxCall * s < MaxTokens + MaxCall * Width
      BY DEF MeterInv, Overshoot
    <3>3. Cardinality(Spending') = s - 1 /\ tokens' = tokens + Cost[c]
      BY <1>5, <2>4
    <3>. HIDE DEF s
    <3>4. MaxCall * (s - 1) = MaxCall * s - MaxCall /\ MaxCall * s <= MaxCall * Width
          /\ MaxCall * s \in Nat /\ MaxCall * Width \in Nat
      BY <3>1
    <3>. DEFINE ms == MaxCall * s
                mw == MaxCall * Width
    <3>5. ms \in Nat /\ mw \in Nat /\ ms <= mw
      BY <3>4
    <3>6. unseen = <<>> => tokens < MaxTokens \/ tokens + ms < MaxTokens + mw
      BY <3>2
    <3>. HIDE DEF ms, mw
    <3>7. unseen = <<>> => (tokens + Cost[c]) + (ms - MaxCall) < MaxTokens + mw
      BY <3>1, <3>5, <3>6
    <3>. QED  BY <3>3, <3>4, <3>7 DEF ms, mw
  <2>. QED  BY <1>1, <2>6, <2>7 DEF Overshoot
<1>. QED  BY <1>5, <1>6, <1>7, <1>8, <1>9 DEF MeterInv

(* A node reports a call of its own by hand: it was metered already.         *)
LEMMA ReportKeeps ==
  ASSUME BudgetAssumption, MeterInv, NEW n \in Node, NEW c \in Call, Report(n, c)
  PROVE  MeterInv'
<1>1. /\ c \in Made \ told /\ maker[c] = n /\ told' = told \union {c}
      /\ iterations' = iterations /\ wrapper' = wrapper /\ maker' = maker
      /\ reported' = reported /\ unseen' = unseen
  BY DEF Report
<1>2. c \in unclaimed[n]
  BY <1>1 DEF MeterInv, Remembered
<1>3. unclaimed' = [unclaimed EXCEPT ![n] = @ \ {c}] /\ tokens' = tokens /\ scope' = scope
  BY <1>2 DEF Report
<1>4. MeterTyped'
  BY <1>1, <1>3 DEF MeterInv, MeterTyped, Made
<1>5. Remembered'
  <2>. SUFFICES ASSUME NEW x \in Made' \ told' PROVE x \in unclaimed'[maker'[x]]
    BY DEF Remembered
  <2>1. x \in Made \ told /\ x # c /\ maker'[x] = maker[x] /\ maker[x] \in Node
    BY <1>1 DEF Made, MeterInv, MeterTyped
  <2>2. x \in unclaimed[maker[x]]
    BY <2>1 DEF MeterInv, Remembered
  <2>. QED  BY <1>3, <2>1, <2>2 DEF MeterInv, MeterTyped
<1>6. tokens' = Spent' + Total(unseen)'
  BY <1>1, <1>3, SumsStay
<1>7. Scoped' /\ Overshoot'
  BY <1>1, <1>3 DEF MeterInv, Scoped, Overshoot, Running, Spending
<1>. QED  BY <1>4, <1>5, <1>6, <1>7 DEF MeterInv

LEMMA ChargeUnseenKeeps ==
  ASSUME BudgetAssumption, MeterInv, NEW n \in Node, NEW k \in Unseen, ChargeUnseen(n, k)
  PROVE  MeterInv'
<1>1. /\ wrapper[n] = "body" /\ unseen' = Append(unseen, k) /\ Charge(n, k)
      /\ iterations' = iterations /\ wrapper' = wrapper /\ unclaimed' = unclaimed
      /\ maker' = maker /\ told' = told /\ reported' = reported
  BY DEF ChargeUnseen, At
<1>2. MeterTyped /\ k \in Nat
  BY DEF MeterInv, BudgetAssumption
<1>3. tokens' = tokens + k /\ tokens' \in Nat /\ scope' \in [Node -> Nat] /\ Scoped'
  BY <1>1, <1>2, ScopeIsCharged
<1>4. unseen \in Seq(Nat) /\ unseen' \in Seq(Nat) /\ unseen' # <<>>
  BY <1>1, <1>2 DEF MeterTyped
<1>5. MeterTyped'
  BY <1>1, <1>2, <1>3, <1>4 DEF MeterTyped, Made
<1>6. Total(unseen') = Total(unseen) + k
  BY <1>1, <1>2, <1>4, TotalOfAppend
<1>7. Spent' = Spent
  BY <1>1 DEF Spent, Made
<1>8. tokens' = Spent' + Total(unseen)'
  <2>1. Total(unseen)' = Total(unseen) + k
    BY <1>6
  <2>2. tokens = Spent + Total(unseen) /\ tokens \in Nat /\ Spent \in Nat /\ Total(unseen) \in Nat
    BY <1>2, SpentIs DEF MeterInv, MeterTyped
  <2>. QED  BY <1>2, <1>3, <1>7, <2>1, <2>2
<1>9. Remembered' /\ Overshoot'
  BY <1>1, <1>4 DEF MeterInv, Remembered, Made, Overshoot, Running
<1>. QED  BY <1>3, <1>5, <1>8, <1>9 DEF MeterInv

LEMMA MeterAlways ==
  ASSUME BudgetAssumption
  PROVE  MeterSpec => []MeterInv
<1>1. MeterInit => MeterInv
  <2>. SUFFICES ASSUME MeterInit PROVE MeterInv
    OBVIOUS
  <2>1. Made = {} /\ unseen = <<>>
    BY DEF MeterInit, Made
  <2>2. MeterTyped
    BY <2>1 DEF MeterInit, MeterTyped, Wrappers
  <2>3. Spent = 0
    <3>1. [c \in Made |-> Cost[c]] \in [{} -> Nat]
      BY <2>1
    <3>. QED  BY <3>1, TotalIs, FS_EmptySet, <2>1 DEF Spent
  <2>4. Total(unseen) = 0
    <3>1. unseen \in [{} -> Nat]
      BY <2>1
    <3>. QED  BY <3>1, TotalIs, FS_EmptySet
  <2>5. Total(scope) = 0
    <3>1. scope \in [Node -> Nat] /\ \A n \in Node : scope[n] <= 0
      BY DEF MeterInit
    <3>2. Total(scope) <= 0 * Cardinality(Node) /\ Total(scope) \in Nat /\ Cardinality(Node) \in Nat
      BY <3>1, TotalIsAtMost, TotalIs, FS_CardinalityType DEF BudgetAssumption
    <3>. QED  BY <3>2
  <2>6. Scoped /\ Remembered
    BY <2>1, <2>5 DEF MeterInit, Scoped, Remembered
  <2>7. Overshoot
    <3>1. Running = {}
      BY DEF MeterInit, Running
    <3>2. Cardinality(Running) = 0
      BY <3>1, FS_EmptySet
    <3>. QED  BY <3>2 DEF MeterInit, Overshoot, BudgetAssumption
  <2>. QED  BY <2>2, <2>3, <2>4, <2>6, <2>7 DEF MeterInit, MeterInv
<1>2. MeterInv /\ [MeterNext]_meterVars => MeterInv'
  <2>. SUFFICES ASSUME MeterInv, [MeterNext]_meterVars PROVE MeterInv'
    OBVIOUS
  <2>0. iterations \in Nat /\ iterations + 1 \in Nat
    BY DEF MeterInv, MeterTyped
  <2>1. CASE UNCHANGED meterVars
    BY <2>1 DEF meterVars, MeterInv, MeterTyped, Remembered, Spent, Scoped, Overshoot, Running, Spending, Made
  <2>2. ASSUME NEW n \in Node, RefuseEntry(n) PROVE MeterInv'
    <3>1. "refused" \in Wrappers
      BY DEF Wrappers
    <3>. QED  BY <2>0, <2>2, <3>1, MoveKeeps DEF RefuseEntry, At
  <2>3. ASSUME NEW n \in Node, Admit(n) PROVE MeterInv'
    <3>1. "admitted" \in Wrappers
      BY DEF Wrappers
    <3>2. tokens < MaxTokens
      BY <2>3 DEF Admit, Exceeded, TokensExceeded, MeterInv, MeterTyped, BudgetAssumption
    <3>. QED  BY <2>0, <2>3, <3>1, <3>2, MoveKeeps DEF Admit, At
  <2>4. ASSUME NEW n \in Node, ChargeIteration(n) PROVE MeterInv'
    <3>1. "body" \in Wrappers
      BY DEF Wrappers
    <3>. QED  BY <2>0, <2>4, <3>1, MoveKeeps DEF ChargeIteration, At
  <2>5. ASSUME NEW n \in Node, LlmCheck(n) PROVE MeterInv'
    <3>1. "body" \in Wrappers
      BY DEF Wrappers
    <3>2. tokens < MaxTokens
      BY <2>5 DEF LlmCheck, TokensExceeded, MeterInv, MeterTyped, BudgetAssumption
    <3>. QED  BY <2>0, <2>5, <3>1, <3>2, MoveKeeps DEF LlmCheck, At
  <2>6. ASSUME NEW n \in Node, LlmRaises(n) \/ BodyRaises(n) \/ LeaveNode(n) PROVE MeterInv'
    <3>1. {"raised", "ended"} \subseteq Wrappers
      BY DEF Wrappers
    <3>2. PICK step \in {"raised", "ended"} : MovesTo(n, step) /\ reported' = [reported EXCEPT ![n] = scope[n]]
      BY <2>6 DEF LlmRaises, BodyRaises, LeaveNode, Stop
    <3>3. wrapper[n] \in {"body", "checking"} /\ iterations' = iterations
          /\ UNCHANGED <<tokens, scope, unclaimed, maker, told, unseen>>
      BY <2>6 DEF LlmRaises, BodyRaises, LeaveNode, At
    <3>. QED  BY <2>0, <3>1, <3>2, <3>3, MoveKeeps
  <2>7. ASSUME NEW n \in Node, NEW c \in Call, LlmEnd(n, c) PROVE MeterInv'
    BY <2>7, LlmEndKeeps
  <2>8. ASSUME NEW n \in Node, NEW c \in Call, Report(n, c) PROVE MeterInv'
    BY <2>8, ReportKeeps
  <2>9. ASSUME NEW n \in Node, NEW k \in Unseen, ChargeUnseen(n, k) PROVE MeterInv'
    BY <2>9, ChargeUnseenKeeps
  <2>. QED  BY <2>1, <2>2, <2>3, <2>4, <2>5, <2>6, <2>7, <2>8, <2>9 DEF MeterNext
<1>. QED  BY <1>1, <1>2, PTL DEF MeterSpec

(* The meter reads what was really spent, every call once; the terminal     *)
(* events of the nodes add up to it; and while all spend is seen it passes  *)
(* the ceiling by less than one call for each node that runs.               *)
THEOREM MeterIsTrueAlways ==
  ASSUME BudgetAssumption
  PROVE  MeterSpec => []MeterIsTrue
<1>1. MeterInv => MeterIsTrue
  <2>. SUFFICES ASSUME MeterInv PROVE MeterIsTrue
    OBVIOUS
  <2>1. MeterTypeOK
    <3>1. maker \in [Made -> Node] /\ Made \in SUBSET Call
      BY DEF MeterInv, MeterTyped
    <3>2. maker \in UNION {[S -> Node] : S \in SUBSET Call}
      BY <3>1
    <3>. QED  BY <3>2 DEF MeterInv, MeterTyped, MeterTypeOK, Wrappers
  <2>2. SpendIsExact
    BY <2>1 DEF MeterInv, SpendIsExact, Spent
  <2>3. EventsAddUp
    <3>. SUFFICES ASSUME Done = Node PROVE Total(reported) = tokens
      BY DEF EventsAddUp
    <3>1. reported \in [Node -> Nat] /\ scope \in [Node -> Nat]
      BY DEF MeterInv, MeterTyped
    <3>2. \A n \in Node : reported[n] = scope[n]
      BY DEF Done, MeterInv, Scoped
    <3>3. reported = scope
      BY <3>1, <3>2
    <3>. QED  BY <3>3 DEF MeterInv, Scoped
  <2>4. OvershootIsOneCallEach
    <3>. SUFFICES ASSUME unseen = <<>> PROVE tokens < MaxTokens + Width * MaxCall
      BY DEF OvershootIsOneCallEach, MaxCall
    <3>1. /\ tokens \in Nat /\ MaxTokens \in Nat /\ Width \in Nat /\ MaxCall \in Nat
          /\ Cardinality(Spending) \in Nat
      BY CardsAre, MaxCallIs DEF MeterInv, MeterTyped, BudgetAssumption, Spending
    <3>2. MaxCall * Width = Width * MaxCall /\ MaxCall * Width \in Nat
          /\ MaxCall * Cardinality(Spending) \in Nat
      BY <3>1
    <3>3. \/ tokens < MaxTokens
          \/ tokens + MaxCall * Cardinality(Spending) < MaxTokens + MaxCall * Width
      BY DEF MeterInv, Overshoot
    <3>. DEFINE a == MaxCall * Cardinality(Spending)
                b == MaxCall * Width
    <3>4. a \in Nat /\ b \in Nat /\ (tokens < MaxTokens \/ tokens + a < MaxTokens + b)
      BY <3>2, <3>3
    <3>. HIDE DEF a, b
    <3>5. tokens < MaxTokens + b
      BY <3>1, <3>4
    <3>. QED  BY <3>2, <3>5 DEF b
  <2>. QED  BY <2>2, <2>3, <2>4 DEF MeterIsTrue
<1>. QED  BY <1>1, MeterAlways, PTL

-------------------------------------------------------------------------------
(***************************************************************************)
(* Gateway: the backend that charges its own call's cost.                  *)
(***************************************************************************)
Unsettled == [c \in InFlight |-> Owed(c)]
Asking == {c \in Caller : at[c] = "provider"}

GatewayTyped ==
  /\ at = [c \in Caller |-> at[c]]
  /\ call = [c \in Caller |-> call[c]]
  /\ meter \in [spent : Nat, calls : Nat, unpriced : Nat]
  /\ bill \in [stated : Nat, hidden : Nat]
  /\ \A c \in Asking : "streaming" \in DOMAIN call[c] /\ ~call[c].streaming
  /\ \A c \in InFlight : Owed(c) \in Nat /\ Owed(c) <= MaxCost

(* The meter is behind the stated bill by the calls under way; and below the *)
(* ceiling by enough for a call of everybody who asks.                      *)
BillInv ==
  /\ backend = "cli"
  /\ GatewayTyped
  /\ bill.stated = meter.spent + Total(Unsettled)
  /\ bill.stated + MaxCost * Cardinality(Asking) < Ceiling + MaxCost * Cardinality(Caller)

LEMMA MaxCostIs ==
  ASSUME GatewayAssumption
  PROVE  MaxCost \in Nat /\ \A k \in Bills : k \in Nat /\ k <= MaxCost
<1>1. Bills \in SUBSET Int /\ IsFiniteSet(Bills) /\ Bills # {} /\ Bills \subseteq Nat
  BY DEF GatewayAssumption
<1>. QED  BY <1>1, MaxIs DEF MaxCost

LEMMA CallersAre ==
  ASSUME GatewayAssumption
  PROVE  \A S \in SUBSET Caller : /\ IsFiniteSet(S) /\ Cardinality(S) \in Nat
                                 /\ Cardinality(S) <= Cardinality(Caller)
                                 /\ MaxCost * Cardinality(S) \in Nat
<1>1. IsFiniteSet(Caller)
  BY DEF GatewayAssumption
<1>2. ASSUME NEW S \in SUBSET Caller
      PROVE  IsFiniteSet(S) /\ Cardinality(S) \in Nat /\ Cardinality(S) <= Cardinality(Caller)
  BY <1>1, FS_Subset, FS_CardinalityType
<1>. QED  BY <1>2, MaxCostIs

LEMMA UnsettledIs ==
  ASSUME GatewayAssumption, GatewayTyped
  PROVE  /\ InFlight \in SUBSET Caller /\ IsFiniteSet(InFlight)
         /\ Unsettled \in [InFlight -> Nat] /\ Total(Unsettled) \in Nat
         /\ Total(Unsettled) <= MaxCost * Cardinality(InFlight)
<1>1. InFlight \in SUBSET Caller /\ IsFiniteSet(InFlight)
  BY CallersAre DEF InFlight
<1>2. Unsettled \in [InFlight -> Nat] /\ \A c \in InFlight : Unsettled[c] <= MaxCost
  BY MaxCostIs DEF Unsettled, GatewayTyped
<1>. QED  BY <1>1, <1>2, MaxCostIs, TotalIs, TotalIsAtMost

(* What is billed, stated or hidden.                                        *)
LEMMA BilledIs ==
  ASSUME GatewayTyped, NEW cost \in Nat
  PROVE  /\ [bill EXCEPT !.stated = @ + cost] \in [stated : Nat, hidden : Nat]
         /\ [bill EXCEPT !.stated = @ + cost].stated = bill.stated + cost
         /\ [bill EXCEPT !.hidden = @ + cost] \in [stated : Nat, hidden : Nat]
         /\ [bill EXCEPT !.hidden = @ + cost].stated = bill.stated
<1>1. bill \in [stated : Nat, hidden : Nat]
  BY DEF GatewayTyped
<1>2. bill.stated + cost \in Nat /\ bill.hidden + cost \in Nat
  BY <1>1
<1>. QED  BY <1>1, <1>2

(* A step that leaves what is under way as it is.                           *)
LEMMA UnsettledStays ==
  ASSUME InFlight' = InFlight, \A c \in InFlight : call'[c] = call[c]
  PROVE  Unsettled' = Unsettled
BY DEF Unsettled, Owed

(* Fewer ask, and the bill is what it was.                                  *)
LEMMA FewerAsk ==
  ASSUME GatewayAssumption, BillInv, Asking' \subseteq Asking, bill'.stated = bill.stated
  PROVE  bill'.stated + MaxCost * Cardinality(Asking') < Ceiling + MaxCost * Cardinality(Caller)
<1>. DEFINE a == Cardinality(Asking)
            b == Cardinality(Asking')
<1>1. IsFiniteSet(Asking) /\ Asking \in SUBSET Caller /\ Asking' \in SUBSET Caller
  BY CallersAre DEF Asking
<1>2. b <= a /\ a \in Nat /\ b \in Nat /\ MaxCost \in Nat
  BY <1>1, FS_Subset, FS_CardinalityType, MaxCostIs
<1>3. MaxCost * b <= MaxCost * a /\ MaxCost * a \in Nat /\ MaxCost * b \in Nat
  <2>. HIDE DEF a, b
  <2>. QED  BY <1>2
<1>4. bill.stated \in Nat /\ bill.stated + MaxCost * a < Ceiling + MaxCost * Cardinality(Caller)
  BY DEF BillInv, GatewayTyped
<1>5. Ceiling \in Nat /\ MaxCost * Cardinality(Caller) \in Nat
  BY CallersAre DEF GatewayAssumption
<1>. DEFINE ma == MaxCost * a
            mb == MaxCost * b
            room == MaxCost * Cardinality(Caller)
<1>. HIDE DEF a, b, ma, mb, room
<1>6. bill.stated + mb < Ceiling + room
  BY <1>3, <1>4, <1>5 DEF ma, mb, room
<1>. QED  BY <1>6 DEF mb, b, room

(* What a step of the caller c leaves alone of the others' calls.           *)
LEMMA OneMoves ==
  ASSUME GatewayTyped, NEW c \in Caller, NEW step, at' = [at EXCEPT ![c] = step]
  PROVE  /\ at' = [x \in Caller |-> at'[x]] /\ at'[c] = step
         /\ \A x \in Caller : x # c => at'[x] = at[x]
<1>1. at = [x \in Caller |-> at[x]]
  BY DEF GatewayTyped
<1>. QED  BY <1>1

LEMMA OneCalls ==
  ASSUME GatewayTyped, NEW c \in Caller, NEW new, call' = [call EXCEPT ![c] = new]
  PROVE  /\ call' = [x \in Caller |-> call'[x]] /\ call'[c] = new
         /\ \A x \in Caller : x # c => call'[x] = call[x]
<1>1. call = [x \in Caller |-> call[x]]
  BY DEF GatewayTyped
<1>. QED  BY <1>1

(* What the others' answers state is as it was.                             *)
LEMMA OthersOwe ==
  ASSUME NEW c \in Caller, \A x \in Caller : x # c => call'[x] = call[x]
  PROVE  \A x \in InFlight : x # c => Owed(x)' = Owed(x)
BY DEF InFlight, Owed

(* Begin: headroom was read off the meter, which is behind the bill by at   *)
(* most one call of each caller under way.                                  *)
LEMMA BeginKeeps ==
  ASSUME GatewayAssumption, BillInv, NEW c \in Caller, Begin(c)
  PROVE  BillInv'
<1>1. GatewayTyped /\ backend = "cli" /\ backend' = backend /\ meter' = meter /\ bill' = bill
      /\ at[c] = "idle"
  BY DEF BillInv, Begin
<1>2. CASE ~Headroom
  <2>1. at' = at /\ call' = call
    BY <1>1, <1>2 DEF Begin
  <2>. QED  BY <1>1, <2>1 DEF BillInv, GatewayTyped, Unsettled, Owed, InFlight, Asking
<1>3. CASE Headroom
  <2>. DEFINE new == [NoCall EXCEPT !.attempt = 1, !.streaming = FALSE]
  <2>1. at' = [at EXCEPT ![c] = "provider"] /\ call' = [call EXCEPT ![c] = new]
    BY <1>1, <1>3 DEF Begin
  <2>2. "streaming" \in DOMAIN new /\ ~new.streaming
    BY DEF NoCall
  <2>. HIDE DEF new
  <2>3. /\ at' = [x \in Caller |-> at'[x]] /\ at'[c] = "provider"
        /\ \A x \in Caller : x # c => at'[x] = at[x]
    BY <1>1, <2>1, OneMoves
  <2>4. /\ call' = [x \in Caller |-> call'[x]] /\ call'[c] = new
        /\ \A x \in Caller : x # c => call'[x] = call[x]
    BY <1>1, <2>1, OneCalls
  <2>5. Asking' = Asking \union {c} /\ InFlight' = InFlight /\ c \notin InFlight /\ c \notin Asking
    BY <1>1, <2>3 DEF Asking, InFlight
  <2>6. Unsettled' = Unsettled
    <3>1. \A x \in InFlight : call'[x] = call[x]
      BY <2>4, <2>5 DEF InFlight
    <3>. QED  BY <2>5, <3>1, UnsettledStays
  <2>7. GatewayTyped'
    <3>1. \A x \in InFlight : Owed(x)' = Owed(x)
      BY <2>4, <2>5, OthersOwe
    <3>2. \A x \in InFlight' : Owed(x)' \in Nat /\ Owed(x)' <= MaxCost
      BY <1>1, <2>5, <3>1 DEF GatewayTyped
    <3>3. \A x \in Asking' : "streaming" \in DOMAIN call'[x] /\ ~call'[x].streaming
      BY <1>1, <2>2, <2>4, <2>5 DEF GatewayTyped, Asking
    <3>. QED  BY <1>1, <2>3, <2>4, <3>2, <3>3 DEF GatewayTyped
  <2>8. bill'.stated + MaxCost * Cardinality(Asking') < Ceiling + MaxCost * Cardinality(Caller)
    <3>. DEFINE f == Cardinality(InFlight)
                a == Cardinality(Asking')
                all == Cardinality(Caller)
    <3>1. InFlight \in SUBSET Caller /\ Asking' \in SUBSET Caller /\ InFlight \cap Asking' = {}
      BY <2>3, <2>5 DEF InFlight, Asking
    <3>2. /\ IsFiniteSet(InFlight) /\ IsFiniteSet(Asking') /\ f \in Nat /\ a \in Nat /\ all \in Nat
          /\ InFlight \union Asking' \in SUBSET Caller
      BY <3>1, CallersAre
    <3>3. Cardinality(InFlight \union Asking') = f + a
      <4>1. Cardinality(InFlight \cap Asking') = 0
        BY <3>1, FS_EmptySet
      <4>2. Cardinality(InFlight \union Asking') = f + a - Cardinality(InFlight \cap Asking')
        BY <3>2, FS_Union
      <4>. QED  BY <3>2, <4>1, <4>2
    <3>4. f + a <= all
      BY <3>2, <3>3, CallersAre
    <3>5. bill.stated = meter.spent + Total(Unsettled) /\ meter.spent < Ceiling
          /\ meter.spent \in Nat /\ Total(Unsettled) \in Nat /\ Total(Unsettled) <= MaxCost * f
          /\ Ceiling \in Nat /\ MaxCost \in Nat
      BY <1>1, <1>3, UnsettledIs, MaxCostIs DEF BillInv, GatewayTyped, Headroom, GatewayAssumption
    <3>. HIDE DEF f, a, all
    <3>6. MaxCost * f + MaxCost * a <= MaxCost * all
      <4>1. MaxCost * (f + a) <= MaxCost * all
        BY <3>2, <3>4, <3>5
      <4>. QED  BY <3>2, <3>5, <4>1
    <3>7. MaxCost * f \in Nat /\ MaxCost * a \in Nat /\ MaxCost * all \in Nat
      BY <3>2, <3>5
    <3>. DEFINE mf == MaxCost * f
                ma == MaxCost * a
                mall == MaxCost * all
    <3>. HIDE DEF mf, ma, mall
    <3>8. bill.stated + ma < Ceiling + mall
      BY <3>5, <3>6, <3>7 DEF mf, ma, mall
    <3>. QED  BY <1>1, <3>8 DEF ma, mall, a, all
  <2>. QED  BY <1>1, <2>6, <2>7, <2>8 DEF BillInv
<1>. QED  BY <1>2, <1>3

(* Steps that leave meter and bill alone and bring nobody to the provider.  *)
LEMMA QuietKeeps ==
  ASSUME GatewayAssumption, BillInv, NEW c \in Caller, NEW step, NEW new,
         at' = [at EXCEPT ![c] = step], call' = [call EXCEPT ![c] = new],
         UNCHANGED <<backend, meter>>,
         bill' \in [stated : Nat, hidden : Nat], bill'.stated = bill.stated,
         step = "provider" => at[c] = "provider" /\ "streaming" \in DOMAIN new /\ ~new.streaming,
         step \in {"record", "charge"} <=> c \in InFlight,
         c \in InFlight => new = call[c]
  PROVE  BillInv'
<1>1. GatewayTyped
  BY DEF BillInv
<1>2. /\ at' = [x \in Caller |-> at'[x]] /\ at'[c] = step
      /\ \A x \in Caller : x # c => at'[x] = at[x]
  BY <1>1, OneMoves
<1>3. /\ call' = [x \in Caller |-> call'[x]] /\ call'[c] = new
      /\ \A x \in Caller : x # c => call'[x] = call[x]
  BY <1>1, OneCalls
<1>4. InFlight' = InFlight /\ Asking' \subseteq Asking
  BY <1>2 DEF InFlight, Asking
<1>5. Unsettled' = Unsettled
  <2>1. \A x \in InFlight : call'[x] = call[x]
    BY <1>3 DEF InFlight
  <2>. QED  BY <1>4, <2>1, UnsettledStays
<1>6. GatewayTyped'
  <2>1. \A x \in InFlight : Owed(x)' = Owed(x)
    BY <1>3 DEF InFlight, Owed
  <2>2. \A x \in InFlight' : Owed(x)' \in Nat /\ Owed(x)' <= MaxCost
    BY <1>1, <1>4, <2>1 DEF GatewayTyped
  <2>3. \A x \in Asking' : "streaming" \in DOMAIN call'[x] /\ ~call'[x].streaming
    BY <1>1, <1>2, <1>3, <1>4 DEF GatewayTyped, Asking
  <2>. QED  BY <1>1, <1>2, <1>3, <2>2, <2>3 DEF GatewayTyped
<1>7. bill'.stated + MaxCost * Cardinality(Asking') < Ceiling + MaxCost * Cardinality(Caller)
  BY <1>4, FewerAsk
<1>. QED  BY <1>5, <1>6, <1>7 DEF BillInv

LEMMA FailsKeeps ==
  ASSUME GatewayAssumption, BillInv, NEW c \in Caller, Fails(c)
  PROVE  BillInv'
<1>1. /\ at[c] = "provider" /\ UNCHANGED <<backend, meter>> /\ c \notin InFlight
      /\ at = [x \in Caller |-> at[x]] /\ "streaming" \in DOMAIN call[c] /\ ~call[c].streaming
  BY DEF Fails, InFlight, BillInv, GatewayTyped, Asking
<1>b. bill' \in [stated : Nat, hidden : Nat] /\ bill'.stated = bill.stated
  <2>1. PICK cost \in Bills \union {0} : bill' = [bill EXCEPT !.hidden = @ + cost]
    BY DEF Fails
  <2>2. cost \in Nat
    BY DEF GatewayAssumption
  <2>. QED  BY <2>1, <2>2, BilledIs DEF BillInv
<1>2. CASE at' = at
  <2>1. PICK evidence \in Evidence, draw \in {0, 1}, after \in {0, 3 * MaxBackoff} :
          call' = [call EXCEPT
                     ![c].attempt = @ + 1, ![c].failure = evidence, ![c].asked = after,
                     ![c].wait = DelayFor(call[c].attempt, draw, after)]
    <3>1. [at EXCEPT ![c] = "idle"] # at
      BY <1>1
    <3>. QED  BY <1>2, <3>1 DEF Fails
  <2>2. call = [x \in Caller |-> call[x]]
    BY DEF BillInv, GatewayTyped
  <2>3. "streaming" \in DOMAIN call'[c] /\ ~call'[c].streaming
    BY <1>1, <2>1, <2>2
  <2>4. call' = [call EXCEPT ![c] = call'[c]]
    BY <2>1, <2>2
  <2>5. at' = [at EXCEPT ![c] = "provider"]
    BY <1>1, <1>2
  <2>6. PICK new : new = call'[c]
    OBVIOUS
  <2>. QED  BY <1>1, <1>b, <2>3, <2>4, <2>5, <2>6, QuietKeeps
<1>3. CASE at' # at
  <2>1. at' = [at EXCEPT ![c] = "idle"] /\ call' = [call EXCEPT ![c] = NoCall]
    BY <1>3 DEF Fails
  <2>. QED  BY <1>1, <1>b, <2>1, QuietKeeps
<1>. QED  BY <1>2, <1>3

(* Answers: the bill grows by a call, and one asks no more.                 *)
LEMMA AnswersKeeps ==
  ASSUME GatewayAssumption, BillInv, NEW c \in Caller, Answers(c)
  PROVE  BillInv'
<1>1. /\ GatewayTyped /\ backend = "cli" /\ backend' = backend
      /\ at[c] = "provider" /\ at' = [at EXCEPT ![c] = "record"]
      /\ ~call[c].streaming /\ meter' = meter
  BY DEF BillInv, GatewayTyped, Asking, Answers
<1>a. PICK billed \in Bills, said \in BOOLEAN :
        /\ bill' = IF said THEN [bill EXCEPT !.stated = @ + billed]
                   ELSE [bill EXCEPT !.hidden = @ + billed]
        /\ call' = [call EXCEPT ![c] = [NoCall EXCEPT !.cost = IF said THEN billed ELSE NoCost]]
  BY <1>1 DEF Answers
<1>. DEFINE cost == IF said THEN billed ELSE 0
            new == [NoCall EXCEPT !.cost = IF said THEN billed ELSE NoCost]
<1>b. billed \in Nat /\ billed <= MaxCost /\ MaxCost \in Nat
  BY MaxCostIs
<1>2. /\ bill' \in [stated : Nat, hidden : Nat] /\ bill'.stated = bill.stated + cost
      /\ call' = [call EXCEPT ![c] = new]
  <2>1. bill.stated + 0 = bill.stated
    BY <1>1 DEF GatewayTyped
  <2>. QED  BY <1>1, <1>a, <1>b, <2>1, BilledIs
<1>3. /\ (IF new.cost = NoCost THEN 0 ELSE new.cost) = cost
      /\ cost \in Nat /\ cost <= MaxCost
  <2>1. new.cost = IF said THEN billed ELSE NoCost
    BY DEF NoCall
  <2>. HIDE DEF new
  <2>. QED  BY <1>b, <2>1 DEF NoCost
<1>. HIDE DEF new, cost
<1>4. /\ at' = [x \in Caller |-> at'[x]] /\ at'[c] = "record"
      /\ \A x \in Caller : x # c => at'[x] = at[x]
  BY <1>1, OneMoves
<1>5. /\ call' = [x \in Caller |-> call'[x]] /\ call'[c] = new
      /\ \A x \in Caller : x # c => call'[x] = call[x]
  <2>1. call' = [call EXCEPT ![c] = new]
    BY <1>2
  <2>. QED  BY <1>1, <2>1, OneCalls
<1>6. /\ InFlight' = InFlight \union {c} /\ c \notin InFlight
      /\ c \in Asking /\ Asking' = Asking \ {c}
  BY <1>1, <1>4 DEF InFlight, Asking
<1>o. Owed(c)' = cost
  BY <1>3, <1>5 DEF Owed
<1>p. \A x \in InFlight : Owed(x)' = Owed(x)
  BY <1>5, <1>6, OthersOwe
<1>7. /\ Total(Unsettled') = Total(Unsettled) + cost
      /\ Total(Unsettled) \in Nat
  <2>1. IsFiniteSet(InFlight') /\ c \in InFlight' /\ InFlight' \ {c} = InFlight
    BY <1>6, UnsettledIs, <1>1, FS_AddElement
  <2>2. Unsettled' \in [InFlight' -> Nat] /\ Unsettled'[c] = cost
    <3>1. \A x \in InFlight' : Owed(x)' \in Nat
      BY <1>1, <1>3, <1>o, <1>p, <1>6 DEF GatewayTyped
    <3>. QED  BY <1>3, <1>o, <1>6, <3>1 DEF Unsettled
  <2>3. \A x \in InFlight : Unsettled[x] = Unsettled'[x]
    BY <1>p, <1>6 DEF Unsettled
  <2>4. Unsettled \in [InFlight -> Nat] /\ Total(Unsettled) \in Nat
    BY <1>1, UnsettledIs
  <2>5. IsWithout(Unsettled, Unsettled', c, InFlight')
    BY <2>1, <2>2, <2>3, <2>4 DEF IsWithout
  <2>6. Total(Unsettled') = Total(Unsettled) + Unsettled'[c]
    BY <2>5, TotalLess
  <2>. QED  BY <2>2, <2>4, <2>6
<1>8. bill'.stated = meter'.spent + Total(Unsettled')
  <2>1. bill.stated = meter.spent + Total(Unsettled) /\ meter.spent \in Nat
    BY <1>1 DEF BillInv, GatewayTyped
  <2>. QED  BY <1>1, <1>2, <1>3, <1>7, <2>1
<1>9. GatewayTyped'
  <2>1. \A x \in InFlight' : Owed(x)' \in Nat /\ Owed(x)' <= MaxCost
    BY <1>1, <1>3, <1>o, <1>p, <1>6 DEF GatewayTyped
  <2>2. \A x \in Asking' : "streaming" \in DOMAIN call'[x] /\ ~call'[x].streaming
    BY <1>1, <1>5, <1>6 DEF GatewayTyped, Asking
  <2>. QED  BY <1>1, <1>2, <1>4, <1>5, <2>1, <2>2 DEF GatewayTyped
<1>10. bill'.stated + MaxCost * Cardinality(Asking') < Ceiling + MaxCost * Cardinality(Caller)
  <2>. DEFINE a == Cardinality(Asking)
              b == Cardinality(Asking')
              room == MaxCost * Cardinality(Caller)
  <2>1. Asking \in SUBSET Caller
    BY DEF Asking
  <2>2. a \in Nat /\ IsFiniteSet(Asking) /\ room \in Nat /\ MaxCost \in Nat /\ Ceiling \in Nat
    BY <2>1, CallersAre, MaxCostIs DEF GatewayAssumption
  <2>3. b = a - 1 /\ b \in Nat
    <3>1. IsFiniteSet(Asking \ {c}) /\ Cardinality(Asking \ {c}) = a - 1
      BY <1>6, <2>2, FS_RemoveElement
    <3>2. Cardinality(Asking \ {c}) \in Nat
      BY <3>1, FS_CardinalityType
    <3>. QED  BY <1>6, <3>1, <3>2
  <2>4. bill.stated \in Nat /\ bill.stated + MaxCost * a < Ceiling + room
    BY <1>1 DEF BillInv, GatewayTyped
  <2>. HIDE DEF a, b, room
  <2>5. MaxCost * b = MaxCost * a - MaxCost /\ MaxCost * a \in Nat
    BY <2>2, <2>3
  <2>. DEFINE ma == MaxCost * a
              mb == MaxCost * b
  <2>. HIDE DEF ma, mb
  <2>6. bill.stated + cost + mb < Ceiling + room
    BY <1>3, <2>2, <2>4, <2>5 DEF ma, mb
  <2>. QED  BY <1>2, <2>6 DEF mb, b, room
<1>. QED  BY <1>1, <1>8, <1>9, <1>10 DEF BillInv

(* ChargeCall: what was owed is spent.                                      *)
LEMMA ChargeCallKeeps ==
  ASSUME GatewayAssumption, BillInv, NEW c \in Caller, ChargeCall(c)
  PROVE  BillInv'
<1>1. /\ GatewayTyped /\ backend = "cli" /\ UNCHANGED <<backend, bill>> /\ at[c] = "charge"
  BY DEF BillInv, ChargeCall
<1>. DEFINE amount == call[c].cost
            cost == Owed(c)
<1>2. c \in InFlight /\ cost \in Nat
  BY <1>1 DEF InFlight, GatewayTyped
<1>3. PICK step, new : /\ at' = [at EXCEPT ![c] = step] /\ step \in {"idle", "price"}
                       /\ call' = [call EXCEPT ![c] = new]
  <2>1. CASE call' = [call EXCEPT ![c] = NoCall] /\ at' = [at EXCEPT ![c] = "idle"]
    BY <2>1
  <2>2. CASE call' = call /\ at' = [at EXCEPT ![c] = "price"]
    <3>1. call' = [call EXCEPT ![c] = call[c]]
      BY <1>1, <2>2 DEF GatewayTyped
    <3>. QED  BY <2>2, <3>1
  <2>. QED  BY <2>1, <2>2 DEF ChargeCall
<1>4. meter' \in [spent : Nat, calls : Nat, unpriced : Nat] /\ meter'.spent = meter.spent + cost
  <2>1. meter' = Charged(amount)
    BY <1>1 DEF ChargeCall
  <2>2. meter \in [spent : Nat, calls : Nat, unpriced : Nat]
    BY <1>1 DEF GatewayTyped
  <2>p. meter.unpriced + 1 \in Nat /\ meter.spent + 0 = meter.spent
    BY <2>2
  <2>. DEFINE spent == meter.spent + cost
              calls == meter.calls + 1
              unpriced == IF amount = NoCost THEN meter.unpriced + 1 ELSE meter.unpriced
  <2>3. meter' = [meter EXCEPT !.calls = calls, !.unpriced = unpriced, !.spent = spent]
    <3>1. cost = IF amount = NoCost THEN 0 ELSE amount
      BY DEF Owed
    <3>. HIDE DEF amount, cost
    <3>. QED  BY <2>1, <2>p, <3>1 DEF Charged
  <2>4. spent \in Nat /\ calls \in Nat /\ unpriced \in Nat
    <3>. HIDE DEF amount, cost
    <3>. QED  BY <1>2, <2>2, <2>p
  <2>. HIDE DEF spent, calls, unpriced
  <2>5. meter' = [meter EXCEPT !.calls = calls, !.unpriced = unpriced, !.spent = spent]
    BY <2>3
  <2>6. meter' = [spent |-> spent, calls |-> calls, unpriced |-> unpriced]
    BY <2>2, <2>5
  <2>7. spent \in Nat /\ calls \in Nat /\ unpriced \in Nat
    BY <2>4
  <2>8. meter' \in [spent : Nat, calls : Nat, unpriced : Nat] /\ meter'.spent = spent
    BY <2>6, <2>7
  <2>. QED  BY <2>8 DEF spent
<1>. HIDE DEF cost
<1>5. /\ at' = [x \in Caller |-> at'[x]] /\ at'[c] = step
      /\ \A x \in Caller : x # c => at'[x] = at[x]
  BY <1>1, <1>3, OneMoves
<1>6. /\ call' = [x \in Caller |-> call'[x]]
      /\ \A x \in Caller : x # c => call'[x] = call[x]
  BY <1>1, <1>3, OneCalls
<1>7. InFlight' = InFlight \ {c} /\ Asking' = Asking /\ c \notin Asking
  BY <1>1, <1>3, <1>5 DEF InFlight, Asking
<1>o. \A x \in InFlight' : Owed(x)' = Owed(x)
  BY <1>6, <1>7, OthersOwe
<1>8. Total(Unsettled) = Total(Unsettled') + cost /\ Total(Unsettled') \in Nat
  <2>1. InFlight \in SUBSET Caller /\ IsFiniteSet(InFlight) /\ Unsettled \in [InFlight -> Nat]
    BY <1>1, UnsettledIs
  <2>2. \A x \in InFlight' : Unsettled'[x] = Unsettled[x]
    BY <1>o, <1>7 DEF Unsettled
  <2>3. Unsettled' \in [InFlight \ {c} -> Nat]
    <3>1. Unsettled' = [x \in InFlight' |-> Unsettled'[x]]
      BY DEF Unsettled
    <3>. QED  BY <1>7, <2>1, <2>2, <3>1
  <2>4. IsWithout(Unsettled', Unsettled, c, InFlight)
    BY <1>2, <1>7, <2>1, <2>2, <2>3 DEF IsWithout
  <2>5. Total(Unsettled) = Total(Unsettled') + Unsettled[c]
    BY <2>4, TotalLess
  <2>6. IsFiniteSet(InFlight \ {c})
    BY <2>1, FS_Subset
  <2>7. Total(Unsettled') \in Nat
    BY <2>3, <2>6, TotalIs
  <2>. QED  BY <1>2, <2>5, <2>7 DEF Unsettled, cost
<1>9. bill'.stated = meter'.spent + Total(Unsettled')
  <2>1. bill.stated = meter.spent + Total(Unsettled) /\ meter.spent \in Nat
    BY <1>1 DEF BillInv, GatewayTyped
  <2>. QED  BY <1>1, <1>2, <1>4, <1>8, <2>1
<1>10. GatewayTyped'
  <2>1. \A x \in InFlight' : Owed(x)' \in Nat /\ Owed(x)' <= MaxCost
    BY <1>1, <1>7, <1>o DEF GatewayTyped
  <2>2. \A x \in Asking' : "streaming" \in DOMAIN call'[x] /\ ~call'[x].streaming
    BY <1>1, <1>6, <1>7 DEF GatewayTyped, Asking
  <2>. QED  BY <1>1, <1>4, <1>5, <1>6, <2>1, <2>2 DEF GatewayTyped
<1>11. bill'.stated + MaxCost * Cardinality(Asking') < Ceiling + MaxCost * Cardinality(Caller)
  BY <1>1, <1>7, FewerAsk
<1>. QED  BY <1>1, <1>9, <1>10, <1>11 DEF BillInv

LEMMA BillAlways ==
  ASSUME GatewayAssumption
  PROVE  GatewaySpec => [](backend = "cli" => BillInv)
<1>. DEFINE Inv == backend = "cli" => BillInv
<1>1. GatewayInit => Inv
  <2>. SUFFICES ASSUME GatewayInit, backend = "cli" PROVE BillInv
    OBVIOUS
  <2>1. InFlight = {} /\ Asking = {}
    BY DEF GatewayInit, InFlight, Asking
  <2>2. GatewayTyped
    BY <2>1 DEF GatewayInit, GatewayTyped
  <2>3. Total(Unsettled) = 0
    BY <2>1, <2>2, UnsettledIs, TotalIs
  <2>4. Cardinality(Asking) = 0 /\ MaxCost * 0 = 0 /\ MaxCost * Cardinality(Caller) \in Nat
    BY <2>1, FS_EmptySet, MaxCostIs, CallersAre
  <2>5. bill.stated = meter.spent + Total(Unsettled) /\ bill.stated = 0
    BY <2>3 DEF GatewayInit
  <2>6. bill.stated + MaxCost * Cardinality(Asking) < Ceiling + MaxCost * Cardinality(Caller)
    BY <2>4, <2>5 DEF GatewayAssumption
  <2>. QED  BY <2>2, <2>5, <2>6 DEF BillInv
<1>2. Inv /\ [GatewayNext]_gatewayVars => Inv'
  <2>. SUFFICES ASSUME Inv, [GatewayNext]_gatewayVars, backend' = "cli" PROVE BillInv'
    OBVIOUS
  <2>1. backend = "cli" /\ BillInv /\ GatewayTyped
    BY DEF BillInv, GatewayNext, CallStep, gatewayVars, Begin, Chunk, Fails, Answers,
           RecordUsage, ChargeCall, LastPrice
  <2>. HIDE DEF Inv
  <2>2. CASE UNCHANGED gatewayVars
    BY <2>1, <2>2 DEF gatewayVars, BillInv, GatewayTyped, Unsettled, Owed, InFlight, Asking
  <2>3. ASSUME NEW c \in Caller, Begin(c) PROVE BillInv'
    BY <2>1, <2>3, BeginKeeps
  <2>4. ASSUME NEW c \in Caller, Chunk(c) PROVE BillInv'
    BY <2>1, <2>4 DEF Chunk, GatewayTyped, Asking
  <2>5. ASSUME NEW c \in Caller, Fails(c) PROVE BillInv'
    BY <2>1, <2>5, FailsKeeps
  <2>6. ASSUME NEW c \in Caller, Answers(c) PROVE BillInv'
    BY <2>1, <2>6, AnswersKeeps
  <2>7. ASSUME NEW c \in Caller, RecordUsage(c) PROVE BillInv'
    <3>1. at' = [at EXCEPT ![c] = "charge"] /\ c \in InFlight /\ UNCHANGED <<backend, meter, bill>>
      BY <2>7 DEF RecordUsage, InFlight
    <3>2. call' = [call EXCEPT ![c] = call[c]]
      BY <2>1, <2>7 DEF RecordUsage, GatewayTyped
    <3>. QED  BY <2>1, <3>1, <3>2, QuietKeeps DEF GatewayTyped
  <2>8. ASSUME NEW c \in Caller, ChargeCall(c) PROVE BillInv'
    BY <2>1, <2>8, ChargeCallKeeps
  <2>9. ASSUME NEW c \in Caller, LastPrice(c) PROVE BillInv'
    <3>1. /\ at' = [at EXCEPT ![c] = "idle"] /\ call' = [call EXCEPT ![c] = NoCall]
          /\ c \notin InFlight /\ UNCHANGED <<backend, meter, bill>>
      BY <2>9 DEF LastPrice, InFlight
    <3>. QED  BY <2>1, <3>1, QuietKeeps DEF GatewayTyped
  <2>. QED  BY <2>2, <2>3, <2>4, <2>5, <2>6, <2>7, <2>8, <2>9 DEF GatewayNext, CallStep
<1>. QED  BY <1>1, <1>2, PTL DEF GatewaySpec

(* Whatever the threads do, which attempts fail and which answers state no  *)
(* cost, a backend that charges its own call's cost has spent what answers  *)
(* stated but for the calls under way, and that bill passes the ceiling by  *)
(* no more than one call of each caller.                                    *)
THEOREM BillIsBoundedAlways ==
  ASSUME GatewayAssumption
  PROVE  GatewaySpec => []BillIsBounded
<1>1. (backend = "cli" => BillInv) => BillIsBounded
  <2>. SUFFICES ASSUME BillInv
                PROVE  /\ bill.stated = meter.spent + Costs([c \in InFlight |-> Owed(c)])
                       /\ bill.stated < Ceiling + Cardinality(Caller) * MaxCost
    BY DEF BillIsBounded
  <2>1. Costs(Unsettled) = Total(Unsettled)
    BY DEF Costs, Total
  <2>2. bill.stated = meter.spent + Costs([c \in InFlight |-> Owed(c)])
    BY <2>1 DEF BillInv, Unsettled
  <2>3. bill.stated < Ceiling + Cardinality(Caller) * MaxCost
    <3>1. /\ MaxCost * Cardinality(Asking) \in Nat /\ MaxCost \in Nat /\ Cardinality(Caller) \in Nat
          /\ MaxCost * Cardinality(Caller) \in Nat
          /\ MaxCost * Cardinality(Caller) = Cardinality(Caller) * MaxCost
      <4>1. Asking \in SUBSET Caller
        BY DEF Asking
      <4>2. MaxCost \in Nat /\ Cardinality(Caller) \in Nat
        BY CallersAre, MaxCostIs
      <4>. QED  BY <4>1, <4>2, CallersAre
    <3>2. bill.stated \in Nat /\ Ceiling \in Nat
          /\ bill.stated + MaxCost * Cardinality(Asking) < Ceiling + MaxCost * Cardinality(Caller)
      BY DEF BillInv, GatewayTyped, GatewayAssumption
    <3>. DEFINE ma == MaxCost * Cardinality(Asking)
                room == MaxCost * Cardinality(Caller)
    <3>3. ma \in Nat /\ room \in Nat /\ bill.stated + ma < Ceiling + room
      BY <3>1, <3>2
    <3>. HIDE DEF ma, room
    <3>4. bill.stated < Ceiling + room
      BY <3>2, <3>3
    <3>. QED  BY <3>1, <3>4 DEF room
  <2>. QED  BY <2>2, <2>3
<1>. QED  BY <1>1, BillAlways, PTL

(***************************************************************************)
(* What is sent again, and how long is waited before it.                   *)
(***************************************************************************)
(* The recursion of Growth has a solution.                                  *)
Doubling(k, g) == g = [n \in 1..k |-> IF n = 1 THEN Initial ELSE 2 * g[n - 1]]

LEMMA DoublingGrows ==
  ASSUME NEW k \in Nat, NEW g, Doubling(k, g)
  PROVE  \E more : Doubling(k + 1, more)
<1>. DEFINE last == IF k = 0 THEN Initial ELSE 2 * g[k]
            more == [n \in 1..(k + 1) |-> IF n = k + 1 THEN last ELSE g[n]]
<1>1. ASSUME NEW n \in 1..(k + 1)
      PROVE  more[n] = IF n = 1 THEN Initial ELSE 2 * more[n - 1]
  <2>1. CASE n = k + 1
    BY <2>1
  <2>2. CASE n # k + 1
    <3>1. n \in 1..k /\ g[n] = IF n = 1 THEN Initial ELSE 2 * g[n - 1]
      BY <2>2 DEF Doubling
    <3>2. n # 1 => n - 1 \in 1..(k + 1) /\ n - 1 # k + 1
      BY <2>2
    <3>. QED  BY <2>2, <3>1, <3>2
  <2>. QED  BY <2>1, <2>2
<1>2. more = [n \in 1..(k + 1) |-> more[n]]
  OBVIOUS
<1>. HIDE DEF more
<1>3. Doubling(k + 1, more)
  BY <1>1, <1>2 DEF Doubling
<1>. QED  BY <1>3

LEMMA DoublingExists ==
  ASSUME NEW k \in Nat
  PROVE  \E g : Doubling(k, g)
<1>. DEFINE T == {j \in Nat : ~ \E g : Doubling(j, g)}
<1>1. \E g : Doubling(0, g)
  <2>. DEFINE g == [n \in 1..0 |-> Initial]
  <2>1. Doubling(0, g)
    BY DEF Doubling
  <2>. QED  BY <2>1
<1>2. SUFFICES ASSUME T # {} PROVE FALSE
  OBVIOUS
<1>3. PICK j \in T : \A i \in T : ~(<<i, j>> \in OpToRel(<, Nat))
  BY <1>2, NatLessThanWellFounded, WFMin
<1>. HIDE DEF T
<1>4. j \in Nat /\ j # 0
  BY <1>1 DEF T
<1>5. <<j - 1, j>> \in OpToRel(<, Nat)
  BY <1>4 DEF OpToRel
<1>6. j - 1 \notin T
  BY <1>3, <1>5
<1>7. PICK g : Doubling(j - 1, g)
  BY <1>4, <1>6 DEF T
<1>8. \E more : Doubling((j - 1) + 1, more)
  BY <1>4, <1>7, DoublingGrows
<1>9. (j - 1) + 1 = j
  BY <1>4
<1>. QED  BY <1>3, <1>8, <1>9 DEF T

LEMMA GrowthIs ==
  ASSUME GatewayAssumption
  PROVE  \A n \in 1..MaxAttempts : Growth[n] = IF n = 1 THEN Initial ELSE 2 * Growth[n - 1]
<1>1. MaxAttempts \in Nat
  BY DEF GatewayAssumption
<1>2. \E g : Doubling(MaxAttempts, g)
  BY <1>1, DoublingExists
<1>3. Doubling(MaxAttempts, Growth)
  BY <1>2, Zenon DEF Growth, Doubling
<1>. QED  BY <1>3 DEF Doubling

LEMMA GrowthIsNat ==
  ASSUME GatewayAssumption
  PROVE  \A n \in 1..MaxAttempts : Growth[n] \in Nat /\ Growth[n] >= Initial
<1>. DEFINE T == {n \in 1..MaxAttempts : ~(Growth[n] \in Nat /\ Growth[n] >= Initial)}
<1>0. MaxAttempts \in Nat /\ Initial \in Nat
  BY DEF GatewayAssumption
<1>1. SUFFICES ASSUME T # {} PROVE FALSE
  OBVIOUS
<1>2. PICK n \in T : \A i \in T : ~(<<i, n>> \in OpToRel(<, Nat))
  <2>1. T \subseteq Nat
    BY <1>0
  <2>. HIDE DEF T
  <2>. QED  BY <1>1, <2>1, NatLessThanWellFounded, WFMin
<1>3. n \in 1..MaxAttempts /\ Growth[n] = IF n = 1 THEN Initial ELSE 2 * Growth[n - 1]
  BY GrowthIs
<1>4. n # 1
  BY <1>0, <1>3
<1>5. n - 1 \in 1..MaxAttempts /\ n - 1 < n /\ n - 1 \in Nat /\ n \in Nat
  BY <1>0, <1>3, <1>4
<1>6. <<n - 1, n>> \in OpToRel(<, Nat)
  BY <1>5 DEF OpToRel
<1>7. n - 1 \notin T
  <2>. HIDE DEF T
  <2>. QED  BY <1>2, <1>6
<1>8. Growth[n - 1] \in Nat /\ Growth[n - 1] >= Initial
  BY <1>5, <1>7
<1>9. 2 * Growth[n - 1] \in Nat /\ 2 * Growth[n - 1] >= Initial
  <2>. DEFINE g == Growth[n - 1]
  <2>. HIDE DEF g
  <2>1. g \in Nat /\ g >= Initial => 2 * g \in Nat /\ 2 * g >= Initial
    BY <1>0
  <2>. QED  BY <1>8, <2>1 DEF g
<1>. QED  BY <1>2, <1>3, <1>4, <1>9

LEMMA MinOfTwo ==
  ASSUME NEW a \in Int, NEW b \in Int
  PROVE  Min({a, b}) = IF a <= b THEN a ELSE b
<1>. DEFINE m == IF a <= b THEN a ELSE b
<1>1. m \in {a, b} /\ \A y \in {a, b} : m <= y
  OBVIOUS
<1>2. \A x \in {a, b} : (\A y \in {a, b} : x <= y) => x = m
  OBVIOUS
<1>. QED  BY <1>1, <1>2 DEF Min

LEMMA MaxOfTwo ==
  ASSUME NEW a \in Int, NEW b \in Int
  PROVE  Max({a, b}) = IF a >= b THEN a ELSE b
<1>. DEFINE m == IF a >= b THEN a ELSE b
<1>1. m \in {a, b} /\ \A y \in {a, b} : m >= y
  OBVIOUS
<1>2. \A x \in {a, b} : (\A y \in {a, b} : x >= y) => x = m
  OBVIOUS
<1>. QED  BY <1>1, <1>2 DEF Max

(* base_delay doubles until the cap.                                        *)
LEMMA BaseDelayIs ==
  ASSUME GatewayAssumption, NEW n \in 1..MaxAttempts
  PROVE  /\ BaseDelay(n) \in Nat /\ BaseDelay(n) <= MaxBackoff
         /\ BaseDelay(n) < MaxBackoff => BaseDelay(n) >= Initial
         /\ n # 1 /\ BaseDelay(n) < MaxBackoff => BaseDelay(n) = 2 * BaseDelay(n - 1)
<1>1. Growth[n] \in Nat /\ Growth[n] >= Initial /\ MaxBackoff \in Nat /\ Initial \in Nat /\ MaxAttempts \in Nat
  BY GrowthIsNat DEF GatewayAssumption
<1>2. BaseDelay(n) = IF Growth[n] <= MaxBackoff THEN Growth[n] ELSE MaxBackoff
  BY <1>1, MinOfTwo DEF BaseDelay
<1>3. ASSUME n # 1, BaseDelay(n) < MaxBackoff PROVE BaseDelay(n) = 2 * BaseDelay(n - 1)
  <2>1. n - 1 \in 1..MaxAttempts
    BY <1>1, <1>3
  <2>2. Growth[n] = 2 * Growth[n - 1] /\ Growth[n - 1] \in Nat
    BY <1>3, <2>1, GrowthIs, GrowthIsNat
  <2>3. BaseDelay(n) = Growth[n]
    BY <1>1, <1>2, <1>3
  <2>. DEFINE g == Growth[n - 1]
  <2>. HIDE DEF g
  <2>4. g \in Nat /\ 2 * g < MaxBackoff => g <= MaxBackoff
    BY <1>1
  <2>5. BaseDelay(n - 1) = IF g <= MaxBackoff THEN g ELSE MaxBackoff
    BY <1>1, <2>2, MinOfTwo DEF BaseDelay, g
  <2>. QED  BY <1>3, <2>2, <2>3, <2>4, <2>5 DEF g
<1>. QED  BY <1>1, <1>2, <1>3

(* The wait before a request is sent again: what delay_for returns.         *)
LEMMA DelayIs ==
  ASSUME GatewayAssumption, NEW n \in 1..MaxAttempts, NEW draw \in {0, 1}, NEW after \in {0, 3 * MaxBackoff}
  PROVE  /\ DelayFor(n, draw, after) \in Nat /\ DelayFor(n, draw, after) <= MaxBackoff
         /\ DelayFor(n, draw, after) >= Min({after, MaxBackoff})
         /\ after = 0 => DelayFor(n, draw, after) <= BaseDelay(n)
         /\ BaseDelay(n) >= 2 => 4 * DelayFor(n, draw, after) >= 3 * BaseDelay(n) - 3
<1>. DEFINE base == BaseDelay(n)
            jittered == (base * (4 - draw)) \div 4
            told1 == Min({after, MaxBackoff})
<1>1. base \in Nat /\ base <= MaxBackoff /\ MaxBackoff \in Nat /\ after \in Nat
  BY BaseDelayIs DEF GatewayAssumption
<1>. HIDE DEF base
<1>2. jittered \in Nat /\ jittered <= base /\ 4 * jittered >= 3 * base - 3
  <2>1. CASE draw = 0
    BY <1>1, <2>1
  <2>2. CASE draw = 1
    BY <1>1, <2>2
  <2>. QED  BY <2>1, <2>2
<1>3. told1 \in Nat /\ told1 <= MaxBackoff /\ (after = 0 => told1 = 0)
  BY <1>1, MinOfTwo
<1>4. DelayFor(n, draw, after) = Max({jittered, told1})
  BY DEF DelayFor, base
<1>. HIDE DEF jittered, told1
<1>5. DelayFor(n, draw, after) = IF jittered >= told1 THEN jittered ELSE told1
  BY <1>2, <1>3, <1>4, MaxOfTwo
<1>6. told1 = Min({after, MaxBackoff}) /\ base = BaseDelay(n)
  BY DEF told1, base
<1>. QED  BY <1>1, <1>2, <1>3, <1>5, <1>6

Fields == {"attempt", "streaming", "shown", "failure", "wait", "asked", "cost"}

Calling(c) ==
  /\ DOMAIN call[c] = Fields
  /\ call[c].attempt \in 0..MaxAttempts /\ call[c].streaming \in BOOLEAN
  /\ call[c].wait \in Nat
  /\ call[c].shown => call[c].streaming
  /\ at[c] = "provider" => call[c].attempt >= 1
  /\ call[c].attempt = 1 => call[c].wait = 0
  /\ call[c].attempt > 1 /\ call[c].asked = 0 => call[c].wait <= BaseDelay(call[c].attempt - 1)

ReissueInv ==
  /\ DOMAIN call = Caller /\ DOMAIN at = Caller
  /\ \A c \in Caller : Calling(c)

LEMMA QuietCall ==
  ASSUME GatewayAssumption, NEW c, call'[c] = NoCall, at'[c] # "provider"
  PROVE  Calling(c)'
<1>1. call'[c].attempt = 0 /\ call'[c].streaming = FALSE /\ call'[c].shown = FALSE /\ call'[c].wait = 0
      /\ DOMAIN call'[c] = Fields
  BY DEF NoCall, Fields
<1>2. 0 \in 0..MaxAttempts
  BY DEF GatewayAssumption
<1>3. call'[c].shown => call'[c].streaming
  BY <1>1
<1>4. call'[c].streaming \in BOOLEAN
  BY <1>1
<1>. QED  BY <1>1, <1>2, <1>3, <1>4 DEF Calling

LEMMA ReissueInit == ASSUME GatewayAssumption PROVE GatewayInit => ReissueInv
<1>. SUFFICES ASSUME GatewayInit, NEW c \in Caller PROVE Calling(c)
  BY DEF GatewayInit, ReissueInv
<1>1. call[c] = NoCall /\ at[c] = "idle"
  BY DEF GatewayInit
<1>2. call[c].attempt = 0 /\ call[c].streaming = FALSE /\ call[c].shown = FALSE /\ call[c].wait = 0
      /\ DOMAIN call[c] = Fields
  BY <1>1 DEF NoCall, Fields
<1>3. 0 \in 0..MaxAttempts
  BY DEF GatewayAssumption
<1>4. (call[c].shown => call[c].streaming) /\ call[c].streaming \in BOOLEAN
  BY <1>2
<1>. QED  BY <1>1, <1>2, <1>3, <1>4 DEF Calling

(* A step of another caller's leaves this one's call as it is.              *)
LEMMA OthersCalling ==
  ASSUME NEW c \in Caller, Calling(c), call'[c] = call[c], at'[c] = at[c]
  PROVE  Calling(c)'
BY DEF Calling, BaseDelay

(* What a request that is sent again is.                                    *)
Again(c) ==
  /\ ~call[c].shown
  /\ "verdict" \notin call'[c].failure
  /\ call'[c].wait <= MaxBackoff
  /\ call'[c].wait >= Min({call'[c].asked, MaxBackoff})
  /\ BaseDelay(call[c].attempt) < MaxBackoff /\ call[c].asked = 0
       => call'[c].wait > call[c].wait

LEMMA FailsIs ==
  ASSUME GatewayAssumption, Initial >= 2, NEW c \in Caller, ReissueInv, Fails(c)
  PROVE  Calling(c)' /\ (call'[c].attempt = call[c].attempt + 1 /\ call[c].attempt > 0 => Again(c))
<1>0. Calling(c) /\ at[c] = "provider" /\ MaxAttempts \in Nat \ {0} /\ DOMAIN call = Caller /\ DOMAIN at = Caller
  BY DEF ReissueInv, Fails, GatewayAssumption
<1>1. CASE at'[c] = "idle" /\ call'[c] = NoCall
  <2>1. call'[c].attempt = 0
    BY <1>1 DEF NoCall
  <2>2. call[c].attempt >= 1 /\ call[c].attempt \in Int
    BY <1>0 DEF Calling
  <2>. QED  BY <1>0, <1>1, <2>1, <2>2, QuietCall
<1>2. ASSUME NEW evidence \in Evidence, NEW draw \in {0, 1}, NEW after \in {0, 3 * MaxBackoff},
             call[c].attempt < EffectivePolicy(c), IsTransient(evidence),
             call'[c] = [call[c] EXCEPT !.attempt = call[c].attempt + 1, !.failure = evidence, !.asked = after,
                                        !.wait = DelayFor(call[c].attempt, draw, after)],
             at'[c] = at[c]
      PROVE  Calling(c)' /\ Again(c)
  <2>. DEFINE n == call[c].attempt
  <2>1. n \in 1..MaxAttempts /\ n < MaxAttempts /\ ~call[c].streaming /\ ~call[c].shown
    BY <1>0, <1>2 DEF Calling, EffectivePolicy
  <2>2. /\ call'[c].attempt = n + 1 /\ call'[c].failure = evidence /\ call'[c].asked = after
        /\ call'[c].wait = DelayFor(n, draw, after)
        /\ call'[c].streaming = call[c].streaming /\ call'[c].shown = call[c].shown
        /\ DOMAIN call'[c] = Fields
    BY <1>0, <1>2 DEF Calling, Fields
  <2>. DEFINE delay == DelayFor(n, draw, after)
  <2>3. /\ delay \in Nat /\ delay <= MaxBackoff /\ delay >= Min({after, MaxBackoff})
        /\ after = 0 => delay <= BaseDelay(n)
        /\ BaseDelay(n) >= 2 => 4 * delay >= 3 * BaseDelay(n) - 3
    BY <2>1, DelayIs
  <2>4. BaseDelay(n) < MaxBackoff /\ call[c].asked = 0 => delay > call[c].wait
    <3>. SUFFICES ASSUME BaseDelay(n) < MaxBackoff, call[c].asked = 0 PROVE delay > call[c].wait
      OBVIOUS
    <3>1. BaseDelay(n) \in Nat /\ BaseDelay(n) >= 2
      BY <2>1, BaseDelayIs DEF GatewayAssumption
    <3>2. CASE n = 1
      <4>1. call[c].wait = 0
        BY <1>0, <3>2 DEF Calling
      <4>. HIDE DEF delay
      <4>. QED  BY <2>3, <3>1, <4>1
    <3>3. CASE n # 1
      <4>. DEFINE before1 == BaseDelay(n - 1)
      <4>1. n - 1 \in 1..MaxAttempts /\ n > 1
        BY <2>1, <3>3
      <4>2. before1 \in Nat /\ BaseDelay(n) = 2 * before1 /\ before1 < MaxBackoff
        BY <2>1, <3>1, <3>3, <4>1, BaseDelayIs
      <4>3. before1 >= Initial
        BY <4>1, <4>2, BaseDelayIs
      <4>4. call[c].wait \in Nat /\ call[c].wait <= before1
        BY <1>0, <4>1 DEF Calling
      <4>. HIDE DEF delay, before1
      <4>. QED  BY <2>3, <3>1, <4>2, <4>3, <4>4 DEF GatewayAssumption
    <3>. QED  BY <3>2, <3>3
  <2>5. Calling(c)'
    <3>1. n + 1 \in 0..MaxAttempts /\ n + 1 > 1 /\ (n + 1) - 1 = n
      BY <2>1
    <3>2. after = 0 => call'[c].wait <= BaseDelay(call'[c].attempt - 1)
      BY <2>2, <2>3, <3>1
    <3>. HIDE DEF n
    <3>. QED  BY <1>0, <1>2, <2>1, <2>2, <2>3, <3>1, <3>2 DEF Calling, BaseDelay
  <2>6. "verdict" \notin evidence
    BY <1>2 DEF IsTransient
  <2>. HIDE DEF delay
  <2>7. call'[c].wait = delay
    BY <2>2 DEF delay
  <2>. QED  BY <2>1, <2>2, <2>3, <2>4, <2>5, <2>6, <2>7 DEF Again
<1>3. PICK evidence \in Evidence :
        IF call[c].attempt < EffectivePolicy(c) /\ IsTransient(evidence)
        THEN \E draw \in {0, 1}, after \in {0, 3 * MaxBackoff} :
               /\ call' = [call EXCEPT
                    ![c].attempt = @ + 1, ![c].failure = evidence, ![c].asked = after,
                    ![c].wait = DelayFor(call[c].attempt, draw, after)]
               /\ UNCHANGED at
        ELSE /\ at' = [at EXCEPT ![c] = "idle"]
             /\ call' = [call EXCEPT ![c] = NoCall]
  BY DEF Fails
<1>4. CASE ~(call[c].attempt < EffectivePolicy(c) /\ IsTransient(evidence))
  BY <1>0, <1>1, <1>3, <1>4
<1>5. CASE call[c].attempt < EffectivePolicy(c) /\ IsTransient(evidence)
  <2>1. PICK draw \in {0, 1}, after \in {0, 3 * MaxBackoff} :
          /\ call' = [call EXCEPT
               ![c].attempt = @ + 1, ![c].failure = evidence, ![c].asked = after,
               ![c].wait = DelayFor(call[c].attempt, draw, after)]
          /\ UNCHANGED at
    BY <1>3, <1>5
  <2>2. call'[c] = [call[c] EXCEPT !.attempt = call[c].attempt + 1, !.failure = evidence, !.asked = after,
                                   !.wait = DelayFor(call[c].attempt, draw, after)]
    BY <1>0, <2>1
  <2>. QED  BY <1>2, <1>5, <2>1, <2>2
<1>. QED  BY <1>4, <1>5

(* No other step of a caller's sends its request again.                     *)
LEMMA OtherStepsAre ==
  ASSUME GatewayAssumption, NEW c \in Caller, ReissueInv,
         Begin(c) \/ Chunk(c) \/ Answers(c) \/ RecordUsage(c) \/ ChargeCall(c) \/ LastPrice(c)
  PROVE  Calling(c)' /\ ~(call'[c].attempt = call[c].attempt + 1 /\ call[c].attempt > 0)
<1>0. Calling(c) /\ MaxAttempts \in Nat \ {0} /\ DOMAIN call = Caller /\ DOMAIN at = Caller
  BY DEF ReissueInv, GatewayAssumption
<1>1. CASE call'[c] = call[c] /\ (at'[c] = "provider" => at[c] = "provider")
  BY <1>0, <1>1 DEF Calling, BaseDelay
<1>2. CASE call'[c].attempt = 0 /\ Calling(c)'
  BY <1>0, <1>2 DEF Calling
<1>3. CASE Begin(c)
  <2>1. CASE ~Headroom
    BY <1>1, <1>3, <2>1 DEF Begin
  <2>2. CASE Headroom
    <3>1. PICK streaming \in BOOLEAN : call' = [call EXCEPT ![c] = [NoCall EXCEPT !.attempt = 1, !.streaming = streaming]]
      BY <1>3, <2>2 DEF Begin
    <3>2. /\ call'[c].attempt = 1 /\ call'[c].streaming = streaming /\ call'[c].shown = FALSE
          /\ call'[c].wait = 0 /\ DOMAIN call'[c] = Fields
      BY <1>0, <3>1 DEF NoCall, Fields
    <3>. QED  BY <1>0, <3>2 DEF Calling
  <2>. QED  BY <2>1, <2>2
<1>4. CASE Chunk(c)
  <2>1. call'[c] = [call[c] EXCEPT !.shown = TRUE] /\ at' = at /\ call[c].streaming
    BY <1>0, <1>4 DEF Chunk
  <2>2. /\ call'[c].attempt = call[c].attempt /\ call'[c].streaming = call[c].streaming
        /\ call'[c].wait = call[c].wait /\ call'[c].asked = call[c].asked
        /\ DOMAIN call'[c] = Fields
    BY <1>0, <2>1 DEF Calling, Fields
  <2>3. (call'[c].shown => call'[c].streaming) /\ call'[c].streaming \in BOOLEAN
    BY <1>0, <2>1, <2>2 DEF Calling
  <2>. QED  BY <1>0, <2>1, <2>2, <2>3 DEF Calling, BaseDelay
<1>5. CASE Answers(c)
  <2>1. PICK cost : call'[c] = [NoCall EXCEPT !.cost = cost] /\ at'[c] = "record"
    BY <1>0, <1>5 DEF Answers
  <2>2. call'[c].attempt = 0 /\ call'[c].streaming = FALSE /\ call'[c].shown = FALSE /\ call'[c].wait = 0
        /\ DOMAIN call'[c] = Fields
    BY <2>1 DEF NoCall, Fields
  <2>3. (call'[c].shown => call'[c].streaming) /\ call'[c].streaming \in BOOLEAN
    BY <2>2
  <2>. QED  BY <1>0, <2>1, <2>2, <2>3 DEF Calling
<1>6. CASE RecordUsage(c)
  BY <1>0, <1>1, <1>6 DEF RecordUsage
<1>7. CASE ChargeCall(c) \/ LastPrice(c)
  <2>1. \/ call'[c] = call[c] /\ at'[c] = "price"
        \/ call'[c] = NoCall /\ at'[c] = "idle"
    BY <1>0, <1>7 DEF ChargeCall, LastPrice
  <2>2. ASSUME call'[c] = NoCall, at'[c] = "idle" PROVE call'[c].attempt = 0 /\ Calling(c)'
    <3>1. call'[c].attempt = 0
      BY <2>2 DEF NoCall
    <3>. QED  BY <2>2, <3>1, QuietCall
  <2>. QED  BY <1>1, <1>2, <2>1, <2>2
<1>. QED  BY <1>3, <1>4, <1>5, <1>6, <1>7

LEMMA ReissueStep ==
  ASSUME GatewayAssumption, Initial >= 2, ReissueInv, [GatewayNext]_gatewayVars
  PROVE  /\ ReissueInv'
         /\ \A c \in Caller : call'[c].attempt = call[c].attempt + 1 /\ call[c].attempt > 0 => Again(c)
<1>1. CASE UNCHANGED gatewayVars
  <2>1. UNCHANGED <<call, at>>
    BY <1>1 DEF gatewayVars
  <2>2. \A c \in Caller : call[c].attempt \in Int
    BY DEF ReissueInv, Calling, GatewayAssumption
  <2>3. \A c \in Caller : Calling(c)'
    BY <2>1, OthersCalling DEF ReissueInv
  <2>. QED  BY <2>1, <2>2, <2>3 DEF ReissueInv
<1>2. ASSUME NEW d \in Caller, CallStep(d)
      PROVE  /\ ReissueInv'
             /\ \A c \in Caller : call'[c].attempt = call[c].attempt + 1 /\ call[c].attempt > 0 => Again(c)
  <2>1. DOMAIN call' = Caller /\ DOMAIN at' = Caller
    BY <1>2 DEF ReissueInv, CallStep, Begin, Chunk, Fails, Answers, RecordUsage, ChargeCall, LastPrice
  <2>2. \A c \in Caller \ {d} : call'[c] = call[c] /\ at'[c] = at[c]
    BY <1>2 DEF ReissueInv, CallStep, Begin, Chunk, Fails, Answers, RecordUsage, ChargeCall, LastPrice
  <2>3. /\ Calling(d)'
        /\ call'[d].attempt = call[d].attempt + 1 /\ call[d].attempt > 0 => Again(d)
    BY <1>2, FailsIs, OtherStepsAre DEF CallStep
  <2>4. ASSUME NEW c \in Caller, c # d
        PROVE  Calling(c)' /\ call'[c].attempt # call[c].attempt + 1
    <3>1. Calling(c) /\ call[c].attempt \in Int
      BY DEF ReissueInv, Calling, GatewayAssumption
    <3>. QED  BY <2>2, <2>4, <3>1, OthersCalling
  <2>. QED  BY <2>1, <2>3, <2>4 DEF ReissueInv
<1>. QED  BY <1>1, <1>2 DEF GatewayNext

(* A request is sent again only while nothing of its answer was shown and   *)
(* nothing it failed with is a verdict, and the wait before it is what the  *)
(* provider asked for, within the cap, and longer than the last: of         *)
(* call_with_retry and delay_for, for any callers, attempts and backoffs,   *)
(* the first of them two units of the model's clock at least, which counts  *)
(* in whole ones.                                                           *)
THEOREM ReissueIsSafeAlways ==
  ASSUME GatewayAssumption, Initial >= 2
  PROVE  GatewaySpec => ReissueIsSafe
<1>1. ReissueInv /\ [GatewayNext]_gatewayVars =>
        /\ ReissueInv'
        /\ [\A c \in Caller : call'[c].attempt = call[c].attempt + 1 /\ call[c].attempt > 0 => Again(c)]_gatewayVars
  BY ReissueStep
<1>. QED  BY <1>1, ReissueInit, PTL DEF GatewaySpec, ReissueIsSafe, Again

(***************************************************************************)
(* The gate.                                                               *)
(***************************************************************************)
IsArgs(a) == \E S : a \in Seq(S)

(* What the gate adds to an argv: at its end, and no path that is outside.  *)
Grown(a, b, flags) ==
  /\ IsArgs(a) /\ IsArgs(b)
  /\ DOMAIN a \subseteq DOMAIN b
  /\ \A i \in DOMAIN a : b[i] = a[i]
  /\ \A i \in DOMAIN b : i \in DOMAIN a \/ (b[i].flag \in flags /\ b[i].value # "out")

LEMMA GreatestIs ==
  ASSUME NEW n \in Nat, NEW S, S \subseteq 1..n, S # {}
  PROVE  Max(S) \in S
<1>. DEFINE Gap == {k \in Nat : n - k \in S}
<1>1. PICK i \in S : TRUE
  OBVIOUS
<1>2. Gap # {}
  <2>1. n - i \in Nat /\ n - (n - i) = i
    BY <1>1
  <2>. QED  BY <1>1, <2>1
<1>3. PICK k \in Gap : \A j \in Gap : ~(<<j, k>> \in OpToRel(<, Nat))
  BY <1>2, NatLessThanWellFounded, WFMin
<1>4. ASSUME NEW y \in S PROVE n - k >= y
  <2>1. y \in 1..n /\ k \in Nat
    BY <1>3
  <2>. SUFFICES ASSUME ~(n - k >= y) PROVE FALSE
    OBVIOUS
  <2>2. n - y \in Nat /\ n - (n - y) = y /\ n - y < k
    BY <2>1
  <2>3. n - y \in Gap
    BY <2>2
  <2>4. <<n - y, k>> \in OpToRel(<, Nat)
    BY <2>1, <2>2 DEF OpToRel
  <2>. QED  BY <1>3, <2>3, <2>4
<1>5. n - k \in S
  BY <1>3
<1>. QED  BY <1>4, <1>5 DEF Max

LEMMA LastIs ==
  ASSUME NEW a, IsArgs(a), NEW f, IsSet(a, f)
  PROVE  \E i \in DOMAIN a : a[i].flag = f /\ LastOf(a, f) = a[i]
<1>. DEFINE is == {i \in DOMAIN a : a[i].flag = f}
<1>1. is # {} /\ is \subseteq 1..Len(a) /\ Len(a) \in Nat
  BY DEF IsSet, IsArgs
<1>2. LastOf(a, f) = a[Max(is)]
  BY <1>1 DEF LastOf
<1>. HIDE DEF is
<1>3. Max(is) \in is
  BY <1>1, GreatestIs
<1>. QED  BY <1>2, <1>3 DEF is

(* A flag that is not among those added is read as it was.                  *)
LEMMA GrownIsReadAlike ==
  ASSUME NEW a, NEW b, NEW flags, Grown(a, b, flags), NEW f, f \notin flags
  PROVE  LastOf(b, f) = LastOf(a, f) /\ (IsSet(b, f) <=> IsSet(a, f))
<1>. DEFINE is == {i \in DOMAIN a : a[i].flag = f}
<1>1. is = {i \in DOMAIN b : b[i].flag = f}
  BY DEF Grown
<1>2. IsSet(b, f) <=> IsSet(a, f)
  BY <1>1 DEF IsSet
<1>3. CASE is = {}
  BY <1>1, <1>2, <1>3 DEF LastOf
<1>4. CASE is # {}
  <2>1. LastOf(a, f) = a[Max(is)]
    BY <1>4 DEF LastOf
  <2>2. LastOf(b, f) = b[Max(is)]
    BY <1>1, <1>4 DEF LastOf
  <2>3. Max(is) \in is
    <3>1. is \subseteq 1..Len(a) /\ Len(a) \in Nat
      BY DEF Grown, IsArgs
    <3>. HIDE DEF is
    <3>. QED  BY <1>4, <3>1, GreatestIs
  <2>4. b[Max(is)] = a[Max(is)]
    BY <2>3 DEF Grown
  <2>. QED  BY <1>2, <2>1, <2>2, <2>4
<1>. QED  BY <1>3, <1>4

LEMMA AppendIs ==
  ASSUME NEW a, IsArgs(a), NEW x
  PROVE  /\ IsArgs(Append(a, x))
         /\ Len(a) \in Nat /\ DOMAIN a = 1..Len(a) /\ DOMAIN Append(a, x) = 1..(Len(a) + 1)
         /\ \A i \in DOMAIN a : Append(a, x)[i] = a[i]
         /\ Append(a, x)[Len(a) + 1] = x
<1>1. PICK S : a \in Seq(S)
  BY DEF IsArgs
<1>. DEFINE T == S \union {x}
<1>2. a \in Seq(T) /\ x \in T
  BY <1>1
<1>. HIDE DEF T
<1>3. Append(a, x) \in Seq(T)
  BY <1>2
<1>. QED  BY <1>2, <1>3 DEF IsArgs

LEMMA DefaultGrows ==
  ASSUME NEW a, IsArgs(a), NEW arg, arg.value # "out", NEW flags, arg.flag \in flags
  PROVE  Grown(a, Default(a, arg), flags) /\ HasFlag(Default(a, arg), arg.flag)
<1>1. CASE HasFlag(a, arg.flag)
  <2>1. Default(a, arg) = a
    BY <1>1 DEF Default
  <2>2. Grown(a, a, flags)
    BY Zenon DEF Grown
  <2>. QED  BY <1>1, <2>1, <2>2
<1>2. CASE ~HasFlag(a, arg.flag)
  <2>. DEFINE b == Append(a, arg)
  <2>1. Default(a, arg) = b
    BY <1>2 DEF Default
  <2>2. Len(a) \in Nat /\ DOMAIN a = 1..Len(a) /\ DOMAIN b = 1..(Len(a) + 1) /\ IsArgs(b)
    BY AppendIs
  <2>3. \A i \in DOMAIN a : b[i] = a[i]
    BY AppendIs
  <2>4. b[Len(a) + 1] = arg
    BY AppendIs
  <2>. HIDE DEF b
  <2>5. Grown(a, b, flags)
    <3>1. \A i \in DOMAIN b : i \in DOMAIN a \/ i = Len(a) + 1
      BY <2>2
    <3>2. \A i \in DOMAIN b : i \in DOMAIN a \/ (b[i].flag \in flags /\ b[i].value # "out")
      <4>. TAKE i \in DOMAIN b
      <4>. QED  BY <2>4, <3>1
    <3>3. DOMAIN a \subseteq DOMAIN b
      BY <2>2
    <3>. QED  BY <2>2, <2>3, <3>2, <3>3 DEF Grown
  <2>6. HasFlag(b, arg.flag)
    BY <2>2, <2>4 DEF HasFlag
  <2>. QED  BY <2>1, <2>5, <2>6
<1>. QED  BY <1>1, <1>2

LEMMA GrownTwice ==
  ASSUME NEW a, NEW b, NEW c, NEW flags, Grown(a, b, flags), Grown(b, c, flags)
  PROVE  Grown(a, c, flags)
BY DEF Grown

LEMMA GrownHas ==
  ASSUME NEW a, NEW b, NEW flags, Grown(a, b, flags), NEW f, HasFlag(a, f)
  PROVE  HasFlag(b, f)
BY DEF Grown, HasFlag

(* A flag the gate sees in an argv that runs is a flag of it.               *)
LEMMA SeenIsSet ==
  ASSUME NEW a, Runs(a), NEW f \in Options
  PROVE  HasFlag(a, f) <=> IsSet(a, f)
BY DEF Runs, HasFlag, IsSet

(* What the allowlist says of a token, command by command.                  *)
LEMMA PlanTokenIs ==
  ASSUME NEW allow, NEW t, TokenAllowed("plan", allow, t)
  PROVE  /\ t.flag \in {"none", "--approve", "--go", "--model", "--registry", "--trace",
                        "--tenant", "--approval-timeout"}
         /\ t.flag = "--model" => allow.model
         /\ t.flag = "--trace" => t.value # "out"
BY SMT DEF TokenAllowed, Allowed, Command, ChoicesOf

LEMMA AgentTokenIs ==
  ASSUME NEW allow, NEW t, TokenAllowed("agent", allow, t)
  PROVE  /\ t.flag \in {"none", "--model", "--executor", "--workspace", "--max-seconds", "--deny"}
         /\ t.flag = "--model" => allow.model
         /\ t.flag = "--workspace" => t.value # "out"
BY SMT DEF TokenAllowed, Allowed, Command, ChoicesOf

LEMMA TraceTokenIs ==
  ASSUME NEW allow, NEW t, TokenAllowed("trace", allow, t)
  PROVE  t.flag = "none" /\ t.value # "out"
BY SMT DEF TokenAllowed, Allowed, Command, ChoicesOf

(* What is injected.                                                        *)
AddedToPlan == {"--approve", "--approval-timeout", "--trace"}
AddedToAgent == {"--workspace", "--max-seconds", "--deny", "--trace"}

LEMMA DefaultIsArgs ==
  ASSUME NEW a, IsArgs(a), NEW flags, NEW f, f \in flags, NEW v, v # "out", NEW n
  PROVE  Grown(a, Default(a, Arg(f, v, n)), flags) /\ HasFlag(Default(a, Arg(f, v, n)), f)
<1>1. Arg(f, v, n).value # "out" /\ Arg(f, v, n).flag = f
  BY DEF Arg
<1>. QED  BY <1>1, DefaultGrows

LEMMA AddedAre ==
  /\ "--approve" \in AddedToPlan /\ "--approval-timeout" \in AddedToPlan /\ "--trace" \in AddedToPlan
  /\ "--workspace" \in AddedToAgent /\ "--max-seconds" \in AddedToAgent /\ "--deny" \in AddedToAgent
  /\ "--trace" \in AddedToAgent
  /\ "none" # "out" /\ "number" # "out" /\ "in" # "out" /\ "Bash" # "out"
BY DEF AddedToPlan, AddedToAgent

LEMMA GrownSame ==
  ASSUME NEW a, IsArgs(a), NEW flags
  PROVE  Grown(a, a, flags)
BY DEF Grown

LEMMA BudgetIs ==
  ASSUME NEW name, NEW a
  PROVE  /\ Budget(name, a) \in Nat \ {0} /\ 2 * Margin <= Budget(name, a)
<1>1. {Reader, Work, Margin, Cap} \subseteq Nat \ {0} /\ 2 * Margin <= Reader /\ Reader <= Work
  BY BudgetsAssumption
<1>2. Budget(name, a) = Work \/ Budget(name, a) = Reader
  BY DEF Budget
<1>3. Budget(name, a) \in Nat \ {0} /\ 2 * Margin <= Budget(name, a)
  BY <1>1, <1>2
<1>. QED  BY <1>3

(* A plan's argv: the approval is forced, and the trace is there.           *)
LEMMA PlanIsInjected ==
  ASSUME NEW a, IsArgs(a)
  PROVE  /\ Grown(a, Injected("plan", a), AddedToPlan)
         /\ HasFlag(Injected("plan", a), "--trace")
         /\ HasFlag(a, "--go") \/ FlagValue(a, "--registry") = "stdlib"
              => HasFlag(Injected("plan", a), "--approve")
<1>. DEFINE b == ForcedApproval(a)
            c == Timed(b)
            d == Traced(c)
<1>1. /\ Grown(a, b, AddedToPlan)
      /\ HasFlag(a, "--go") \/ FlagValue(a, "--registry") = "stdlib" => HasFlag(b, "--approve")
  <2>1. Grown(a, Default(a, Approve), AddedToPlan) /\ HasFlag(Default(a, Approve), "--approve")
    BY DefaultIsArgs, AddedAre DEF Approve
  <2>. QED  BY <2>1, GrownSame DEF ForcedApproval
<1>2. IsArgs(b)
  BY <1>1 DEF Grown
<1>. HIDE DEF b
<1>3. Grown(b, c, AddedToPlan)
  <2>. DEFINE n == Share(Budget("plan", b), HasFlag(b, "--go"))
  <2>. HIDE DEF n
  <2>2. Grown(b, Default(b, Arg("--approval-timeout", "number", n)), AddedToPlan)
    BY <1>2, DefaultIsArgs, AddedAre
  <2>. QED  BY <1>2, <2>2, GrownSame DEF Timed, n
<1>4. IsArgs(c)
  BY <1>3 DEF Grown
<1>. HIDE DEF c
<1>5. Grown(c, d, AddedToPlan) /\ HasFlag(d, "--trace")
  BY <1>4, DefaultIsArgs, AddedAre DEF Traced
<1>. HIDE DEF d
<1>6. Injected("plan", a) = d
  BY DEF Injected, b, c, d
<1>7. Grown(a, d, AddedToPlan)
  BY <1>1, <1>3, <1>5, GrownTwice
<1>8. HasFlag(b, "--approve") => HasFlag(d, "--approve")
  BY <1>3, <1>5, GrownTwice, GrownHas
<1>. QED  BY <1>1, <1>5, <1>6, <1>7, <1>8

LEMMA AgentIsInjected ==
  ASSUME NEW a, IsArgs(a)
  PROVE  Grown(a, Injected("agent", a), AddedToAgent) /\ HasFlag(Injected("agent", a), "--trace")
<1>. DEFINE b == Default(a, Arg("--workspace", "in", 0))
            n == Largest(Margin, Work - Margin)
            c == Default(b, Arg("--max-seconds", "number", n))
            d == Tempered(c)
            e == Traced(d)
<1>1. Grown(a, b, AddedToAgent)
  BY DefaultIsArgs, AddedAre
<1>2. IsArgs(b)
  BY <1>1 DEF Grown
<1>. HIDE DEF b
<1>. HIDE DEF n
<1>4. Grown(b, c, AddedToAgent)
  BY <1>2, DefaultIsArgs, AddedAre
<1>5. IsArgs(c)
  BY <1>4 DEF Grown
<1>. HIDE DEF c
<1>6. Grown(c, d, AddedToAgent)
  <2>1. Grown(c, Default(c, Arg("--deny", "Bash", 0)), AddedToAgent)
    BY <1>5, DefaultIsArgs, AddedAre
  <2>. QED  BY <1>5, <2>1, GrownSame DEF Tempered
<1>7. IsArgs(d)
  BY <1>6 DEF Grown
<1>. HIDE DEF d
<1>8. Grown(d, e, AddedToAgent) /\ HasFlag(e, "--trace")
  BY <1>7, DefaultIsArgs, AddedAre DEF Traced
<1>. HIDE DEF e
<1>9. Injected("agent", a) = e
  BY DEF Injected, b, c, d, e, n
<1>. QED  BY <1>1, <1>4, <1>6, <1>8, <1>9, GrownTwice

(* The argv as it was typed, before anything is added.                      *)
AsTyped == [i \in DOMAIN request.tokens |-> Arg(request.tokens[i].flag, request.tokens[i].value, request.tokens[i].num)]

GateLetIn ==
  /\ request.name \in {"plan", "agent", "trace"}
  /\ IsArgs(AsTyped) /\ DOMAIN AsTyped = DOMAIN request.tokens
  /\ \A i \in DOMAIN AsTyped :
       /\ AsTyped[i].flag = request.tokens[i].flag /\ AsTyped[i].value = request.tokens[i].value
       /\ TokenAllowed(request.name, request.allow, request.tokens[i])
  /\ argv = Injected(request.name, AsTyped)
  /\ HostTools(request.name, AsTyped) => request.allow.model /\ request.allow.agent
  /\ ~TooLong(request.name, argv)

LEMMA LetIn ==
  ASSUME Init, bot.at = "start"
  PROVE  GateLetIn
<1>1. PICK r \in Requests : request.name = r.name /\ request.tokens = r.tokens
  BY DEF Init
<1>2. request.name \in {"plan", "agent", "trace"} /\ request.tokens \in Seq(Word)
  BY <1>1, RequestsAssumption
<1>3. DOMAIN request.tokens = 1..Len(request.tokens) /\ Len(request.tokens) \in Nat
  BY <1>2
<1>4. argv = AdmitCommand(request.name, request.allow, request.tokens) /\ argv # Refused
  BY DEF Init
<1>5. IsArgs(AsTyped)
  <2>. DEFINE S == {Arg(request.tokens[i].flag, request.tokens[i].value, request.tokens[i].num) : i \in DOMAIN request.tokens}
  <2>1. \A i \in DOMAIN request.tokens : AsTyped[i] \in S
    BY DEF AsTyped
  <2>2. AsTyped = [i \in 1..Len(request.tokens) |-> AsTyped[i]]
    BY <1>3 DEF AsTyped
  <2>. HIDE DEF S
  <2>3. AsTyped \in [1..Len(request.tokens) -> S]
    BY <1>3, <2>1, <2>2
  <2>4. AsTyped \in Seq(S)
    BY <1>3, <2>3
  <2>. QED  BY <2>4 DEF IsArgs
<1>6. \A i \in DOMAIN AsTyped :
        AsTyped[i].flag = request.tokens[i].flag /\ AsTyped[i].value = request.tokens[i].value
  BY DEF AsTyped, Arg
<1>7. /\ \A i \in DOMAIN request.tokens : TokenAllowed(request.name, request.allow, request.tokens[i])
      /\ argv = Injected(request.name, AsTyped)
      /\ HostTools(request.name, AsTyped) => request.allow.model /\ request.allow.agent
      /\ ~TooLong(request.name, argv)
  <2>. DEFINE stopped ==
         \/ \E i \in DOMAIN request.tokens : ~TokenAllowed(request.name, request.allow, request.tokens[i])
         \/ Repeated(request.name, request.tokens)
         \/ HostTools(request.name, AsTyped) /\ ~(request.allow.model /\ request.allow.agent)
         \/ TooLong(request.name, Injected(request.name, AsTyped))
  <2>1. AdmitCommand(request.name, request.allow, request.tokens)
          = IF stopped THEN Refused ELSE Injected(request.name, AsTyped)
    BY DEF AdmitCommand, AsTyped
  <2>2. ~stopped /\ argv = Injected(request.name, AsTyped)
    <3>. HIDE DEF stopped
    <3>. QED  BY <1>4, <2>1
  <2>. QED  BY <2>2
<1>8. DOMAIN AsTyped = DOMAIN request.tokens
  BY DEF AsTyped
<1>. QED  BY <1>2, <1>5, <1>6, <1>7, <1>8 DEF GateLetIn

(* A wait the gate let through ends before the runner's kill.               *)
LEMMA WaitIsShort ==
  ASSUME GateLetIn, request.name = "plan", HasFlag(argv, "--approve")
  PROVE  Wait \in 1..(RunBudget - 1)
<1>1. Wait \in 1..WaitCeiling(RunBudget)
  BY DEF GateLetIn, TooLong, Wait, RunBudget
<1>2. RunBudget \in Nat \ {0} /\ 2 * Margin <= RunBudget /\ Margin \in Nat \ {0}
  BY BudgetIs, BudgetsAssumption DEF RunBudget
<1>. HIDE DEF RunBudget
<1>3. WaitCeiling(RunBudget) \in Int /\ WaitCeiling(RunBudget) <= RunBudget - 1
  BY <1>2 DEF WaitCeiling, Largest
<1>. QED  BY <1>1, <1>2, <1>3

LEMMA PlanRunsAsAdmitted ==
  ASSUME GateLetIn, request.name = "plan", Runs(argv)
  PROVE  AdmittedIsWhatRuns
<1>. DEFINE a == AsTyped
<1>1. /\ Grown(a, argv, AddedToPlan) /\ HasFlag(argv, "--trace")
      /\ HasFlag(a, "--go") \/ FlagValue(a, "--registry") = "stdlib" => HasFlag(argv, "--approve")
  BY PlanIsInjected DEF GateLetIn
<1>2. \A i \in DOMAIN a :
        /\ a[i].flag \in {"none", "--approve", "--go", "--model", "--registry", "--trace",
                          "--tenant", "--approval-timeout"}
        /\ a[i].flag = "--model" => request.allow.model
        /\ a[i].flag = "--trace" => a[i].value # "out"
  BY PlanTokenIs DEF GateLetIn
<1>. HIDE DEF a
<1>3. IsSet(argv, "--model") <=> IsSet(a, "--model")
  BY <1>1, GrownIsReadAlike DEF AddedToPlan
<1>4. IsSet(argv, "--go") <=> IsSet(a, "--go")
  BY <1>1, GrownIsReadAlike DEF AddedToPlan
<1>5. FlagValue(argv, "--registry") = FlagValue(a, "--registry")
  BY <1>1, GrownIsReadAlike DEF AddedToPlan, FlagValue
<1>6. IsSet(argv, "--model") => request.allow.model
  BY <1>2, <1>3 DEF IsSet
<1>7. FlagValue(argv, "--registry") = "stdlib" => request.allow.model /\ request.allow.agent
  BY <1>5 DEF GateLetIn, HostTools, a
<1>8. Go \/ FlagValue(argv, "--registry") = "stdlib" => IsSet(argv, "--approve")
  <2>1. IsSet(a, "--go") => HasFlag(a, "--go")
    BY DEF IsSet, HasFlag
  <2>2. HasFlag(argv, "--approve") => IsSet(argv, "--approve")
    BY SeenIsSet DEF Options
  <2>. QED  BY <1>1, <1>4, <1>5, <2>1, <2>2 DEF Go
<1>9. "out" \notin Paths("plan", argv)
  <2>. SUFFICES ASSUME NEW i \in DOMAIN argv, argv[i].flag \in {"--trace", "--workspace"}
                PROVE  argv[i].value # "out"
    BY DEF Paths
  <2>1. CASE i \in DOMAIN a
    BY <1>1, <1>2, <2>1 DEF Grown
  <2>2. CASE i \notin DOMAIN a
    BY <1>1, <2>2 DEF Grown
  <2>. QED  BY <2>1, <2>2
<1>10. IsSet(argv, "--approve") => Wait \in 1..(RunBudget - 1)
  BY WaitIsShort DEF IsSet, HasFlag
<1>11. IsSet(argv, "--trace")
  BY <1>1, SeenIsSet DEF Options
<1>. QED  BY <1>6, <1>7, <1>8, <1>9, <1>10, <1>11 DEF AdmittedIsWhatRuns

LEMMA AgentRunsAsAdmitted ==
  ASSUME GateLetIn, request.name = "agent", Runs(argv)
  PROVE  AdmittedIsWhatRuns
<1>. DEFINE a == AsTyped
<1>1. Grown(a, argv, AddedToAgent) /\ HasFlag(argv, "--trace")
  BY AgentIsInjected DEF GateLetIn
<1>2. \A i \in DOMAIN a :
        /\ a[i].flag \in {"none", "--model", "--executor", "--workspace", "--max-seconds", "--deny"}
        /\ a[i].flag = "--workspace" => a[i].value # "out"
  BY AgentTokenIs DEF GateLetIn
<1>. HIDE DEF a
<1>3. request.allow.model /\ request.allow.agent
  BY DEF GateLetIn, HostTools
<1>4. ~IsSet(argv, "--approve")
  BY <1>1, <1>2 DEF Grown, AddedToAgent, IsSet
<1>5. "out" \notin Paths("agent", argv)
  <2>. SUFFICES ASSUME NEW i \in DOMAIN argv, argv[i].flag \in {"--trace", "--workspace"}
                PROVE  argv[i].value # "out"
    BY DEF Paths
  <2>1. CASE i \in DOMAIN a
    BY <1>1, <1>2, <2>1 DEF Grown
  <2>2. CASE i \notin DOMAIN a
    BY <1>1, <2>2 DEF Grown
  <2>. QED  BY <2>1, <2>2
<1>6. IsSet(argv, "--trace")
  BY <1>1, SeenIsSet DEF Options
<1>. QED  BY <1>3, <1>4, <1>5, <1>6 DEF AdmittedIsWhatRuns

LEMMA TraceRunsAsAdmitted ==
  ASSUME GateLetIn, request.name = "trace", Runs(argv)
  PROVE  AdmittedIsWhatRuns
<1>1. argv = AsTyped
  BY DEF GateLetIn, Injected
<1>2. \A i \in DOMAIN argv : argv[i].flag = "none" /\ argv[i].value # "out"
  BY <1>1, TraceTokenIs DEF GateLetIn
<1>3. ~IsSet(argv, "--approve") /\ ~IsSet(argv, "--model") /\ "out" \notin Paths("trace", argv)
  BY <1>2 DEF IsSet, Paths
<1>4. FlagValue(argv, "--registry") # "stdlib"
  <2>1. {i \in DOMAIN argv : argv[i].flag = "--registry"} = {}
    BY <1>2
  <2>. QED  BY <2>1 DEF FlagValue, LastOf, NoArg, Arg
<1>. QED  BY <1>3, <1>4 DEF AdmittedIsWhatRuns

LEMMA WhatIsLetInRuns ==
  ASSUME Init
  PROVE  AdmittedIsWhatRuns
<1>1. ~(bot.at = "start" /\ Runs(argv)) => AdmittedIsWhatRuns
  BY DEF AdmittedIsWhatRuns
<1>2. ASSUME bot.at = "start", Runs(argv) PROVE AdmittedIsWhatRuns
  BY <1>2, LetIn, PlanRunsAsAdmitted, AgentRunsAsAdmitted, TraceRunsAsAdmitted DEF GateLetIn
<1>. QED  BY <1>1, <1>2

(***************************************************************************)
(* The bot.                                                                *)
(***************************************************************************)
AnyPlan == Plans \union {None}
Bots ==
  [at : {"start", "plain", "live", "joining", "final", "final late", "reply", "done", "done late"},
   told : BOOLEAN]
Children ==
  [at : Live \union {"none", "exited", "killed", "killed parked"}, round : Nat,
   plan : AnyPlan, clock : Nat, waited : Nat]
Files == [request : AnyPlan, decision : [plan : AnyPlan, yes : BOOLEAN]]
Views == [text : {None, "progress"}, button : AnyPlan]
Tails == [at : {"off", "poll", "sending", "dead"}, view : Views]
Messages == [text : {None, "starting", "progress", "final"}, button : AnyPlan]
ClickStates == [at : {"none", "clicked", "checked"}, plan : AnyPlan, yes : BOOLEAN]
People == [seen : SUBSET AnyPlan, yes : SUBSET AnyPlan, used : Nat]

BotTyped ==
  /\ bot \in Bots /\ child \in Children /\ trace \in AnyPlan /\ files \in Files /\ tail \in Tails
  /\ message \in Messages /\ click \in ClickStates /\ person \in People
  /\ accepted \in SUBSET AnyPlan

(* Every yes on its way to the gate is one that somebody said to its plan,  *)
(* and only the last edit says that it is final.                            *)
YesIsMeant ==
  /\ accepted \subseteq person.yes
  /\ files.decision.yes => files.decision.plan \in person.yes
  /\ click.at # "none" /\ click.yes => click.plan \in person.yes

FinalHasNoButton == message.text = "final" => message.button = None

BotInv == BotTyped /\ AdmittedIsWhatRuns /\ YesIsMeant /\ FinalHasNoButton

LEMMA BotInvAtFirst ==
  ASSUME Init PROVE BotInv
<1>1. None \in AnyPlan
  BY DEF AnyPlan
<1>2. BotTyped
  <2>1. bot \in Bots /\ child \in Children
    BY <1>1 DEF Init, Bots, Children
  <2>2. tail \in Tails /\ message \in Messages
    BY <1>1 DEF Init, Tails, Views, Messages, View
  <2>3. files \in Files /\ click \in ClickStates /\ person \in People
    BY <1>1 DEF Init, Files, ClickStates, People, NoDecision
  <2>. QED  BY <1>1, <2>1, <2>2, <2>3 DEF Init, BotTyped
<1>3. YesIsMeant /\ FinalHasNoButton
  BY DEF Init, YesIsMeant, FinalHasNoButton, View, NoDecision, None
<1>. QED  BY <1>2, <1>3, WhatIsLetInRuns DEF BotInv

LEMMA TickTypes ==
  ASSUME child \in Children, Tick PROVE child' \in Children
<1>1. child.clock \in Nat /\ child.waited \in Nat
  BY DEF Children
<1>. DEFINE w == IF child.at = "parked" THEN child.waited + 1 ELSE child.waited
            n == child.clock + 1
<1>2. child' = [child EXCEPT !.clock = n, !.waited = w]
  BY DEF Tick
<1>3. n \in Nat /\ w \in Nat
  BY <1>1
<1>. HIDE DEF n, w
<1>. QED  BY <1>2, <1>3 DEF Children

LEMMA EndsTypes ==
  ASSUME child \in Children, Ends PROVE child' \in Children
<1>1. child.round \in Nat
  BY DEF Children
<1>. DEFINE n == child.round + 1
<1>2. \/ child' = [child EXCEPT !.at = "planning", !.round = n, !.plan = None]
      \/ child' = [child EXCEPT !.at = "exited"]
  BY DEF Ends
<1>3. n \in Nat
  BY <1>1
<1>. HIDE DEF n
<1>. QED  BY <1>2, <1>3 DEF Children, AnyPlan, Live

LEMMA ClickerTypes ==
  ASSUME person \in People, NEW p \in Plans, NEW yes \in BOOLEAN, Clicks(p, yes)
  PROVE  person' \in People
<1>1. person.used \in Nat /\ person.yes \in SUBSET AnyPlan /\ p \in AnyPlan
  BY DEF People, AnyPlan
<1>. DEFINE n == person.used + 1
            y == IF yes THEN person.yes \union {p} ELSE person.yes
<1>2. person' = [person EXCEPT !.used = n, !.yes = y]
  BY DEF Clicks
<1>3. n \in Nat /\ y \in SUBSET AnyPlan
  BY <1>1
<1>. HIDE DEF n, y
<1>. QED  BY <1>2, <1>3 DEF People

(* No step goes back to the gate.                                           *)
LEMMA BotMoved ==
  ASSUME NEW b \in Bots, NEW x \in {"plain", "live", "joining", "final", "final late", "reply"}
  PROVE  [b EXCEPT !.at = x] \in Bots /\ [b EXCEPT !.at = x].at # "start"
BY DEF Bots

LEMMA BotStepTypes ==
  ASSUME bot \in Bots, BotStep
  PROVE  bot' \in Bots /\ bot'.at # "start" /\ UNCHANGED <<request, argv>>
<1>1. CASE Starts
  BY <1>1, BotMoved DEF Starts
<1>2. CASE Returns
  BY <1>2, BotMoved DEF Returns
<1>3. CASE Joins
  BY <1>3, BotMoved DEF Joins
<1>4. CASE Finishes
  <2>1. \/ bot' = [at |-> "done", told |-> TRUE] \/ bot' = [at |-> "done late", told |-> TRUE]
        \/ bot' = [bot EXCEPT !.at = "reply"]
    BY <1>4 DEF Finishes, Undelivered
  <2>2. bot' \in Bots /\ bot'.at # "start"
    <3>1. /\ [at |-> "done", told |-> TRUE] \in Bots /\ [at |-> "done late", told |-> TRUE] \in Bots
          /\ [at |-> "done", told |-> TRUE].at # "start" /\ [at |-> "done late", told |-> TRUE].at # "start"
      BY DEF Bots
    <3>2. [bot EXCEPT !.at = "reply"] \in Bots /\ [bot EXCEPT !.at = "reply"].at # "start"
      BY BotMoved
    <3>. QED  BY <2>1, <3>1, <3>2
  <2>. QED  BY <1>4, <2>2 DEF Finishes
<1>5. CASE Replies
  BY <1>5 DEF Replies, Bots
<1>. QED  BY <1>1, <1>2, <1>3, <1>4, <1>5 DEF BotStep

LEMMA OthersLeaveTheBot ==
  ASSUME Next, ~BotStep
  PROVE  UNCHANGED <<request, argv, bot>>
BY DEF Next, ChildEnds, Tick, Killed, WaitEnds, Unpark, Proposes, Clicks, Asks, Answered, Ends, Renders,
       Narrates, ClickReads, ClickWrites

LEMMA AdmittedKeeps ==
  ASSUME BotInv, Next
  PROVE  AdmittedIsWhatRuns'
<1>1. UNCHANGED <<request, argv>> /\ (bot'.at = "start" => bot.at = "start")
  BY BotStepTypes, OthersLeaveTheBot DEF BotInv, BotTyped
<1>2. AdmittedIsWhatRuns
  BY DEF BotInv
<1>. QED  BY <1>1, <1>2 DEF AdmittedIsWhatRuns, Go, Wait, RunBudget

(* The bot's own steps.                                                     *)
LEMMA BotStepKeeps ==
  ASSUME BotInv, BotStep
  PROVE  BotTyped' /\ YesIsMeant' /\ FinalHasNoButton'
<1>0. BotTyped /\ YesIsMeant /\ FinalHasNoButton /\ None \in AnyPlan /\ bot' \in Bots
  BY BotStepTypes DEF BotInv, BotTyped, AnyPlan
<1>1. CASE Starts
  <2>1. child' \in Children /\ tail' \in Tails /\ message' \in Messages
    <3>1. child \in Children /\ tail \in Tails /\ message \in Messages
      BY <1>0 DEF BotTyped
    <3>2. child' \in Children
      BY <1>1, <3>1 DEF Starts, StartsChild, Children, Live
    <3>3. tail' \in Tails
      BY <1>1, <3>1 DEF Starts, Tails
    <3>4. message' \in Messages
      BY <1>0, <1>1, <3>1 DEF Starts, Messages, View
    <3>. QED  BY <3>2, <3>3, <3>4
  <2>2. BotTyped' /\ YesIsMeant'
    BY <1>0, <1>1, <2>1 DEF Starts, BotTyped, YesIsMeant
  <2>. QED  BY <1>0, <1>1, <2>2 DEF Starts, FinalHasNoButton, View
<1>2. CASE Returns
  <2>1. tail' \in Tails
    BY <1>0, <1>2 DEF Returns, BotTyped, Tails
  <2>. QED  BY <1>0, <1>2, <2>1 DEF Returns, BotTyped, YesIsMeant, FinalHasNoButton
<1>3. CASE Joins
  BY <1>0, <1>3 DEF Joins, BotTyped, YesIsMeant, FinalHasNoButton
<1>4. CASE Finishes
  <2>1. message' \in Messages /\ person' \in People /\ person'.yes = person.yes
    <3>1. message \in Messages /\ person \in People
      BY <1>0 DEF BotTyped
    <3>2. message' \in Messages
      <4>1. message' = message \/ message' = [text |-> "final", button |-> None]
        BY <1>4 DEF Finishes, Shows, Blocks, View
      <4>. QED  BY <1>0, <3>1, <4>1 DEF Messages
    <3>3. person' \in People /\ person'.yes = person.yes
      BY <1>0, <1>4, <3>1 DEF Finishes, Shows, Blocks, View, People
    <3>. QED  BY <3>2, <3>3
  <2>2. BotTyped' /\ YesIsMeant'
    BY <1>0, <1>4, <2>1 DEF Finishes, BotTyped, YesIsMeant
  <2>3. FinalHasNoButton'
    <3>1. message' = message \/ message' = [text |-> "final", button |-> None]
      BY <1>4 DEF Finishes, Shows, Blocks, View
    <3>. QED  BY <1>0, <3>1 DEF FinalHasNoButton
  <2>. QED  BY <2>2, <2>3
<1>5. CASE Replies
  BY <1>0, <1>5 DEF Replies, BotTyped, YesIsMeant, FinalHasNoButton
<1>. QED  BY <1>1, <1>2, <1>3, <1>4, <1>5 DEF BotStep

(* The command's: it takes the answer that is on disk for the plan it asked *)
(* about, and clears none but that plan's.                                  *)
LEMMA ClearedIs ==
  ASSUME files \in Files, NEW p
  PROVE  /\ Clear(files.decision, p) \in [plan : AnyPlan, yes : BOOLEAN]
         /\ Clear(files.decision, p).yes => Clear(files.decision, p) = files.decision
BY DEF Files, Clear, NoDecision, AnyPlan

LEMMA UnparkKeeps ==
  ASSUME BotInv, NEW then \in {"working", "exited"}, Unpark(then), accepted' \in SUBSET AnyPlan,
         accepted' \subseteq person.yes
  PROVE  BotTyped' /\ YesIsMeant' /\ FinalHasNoButton'
<1>0. BotTyped /\ YesIsMeant /\ FinalHasNoButton /\ None \in AnyPlan
  BY DEF BotInv, AnyPlan
<1>. DEFINE left == Clear(files.decision, child.plan)
<1>1. left \in [plan : AnyPlan, yes : BOOLEAN] /\ (left.yes => left = files.decision)
  BY <1>0, ClearedIs DEF BotTyped
<1>2. files' = [request |-> None, decision |-> left]
  BY DEF Unpark
<1>. HIDE DEF left
<1>3. files' \in Files /\ child' \in Children
  <2>1. child' \in Children
    BY <1>0 DEF Unpark, BotTyped, Children, Live
  <2>. QED  BY <1>0, <1>1, <1>2, <2>1 DEF Files
<1>4. BotTyped'
  BY <1>0, <1>3 DEF Unpark, BotTyped
<1>5. YesIsMeant'
  BY <1>0, <1>1, <1>2 DEF Unpark, YesIsMeant
<1>. QED  BY <1>0, <1>4, <1>5 DEF Unpark, FinalHasNoButton

LEMMA ChildKeeps ==
  ASSUME BotInv, Tick \/ Killed \/ WaitEnds \/ Asks \/ Answered \/ Ends
  PROVE  BotTyped' /\ YesIsMeant' /\ FinalHasNoButton'
<1>0. BotTyped /\ YesIsMeant /\ FinalHasNoButton /\ child \in Children /\ None \in AnyPlan
  BY DEF BotInv, BotTyped, AnyPlan
<1>1. CASE Tick
  BY <1>0, <1>1, TickTypes DEF Tick, BotTyped, YesIsMeant, FinalHasNoButton
<1>2. CASE Killed
  <2>1. child' \in Children
    BY <1>0, <1>2 DEF Killed, Children, Live
  <2>. QED  BY <1>0, <1>2, <2>1 DEF Killed, BotTyped, YesIsMeant, FinalHasNoButton
<1>3. CASE WaitEnds
  BY <1>0, <1>3, UnparkKeeps DEF WaitEnds, BotTyped, YesIsMeant
<1>4. CASE Asks
  <2>. DEFINE left == Clear(files.decision, child.plan)
  <2>1. left \in [plan : AnyPlan, yes : BOOLEAN] /\ (left.yes => left = files.decision)
    BY <1>0, ClearedIs DEF BotTyped
  <2>2. files' = [request |-> child.plan, decision |-> left]
    BY <1>4 DEF Asks
  <2>. HIDE DEF left
  <2>3. files' \in Files /\ child' \in Children
    <3>1. child' \in Children /\ child.plan \in AnyPlan
      BY <1>0, <1>4 DEF Asks, Children, Live
    <3>. QED  BY <2>1, <2>2, <3>1 DEF Files
  <2>4. BotTyped'
    BY <1>0, <1>4, <2>3 DEF Asks, BotTyped
  <2>5. YesIsMeant'
    BY <1>0, <1>4, <2>1, <2>2 DEF Asks, YesIsMeant
  <2>. QED  BY <1>0, <1>4, <2>4, <2>5 DEF Asks, FinalHasNoButton
<1>5. CASE Answered
  <2>1. accepted' \in SUBSET AnyPlan /\ accepted' \subseteq person.yes
    <3>1. files.decision.plan = child.plan /\ child.plan \in AnyPlan
      BY <1>0, <1>5 DEF Answered, Children
    <3>2. accepted \in SUBSET AnyPlan /\ accepted \subseteq person.yes
      BY <1>0 DEF BotTyped, YesIsMeant
    <3>3. accepted' = IF files.decision.yes THEN accepted \union {child.plan} ELSE accepted
      BY <1>5 DEF Answered
    <3>. QED  BY <1>0, <3>1, <3>2, <3>3 DEF YesIsMeant
  <2>2. \E then \in {"working", "exited"} : Unpark(then)
    BY <1>5 DEF Answered
  <2>. QED  BY <2>1, <2>2, UnparkKeeps
<1>6. CASE Ends
  BY <1>0, <1>6, EndsTypes DEF Ends, BotTyped, YesIsMeant, FinalHasNoButton
<1>. QED  BY <1>1, <1>2, <1>3, <1>4, <1>5, <1>6

LEMMA ProposesKeeps ==
  ASSUME BotInv, NEW p \in Plans, Proposes(p)
  PROVE  BotTyped' /\ YesIsMeant' /\ FinalHasNoButton'
<1>1. BotTyped /\ YesIsMeant /\ FinalHasNoButton /\ None \in AnyPlan /\ p \in AnyPlan
  BY DEF BotInv, AnyPlan
<1>2. child' \in Children /\ trace' \in AnyPlan
  BY <1>1 DEF Proposes, BotTyped, Children, Live
<1>. QED  BY <1>1, <1>2 DEF Proposes, BotTyped, YesIsMeant, FinalHasNoButton

(* The thread's, which never says that anything is final.                   *)
LEMMA TailKeeps ==
  ASSUME BotInv, Renders \/ Narrates
  PROVE  BotTyped' /\ YesIsMeant' /\ FinalHasNoButton'
<1>0. BotTyped /\ YesIsMeant /\ FinalHasNoButton /\ None \in AnyPlan
  BY DEF BotInv, AnyPlan
<1>1. tail \in Tails /\ message \in Messages /\ person \in People /\ trace \in AnyPlan
  BY <1>0 DEF BotTyped
<1>2. CASE Renders
  <2>1. tail' \in Tails
    BY <1>1, <1>2 DEF Renders, Rendered, View, Tails, Views
  <2>. QED  BY <1>0, <1>2, <2>1 DEF Renders, BotTyped, YesIsMeant, FinalHasNoButton
<1>3. CASE Narrates
  <2>1. tail' \in Tails
    BY <1>1, <1>3 DEF Narrates, Tails
  <2>2. message' \in Messages
    BY <1>1, <1>3 DEF Narrates, Shows, Blocks, Tails, Views, Messages
  <2>3. person' \in People /\ person'.yes = person.yes
    BY <1>1, <1>3 DEF Narrates, Shows, Blocks, Tails, Views, People
  <2>4. BotTyped' /\ YesIsMeant'
    BY <1>0, <1>3, <2>1, <2>2, <2>3 DEF Narrates, BotTyped, YesIsMeant
  <2>5. FinalHasNoButton'
    <3>1. tail.view.text # "final"
      BY <1>1 DEF Tails, Views, None
    <3>2. message' = message \/ message' = [text |-> tail.view.text, button |-> tail.view.button]
      BY <1>3 DEF Narrates, Shows, Blocks
    <3>. QED  BY <1>0, <3>1, <3>2 DEF FinalHasNoButton
  <2>. QED  BY <2>4, <2>5
<1>. QED  BY <1>2, <1>3

(* A person's clicks, and what is made of one.                              *)
LEMMA ClicksKeeps ==
  ASSUME BotInv, NEW p \in Plans, NEW yes \in BOOLEAN, Clicks(p, yes)
  PROVE  BotTyped' /\ YesIsMeant' /\ FinalHasNoButton'
<1>1. BotTyped /\ YesIsMeant /\ FinalHasNoButton /\ p \in AnyPlan
  BY DEF BotInv, AnyPlan
<1>2. person \in People /\ click \in ClickStates
  BY <1>1 DEF BotTyped
<1>3. person' \in People
  BY <1>2, ClickerTypes
<1>4. click' \in ClickStates
  BY <1>1, <1>2 DEF Clicks, ClickStates
<1>5. BotTyped'
  BY <1>1, <1>3, <1>4 DEF Clicks, BotTyped
<1>6. person'.yes = IF yes THEN person.yes \union {p} ELSE person.yes
  BY <1>2 DEF Clicks, People
<1>7. YesIsMeant'
  BY <1>1, <1>6 DEF Clicks, YesIsMeant
<1>. QED  BY <1>1, <1>5, <1>7 DEF Clicks, FinalHasNoButton

LEMMA ClickIsHandled ==
  ASSUME BotInv, ClickReads \/ ClickWrites
  PROVE  BotTyped' /\ YesIsMeant' /\ FinalHasNoButton'
<1>0. BotTyped /\ YesIsMeant /\ FinalHasNoButton /\ None \in AnyPlan
  BY DEF BotInv, AnyPlan
<1>1. click \in ClickStates /\ files \in Files
  BY <1>0 DEF BotTyped
<1>2. Unclicked \in ClickStates
  BY <1>0 DEF Unclicked, ClickStates
<1>3. CASE ClickReads
  <2>1. click' = Unclicked \/ click' = [click EXCEPT !.at = "checked"]
    <3>1. click' = Unclicked \/ click' = [click EXCEPT !.at = "checked", !.plan = click.plan]
      BY <1>3 DEF ClickReads, Meant
    <3>. QED  BY <1>1, <3>1 DEF ClickStates
  <2>2. click' \in ClickStates
    BY <1>1, <1>2, <2>1 DEF ClickStates
  <2>3. click'.at # "none" => click'.yes = click.yes /\ click'.plan = click.plan
    BY <1>1, <2>1 DEF ClickStates, Unclicked
  <2>4. click.at = "clicked"
    BY <1>3 DEF ClickReads
  <2>5. YesIsMeant'
    BY <1>0, <1>3, <2>3, <2>4 DEF ClickReads, YesIsMeant
  <2>. QED  BY <1>0, <1>3, <2>2, <2>5 DEF ClickReads, BotTyped, FinalHasNoButton
<1>4. CASE ClickWrites
  <2>. DEFINE d == [plan |-> click.plan, yes |-> click.yes]
  <2>1. d \in [plan : AnyPlan, yes : BOOLEAN]
    BY <1>1 DEF ClickStates
  <2>2. files' = [files EXCEPT !.decision = d] /\ click.at = "checked"
    BY <1>4 DEF ClickWrites
  <2>3. d.yes => d.plan \in person.yes
    BY <1>0, <2>2 DEF YesIsMeant
  <2>. HIDE DEF d
  <2>4. files' \in Files /\ files'.decision = d
    BY <1>1, <2>1, <2>2 DEF Files
  <2>5. BotTyped'
    BY <1>0, <1>2, <1>4, <2>4 DEF ClickWrites, BotTyped
  <2>6. YesIsMeant'
    BY <1>0, <1>4, <2>3, <2>4 DEF ClickWrites, YesIsMeant, Unclicked
  <2>. QED  BY <1>0, <1>4, <2>5, <2>6 DEF ClickWrites, FinalHasNoButton
<1>. QED  BY <1>3, <1>4

LEMMA BotKeeps ==
  ASSUME BotInv, [Next]_vars PROVE BotInv'
<1>1. CASE UNCHANGED vars
  <2>1. BotTyped' /\ YesIsMeant' /\ FinalHasNoButton'
    BY <1>1 DEF vars, BotInv, BotTyped, YesIsMeant, FinalHasNoButton
  <2>2. AdmittedIsWhatRuns'
    BY <1>1 DEF vars, BotInv, AdmittedIsWhatRuns, Go, Wait, RunBudget
  <2>. QED  BY <2>1, <2>2 DEF BotInv
<1>2. CASE Next
  <2>1. CASE BotStep \/ ChildEnds
    BY <2>1, BotStepKeeps, ChildKeeps, AdmittedKeeps, <1>2 DEF ChildEnds, BotInv
  <2>2. CASE \E p \in Plans : Proposes(p) \/ \E yes \in BOOLEAN : Clicks(p, yes)
    BY <2>2, ProposesKeeps, ClicksKeeps, AdmittedKeeps, <1>2 DEF BotInv
  <2>3. CASE Asks \/ Answered \/ Ends
    BY <2>3, ChildKeeps, AdmittedKeeps, <1>2 DEF BotInv
  <2>4. CASE Renders \/ Narrates \/ ClickReads \/ ClickWrites
    BY <2>4, TailKeeps, ClickIsHandled, AdmittedKeeps, <1>2 DEF BotInv
  <2>. QED  BY <1>2, <2>1, <2>2, <2>3, <2>4 DEF Next
<1>. QED  BY <1>1, <1>2

(* Whatever is typed, whatever is planned and whatever fails, what runs is  *)
(* what was typed, opted in and inside; a plan is accepted only when        *)
(* somebody said yes to it; and a finished command asks for nothing.        *)
THEOREM BotIsSafeAlways ==
  Spec => []BotIsSafe
<1>1. BotInv => BotIsSafe
  <2>. SUFFICES ASSUME BotInv PROVE BotIsSafe
    OBVIOUS
  <2>1. TypeOK
    BY DEF BotInv, BotTyped, TypeOK, Bots, Children, Tails, ClickStates
  <2>. QED  BY <2>1 DEF BotInv, BotIsSafe, ButtonsAreTrue, YesIsForThePlanShown, YesIsMeant,
                        FinalIsClean, FinalHasNoButton
<1>. QED  BY <1>1, BotInvAtFirst, BotKeeps, PTL DEF Spec
================================================================================
