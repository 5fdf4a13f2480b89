--------------------------- MODULE RfMonitorProofs ---------------------------
(***************************************************************************)
(* Proofs about the transmitters and the programs that watch them: what    *)
(* holds of them whatever is typed, however the passes fall into sweeps    *)
(* and wherever a program is stopped; what the search for carriers returns *)
(* of every spectrum and the baseline of every series of sweeps; and that  *)
(* a baseline is not fooled by numbers.                                    *)
(***************************************************************************)
EXTENDS RfMonitor, FiniteSetTheorems, FunctionTheorems, WellFoundedInduction, TLAPS

----------------------------------------------------------------------------
(* Least elements, folds and orders *)

LEMMA LeastOfNat ==
  ASSUME NEW T, T \subseteq Nat, T # {}
  PROVE  \E x \in T : \A y \in T : x <= y
<1>1. PICK x \in T : \A y \in T : ~(<<y, x>> \in OpToRel(<, Nat))
  BY WFMin, NatLessThanWellFounded, Zenon
<1>2. \A y \in T : ~(y < x)
  BY <1>1, Zenon DEF OpToRel
<1>3. \A y \in T : y \in Nat
  OBVIOUS
<1> QED BY <1>2, <1>3

\* What holds of 0, and of the next number with each, holds of all.
LEMMA UpFromZero ==
  ASSUME NEW T, T \subseteq Nat, 0 \in T, \A n \in T : n + 1 \in T
  PROVE  T = Nat
<1> SUFFICES ASSUME Nat \ T # {} PROVE FALSE
  OBVIOUS
<1>1. PICK n \in Nat \ T : \A m \in Nat \ T : n <= m
  <2>1. PICK U : U = Nat \ T
    OBVIOUS
  <2>2. \E n \in U : \A m \in U : n <= m
    BY <2>1, LeastOfNat
  <2> QED BY <2>1, <2>2
<1>2. n # 0 /\ n - 1 \in Nat
  OBVIOUS
<1>3. n - 1 \in T
  BY <1>1, <1>2
<1> QED BY <1>3

\* What holds of the empty set, and of a set when it holds without some element
\* of it, holds of all subsets.
LEMMA UpFromEmpty ==
  ASSUME NEW S, IsFiniteSet(S), NEW G, {} \in G,
         \A s \in SUBSET S : s # {} => \E x \in s : (s \ {x} \in G => s \in G)
  PROVE  \A s \in SUBSET S : s \in G
<1>0. \A s : s \notin G => s # {}
  OBVIOUS
<1> SUFFICES ASSUME NEW r \in SUBSET S, r \notin G PROVE FALSE
  OBVIOUS
<1>1. \A s \in SUBSET S : IsFiniteSet(s) /\ Cardinality(s) \in Nat
  BY FS_Subset, FS_CardinalityType
<1>2. PICK C : C = {Cardinality(s) : s \in (SUBSET S) \ G}
  OBVIOUS
<1>3. C \subseteq Nat /\ C # {}
  BY <1>1, <1>2
<1>4. PICK c \in C : \A d \in C : c <= d
  BY <1>3, LeastOfNat
<1>5. PICK s \in (SUBSET S) \ G : c = Cardinality(s)
  BY <1>2, <1>4
<1>6. PICK x \in s : s \ {x} \in G => s \in G
  <2>0. s \in SUBSET S /\ s \notin G
    BY <1>5
  <2>1. s \in SUBSET S /\ s # {}
    BY <1>0, <2>0, Zenon
  <2> QED BY <2>1, Zenon
<1>7. s \ {x} \notin G /\ s \ {x} \in SUBSET S
  BY <1>5, <1>6
<1>8. c <= Cardinality(s \ {x})
  BY <1>2, <1>4, <1>7
<1>9. Cardinality(s \ {x}) = Cardinality(s) - 1
  BY <1>1, <1>5, FS_RemoveElement
<1> QED BY <1>1, <1>5, <1>8, <1>9

\* A fold is defined, and stays within a set its steps do not leave.
Folds(S, base, st, pick, g) ==
  \A s \in SUBSET S : g[s] = IF s = {} THEN base ELSE st[<<g[s \ {pick[s]}], pick[s]>>]

LEMMA FoldExists ==
  ASSUME NEW S, IsFiniteSet(S), NEW V, NEW base \in V, NEW st \in [V \X S -> V],
         NEW pick, \A s \in SUBSET S : s # {} => pick[s] \in s
  PROVE  \E g \in [SUBSET S -> V] : Folds(S, base, st, pick, g)
<1> DEFINE eqn(g, s) == g[s] = IF s = {} THEN base ELSE st[<<g[s \ {pick[s]}], pick[s]>>]
           upto(g, k) == \A s \in SUBSET S : Cardinality(s) <= k => eqn(g, s)
<1>0. \A s \in SUBSET S : IsFiniteSet(s) /\ Cardinality(s) \in Nat
  BY FS_Subset, FS_CardinalityType
<1>1. PICK T : T = {k \in Nat : \E g \in [SUBSET S -> V] : upto(g, k)}
  OBVIOUS
<1>2. 0 \in T
  <2>1. PICK g : g = [s \in SUBSET S |-> base]
    OBVIOUS
  <2>2. g \in [SUBSET S -> V]
    BY <2>1
  <2>3. ASSUME NEW s \in SUBSET S, Cardinality(s) <= 0 PROVE eqn(g, s)
    <3>1. s = {}
      BY <1>0, <2>3, FS_EmptySet
    <3> QED BY <2>1, <3>1
  <2> HIDE DEF eqn
  <2> QED BY <1>1, <2>2, <2>3
<1>3. ASSUME NEW k \in T PROVE k + 1 \in T
  <2>0. k \in Nat
    BY <1>1
  <2>1. PICK g \in [SUBSET S -> V] : upto(g, k)
    BY <1>1
  <2>2. PICK h : h = [s \in SUBSET S |-> IF s = {} THEN base ELSE st[<<g[s \ {pick[s]}], pick[s]>>]]
    OBVIOUS
  <2>3. h \in [SUBSET S -> V]
    <3>1. ASSUME NEW s \in SUBSET S, s # {}
          PROVE  st[<<g[s \ {pick[s]}], pick[s]>>] \in V
      <4>1. pick[s] \in S /\ s \ {pick[s]} \in SUBSET S
        BY <3>1
      <4>2. g[s \ {pick[s]}] \in V
        BY <4>1
      <4>3. <<g[s \ {pick[s]}], pick[s]>> \in V \X S
        BY <4>1, <4>2
      <4> QED BY <4>3
    <3> QED BY <2>2, <3>1
  <2>4. ASSUME NEW s \in SUBSET S, Cardinality(s) <= k + 1 PROVE eqn(h, s)
    <3>1. CASE s = {}
      BY <2>2, <3>1
    <3>2. CASE s # {}
      <4>1. PICK t : t = s \ {pick[s]}
        OBVIOUS
      <4>2. t \in SUBSET S /\ pick[s] \in s
        BY <3>2, <4>1
      <4>3. Cardinality(t) = Cardinality(s) - 1
        BY <1>0, <4>1, <4>2, FS_RemoveElement
      <4>4. PICK c, d : c = Cardinality(s) /\ d = Cardinality(t)
        OBVIOUS
      <4>5. c \in Nat /\ c <= k + 1 /\ d = c - 1
        BY <1>0, <2>4, <4>3, <4>4
      <4>6. Cardinality(t) <= k
        BY <2>0, <4>4, <4>5
      <4>7. eqn(g, t)
        BY <2>1, <4>2, <4>6
      <4>8. h[t] = g[t]
        BY <2>2, <4>2, <4>7
      <4> QED BY <2>2, <3>2, <4>1, <4>8
    <3> QED BY <3>1, <3>2
  <2> HIDE DEF eqn
  <2> QED BY <1>1, <2>0, <2>3, <2>4
<1>4. T = Nat
  <2> HIDE DEF upto
  <2>1. T \subseteq Nat
    BY <1>1
  <2> QED BY <1>2, <1>3, <2>1, UpFromZero
<1>5. PICK n \in Nat : n = Cardinality(S)
  BY FS_CardinalityType
<1>6. PICK g \in [SUBSET S -> V] : upto(g, n)
  BY <1>1, <1>4
<1>7. ASSUME NEW s \in SUBSET S PROVE eqn(g, s)
  <2>1. Cardinality(s) <= n
    BY <1>5, FS_Subset
  <2> QED BY <1>6, <2>1
<1> QED BY <1>7 DEF Folds

LEMMA GreatestOfInt ==
  ASSUME NEW T, T \subseteq Int, T # {}, NEW bound \in Int, \A y \in T : y <= bound
  PROVE  \E x \in T : \A y \in T : y <= x
<1>1. PICK U : U = {bound - y : y \in T}
  OBVIOUS
<1>2. U \subseteq Nat /\ U # {}
  <2>1. \A y \in T : y \in Int /\ bound - y \in Nat
    OBVIOUS
  <2> QED BY <1>1, <2>1
<1>3. PICK u \in U : \A v \in U : u <= v
  BY <1>2, LeastOfNat
<1>4. PICK x \in T : u = bound - x
  BY <1>1
<1>5. \A y \in T : bound - x <= bound - y
  BY <1>1, <1>3, <1>4
<1> QED BY <1>5

LEMMA LeastOfFinite ==
  ASSUME NEW S, S \subseteq Int, S # {}, IsFiniteSet(S)
  PROVE  Min(S) \in S /\ \A y \in S : Min(S) <= y
<1>1. PICK G : G = {s \in SUBSET S : s # {} => \E x \in s : \A y \in s : x <= y}
  OBVIOUS
<1>2. {} \in G
  BY <1>1
<1>3. ASSUME NEW s \in SUBSET S, s # {} PROVE \E x \in s : (s \ {x} \in G => s \in G)
  <2>1. PICK x : x \in s
    BY <1>3
  <2>2. ASSUME s \ {x} \in G PROVE s \in G
    <3>1. CASE s \ {x} = {}
      <4>1. \A y \in s : x <= y
        BY <2>1, <3>1
      <4> QED BY <1>1, <2>1, <4>1
    <3>2. CASE s \ {x} # {}
      <4>1. PICK z \in s \ {x} : \A y \in s \ {x} : z <= y
        BY <1>1, <2>2, <3>2
      <4>2. x \in Int /\ z \in Int /\ \A y \in s : y \in Int
        BY <2>1
      <4>3. CASE x <= z
        <5>1. \A y \in s : x <= y
          BY <4>1, <4>2, <4>3
        <5> QED BY <1>1, <2>1, <5>1
      <4>4. CASE z <= x
        <5>1. \A y \in s : z <= y
          BY <4>1, <4>2, <4>4
        <5> QED BY <1>1, <5>1
      <4> QED BY <4>2, <4>3, <4>4
    <3> QED BY <3>1, <3>2
  <2> QED BY <2>1, <2>2
<1>4. S \in G
  BY <1>2, <1>3, UpFromEmpty
<1>5. \E x \in S : \A y \in S : x <= y
  BY <1>1, <1>4
<1> QED BY <1>5 DEF Min

LEMMA ImageFinite ==
  ASSUME NEW S, IsFiniteSet(S), NEW f
  PROVE  IsFiniteSet({f[x] : x \in S})
<1>1. PICK T, g : T = {f[x] : x \in S} /\ g = [x \in S |-> f[x]]
  OBVIOUS
<1>2. g \in Surjection(S, T)
  BY <1>1 DEF Surjection
<1> QED BY <1>1, <1>2, FS_Surjection

LEMMA GreatestOfFinite ==
  ASSUME NEW S, S \subseteq Int, S # {}, IsFiniteSet(S)
  PROVE  Max(S) \in S /\ \A y \in S : Max(S) >= y
<1>1. PICK T : T = {0 - x : x \in S}
  OBVIOUS
<1>2. T \subseteq Int /\ T # {}
  <2>1. \A x \in S : x \in Int
    OBVIOUS
  <2>2. \A x \in S : 0 - x \in Int
    BY <2>1
  <2> QED BY <1>1, <2>2
<1>3. IsFiniteSet(T)
  <2>1. PICK f : f = [x \in S |-> 0 - x]
    OBVIOUS
  <2>2. T = {f[x] : x \in S}
    BY <1>1, <2>1
  <2> QED BY <2>2, ImageFinite
<1>4. PICK u \in T : \A v \in T : u <= v
  BY <1>2, <1>3, LeastOfFinite
<1>5. PICK x \in S : u = 0 - x
  BY <1>1, <1>4
<1>6. ASSUME NEW y \in S PROVE x >= y
  <2>1. 0 - x <= 0 - y /\ x \in Int /\ y \in Int
    BY <1>1, <1>4, <1>5
  <2> QED BY <2>1
<1>7. \E z \in S : \A y \in S : z >= y
  BY <1>6
<1> QED BY <1>7 DEF Max

\* A strict total order of the elements of S.
Orders(R, S) ==
  /\ \A x \in S : <<x, x>> \notin R
  /\ \A x, y \in S : x # y => <<x, y>> \in R \/ <<y, x>> \in R
  /\ \A x, y, z \in S : <<x, y>> \in R /\ <<y, z>> \in R => <<x, z>> \in R

\* Each element once, and none after one it comes before.
Arranges(l, S, R) ==
  /\ l \in [1..Cardinality(S) -> S]
  /\ \A x \in S : \E k \in 1..Cardinality(S) : l[k] = x
  /\ \A j, k \in 1..Cardinality(S) : j < k => <<l[j], l[k]>> \in R

LEMMA InOrderArranges ==
  ASSUME NEW S, IsFiniteSet(S), NEW R, Orders(R, S)
  PROVE  Arranges(InOrder(S, R), S, R)
<1>1. PICK n \in Nat : n = Cardinality(S)
  BY FS_CardinalityType
<1>2. PICK before : before = [x \in S |-> {y \in S : <<y, x>> \in R}]
  OBVIOUS
<1>3. \A x, y \in S : y \in before[x] <=> <<y, x>> \in R
  BY <1>2
<1>4. \A x \in S : x \notin before[x] /\ before[x] \subseteq S
  BY <1>2 DEF Orders
<1>5. PICK place : place = [x \in S |-> Cardinality(before[x])]
  OBVIOUS
<1>6. ASSUME NEW x \in S
      PROVE  IsFiniteSet(before[x]) /\ place[x] \in Nat /\ place[x] < n
  <2>1. /\ IsFiniteSet(before[x]) /\ Cardinality(before[x]) <= Cardinality(S)
        /\ Cardinality(S) = Cardinality(before[x]) => S = before[x]
    BY <1>4, FS_Subset
  <2>2. before[x] # S
    BY <1>4
  <2>3. PICK c \in Nat : c = Cardinality(before[x])
    BY <2>1, FS_CardinalityType
  <2> QED BY <1>1, <1>5, <2>1, <2>2, <2>3
<1>7. ASSUME NEW x \in S, NEW y \in S, <<x, y>> \in R
      PROVE  place[x] < place[y]
  <2>1. before[x] \subseteq before[y]
    BY <1>2, <1>7 DEF Orders
  <2>2. before[x] # before[y]
    BY <1>3, <1>4, <1>7
  <2>3. /\ Cardinality(before[x]) <= Cardinality(before[y])
        /\ Cardinality(before[y]) = Cardinality(before[x]) => before[y] = before[x]
    BY <1>6, <2>1, FS_Subset
  <2> QED BY <1>5, <1>6, <2>2, <2>3
<1>8. ASSUME NEW x \in S, NEW y \in S, place[x] = place[y] PROVE x = y
  <2>1. ASSUME NEW v \in S, NEW w \in S, <<v, w>> \in R PROVE place[v] # place[w]
    BY <1>6, <1>7, <2>1
  <2> QED BY <1>8, <2>1 DEF Orders
<1>9. place \in [S -> 0..(n - 1)]
  BY <1>5, <1>6
<1>10. IsFiniteSet(0..(n - 1)) /\ Cardinality(0..(n - 1)) = n
  <2>1. 0 \in Int /\ n - 1 \in Int
    OBVIOUS
  <2>2. /\ IsFiniteSet(0..(n - 1))
        /\ Cardinality(0..(n - 1)) = IF 0 > n - 1 THEN 0 ELSE (n - 1) - 0 + 1
    BY <2>1, FS_Interval
  <2> QED BY <2>2
<1>11. \A k \in 0..(n - 1) : \E x \in S : place[x] = k
  <2>1. place \in Injection(S, 0..(n - 1))
    BY <1>8, <1>9, Fun_IsInj
  <2>2. place \in Surjection(S, 0..(n - 1))
    BY <1>1, <1>10, <2>1, FS_Injection
  <2> QED BY <2>2 DEF Surjection
<1>12. PICK l : l = InOrder(S, R)
  OBVIOUS
<1>13. \A x \in S : place[x] = Cardinality({y \in S : <<y, x>> \in R})
  BY <1>2, <1>5
<1>14. ASSUME NEW k \in 1..n PROVE l[k] \in S /\ place[l[k]] = k - 1
  <2>1. k - 1 \in 0..(n - 1)
    OBVIOUS
  <2>2. \E x \in S : Cardinality({y \in S : <<y, x>> \in R}) = k - 1
    BY <1>11, <1>13, <2>1
  <2>3. l[k] = CHOOSE x \in S : Cardinality({y \in S : <<y, x>> \in R}) = k - 1
    BY <1>1, <1>12 DEF InOrder
  <2>4. l[k] \in S /\ Cardinality({y \in S : <<y, l[k]>> \in R}) = k - 1
    BY <2>2, <2>3
  <2> QED BY <1>13, <2>4
<1>15. l \in [1..n -> S]
  <2> DEFINE at(k) == CHOOSE x \in S : Cardinality({y \in S : <<y, x>> \in R}) = k - 1
  <2>1. l = [k \in 1..n |-> at(k)]
    BY <1>1, <1>12, Zenon DEF InOrder
  <2> HIDE DEF at
  <2>2. ASSUME NEW k \in 1..n PROVE at(k) \in S
    <3>1. l[k] = at(k)
      BY <2>1
    <3> QED BY <1>14, <3>1
  <2> QED BY <2>1, <2>2
<1>16. \A x \in S : \E k \in 1..n : l[k] = x
  <2>1. ASSUME NEW x \in S PROVE \E k \in 1..n : l[k] = x
    <3>1. PICK k : k = place[x] + 1
      OBVIOUS
    <3>2. k \in 1..n /\ k - 1 = place[x]
      BY <1>6, <3>1
    <3>3. l[k] \in S /\ place[l[k]] = place[x]
      BY <1>14, <3>2
    <3> QED BY <1>8, <3>2, <3>3
  <2> QED BY <2>1
<1>17. ASSUME NEW j \in 1..n, NEW k \in 1..n, j < k PROVE <<l[j], l[k]>> \in R
  <2>1. /\ l[j] \in S /\ l[k] \in S /\ place[l[j]] = j - 1 /\ place[l[k]] = k - 1
    BY <1>14
  <2>2. l[j] # l[k]
    BY <1>17, <2>1
  <2>3. <<l[k], l[j]>> \notin R
    <3>1. ASSUME <<l[k], l[j]>> \in R PROVE FALSE
      <4>1. place[l[k]] < place[l[j]]
        BY <1>7, <2>1, <3>1
      <4> QED BY <1>17, <2>1, <4>1
    <3> QED BY <3>1
  <2> QED BY <2>1, <2>2, <2>3 DEF Orders
<1> QED BY <1>1, <1>12, <1>15, <1>16, <1>17 DEF Arranges

----------------------------------------------------------------------------
(* The carriers of a sweep *)

\* The weight of a bin.
LEMMA LinearPositive ==
  ASSUME NEW power \in Int
  PROVE  Linear(power) \in Nat \ {0}
<1> DEFINE S == 1..(power \div (10 * Db))
           next(g) == [s \in SUBSET S |->
                         IF s = {} THEN 1 ELSE 10 * g[s \ {CHOOSE x \in s : TRUE}]]
<1>1. Linear(power) = (CHOOSE g : g = next(g))[S]
  BY Zenon DEF Linear, FoldSet, MapThenFoldSet
<1>2. IsFiniteSet(S)
  <2>1. 1 \in Int /\ power \div (10 * Db) \in Int
    BY DEF Db
  <2> QED BY <2>1, FS_Interval
<1> HIDE DEF S
<1>3. \E g : g = next(g)
  <2>1. PICK st : st = [p \in (Nat \ {0}) \X S |-> 10 * p[1]]
    OBVIOUS
  <2>2. st \in [(Nat \ {0}) \X S -> Nat \ {0}] /\ 1 \in Nat \ {0}
    BY <2>1
  <2>3. PICK pick : pick = [s \in SUBSET S |-> CHOOSE x \in s : TRUE]
    OBVIOUS
  <2>4. \A s \in SUBSET S : s # {} => pick[s] \in s
    BY <2>3
  <2>5. PICK g \in [SUBSET S -> Nat \ {0}] : Folds(S, 1, st, pick, g)
    BY <1>2, <2>2, <2>4, FoldExists
  <2>6. ASSUME NEW s \in SUBSET S PROVE g[s] = IF s = {} THEN 1 ELSE 10 * g[s \ {CHOOSE x \in s : TRUE}]
    <3>1. CASE s = {}
      BY <2>5, <3>1 DEF Folds
    <3>2. CASE s # {}
      <4>1. pick[s] \in s /\ pick[s] = CHOOSE x \in s : TRUE
        BY <2>3, <2>4, <3>2
      <4>2. g[s \ {pick[s]}] \in Nat \ {0}
        BY <4>1
      <4>3. <<g[s \ {pick[s]}], pick[s]>> \in (Nat \ {0}) \X S
        BY <4>1, <4>2
      <4>4. g[s] = st[<<g[s \ {pick[s]}], pick[s]>>]
        BY <2>5, <3>2 DEF Folds
      <4>5. g[s] = 10 * g[s \ {pick[s]}]
        BY <2>1, <4>3, <4>4
      <4> QED BY <3>2, <4>1, <4>5
    <3> QED BY <3>1, <3>2
  <2>7. g = next(g)
    BY <2>6
  <2> QED BY <2>7
<1>4. PICK h : h = (CHOOSE g : g = next(g))
  OBVIOUS
<1>5. h = next(h)
  BY <1>3, <1>4
<1>6. PICK G : G = {s \in SUBSET S : h[s] \in Nat \ {0}}
  OBVIOUS
<1>7. {} \in G
  BY <1>5, <1>6
<1>8. ASSUME NEW s \in SUBSET S, s # {} PROVE \E x \in s : (s \ {x} \in G => s \in G)
  <2>1. PICK x \in s : x = CHOOSE y \in s : TRUE
    BY <1>8
  <2>2. h[s] = 10 * h[s \ {x}]
    BY <1>5, <1>8, <2>1
  <2>3. s \ {x} \in G => s \in G
    BY <1>6, <2>2
  <2> QED BY <2>3
<1>9. S \in G
  BY <1>2, <1>7, <1>8, UpFromEmpty
<1> QED BY <1>1, <1>4, <1>6, <1>9

\* The sums of the parts of f that its total is made up of.
Sums(f, S, h) ==
  \A s \in SUBSET S :
    h[s] = IF s = {} THEN 0
           ELSE f[CHOOSE x \in s : TRUE] + h[s \ {CHOOSE x \in s : TRUE}]

LEMMA TotalAddsUp ==
  ASSUME NEW S, IsFiniteSet(S), NEW f \in [S -> Int]
  PROVE  \E h \in [SUBSET S -> Int] : Sums(f, S, h) /\ Total(f) = h[S]
<1> DEFINE next(g) == [s \in SUBSET S |->
                         IF s = {} THEN 0
                         ELSE f[CHOOSE x \in s : TRUE] + g[s \ {CHOOSE x \in s : TRUE}]]
<1>0. DOMAIN f = S
  OBVIOUS
<1>1. Total(f) = (CHOOSE g : g = next(g))[S]
  BY <1>0, Zenon DEF Total, FoldFunction, FoldFunctionOnSet, MapThenFoldSet
<1>2. PICK st : st = [p \in Int \X S |-> f[p[2]] + p[1]]
  OBVIOUS
<1>3. st \in [Int \X S -> Int] /\ 0 \in Int
  BY <1>2
<1>4. PICK pick : pick = [s \in SUBSET S |-> CHOOSE x \in s : TRUE]
  OBVIOUS
<1>5. \A s \in SUBSET S : s # {} => pick[s] \in s
  BY <1>4
<1>6. PICK g \in [SUBSET S -> Int] : Folds(S, 0, st, pick, g)
  BY <1>3, <1>5, FoldExists
<1>7. ASSUME NEW s \in SUBSET S
      PROVE  g[s] = IF s = {} THEN 0
                    ELSE f[CHOOSE x \in s : TRUE] + g[s \ {CHOOSE x \in s : TRUE}]
  <2>1. CASE s = {}
    BY <1>6, <2>1 DEF Folds
  <2>2. CASE s # {}
    <3>1. pick[s] \in s /\ pick[s] = CHOOSE x \in s : TRUE
      BY <1>4, <1>5, <2>2
    <3>2. <<g[s \ {pick[s]}], pick[s]>> \in Int \X S
      BY <3>1
    <3>3. g[s] = st[<<g[s \ {pick[s]}], pick[s]>>]
      BY <1>6, <2>2 DEF Folds
    <3>4. g[s] = f[pick[s]] + g[s \ {pick[s]}]
      BY <1>2, <3>2, <3>3
    <3> QED BY <2>2, <3>1, <3>4
  <2> QED BY <2>1, <2>2
<1>8. g = next(g)
  BY <1>7
<1>9. PICK h : h = (CHOOSE k : k = next(k))
  OBVIOUS
<1>10. h = next(h)
  <2> HIDE DEF next
  <2> QED BY <1>8, <1>9
<1>11. PICK G : G = {s \in SUBSET S : h[s] \in Int}
  OBVIOUS
<1>12. {} \in G
  BY <1>10, <1>11
<1>13. ASSUME NEW s \in SUBSET S, s # {} PROVE \E x \in s : (s \ {x} \in G => s \in G)
  <2>1. PICK x \in s : x = CHOOSE y \in s : TRUE
    BY <1>13
  <2>2. h[s] = f[x] + h[s \ {x}]
    BY <1>10, <1>13, <2>1
  <2>3. s \ {x} \in G => s \in G
    BY <1>11, <2>2
  <2> QED BY <2>3
<1>14. \A s \in SUBSET S : s \in G
  BY <1>12, <1>13, UpFromEmpty
<1>15. h \in [SUBSET S -> Int]
  <2>1. DOMAIN h = SUBSET S /\ h = [s \in SUBSET S |-> h[s]]
    BY <1>10
  <2>2. \A s \in SUBSET S : h[s] \in Int
    BY <1>11, <1>14
  <2> QED BY <2>1, <2>2
<1>16. Sums(f, S, h)
  BY <1>10 DEF Sums
<1> QED BY <1>1, <1>9, <1>15, <1>16

\* The centre of a carrier lies among its bins, however loud each of them is.
LEMMA CentreAmongBins ==
  ASSUME NEW bins, IsFiniteSet(bins), bins # {},
         NEW sweep, \A i \in bins : sweep[i].freq \in Int /\ sweep[i].power \in Int,
         NEW low \in Int, NEW high \in Int,
         \A i \in bins : low <= sweep[i].freq /\ sweep[i].freq <= high
  PROVE  /\ WeightedCentre(sweep, bins) \in Int
         /\ low <= WeightedCentre(sweep, bins) /\ WeightedCentre(sweep, bins) <= high
<1>1. PICK w : w = [i \in bins |-> Linear(sweep[i].power)]
  OBVIOUS
<1>2. PICK m : m = [i \in bins |-> sweep[i].freq * w[i]]
  OBVIOUS
<1>3. \A i \in bins : w[i] \in Nat \ {0}
  BY <1>1, LinearPositive
<1>4. w \in [bins -> Int] /\ m \in [bins -> Int]
  BY <1>1, <1>2, <1>3
<1>5. PICK W \in [SUBSET bins -> Int] : Sums(w, bins, W) /\ Total(w) = W[bins]
  BY <1>4, TotalAddsUp
<1>6. PICK M \in [SUBSET bins -> Int] : Sums(m, bins, M) /\ Total(m) = M[bins]
  BY <1>4, TotalAddsUp
<1>7. PICK G : G = {s \in SUBSET bins : /\ W[s] >= 0 /\ (s # {} => W[s] > 0)
                                        /\ low * W[s] <= M[s] /\ M[s] <= high * W[s]}
  OBVIOUS
<1>8. {} \in G
  <2>1. W[{}] = 0 /\ M[{}] = 0
    BY <1>5, <1>6 DEF Sums
  <2> QED BY <1>7, <2>1
<1>9. ASSUME NEW s \in SUBSET bins, s # {} PROVE \E x \in s : (s \ {x} \in G => s \in G)
  <2>1. PICK x \in s : x = CHOOSE y \in s : TRUE
    BY <1>9
  <2>2. W[s] = w[x] + W[s \ {x}] /\ M[s] = m[x] + M[s \ {x}]
    BY <1>5, <1>6, <1>9, <2>1 DEF Sums
  <2>3. ASSUME s \ {x} \in G PROVE s \in G
    <3>1. PICK a, b, c, d, f, u, v : /\ a = W[s \ {x}] /\ b = M[s \ {x}] /\ c = w[x] /\ d = m[x]
                                     /\ f = sweep[x].freq /\ u = W[s] /\ v = M[s]
      OBVIOUS
    <3>2. /\ a \in Int /\ b \in Int /\ c \in Int /\ c > 0 /\ f \in Int /\ d = f * c
          /\ low <= f /\ f <= high /\ u = c + a /\ v = d + b
      BY <1>2, <1>3, <1>4, <2>2, <3>1
    <3>3. a >= 0 /\ low * a <= b /\ b <= high * a
      BY <1>7, <2>3, <3>1
    <3>4. low * c <= d /\ d <= high * c
      BY <3>2
    <3>5. low * u = low * c + low * a /\ high * u = high * c + high * a
      BY <3>2
    <3>6. u > 0 /\ low * u <= v /\ v <= high * u
      <4>1. PICK p, q, r, t, y, z : /\ p = low * c /\ q = low * a /\ r = low * u
                                    /\ t = high * c /\ y = high * a /\ z = high * u
        OBVIOUS
      <4>2. /\ p \in Int /\ q \in Int /\ t \in Int /\ y \in Int /\ d \in Int
            /\ p <= d /\ d <= t /\ q <= b /\ b <= y /\ r = p + q /\ z = t + y
        BY <3>2, <3>3, <3>4, <3>5, <4>1
      <4>3. r <= v /\ v <= z
        BY <3>2, <4>2
      <4> QED BY <3>2, <3>3, <4>1, <4>3
    <3> QED BY <1>7, <3>1, <3>6
  <2> QED BY <2>3
<1>10. bins \in G
  BY <1>8, <1>9, UpFromEmpty
<1>11. PICK u, v : u = W[bins] /\ v = M[bins]
  OBVIOUS
<1>12. u \in Int /\ v \in Int /\ u > 0 /\ low * u <= v /\ v <= high * u
  BY <1>7, <1>10, <1>11
<1>13. WeightedCentre(sweep, bins) = v \div u
  BY <1>1, <1>2, <1>5, <1>6, <1>11, Zenon DEF WeightedCentre
<1>14. PICK c : c = v \div u
  OBVIOUS
<1>15. c \in Int /\ c * u <= v /\ v < c * u + u
  BY <1>12, <1>14
<1>16. low <= c
  <2>1. ASSUME c + 1 <= low PROVE FALSE
    <3>1. (c + 1) * u <= low * u
      BY <1>12, <1>15, <2>1
    <3>2. (c + 1) * u = c * u + u
      BY <1>12, <1>15
    <3> QED BY <1>12, <1>15, <3>1, <3>2
  <2> QED BY <1>15, <2>1
<1>17. c <= high
  <2>1. ASSUME high + 1 <= c PROVE FALSE
    <3>1. (high + 1) * u <= c * u
      BY <1>12, <1>15, <2>1
    <3>2. (high + 1) * u = high * u + u
      BY <1>12, <1>15
    <3> QED BY <1>12, <1>15, <3>1, <3>2
  <2> QED BY <1>15, <2>1
<1> QED BY <1>13, <1>14, <1>15, <1>16, <1>17

\* What a peak is to its neighbours.
LEMMA PeaksAreTops ==
  ASSUME NEW s \in Seq(Int), NEW t, NEW i \in Peaks(s, t)
  PROVE  /\ i \in Int /\ 2 <= i /\ i <= Len(s) - 1
         /\ i \in 1..Len(s) /\ i - 1 \in 1..Len(s) /\ i + 1 \in 1..Len(s)
         /\ s[i] \in Int /\ s[i - 1] \in Int /\ s[i + 1] \in Int
         /\ s[i] >= s[i - 1] /\ s[i] > s[i + 1]
<1>1. PICK n \in Nat : n = Len(s)
  OBVIOUS
<1>2. i \in 2..(n - 1) /\ s[i] >= s[i - 1] /\ s[i] > s[i + 1]
  BY <1>1 DEF Peaks
<1>3. i \in 1..n /\ i - 1 \in 1..n /\ i + 1 \in 1..n
  BY <1>2
<1> QED BY <1>1, <1>2, <1>3

\* The bins of a carrier are among those of the sweep, its peak is one of them.
LEMMA ExtentAroundPeak ==
  ASSUME NEW s \in Seq(Int), NEW t, NEW i \in 1..Len(s)
  PROVE  i \in Extent(s, i, t) /\ Extent(s, i, t) \subseteq 1..Len(s)
<1>1. PICK n \in Nat : n = Len(s) /\ i \in 1..n
  OBVIOUS
<1>2. i..(i - 1) = {}
  BY <1>1
<1> QED BY <1>1, <1>2 DEF Extent

\* Two carriers share at most the dip between their peaks: the bins of one end
\* where those of the next begin, whatever the spectrum (rf.py:268-284, 328-339).
THEOREM ExtentsMeet ==
  ASSUME NEW s \in Seq(Int), NEW t, NEW i \in Peaks(s, t), NEW j \in Peaks(s, t), i < j
  PROVE  \A a \in Extent(s, i, t), b \in Extent(s, j, t) : a <= b
<1>0. PICK n \in Nat : n = Len(s)
  OBVIOUS
<1>1. /\ i \in Int /\ 2 <= i /\ i <= n - 1 /\ s[i] > s[i + 1] /\ i + 1 \in 1..n
  BY <1>0, PeaksAreTops
<1>2. /\ j \in Int /\ 2 <= j /\ j <= n - 1 /\ s[j] >= s[j - 1] /\ j - 1 \in 1..n
  BY <1>0, PeaksAreTops
<1>3. \A k \in 1..n : s[k] \in Int
  BY <1>0
<1>8. Extent(s, i, t) \subseteq 1..n /\ Extent(s, j, t) \subseteq 1..n
  <2>1. i \in 1..n /\ j \in 1..n
    BY <1>1, <1>2
  <2>2. i \in 1..Len(s) /\ j \in 1..Len(s)
    BY <1>0, <2>1
  <2> QED BY <1>0, <2>2, ExtentAroundPeak, Zenon
<1> SUFFICES ASSUME NEW a \in Extent(s, i, t), NEW b \in Extent(s, j, t), b < a PROVE FALSE
  <2>1. \A a \in Extent(s, i, t) : a \in Int
    BY <1>8
  <2>2. \A b \in Extent(s, j, t) : b \in Int
    BY <1>8
  <2> QED BY <2>1, <2>2
<1>4. a \in 1..n /\ b \in 1..n
  BY <1>8
<1>5. CASE b <= i
  <2>1. b \in 1..j /\ i \in b..(j - 1)
    BY <1>1, <1>2, <1>4, <1>5
  <2>2. b \notin j..n
    BY <1>1, <1>2, <1>4, <1>5
  <2>3. \A k \in b..(j - 1) : s[k] < s[k + 1]
    BY <1>0, <2>2 DEF Extent
  <2> QED BY <1>1, <1>3, <2>1, <2>3
<1>6. CASE j <= a
  <2>1. a \in i..n /\ j \in (i + 1)..a
    BY <1>1, <1>2, <1>4, <1>6
  <2>2. a \notin 1..i
    BY <1>1, <1>2, <1>4, <1>6
  <2>3. \A k \in (i + 1)..a : s[k] < s[k - 1]
    BY <1>0, <2>2 DEF Extent
  <2> QED BY <1>2, <1>3, <2>1, <2>3
<1>7. CASE i < b /\ a < j
  <2>1. a \notin 1..i /\ b \notin j..n /\ b + 1 \in (i + 1)..a /\ b \in b..(j - 1) /\ b + 1 \in 1..n
    BY <1>1, <1>2, <1>4, <1>7
  <2>2. \A k \in (i + 1)..a : s[k] < s[k - 1]
    BY <1>0, <2>1 DEF Extent
  <2>3. \A k \in b..(j - 1) : s[k] < s[k + 1]
    BY <1>0, <2>1 DEF Extent
  <2>4. s[b + 1] < s[(b + 1) - 1] /\ s[b] < s[b + 1] /\ (b + 1) - 1 = b
    BY <1>4, <2>1, <2>2, <2>3
  <2> QED BY <1>3, <1>4, <2>1, <2>4
<1> QED BY <1>1, <1>2, <1>4, <1>5, <1>6, <1>7

\* The dip of some bins around a peak is one of them, and the prominence leaves
\* at least that much between the peak and it.
LEMMA ProminenceReached ==
  ASSUME NEW s \in Seq(Int), NEW i \in 1..Len(s)
  PROVE  /\ Prominence(s, i) \in Int
         /\ \E k \in 1..i : /\ \A m \in k..i : s[m] <= s[i]
                            /\ s[k] <= s[i] - Prominence(s, i)
         /\ \E k \in i..Len(s) : /\ \A m \in i..k : s[m] <= s[i]
                                 /\ s[k] <= s[i] - Prominence(s, i)
<1>1. PICK n \in Nat : n = Len(s)
  OBVIOUS
<1>2. i \in 1..n /\ \A k \in 1..n : s[k] \in Int
  BY <1>1
<1>3. PICK left : left = {k \in 1..i : \A j \in k..i : s[j] <= s[i]}
  OBVIOUS
<1>4. PICK right : right = {k \in i..n : \A j \in i..k : s[j] <= s[i]}
  OBVIOUS
<1>5. PICK L, R : L = {s[k] : k \in left} /\ R = {s[k] : k \in right}
  OBVIOUS
<1>6. i \in left /\ i \in right /\ left \subseteq 1..n /\ right \subseteq 1..n
  BY <1>2, <1>3, <1>4
<1>7. IsFiniteSet(left) /\ IsFiniteSet(right)
  <2>1. 1 \in Int /\ n \in Int
    OBVIOUS
  <2>2. IsFiniteSet(1..n)
    BY <2>1, FS_Interval
  <2> QED BY <1>6, <2>2, FS_Subset
<1>8. /\ L \subseteq Int /\ L # {} /\ IsFiniteSet(L)
      /\ R \subseteq Int /\ R # {} /\ IsFiniteSet(R)
  BY <1>2, <1>5, <1>6, <1>7, ImageFinite
<1>9. PICK l, r : l = Min(L) /\ r = Min(R)
  OBVIOUS
<1>10. l \in L /\ r \in R
  BY <1>8, <1>9, LeastOfFinite
<1>11. PICK a \in left, b \in right : l = s[a] /\ r = s[b]
  BY <1>5, <1>10
<1>12. l \in Int /\ r \in Int
  BY <1>8, <1>10
<1>13. PICK top : top = Max({l, r})
  OBVIOUS
<1>14. top \in Int /\ l <= top /\ r <= top
  <2>1. PICK D : D = {l, r}
    OBVIOUS
  <2>2. D \subseteq Int /\ D # {} /\ IsFiniteSet(D)
    <3>1. IsFiniteSet({l})
      BY FS_Singleton
    <3>2. IsFiniteSet({l} \cup {r})
      BY <3>1, FS_AddElement
    <3>3. D = {l} \cup {r}
      BY <2>1
    <3> QED BY <1>12, <2>1, <3>2, <3>3
  <2>3. Max(D) \in D /\ \A y \in D : Max(D) >= y
    BY <2>2, GreatestOfFinite
  <2> QED BY <1>12, <1>13, <2>1, <2>2, <2>3
<1>15. Prominence(s, i) = s[i] - top
  BY <1>1, <1>3, <1>4, <1>5, <1>9, <1>13, Zenon DEF Prominence
<1>16. PICK p : p = Prominence(s, i)
  OBVIOUS
<1>17. s[a] <= s[i] - p /\ s[b] <= s[i] - p
  BY <1>2, <1>11, <1>12, <1>14, <1>15, <1>16
<1>18. /\ a \in 1..i /\ \A m \in a..i : s[m] <= s[i]
       /\ b \in i..n /\ \A m \in i..b : s[m] <= s[i]
  BY <1>3, <1>4, <1>11
<1>19. p \in Int
  BY <1>2, <1>14, <1>15, <1>16
<1> QED BY <1>1, <1>16, <1>17, <1>18, <1>19

\* Between a carrier and a louder one there is a bin that is quieter than the
\* carrier by the least prominence, whatever the spectrum: a ripple on the
\* shoulder of a carrier is not taken for a second one (rf.py:168-201, 328-339).
THEOREM PeaksStandClear ==
  ASSUME NEW s \in Seq(Int), NEW t, NEW i \in Peaks(s, t), NEW j \in Peaks(s, t),
         s[i] < s[j]
  PROVE  \E k \in 1..Len(s) : /\ (i < k /\ k < j) \/ (j < k /\ k < i)
                              /\ s[k] <= s[i] - MinProminence
<1>1. PICK n \in Nat : n = Len(s)
  OBVIOUS
<1>2. \A k \in 1..n : s[k] \in Int
  BY <1>1
<1>3. i \in 1..n /\ j \in 1..n
  BY <1>1, PeaksAreTops
<1>4. PICK p \in Int : p = Prominence(s, i)
  BY <1>1, <1>3, ProminenceReached
<1>5. p >= MinProminence /\ MinProminence = 18
  BY <1>4 DEF Peaks, MinProminence, Db
<1>6. CASE i < j
  <2>1. PICK k \in i..n : (\A m \in i..k : s[m] <= s[i]) /\ s[k] <= s[i] - p
    BY <1>1, <1>3, <1>4, ProminenceReached
  <2>2. k \in 1..n /\ s[k] \in Int /\ s[i] \in Int /\ s[j] \in Int
    BY <1>2, <1>3, <2>1
  <2>3. k # i
    BY <1>5, <2>1, <2>2
  <2>4. ~(j <= k)
    BY <1>3, <1>6, <2>1, <2>2
  <2> QED BY <1>1, <1>3, <1>5, <2>1, <2>2, <2>3, <2>4
<1>7. CASE j < i
  <2>1. PICK k \in 1..i : (\A m \in k..i : s[m] <= s[i]) /\ s[k] <= s[i] - p
    BY <1>1, <1>3, <1>4, ProminenceReached
  <2>2. k \in 1..n /\ s[k] \in Int /\ s[i] \in Int /\ s[j] \in Int
    BY <1>2, <1>3, <2>1
  <2>3. k # i
    BY <1>5, <2>1, <2>2
  <2>4. ~(k <= j)
    BY <1>3, <1>7, <2>1, <2>2
  <2> QED BY <1>1, <1>3, <1>5, <2>1, <2>2, <2>3, <2>4
<1>8. i # j
  BY <1>2, <1>3
<1> QED BY <1>3, <1>6, <1>7, <1>8

Measurement == [freq : Int, power : Int]

Carrier == [peak : Int, power : Int, freq : Int]

LEMMA MeasurementParts ==
  ASSUME NEW sweep \in Seq(Measurement)
  PROVE  /\ Len(sweep) \in Nat /\ DOMAIN sweep = 1..Len(sweep)
         /\ \A i \in 1..Len(sweep) : sweep[i].freq \in Int /\ sweep[i].power \in Int
<1>1. PICK R : R = Measurement
  OBVIOUS
<1>2. sweep \in Seq(R)
  BY <1>1
<1>3. ASSUME NEW i \in 1..Len(sweep) PROVE sweep[i].freq \in Int /\ sweep[i].power \in Int
  <2>1. sweep[i] \in R
    BY <1>2
  <2> QED BY <1>1, <2>1 DEF Measurement
<1> QED BY <1>2, <1>3

LEMMA PowersOfSweep ==
  ASSUME NEW sweep \in Seq(Measurement)
  PROVE  /\ Powers(sweep) \in Seq(Int) /\ Len(Powers(sweep)) = Len(sweep)
         /\ \A i \in 1..Len(sweep) : Powers(sweep)[i] = sweep[i].power
<1>1. PICK n \in Nat : n = Len(sweep) /\ DOMAIN sweep = 1..n
  BY MeasurementParts
<1>2. PICK p : p = [i \in 1..n |-> sweep[i].power]
  OBVIOUS
<1>3. p \in [1..n -> Int]
  <2>1. \A i \in 1..n : sweep[i].power \in Int
    BY <1>1, MeasurementParts
  <2> QED BY <1>2, <2>1
<1>4. Powers(sweep) = SubSeq(p, 1, n)
  BY <1>1, <1>2, Zenon DEF Powers
<1>5. SubSeq(p, 1, n) = p
  BY <1>3
<1> QED BY <1>1, <1>2, <1>3, <1>4, <1>5

LEMMA SmoothIsLevel ==
  ASSUME NEW p \in Seq(Int)
  PROVE  Smooth(p) \in Seq(Int) /\ Len(Smooth(p)) = Len(p)
<1>1. PICK n \in Nat : n = Len(p) /\ DOMAIN p = 1..n
  OBVIOUS
<1> DEFINE near(i) == {i - 1, i, i + 1} \cap DOMAIN p
           at(j) == IF j \in DOMAIN p THEN p[j] ELSE 0
           mean(i) == (at(i - 1) + at(i) + at(i + 1)) \div Cardinality(near(i))
<1>2. ASSUME NEW i \in 1..n PROVE mean(i) \in Int
  <2>1. Cardinality(near(i)) \in Nat \ {0}
    <3>1. PICK D : D = near(i)
      OBVIOUS
    <3>2. IsFiniteSet(1..n)
      <4>1. 1 \in Int /\ n \in Int
        OBVIOUS
      <4> QED BY <4>1, FS_Interval
    <3>3. IsFiniteSet(D) /\ D # {}
      <4>1. D \subseteq 1..n /\ i \in D
        BY <1>1, <3>1
      <4> QED BY <3>2, <4>1, FS_Subset
    <3>4. Cardinality(D) \in Nat /\ Cardinality(D) # 0
      BY <3>3, FS_CardinalityType, FS_EmptySet
    <3> QED BY <3>1, <3>4
  <2>2. \A j : at(j) \in Int
    BY <1>1
  <2> HIDE DEF near, at
  <2>3. PICK a, c : a = at(i - 1) + at(i) + at(i + 1) /\ c = Cardinality(near(i))
    OBVIOUS
  <2>4. a \in Int /\ c \in Nat \ {0}
    BY <2>1, <2>2, <2>3
  <2>5. a \div c \in Int
    BY <2>4
  <2> QED BY <2>3, <2>5
<1>3. Smooth(p) = SubSeq([i \in DOMAIN p |-> mean(i)], 1, Len(p))
  BY Zenon DEF Smooth
<1> HIDE DEF mean
<1>4. PICK m : m = [i \in 1..n |-> mean(i)]
  OBVIOUS
<1>5. m \in [1..n -> Int]
  BY <1>2, <1>4
<1>6. SubSeq(m, 1, n) = m
  BY <1>5
<1> QED BY <1>1, <1>3, <1>4, <1>5, <1>6

\* By frequency, those of one frequency by peak, and no two of one peak.
InOrderOfFrequency(l) ==
  \A j, k \in 1..Len(l) :
    j < k => \/ l[j].freq < l[k].freq /\ l[j].peak # l[k].peak
             \/ l[j].freq = l[k].freq /\ l[j].peak < l[k].peak

\* Every carrier that is found is the one of a peak, and the peaks are those of
\* one spectrum.
OfPeaks(l, sweep) ==
  LET s == Smooth(Powers(sweep))
      t == Threshold(Powers(sweep))
  IN  \A k \in 1..Len(l) :
        /\ l[k].peak \in Peaks(s, t)
        /\ l[k].power = Powers(sweep)[l[k].peak]
        /\ l[k].freq = WeightedCentre(sweep, Extent(s, l[k].peak, t))

\* Without bounds.
LEMMA CentreTyped ==
  ASSUME NEW bins, IsFiniteSet(bins), bins # {},
         NEW sweep, \A i \in bins : sweep[i].freq \in Int /\ sweep[i].power \in Int
  PROVE  WeightedCentre(sweep, bins) \in Int
<1>1. PICK F, freq : freq = [i \in bins |-> sweep[i].freq] /\ F = {freq[i] : i \in bins}
  OBVIOUS
<1>2. F \subseteq Int /\ F # {} /\ IsFiniteSet(F)
  BY <1>1, ImageFinite
<1>3. PICK low \in Int, high \in Int : \A f \in F : low <= f /\ f <= high
  <2>1. /\ Min(F) \in F /\ \A f \in F : Min(F) <= f
        /\ Max(F) \in F /\ \A f \in F : Max(F) >= f
    BY <1>2, LeastOfFinite, GreatestOfFinite
  <2> QED BY <1>2, <2>1
<1>4. \A i \in bins : low <= sweep[i].freq /\ sweep[i].freq <= high
  BY <1>1, <1>3
<1> QED BY <1>4, CentreAmongBins

LEMMA CarriersFound ==
  ASSUME NEW sweep \in Seq(Measurement)
  PROVE  /\ FindCarriers(sweep) \in Seq(Carrier)
         /\ InOrderOfFrequency(FindCarriers(sweep)) /\ OfPeaks(FindCarriers(sweep), sweep)
<1>1. CASE Len(sweep) < MinimumBins
  <2>1. FindCarriers(sweep) = <<>>
    BY <1>1 DEF FindCarriers
  <2> QED BY <2>1 DEF InOrderOfFrequency, OfPeaks
<1>2. CASE ~(Len(sweep) < MinimumBins)
  <2>1. PICK p, s, t : p = Powers(sweep) /\ s = Smooth(p) /\ t = Threshold(p)
    OBVIOUS
  <2>2. PICK n \in Nat : n = Len(sweep)
    BY MeasurementParts
  <2>3. /\ p \in Seq(Int) /\ s \in Seq(Int) /\ Len(p) = n /\ Len(s) = n
    BY <2>1, <2>2, PowersOfSweep, SmoothIsLevel
  <2>4. PICK P : P = Peaks(s, t)
    OBVIOUS
  <2>5. PICK rec : rec = [i \in P |-> [peak |-> i, power |-> p[i],
                                       freq |-> WeightedCentre(sweep, Extent(s, i, t))]]
    OBVIOUS
  <2>6. PICK C : C = {rec[i] : i \in P}
    OBVIOUS
  <2>7. FindCarriers(sweep) = InOrder(C, Lower(C))
    <3>1. C = {[peak |-> i, power |-> p[i],
                freq |-> WeightedCentre(sweep, Extent(s, i, t))] : i \in P}
      BY <2>5, <2>6
    <3> QED BY <1>2, <2>1, <2>4, <3>1, Zenon DEF FindCarriers
  <2>8. IsFiniteSet(1..n) /\ P \subseteq 1..n
    <3>1. 1 \in Int /\ n \in Int
      OBVIOUS
    <3>2. \A i \in P : i \in 1..n
      BY <2>3, <2>4, PeaksAreTops
    <3> QED BY <3>1, <3>2, FS_Interval
  <2>9. IsFiniteSet(C)
    <3>1. IsFiniteSet(P)
      BY <2>8, FS_Subset
    <3> QED BY <2>6, <3>1, ImageFinite
  <2>10. ASSUME NEW i \in P
         PROVE  rec[i] \in Carrier
    <3>1. i \in 1..n
      BY <2>8
    <3>2. PICK bins : bins = Extent(s, i, t)
      OBVIOUS
    <3>3. i \in bins /\ bins \subseteq 1..n
      BY <2>3, <3>1, <3>2, ExtentAroundPeak
    <3>4. IsFiniteSet(bins)
      BY <2>8, <3>3, FS_Subset
    <3>5. \A b \in bins : sweep[b].freq \in Int /\ sweep[b].power \in Int
      BY <2>2, <3>3, MeasurementParts
    <3>6. WeightedCentre(sweep, bins) \in Int
      BY <3>3, <3>4, <3>5, CentreTyped
    <3>7. p[i] \in Int
      BY <2>3, <3>1
    <3> QED BY <2>5, <3>1, <3>2, <3>6, <3>7 DEF Carrier
  <2>11. C \subseteq Carrier
    BY <2>6, <2>10
  <2>12. \A x, y \in C : x # y => x.peak # y.peak
    <3>1. \A i \in P : rec[i].peak = i
      BY <2>5
    <3> QED BY <2>6, <3>1
  <2>13. Orders(Lower(C), C)
    <3>1. \A x \in C : x.peak \in Int /\ x.freq \in Int
      BY <2>11 DEF Carrier
    <3>2. \A x, y \in C : <<x, y>> \in Lower(C) <=> (x.freq < y.freq \/ (x.freq = y.freq /\ x.peak < y.peak))
      BY DEF Lower
    <3>3. \A x \in C : <<x, x>> \notin Lower(C)
      BY <3>1, <3>2
    <3>4. ASSUME NEW x \in C, NEW y \in C, x # y
          PROVE  <<x, y>> \in Lower(C) \/ <<y, x>> \in Lower(C)
      BY <2>12, <3>1, <3>2, <3>4
    <3>5. ASSUME NEW x \in C, NEW y \in C, NEW z \in C,
                 <<x, y>> \in Lower(C), <<y, z>> \in Lower(C)
          PROVE  <<x, z>> \in Lower(C)
      BY <3>1, <3>2, <3>5
    <3> QED BY <3>3, <3>4, <3>5 DEF Orders
  <2>14. PICK l : l = FindCarriers(sweep)
    OBVIOUS
  <2>15. Arranges(l, C, Lower(C))
    BY <2>7, <2>9, <2>13, <2>14, InOrderArranges
  <2>16. PICK c \in Nat : c = Cardinality(C)
    BY <2>9, FS_CardinalityType
  <2>17. l \in [1..c -> C] /\ \A j, k \in 1..c : j < k => <<l[j], l[k]>> \in Lower(C)
    BY <2>15, <2>16 DEF Arranges
  <2>18. l \in Seq(C) /\ Len(l) = c
    BY <2>17
  <2>19. l \in Seq(Carrier)
    BY <2>11, <2>17, <2>18
  <2>20. InOrderOfFrequency(l)
    <3>1. ASSUME NEW j \in 1..c, NEW k \in 1..c, j < k
          PROVE  \/ l[j].freq < l[k].freq /\ l[j].peak # l[k].peak
                 \/ l[j].freq = l[k].freq /\ l[j].peak < l[k].peak
      <4>1. l[j] \in C /\ l[k] \in C /\ <<l[j], l[k]>> \in Lower(C)
        BY <2>17, <3>1
      <4>2. l[j].freq < l[k].freq \/ (l[j].freq = l[k].freq /\ l[j].peak < l[k].peak)
        BY <4>1 DEF Lower
      <4>3. l[j].freq \in Int /\ l[k].freq \in Int /\ l[j].peak \in Int /\ l[k].peak \in Int
        BY <2>11, <4>1 DEF Carrier
      <4>4. l[j] # l[k]
        BY <2>13, <4>1 DEF Orders
      <4> QED BY <2>12, <4>1, <4>2, <4>3, <4>4
    <3> QED BY <2>18, <3>1 DEF InOrderOfFrequency
  <2>21. OfPeaks(l, sweep)
    <3>1. ASSUME NEW k \in 1..c
          PROVE  /\ l[k].peak \in P /\ l[k].power = p[l[k].peak]
                 /\ l[k].freq = WeightedCentre(sweep, Extent(s, l[k].peak, t))
      <4>1. PICK i \in P : l[k] = rec[i]
        BY <2>6, <2>17
      <4> QED BY <2>5, <4>1
    <3> QED BY <2>1, <2>4, <2>18, <3>1 DEF OfPeaks
  <2> QED BY <2>14, <2>19, <2>20, <2>21
<1> QED BY <1>1, <1>2

Ascending(sweep) ==
  \A i, j \in 1..Len(sweep) : i <= j => sweep[i].freq <= sweep[j].freq

\* The centres of the carriers come in the order of their peaks, however loud the
\* bins between are: the sort by frequency never exchanges two of them, and what
\* is reported of one carrier is never another's (rf.py:287-302, 341-354).
THEOREM CentresKeepOrder ==
  ASSUME NEW sweep \in Seq(Measurement), Ascending(sweep)
  PROVE  \A j, k \in 1..Len(FindCarriers(sweep)) :
           j < k => FindCarriers(sweep)[j].peak < FindCarriers(sweep)[k].peak
<1>1. PICK p, s, t : p = Powers(sweep) /\ s = Smooth(p) /\ t = Threshold(p)
  OBVIOUS
<1>2. PICK n \in Nat : n = Len(sweep)
  BY MeasurementParts
<1>3. s \in Seq(Int) /\ Len(s) = n
  BY <1>1, <1>2, PowersOfSweep, SmoothIsLevel
<1>4. IsFiniteSet(1..n)
  <2>1. 1 \in Int /\ n \in Int
    OBVIOUS
  <2> QED BY <2>1, FS_Interval
\* Of two peaks the centre of the first is not above that of the second.
<1>5. ASSUME NEW i \in Peaks(s, t), NEW j \in Peaks(s, t), i < j
      PROVE  WeightedCentre(sweep, Extent(s, i, t)) <= WeightedCentre(sweep, Extent(s, j, t))
  <2>1. PICK A, B : A = Extent(s, i, t) /\ B = Extent(s, j, t)
    OBVIOUS
  <2>2. i \in A /\ j \in B /\ A \subseteq 1..n /\ B \subseteq 1..n
    <3>1. i \in 1..n /\ j \in 1..n
      BY <1>3, PeaksAreTops
    <3> QED BY <1>3, <2>1, <3>1, ExtentAroundPeak
  <2>3. IsFiniteSet(A) /\ IsFiniteSet(B)
    BY <1>4, <2>2, FS_Subset
  <2>4. \A a \in A, b \in B : a <= b
    BY <1>3, <1>5, <2>1, ExtentsMeet
  <2>5. PICK m : m = Max(A)
    OBVIOUS
  <2>6. m \in A /\ \A a \in A : a <= m
    <3>1. A \subseteq Int
      BY <2>2
    <3>2. m \in A /\ \A a \in A : m >= a
      BY <2>2, <2>3, <2>5, <3>1, GreatestOfFinite
    <3> QED BY <3>1, <3>2
  <2>7. m \in 1..n
    BY <2>2, <2>6
  <2>8. PICK f, low, high : /\ f = sweep[m].freq
                            /\ low = sweep[1].freq /\ high = sweep[n].freq
    OBVIOUS
  <2>9. /\ f \in Int /\ low \in Int /\ high \in Int
        /\ \A i1 \in 1..n : sweep[i1].freq \in Int /\ sweep[i1].power \in Int
    BY <1>2, <2>7, <2>8, MeasurementParts
  <2>10. \A a \in A : low <= sweep[a].freq /\ sweep[a].freq <= f
    <3>1. ASSUME NEW a \in A PROVE low <= sweep[a].freq /\ sweep[a].freq <= f
      <4>1. a \in 1..n /\ 1 \in 1..n /\ 1 <= a /\ a <= m
        BY <2>2, <2>6
      <4> QED BY <1>2, <2>7, <2>8, <4>1 DEF Ascending
    <3> QED BY <3>1
  <2>11. \A b \in B : f <= sweep[b].freq /\ sweep[b].freq <= high
    <3>1. ASSUME NEW b \in B PROVE f <= sweep[b].freq /\ sweep[b].freq <= high
      <4>1. b \in 1..n /\ n \in 1..n /\ b <= n /\ m <= b
        BY <2>2, <2>4, <2>6
      <4> QED BY <1>2, <2>7, <2>8, <4>1 DEF Ascending
    <3> QED BY <3>1
  <2>12. WeightedCentre(sweep, A) \in Int /\ WeightedCentre(sweep, A) <= f
    <3>1. \A a \in A : sweep[a].freq \in Int /\ sweep[a].power \in Int
      BY <2>2, <2>9
    <3> QED BY <2>2, <2>3, <2>9, <2>10, <3>1, CentreAmongBins
  <2>13. WeightedCentre(sweep, B) \in Int /\ f <= WeightedCentre(sweep, B)
    <3>1. \A b \in B : sweep[b].freq \in Int /\ sweep[b].power \in Int
      BY <2>2, <2>9
    <3> QED BY <2>2, <2>3, <2>9, <2>11, <3>1, CentreAmongBins
  <2> QED BY <2>1, <2>9, <2>12, <2>13
<1>6. PICK l : l = FindCarriers(sweep)
  OBVIOUS
<1>7. l \in Seq(Carrier) /\ InOrderOfFrequency(l)
  BY <1>6, CarriersFound
<1>8. \A k \in 1..Len(l) : /\ l[k].peak \in Peaks(s, t)
                           /\ l[k].freq = WeightedCentre(sweep, Extent(s, l[k].peak, t))
  BY <1>1, <1>6, CarriersFound DEF OfPeaks
<1>9. \A k \in 1..Len(l) : l[k].peak \in Int
  BY <1>3, <1>8, PeaksAreTops
<1>10. ASSUME NEW j \in 1..Len(l), NEW k \in 1..Len(l), j < k
       PROVE  l[j].peak < l[k].peak
  <2>1. PICK a, b, f, g : a = l[j].peak /\ b = l[k].peak /\ f = l[j].freq /\ g = l[k].freq
    OBVIOUS
  <2>2. a \in Int /\ b \in Int
    BY <1>9, <2>1
  <2>3. f \in Int /\ g \in Int
    <3>1. PICK R : R = Carrier
      OBVIOUS
    <3>2. l[j] \in R /\ l[k] \in R
      BY <1>7, <3>1
    <3> QED BY <2>1, <3>1, <3>2 DEF Carrier
  <2>4. (f < g /\ a # b) \/ (f = g /\ a < b)
    BY <1>7, <1>10, <2>1 DEF InOrderOfFrequency
  <2>5. ASSUME b < a PROVE g <= f
    <3>1. a \in Peaks(s, t) /\ b \in Peaks(s, t)
      BY <1>8, <2>1
    <3>2. WeightedCentre(sweep, Extent(s, b, t)) <= WeightedCentre(sweep, Extent(s, a, t))
      BY <1>5, <2>5, <3>1
    <3> QED BY <1>8, <2>1, <3>2
  <2>6. a < b
    BY <2>2, <2>3, <2>4, <2>5
  <2> QED BY <2>1, <2>6
<1> QED BY <1>6, <1>10

----------------------------------------------------------------------------
(* The baseline *)

\* A group has a first member, and the others are near it.
Group == {g \in Seq(Int) : g # <<>> /\ \A i \in DOMAIN g : Distance(g[1], g[i]) <= Tol}

Has(groups, f) == \E k \in DOMAIN groups : \E i \in DOMAIN groups[k] : groups[k][i] = f

LEMMA JoinKeeps ==
  ASSUME NEW groups \in Seq(Group), NEW f \in Int
  PROVE  /\ Join(groups, f) \in Seq(Group) /\ Has(Join(groups, f), f)
         /\ \A e : Has(groups, e) => Has(Join(groups, f), e)
<1>0. Tol \in Nat
  BY FrequencyAssumption
<1>1. PICK n \in Nat : n = Len(groups) /\ DOMAIN groups = 1..n
  OBVIOUS
<1>2. \A k \in 1..n : groups[k] \in Group
  BY <1>1
<1>3. PICK near : near = {k \in DOMAIN groups : Distance(groups[k][1], f) <= Tol}
  OBVIOUS
<1>4. CASE near = {}
  <2>1. PICK new : new = Append(groups, <<f>>)
    OBVIOUS
  <2>2. Join(groups, f) = new
    BY <1>3, <1>4, <2>1, Zenon DEF Join
  <2>3. <<f>> \in Group
    <3>1. Distance(f, f) <= Tol
      BY <1>0 DEF Distance
    <3> QED BY <3>1 DEF Group
  <2>4. /\ new \in Seq(Group) /\ DOMAIN new = 1..(n + 1)
        /\ new[n + 1] = <<f>> /\ \A k \in 1..n : new[k] = groups[k]
    BY <1>1, <2>1, <2>3
  <2>5. Has(new, f)
    <3>1. n + 1 \in DOMAIN new /\ 1 \in DOMAIN new[n + 1] /\ new[n + 1][1] = f
      BY <2>4
    <3> QED BY <3>1 DEF Has
  <2>6. ASSUME NEW e, Has(groups, e) PROVE Has(new, e)
    BY <1>1, <2>4, <2>6 DEF Has
  <2> QED BY <2>2, <2>4, <2>5, <2>6
<1>5. CASE near # {}
  <2>1. PICK m : m = Min(near)
    OBVIOUS
  <2>2. m \in near
    <3>1. IsFiniteSet(near)
      <4>1. 1 \in Int /\ n \in Int
        OBVIOUS
      <4>2. IsFiniteSet(1..n) /\ near \subseteq 1..n
        BY <1>1, <1>3, <4>1, FS_Interval
      <4> QED BY <4>2, FS_Subset
    <3>2. near \subseteq Int
      BY <1>1, <1>3
    <3> QED BY <1>5, <2>1, <3>1, <3>2, LeastOfFinite
  <2>3. PICK old : old = groups[m]
    OBVIOUS
  <2>4. m \in 1..n /\ old \in Group /\ Distance(old[1], f) <= Tol
    BY <1>1, <1>2, <1>3, <2>2, <2>3
  <2>5. PICK more : more = Append(old, f)
    OBVIOUS
  <2>6. PICK new : new = [groups EXCEPT ![m] = more]
    OBVIOUS
  <2>7. Join(groups, f) = new
    BY <1>3, <1>5, <2>1, <2>3, <2>5, <2>6 DEF Join
  <2>8. PICK l \in Nat : l = Len(old)
    BY <2>4 DEF Group
  <2>9. /\ old \in Seq(Int) /\ l > 0 /\ DOMAIN old = 1..l
        /\ \A i \in 1..l : Distance(old[1], old[i]) <= Tol
    <3>1. /\ old \in Seq(Int) /\ old # <<>>
          /\ \A i \in DOMAIN old : Distance(old[1], old[i]) <= Tol
      BY <2>4 DEF Group
    <3>2. l > 0 /\ DOMAIN old = 1..l
      BY <2>8, <3>1
    <3> QED BY <3>1, <3>2, Zenon
  <2>10. /\ more \in Seq(Int) /\ DOMAIN more = 1..(l + 1) /\ more # <<>>
         /\ more[l + 1] = f /\ \A i \in 1..l : more[i] = old[i]
    BY <2>5, <2>8, <2>9
  <2>11. more \in Group
    <3>1. ASSUME NEW i \in 1..(l + 1) PROVE Distance(more[1], more[i]) <= Tol
      <4>1. more[1] = old[1]
        BY <2>9, <2>10
      <4>2. CASE i = l + 1
        BY <2>4, <2>10, <4>1, <4>2
      <4>3. CASE i \in 1..l
        BY <2>9, <2>10, <4>1, <4>3
      <4> QED BY <4>2, <4>3
    <3> QED BY <2>10, <3>1 DEF Group
  <2>12. /\ new \in Seq(Group) /\ DOMAIN new = 1..n
         /\ new[m] = more /\ \A k \in 1..n : k # m => new[k] = groups[k]
    BY <1>1, <2>4, <2>6, <2>11
  <2>13. Has(new, f)
    <3>1. l + 1 \in DOMAIN more /\ more[l + 1] = f
      BY <2>10
    <3> QED BY <2>4, <2>12, <3>1 DEF Has
  <2>14. ASSUME NEW e, Has(groups, e) PROVE Has(new, e)
    <3>0. PICK k \in 1..n : \E i \in DOMAIN groups[k] : groups[k][i] = e
      BY <1>1, <2>14 DEF Has
    <3>1. PICK i \in DOMAIN groups[k] : groups[k][i] = e
      BY <3>0
    <3>2. CASE k = m
      <4>1. i \in 1..l /\ i \in DOMAIN more /\ more[i] = e
        BY <2>3, <2>9, <2>10, <3>1, <3>2
      <4> QED BY <2>4, <2>12, <4>1 DEF Has
    <3>3. CASE k # m
      BY <2>12, <3>1, <3>3 DEF Has
    <3> QED BY <3>2, <3>3
  <2> QED BY <2>7, <2>12, <2>13, <2>14
<1> QED BY <1>4, <1>5

LEMMA LastOfSome ==
  ASSUME NEW n \in Nat
  PROVE  \A s \in SUBSET (1..n) : s # {} => Max(s) \in s
<1>1. ASSUME NEW s \in SUBSET (1..n), s # {} PROVE Max(s) \in s
  <2>1. 1 \in Int /\ n \in Int
    OBVIOUS
  <2>2. IsFiniteSet(1..n)
    BY <2>1, FS_Interval
  <2>3. IsFiniteSet(s)
    BY <2>2, FS_Subset
  <2>4. s \subseteq Int
    OBVIOUS
  <2> QED BY <1>1, <2>3, <2>4, GreatestOfFinite
<1> QED BY <1>1

LEMMA JoinAll ==
  ASSUME NEW V, V \subseteq Seq(Group), NEW groups \in V, NEW fs \in Seq(Int),
         \A gs \in V : \A i \in DOMAIN fs : Join(gs, fs[i]) \in V
  PROVE  LET all == FoldLeft(Join, groups, fs)
         IN  /\ all \in V
             /\ \A e : Has(groups, e) => Has(all, e)
             /\ \A i \in DOMAIN fs : Has(all, fs[i])
<1>1. PICK n \in Nat : n = Len(fs) /\ DOMAIN fs = 1..n
  OBVIOUS
<1>2. PICK S : S = 1..n
  OBVIOUS
<1> DEFINE next(g) == [s \in SUBSET S |->
                         IF s = {} THEN groups ELSE Join(g[s \ {Max(s)}], fs[Max(s)])]
<1>3. FoldLeft(Join, groups, fs) = (CHOOSE g : g = next(g))[S]
  BY <1>1, <1>2, Zenon DEF FoldLeft, MapThenFoldSet
<1>4. IsFiniteSet(S)
  <2>1. 1 \in Int /\ n \in Int
    OBVIOUS
  <2> QED BY <1>2, <2>1, FS_Interval
<1>5. \A s \in SUBSET S : s # {} => Max(s) \in s
  BY <1>2, LastOfSome
<1>6. \A i \in S : fs[i] \in Int
  BY <1>1, <1>2
<1>8. PICK st : st = [p \in V \X S |-> Join(p[1], fs[p[2]])]
  OBVIOUS
<1>9. st \in [V \X S -> V]
  BY <1>1, <1>2, <1>8
<1>10. PICK pick : pick = [s \in SUBSET S |-> Max(s)]
  OBVIOUS
<1>11. \A s \in SUBSET S : s # {} => pick[s] \in s
  BY <1>5, <1>10
<1>12. PICK g \in [SUBSET S -> V] : Folds(S, groups, st, pick, g)
  BY <1>4, <1>9, <1>11, FoldExists
<1>13. ASSUME NEW s \in SUBSET S
       PROVE  g[s] = IF s = {} THEN groups ELSE Join(g[s \ {Max(s)}], fs[Max(s)])
  <2>1. CASE s = {}
    BY <1>12, <2>1 DEF Folds
  <2>2. CASE s # {}
    <3>1. pick[s] \in s /\ pick[s] = Max(s)
      BY <1>10, <1>11, <2>2
    <3>2. <<g[s \ {pick[s]}], pick[s]>> \in V \X S
      BY <3>1
    <3>3. g[s] = st[<<g[s \ {pick[s]}], pick[s]>>]
      BY <1>12, <2>2 DEF Folds
    <3>4. g[s] = Join(g[s \ {pick[s]}], fs[pick[s]])
      BY <1>8, <3>2, <3>3
    <3> QED BY <2>2, <3>1, <3>4
  <2> QED BY <2>1, <2>2
<1>14. g = next(g)
  BY <1>13
<1>15. PICK h : h = (CHOOSE k : k = next(k))
  OBVIOUS
<1>16. h = next(h)
  <2> HIDE DEF next
  <2> QED BY <1>14, <1>15
<1>17. PICK G : G = {s \in SUBSET S : /\ h[s] \in V
                                      /\ \A e : Has(groups, e) => Has(h[s], e)
                                      /\ \A i \in s : Has(h[s], fs[i])}
  OBVIOUS
<1>18. {} \in G
  <2>1. h[{}] = groups
    BY <1>16
  <2> QED BY <1>17, <2>1
<1>19. ASSUME NEW s \in SUBSET S, s # {} PROVE \E x \in s : (s \ {x} \in G => s \in G)
  <2>1. PICK x \in s : x = Max(s)
    BY <1>5, <1>19
  <2>2. h[s] = Join(h[s \ {x}], fs[x])
    BY <1>16, <1>19, <2>1
  <2>3. ASSUME s \ {x} \in G PROVE s \in G
    <3>1. PICK old : old = h[s \ {x}]
      OBVIOUS
    <3>2. /\ old \in V /\ \A e : Has(groups, e) => Has(old, e)
          /\ \A i \in s \ {x} : Has(old, fs[i])
      BY <1>17, <2>3, <3>1
    <3>3. fs[x] \in Int /\ x \in DOMAIN fs /\ old \in Seq(Group)
      BY <1>1, <1>2, <1>6, <2>1, <3>2
    <3>4. /\ h[s] \in V /\ Has(h[s], fs[x])
          /\ \A e : Has(old, e) => Has(h[s], e)
      <4>1. PICK f : f = fs[x]
        OBVIOUS
      <4>2. Has(Join(old, f), f) /\ \A e : Has(old, e) => Has(Join(old, f), e)
        BY <3>3, <4>1, JoinKeeps, Zenon
      <4>3. Join(old, f) \in V
        BY <3>2, <3>3, <4>1
      <4> QED BY <2>2, <3>1, <4>1, <4>2, <4>3, Zenon
    <3> QED BY <1>17, <3>2, <3>4
  <2> QED BY <2>3
<1>20. S \in G
  BY <1>4, <1>18, <1>19, UpFromEmpty
<1> HIDE DEF next
<1> QED BY <1>1, <1>2, <1>3, <1>15, <1>17, <1>20

\* The average of a group is between its members.
LEMMA AverageBetween ==
  ASSUME NEW g \in Seq(Int), g # <<>>, NEW low \in Int, NEW high \in Int,
         \A i \in DOMAIN g : low <= g[i] /\ g[i] <= high
  PROVE  /\ Average(g) \in Int
         /\ low <= Average(g) /\ Average(g) <= high
<1>2. PICK n \in Nat : n = Len(g) /\ DOMAIN g = 1..n /\ n > 0
  OBVIOUS
<1>3. PICK S : S = 1..n
  OBVIOUS
<1>4. IsFiniteSet(S) /\ Cardinality(S) = n
  <2>1. 1 \in Int /\ n \in Int
    OBVIOUS
  <2>2. IsFiniteSet(1..n) /\ Cardinality(1..n) = (IF 1 > n THEN 0 ELSE n - 1 + 1)
    BY <2>1, FS_Interval
  <2> QED BY <1>2, <1>3, <2>2
<1>5. g \in [S -> Int]
  BY <1>2, <1>3
<1>7. low \in Int /\ high \in Int
  OBVIOUS
<1>8. \A i \in S : g[i] \in Int /\ low <= g[i] /\ g[i] <= high
  BY <1>2, <1>3, <1>5
<1>9. PICK h \in [SUBSET S -> Int] : Sums(g, S, h) /\ Total(g) = h[S]
  BY <1>4, <1>5, TotalAddsUp
<1>10. PICK G : G = {s \in SUBSET S : /\ low * Cardinality(s) <= h[s]
                                      /\ h[s] <= high * Cardinality(s)}
  OBVIOUS
<1>11. {} \in G
  <2>1. h[{}] = 0 /\ Cardinality({}) = 0
    BY <1>9, FS_EmptySet DEF Sums
  <2> QED BY <1>7, <1>10, <2>1
<1>12. ASSUME NEW s \in SUBSET S, s # {} PROVE \E x \in s : (s \ {x} \in G => s \in G)
  <2>1. PICK x \in s : x = CHOOSE y \in s : TRUE
    BY <1>12
  <2>2. h[s] = g[x] + h[s \ {x}]
    BY <1>9, <1>12, <2>1 DEF Sums
  <2>3. IsFiniteSet(s) /\ IsFiniteSet(s \ {x}) /\ Cardinality(s \ {x}) = Cardinality(s) - 1
    BY <1>4, FS_Subset, FS_RemoveElement
  <2>4. PICK c \in Nat : c = Cardinality(s)
    BY <2>3, FS_CardinalityType
  <2>5. PICK a, b, f, k : a = h[s \ {x}] /\ b = h[s] /\ f = g[x] /\ k = Cardinality(s \ {x})
    OBVIOUS
  <2>6. /\ a \in Int /\ f \in Int /\ k \in Int /\ b = f + a /\ c = k + 1
        /\ low <= f /\ f <= high
    BY <1>8, <2>2, <2>3, <2>4, <2>5
  <2>7. ASSUME s \ {x} \in G PROVE s \in G
    <3>1. low * k <= a /\ a <= high * k
      BY <1>10, <2>5, <2>7
    <3>2. low * c = low * k + low /\ high * c = high * k + high
      BY <1>7, <2>6
    <3>3. PICK p, q : p = low * k /\ q = high * k
      OBVIOUS
    <3>4. p \in Int /\ q \in Int
      BY <1>7, <2>6, <3>3
    <3>5. low * c <= b /\ b <= high * c
      BY <1>7, <2>6, <3>1, <3>2, <3>3, <3>4
    <3> QED BY <1>10, <2>4, <2>5, <3>5
  <2> QED BY <2>7
<1>13. S \in G
  BY <1>4, <1>11, <1>12, UpFromEmpty
<1>14. PICK v : v = h[S]
  OBVIOUS
<1>15. v \in Int /\ low * n <= v /\ v <= high * n
  BY <1>4, <1>9, <1>10, <1>13, <1>14
<1>16. PICK c : c = v \div n
  OBVIOUS
<1>17. c \in Int /\ c * n <= v /\ v < c * n + n
  BY <1>2, <1>15, <1>16
<1>18. low <= c
  <2>1. ASSUME c + 1 <= low PROVE FALSE
    <3>1. (c + 1) * n <= low * n
      BY <1>2, <1>7, <1>17, <2>1
    <3>2. (c + 1) * n = c * n + n
      BY <1>2, <1>17
    <3>3. PICK p, q, r : p = low * n /\ q = c * n /\ r = (c + 1) * n
      OBVIOUS
    <3>4. p \in Int /\ q \in Int /\ r \in Int
      BY <1>2, <1>7, <1>17, <3>3
    <3>5. r <= p /\ r = q + n /\ p <= v /\ v < q + n
      BY <1>15, <1>17, <3>1, <3>2, <3>3
    <3> QED BY <1>2, <1>15, <3>4, <3>5
  <2> QED BY <1>7, <1>17, <2>1
<1>19. c <= high
  <2>1. ASSUME high + 1 <= c PROVE FALSE
    <3>1. (high + 1) * n <= c * n
      BY <1>2, <1>7, <1>17, <2>1
    <3>2. (high + 1) * n = high * n + n
      BY <1>2, <1>7
    <3>3. PICK p, q, r : p = high * n /\ q = c * n /\ r = (high + 1) * n
      OBVIOUS
    <3>4. p \in Int /\ q \in Int /\ r \in Int
      BY <1>2, <1>7, <1>17, <3>3
    <3>5. r <= q /\ r = p + n /\ v <= p /\ q <= v
      BY <1>15, <1>17, <3>1, <3>2, <3>3
    <3> QED BY <1>2, <1>15, <3>4, <3>5
  <2> QED BY <1>7, <1>17, <2>1
<1>20. Average(g) = c
  BY <1>2, <1>9, <1>14, <1>16, Zenon DEF Average
<1> QED BY <1>17, <1>18, <1>19, <1>20

\* ... and near its first member, as all the others are.
LEMMA AverageNear ==
  ASSUME NEW g \in Group
  PROVE  /\ Average(g) \in Int
         /\ g[1] - Tol <= Average(g) /\ Average(g) <= g[1] + Tol
<1>0. Tol \in Nat
  BY FrequencyAssumption
<1>1. /\ g \in Seq(Int) /\ g # <<>>
      /\ \A i \in DOMAIN g : Distance(g[1], g[i]) <= Tol
  BY DEF Group
<1>2. \A i \in DOMAIN g : g[i] \in Int
  BY <1>1
<1>3. 1 \in DOMAIN g
  BY <1>1
<1>4. PICK low, high : low = g[1] - Tol /\ high = g[1] + Tol
  OBVIOUS
<1>5. low \in Int /\ high \in Int
  BY <1>0, <1>2, <1>3, <1>4
<1>6. \A i \in DOMAIN g : low <= g[i] /\ g[i] <= high
  BY <1>0, <1>1, <1>2, <1>3, <1>4 DEF Distance
<1>7. Average(g) \in Int /\ low <= Average(g) /\ Average(g) <= high
  BY <1>1, <1>5, <1>6, AverageBetween
<1> QED BY <1>4, <1>7

\* What Join does not leave, a sweep does not, nor a whole series of them.
LEMMA GatherKeeps ==
  ASSUME NEW V, V \subseteq Seq(Group), NEW groups \in V, NEW sweep \in Seq(Measurement),
         \A gs \in V : \A i \in DOMAIN FindCarriers(sweep) : Join(gs, FindCarriers(sweep)[i].freq) \in V
  PROVE  /\ Gather(groups, sweep) \in V
         /\ \A e : Has(groups, e) => Has(Gather(groups, sweep), e)
         /\ \A i \in DOMAIN FindCarriers(sweep) :
              Has(Gather(groups, sweep), FindCarriers(sweep)[i].freq)
<1>1. PICK c : c = FindCarriers(sweep)
  OBVIOUS
<1>2. PICK R : R = Carrier
  OBVIOUS
<1>3. c \in Seq(R)
  BY <1>1, <1>2, CarriersFound
<1>4. PICK fs : fs = [i \in DOMAIN c |-> c[i].freq]
  OBVIOUS
<1>5. fs \in Seq(Int) /\ DOMAIN fs = DOMAIN c
  <2>1. PICK n \in Nat : n = Len(c) /\ DOMAIN c = 1..n
    BY <1>3
  <2>2. ASSUME NEW i \in 1..n PROVE c[i].freq \in Int
    <3>1. c[i] \in R
      BY <1>3, <2>1
    <3> QED BY <1>2, <3>1 DEF Carrier
  <2>3. fs \in [1..n -> Int]
    BY <1>4, <2>1, <2>2
  <2> QED BY <1>4, <2>1, <2>3
<1>6. PICK all : all = FoldLeft(Join, groups, fs)
  OBVIOUS
<1>7. Gather(groups, sweep) = all
  BY <1>1, <1>4, <1>6, Zenon DEF Gather
<1>8. /\ all \in V /\ \A e : Has(groups, e) => Has(all, e)
      /\ \A i \in DOMAIN fs : Has(all, fs[i])
  <2>1. \A gs \in V : \A i \in DOMAIN fs : Join(gs, fs[i]) \in V
    BY <1>1, <1>4, <1>5
  <2> QED BY <1>5, <1>6, <2>1, JoinAll, Zenon
<1>9. ASSUME NEW i \in DOMAIN c PROVE Has(all, c[i].freq)
  <2>1. fs[i] = c[i].freq
    BY <1>4
  <2>2. Has(all, fs[i])
    BY <1>5, <1>8
  <2> QED BY <2>1, <2>2
<1> QED BY <1>1, <1>7, <1>8, <1>9

Emitter == [freq : Int, tol : {Tol}]

\* The groups the emitters are averages of.
GroupsOf(sweeps) == FoldLeft(Gather, <<>>, sweeps)

LEMMA GatherAll ==
  ASSUME NEW V, V \subseteq Seq(Group), <<>> \in V, NEW sweeps \in Seq(Seq(Measurement)),
         \A gs \in V : \A k \in DOMAIN sweeps : \A i \in DOMAIN FindCarriers(sweeps[k]) :
           Join(gs, FindCarriers(sweeps[k])[i].freq) \in V
  PROVE  /\ GroupsOf(sweeps) \in V
         /\ \A k \in DOMAIN sweeps : \A i \in DOMAIN FindCarriers(sweeps[k]) :
              Has(GroupsOf(sweeps), FindCarriers(sweeps[k])[i].freq)
<1>1. PICK n \in Nat : n = Len(sweeps) /\ DOMAIN sweeps = 1..n
  OBVIOUS
<1>2. PICK S : S = 1..n
  OBVIOUS
<1> DEFINE next(g) == [s \in SUBSET S |->
                         IF s = {} THEN <<>> ELSE Gather(g[s \ {Max(s)}], sweeps[Max(s)])]
<1>3. GroupsOf(sweeps) = (CHOOSE g : g = next(g))[S]
  BY <1>1, <1>2, Zenon DEF GroupsOf, FoldLeft, MapThenFoldSet
<1>4. IsFiniteSet(S)
  <2>1. 1 \in Int /\ n \in Int
    OBVIOUS
  <2> QED BY <1>2, <2>1, FS_Interval
<1>5. \A s \in SUBSET S : s # {} => Max(s) \in s
  BY <1>2, LastOfSome
<1>6. \A i \in S : sweeps[i] \in Seq(Measurement)
  BY <1>1, <1>2
<1>7. ASSUME NEW gs \in V, NEW k \in S
      PROVE  LET new == Gather(gs, sweeps[k])
             IN  /\ new \in V /\ \A e : Has(gs, e) => Has(new, e)
                 /\ \A i \in DOMAIN FindCarriers(sweeps[k]) : Has(new, FindCarriers(sweeps[k])[i].freq)
  <2>1. PICK sweep : sweep = sweeps[k]
    OBVIOUS
  <2>2. /\ sweep \in Seq(Measurement)
        /\ \A hs \in V : \A i \in DOMAIN FindCarriers(sweep) : Join(hs, FindCarriers(sweep)[i].freq) \in V
    BY <1>1, <1>2, <1>6, <2>1, Zenon
  <2>3. /\ Gather(gs, sweep) \in V /\ \A e : Has(gs, e) => Has(Gather(gs, sweep), e)
        /\ \A i \in DOMAIN FindCarriers(sweep) : Has(Gather(gs, sweep), FindCarriers(sweep)[i].freq)
    BY <2>2, GatherKeeps, Zenon
  <2> QED BY <2>1, <2>3, Zenon
<1>8. PICK st : st = [p \in V \X S |-> Gather(p[1], sweeps[p[2]])]
  OBVIOUS
<1>9. st \in [V \X S -> V]
  <2>1. \A gs \in V : \A k \in S : Gather(gs, sweeps[k]) \in V
    BY <1>7, Zenon
  <2> QED BY <1>8, <2>1
<1>10. PICK pick : pick = [s \in SUBSET S |-> Max(s)]
  OBVIOUS
<1>11. \A s \in SUBSET S : s # {} => pick[s] \in s
  BY <1>5, <1>10
<1>12. PICK g \in [SUBSET S -> V] : Folds(S, <<>>, st, pick, g)
  BY <1>4, <1>9, <1>11, FoldExists
<1>13. ASSUME NEW s \in SUBSET S
       PROVE  g[s] = IF s = {} THEN <<>> ELSE Gather(g[s \ {Max(s)}], sweeps[Max(s)])
  <2>1. CASE s = {}
    BY <1>12, <2>1 DEF Folds
  <2>2. CASE s # {}
    <3>1. pick[s] \in s /\ pick[s] = Max(s)
      BY <1>10, <1>11, <2>2
    <3>2. <<g[s \ {pick[s]}], pick[s]>> \in V \X S
      BY <3>1
    <3>3. g[s] = st[<<g[s \ {pick[s]}], pick[s]>>]
      BY <1>12, <2>2 DEF Folds
    <3>4. g[s] = Gather(g[s \ {pick[s]}], sweeps[pick[s]])
      BY <1>8, <3>2, <3>3
    <3> QED BY <2>2, <3>1, <3>4
  <2> QED BY <2>1, <2>2
<1>14. g = next(g)
  BY <1>13
<1>15. PICK h : h = (CHOOSE k : k = next(k))
  OBVIOUS
<1>16. h = next(h)
  <2> HIDE DEF next
  <2> QED BY <1>14, <1>15
<1> DEFINE gathered(groups, s) ==
             \A k \in s : \A i \in DOMAIN FindCarriers(sweeps[k]) :
               Has(groups, FindCarriers(sweeps[k])[i].freq)
<1>17. PICK G : G = {s \in SUBSET S : h[s] \in V /\ gathered(h[s], s)}
  OBVIOUS
<1>18. {} \in G
  <2>1. h[{}] = <<>>
    BY <1>16
  <2> QED BY <1>17, <2>1
<1>19. ASSUME NEW s \in SUBSET S, s # {} PROVE \E x \in s : (s \ {x} \in G => s \in G)
  <2>1. PICK x \in s : x = Max(s)
    BY <1>5, <1>19
  <2>2. h[s] = Gather(h[s \ {x}], sweeps[x])
    BY <1>16, <1>19, <2>1
  <2>3. ASSUME s \ {x} \in G PROVE s \in G
    <3>1. PICK old : old = h[s \ {x}]
      OBVIOUS
    <3>2. old \in V /\ gathered(old, s \ {x})
      BY <1>17, <2>3, <3>1
    <3>3. PICK sweep : sweep = sweeps[x]
      OBVIOUS
    <3>5. PICK new : new = Gather(old, sweep)
      OBVIOUS
    <3>6. /\ new \in V /\ \A e : Has(old, e) => Has(new, e)
          /\ \A i \in DOMAIN FindCarriers(sweep) : Has(new, FindCarriers(sweep)[i].freq)
      <4>1. x \in S
        BY <2>1
      <4> QED BY <1>7, <3>2, <3>3, <3>5, <4>1, Zenon
    <3>7. gathered(new, s)
      <4>1. ASSUME NEW k \in s, NEW i \in DOMAIN FindCarriers(sweeps[k])
            PROVE  Has(new, FindCarriers(sweeps[k])[i].freq)
        <5>1. CASE k = x
          BY <3>3, <3>6, <4>1, <5>1, Zenon
        <5>2. CASE k # x
          <6>1. k \in s \ {x}
            BY <5>2
          <6>2. Has(old, FindCarriers(sweeps[k])[i].freq)
            BY <3>2, <4>1, <6>1, Zenon
          <6> QED BY <3>6, <6>2, Zenon
        <5> QED BY <5>1, <5>2
      <4> QED BY <4>1, Zenon
    <3>8. h[s] = new
      BY <2>2, <3>1, <3>3, <3>5
    <3> HIDE DEF gathered
    <3> QED BY <1>17, <3>6, <3>7, <3>8
  <2> QED BY <2>3
<1>20. S \in G
  BY <1>4, <1>18, <1>19, UpFromEmpty
<1>21. PICK all : all = GroupsOf(sweeps)
  OBVIOUS
<1>22. all = h[S]
  <2> HIDE DEF next
  <2> QED BY <1>3, <1>15, <1>21
<1>23. all \in V /\ gathered(all, S)
  <2> HIDE DEF gathered
  <2> QED BY <1>17, <1>20, <1>22
<1> QED BY <1>1, <1>2, <1>21, <1>23, Zenon

LEMMA GroupsOfSweeps ==
  ASSUME NEW sweeps \in Seq(Seq(Measurement))
  PROVE  /\ GroupsOf(sweeps) \in Seq(Group)
         /\ \A k \in DOMAIN sweeps : \A i \in DOMAIN FindCarriers(sweeps[k]) :
              Has(GroupsOf(sweeps), FindCarriers(sweeps[k])[i].freq)
<1>1. ASSUME NEW gs \in Seq(Group), NEW k \in DOMAIN sweeps, NEW i \in DOMAIN FindCarriers(sweeps[k])
      PROVE  Join(gs, FindCarriers(sweeps[k])[i].freq) \in Seq(Group)
  <2>1. PICK c, R : c = FindCarriers(sweeps[k]) /\ R = Carrier
    OBVIOUS
  <2>2. c \in Seq(R)
    BY <2>1, CarriersFound
  <2>3. c[i] \in R
    BY <2>1, <2>2
  <2>4. c[i].freq \in Int
    BY <2>1, <2>3 DEF Carrier
  <2> QED BY <2>1, <2>4, JoinKeeps
<1>2. PICK V : V = Seq(Group)
  OBVIOUS
<1>3. V \subseteq Seq(Group) /\ <<>> \in V
  BY <1>2
<1> QED BY <1>1, <1>2, <1>3, GatherAll, Zenon

\* What a baseline is made of, emitter by emitter.
LEMMA LearnedEmitters ==
  ASSUME NEW sweeps \in Seq(Seq(Measurement))
  PROVE  /\ Learn(sweeps) \in Seq(Emitter)
         /\ DOMAIN Learn(sweeps) = DOMAIN GroupsOf(sweeps)
         /\ \A k \in DOMAIN GroupsOf(sweeps) :
              Learn(sweeps)[k].freq = Average(GroupsOf(sweeps)[k])
<1>1. PICK groups : groups = GroupsOf(sweeps)
  OBVIOUS
<1>2. groups \in Seq(Group)
  BY <1>1, GroupsOfSweeps
<1>3. PICK l : l = [k \in DOMAIN groups |-> [freq |-> Average(groups[k]), tol |-> Tol]]
  OBVIOUS
<1>4. Learn(sweeps) = l
  BY <1>1, <1>3, Zenon DEF Learn, GroupsOf
<1>5. PICK n \in Nat : n = Len(groups) /\ DOMAIN groups = 1..n
  BY <1>2
<1>6. ASSUME NEW k \in 1..n PROVE l[k] \in Emitter
  <2>1. groups[k] \in Group
    BY <1>2, <1>5
  <2>2. Average(groups[k]) \in Int
    BY <2>1, AverageNear
  <2> QED BY <1>3, <1>5, <2>2 DEF Emitter
<1>7. l \in [1..n -> Emitter]
  BY <1>3, <1>5, <1>6
<1>8. l \in Seq(Emitter)
  BY <1>7
<1> QED BY <1>1, <1>3, <1>4, <1>5, <1>8

\* No carrier of a sweep the baseline was learned from is further from every
\* emitter than twice the tolerance, in whatever order the sweeps came and however
\* their measurements fell into groups (rf.py:602-624).
THEOREM BaselineCoversItsSweeps ==
  ASSUME NEW sweeps \in Seq(Seq(Measurement)),
         NEW k \in DOMAIN sweeps, NEW i \in DOMAIN FindCarriers(sweeps[k])
  PROVE  \E e \in ToSet(Learn(sweeps)) :
           Distance(e.freq, FindCarriers(sweeps[k])[i].freq) <= 2 * Tol
<1>0. Tol \in Nat
  BY FrequencyAssumption
<1>1. PICK f, groups, l : /\ f = FindCarriers(sweeps[k])[i].freq
                          /\ groups = GroupsOf(sweeps) /\ l = Learn(sweeps)
  OBVIOUS
<1>2. groups \in Seq(Group) /\ Has(groups, f)
  BY <1>1, GroupsOfSweeps, Zenon
<1>3. PICK m \in DOMAIN groups : \E j \in DOMAIN groups[m] : groups[m][j] = f
  BY <1>2 DEF Has
<1>4. PICK j \in DOMAIN groups[m] : groups[m][j] = f
  BY <1>3
<1>5. groups[m] \in Group
  BY <1>2
<1>6. PICK g : g = groups[m]
  OBVIOUS
<1>7. /\ g \in Seq(Int) /\ g # <<>> /\ Distance(g[1], f) <= Tol
      /\ f \in Int /\ g[1] \in Int
  <2>1. /\ g \in Seq(Int) /\ g # <<>>
        /\ \A x \in DOMAIN g : Distance(g[1], g[x]) <= Tol
    BY <1>5, <1>6 DEF Group
  <2>2. 1 \in DOMAIN g
    BY <2>1
  <2> QED BY <1>4, <1>6, <2>1, <2>2
<1>8. PICK a : a = Average(g)
  OBVIOUS
<1>9. a \in Int /\ g[1] - Tol <= a /\ a <= g[1] + Tol
  BY <1>5, <1>6, <1>8, AverageNear
<1>10. Distance(a, f) <= 2 * Tol
  BY <1>0, <1>7, <1>9 DEF Distance
<1>11. m \in DOMAIN l /\ l[m].freq = a
  BY <1>1, <1>6, <1>8, LearnedEmitters
<1>12. l[m] \in ToSet(l)
  BY <1>11 DEF ToSet
<1> QED BY <1>1, <1>10, <1>11, <1>12

\* Every emitter is where a radio was, and every radio is one of the emitters,
\* but for less than a quarter of a bin.
Covers(emitters, places) ==
  /\ \A e \in ToSet(emitters) : \E f \in places : Near(e.freq, f)
  /\ \A f \in places : \E e \in ToSet(emitters) : Near(e.freq, f)

\* Places that no measurement can be mistaken for another of.
Distinct(places) ==
  /\ places \subseteq Int
  /\ \A f, g \in places : f = g \/ Apart(f, g)

\* The measurements of a group are of one place.
Settled(groups, places) ==
  \A k \in DOMAIN groups : \E f \in places : \A i \in DOMAIN groups[k] : Near(groups[k][i], f)

LEMMA NotSoFar ==
  ASSUME NEW c \in Int, NEW d \in Int, NEW p \in Int, NEW g \in Int, NEW q \in Int, NEW t \in Int,
         2 * Distance(c, p) < q, 2 * Distance(d, g) < q, Distance(d, c) <= t
  PROVE  Distance(p, g) < t + q
<1>1. /\ 2 * (c - p) < q /\ 2 * (p - c) < q /\ 2 * (d - g) < q /\ 2 * (g - d) < q
      /\ d - c <= t /\ c - d <= t
  BY DEF Distance
<1>2. p - g < t + q /\ g - p < t + q
  BY <1>1
<1> QED BY <1>2 DEF Distance

LEMMA OnePlace ==
  ASSUME NEW places, Distinct(places), NEW f \in places, NEW g \in places,
         NEW c \in Int, NEW d \in Int, Near(c, f), Near(d, g), Distance(c, d) <= Tol
  PROVE  f = g
<1>1. Fine \in Nat \ {0} /\ Tol \in Nat /\ Grain \in Nat
  BY FrequencyAssumption, WatchAssumption
<1>2. PICK q : q = Fine \div 2
  OBVIOUS
<1>3. q \in Nat
  BY <1>1, <1>2
<1>4. f \in Int /\ g \in Int /\ (f = g \/ Distance(f, g) >= Tol + q + Grain)
  BY <1>2 DEF Distinct, Apart
<1>5. 2 * Distance(c, f) < q /\ 2 * Distance(d, g) < q
  BY <1>2 DEF Near
<1>6. Distance(g, f) < Tol + q
  BY <1>1, <1>3, <1>4, <1>5, NotSoFar
<1>7. Distance(g, f) = Distance(f, g) /\ Distance(f, g) \in Int
  BY <1>4 DEF Distance
<1> QED BY <1>1, <1>3, <1>4, <1>6, <1>7

LEMMA JoinSettles ==
  ASSUME NEW places, Distinct(places), NEW groups \in Seq(Group), Settled(groups, places),
         NEW e \in Int, \E f \in places : Near(e, f)
  PROVE  Settled(Join(groups, e), places)
<1>1. PICK n \in Nat : n = Len(groups) /\ DOMAIN groups = 1..n
  OBVIOUS
<1>2. PICK near : near = {k \in DOMAIN groups : Distance(groups[k][1], e) <= Tol}
  OBVIOUS
<1>3. PICK place \in places : Near(e, place)
  OBVIOUS
<1>4. CASE near = {}
  <2>1. PICK new : new = Append(groups, <<e>>)
    OBVIOUS
  <2>2. Join(groups, e) = new
    BY <1>2, <1>4, <2>1, Zenon DEF Join
  <2>3. /\ DOMAIN new = 1..(n + 1) /\ new[n + 1] = <<e>>
        /\ \A k \in 1..n : new[k] = groups[k]
    BY <1>1, <2>1
  <2>4. ASSUME NEW k \in DOMAIN new
        PROVE  \E f \in places : \A i \in DOMAIN new[k] : Near(new[k][i], f)
    <3>1. CASE k = n + 1
      <4>1. \A i \in DOMAIN <<e>> : <<e>>[i] = e
        OBVIOUS
      <4>2. \A i \in DOMAIN new[k] : Near(new[k][i], place)
        BY <1>3, <2>3, <3>1, <4>1
      <4> QED BY <4>2
    <3>2. CASE k \in 1..n
      BY <1>1, <2>3, <3>2 DEF Settled
    <3> QED BY <2>3, <3>1, <3>2
  <2> QED BY <2>2, <2>4 DEF Settled
<1>5. CASE near # {}
  <2>1. PICK m : m = Min(near)
    OBVIOUS
  <2>2. m \in near
    <3>1. IsFiniteSet(near)
      <4>1. 1 \in Int /\ n \in Int
        OBVIOUS
      <4>2. IsFiniteSet(1..n) /\ near \subseteq 1..n
        BY <1>1, <1>2, <4>1, FS_Interval
      <4> QED BY <4>2, FS_Subset
    <3>2. near \subseteq Int
      BY <1>1, <1>2
    <3> QED BY <1>5, <2>1, <3>1, <3>2, LeastOfFinite
  <2>3. PICK old, more : old = groups[m] /\ more = Append(old, e)
    OBVIOUS
  <2>4. m \in 1..n /\ old \in Group /\ Distance(old[1], e) <= Tol
    BY <1>1, <1>2, <2>2, <2>3
  <2>5. PICK new : new = [groups EXCEPT ![m] = more]
    OBVIOUS
  <2>6. Join(groups, e) = new
    BY <1>2, <1>5, <2>1, <2>3, <2>5 DEF Join
  <2>7. old \in Seq(Int) /\ old # <<>>
    BY <2>4 DEF Group
  <2>8. PICK l \in Nat : l = Len(old) /\ DOMAIN old = 1..l /\ l > 0
    BY <2>7
  <2>9. DOMAIN more = 1..(l + 1) /\ more[l + 1] = e /\ \A i \in 1..l : more[i] = old[i]
    BY <2>3, <2>7, <2>8
  <2>10. PICK f \in places : \A i \in DOMAIN old : Near(old[i], f)
    BY <1>1, <2>3, <2>4 DEF Settled
  <2>11. f = place
    <3>1. old[1] \in Int /\ Near(old[1], f)
      BY <2>7, <2>8, <2>10
    <3> QED BY <1>3, <2>4, <3>1, OnePlace
  <2>12. \A i \in 1..(l + 1) : Near(more[i], f)
    <3>1. \A i \in 1..(l + 1) : i = l + 1 \/ i \in 1..l
      OBVIOUS
    <3> QED BY <1>3, <2>8, <2>9, <2>10, <2>11, <3>1
  <2>13. /\ DOMAIN new = 1..n /\ new[m] = more
         /\ \A k \in 1..n : k # m => new[k] = groups[k]
    BY <1>1, <2>4, <2>5
  <2>14. ASSUME NEW k \in 1..n
         PROVE  \E p \in places : \A i \in DOMAIN new[k] : Near(new[k][i], p)
    <3>1. CASE k = m
      BY <2>9, <2>12, <2>13, <3>1
    <3>2. CASE k # m
      BY <1>1, <2>13, <3>2 DEF Settled
    <3> QED BY <3>1, <3>2
  <2> QED BY <2>6, <2>13, <2>14 DEF Settled
<1> QED BY <1>4, <1>5

\* The average of measurements of one place is one too.
LEMMA AverageOfPlace ==
  ASSUME NEW g \in Group, NEW f \in Int, \A i \in DOMAIN g : Near(g[i], f)
  PROVE  Average(g) \in Int /\ Near(Average(g), f)
<1>1. Fine \in Nat \ {0}
  BY FrequencyAssumption
<1>2. g \in Seq(Int) /\ g # <<>>
  BY DEF Group
<1>3. \A i \in DOMAIN g : g[i] \in Int
  BY <1>2
<1>4. PICK q : q = Fine \div 2
  OBVIOUS
<1>5. q \in Nat
  BY <1>1, <1>4
<1>6. PICK w : w = (q - 1) \div 2
  OBVIOUS
<1>7. w \in Int /\ 2 * w <= q - 1 /\ q - 1 < 2 * w + 2
  BY <1>5, <1>6
<1>8. PICK low, high : low = f - w /\ high = f + w
  OBVIOUS
<1>9. low \in Int /\ high \in Int
  BY <1>7, <1>8
<1>10. ASSUME NEW i \in DOMAIN g PROVE low <= g[i] /\ g[i] <= high
  <2>1. PICK c : c = g[i]
    OBVIOUS
  <2>2. c \in Int /\ 2 * Distance(c, f) < q
    BY <1>3, <1>4, <2>1 DEF Near
  <2> QED BY <1>5, <1>7, <1>8, <2>1, <2>2 DEF Distance
<1>11. PICK a : a = Average(g)
  OBVIOUS
<1>12. a \in Int /\ low <= a /\ a <= high
  BY <1>2, <1>9, <1>10, <1>11, AverageBetween
<1>13. 2 * Distance(a, f) < q
  BY <1>5, <1>7, <1>8, <1>12 DEF Distance
<1> QED BY <1>4, <1>11, <1>12, <1>13 DEF Near

\* A baseline learned from sweeps that all saw radios which did not move is a
\* list of those radios: none is missed or invented by the grouping, in whatever
\* order the sweeps and the carriers in them came (rf.py:602-624).
THEOREM BaselineIsWhatWasSeen ==
  ASSUME NEW places, Distinct(places), NEW sweeps \in Seq(Seq(Measurement)),
         \A k \in DOMAIN sweeps : \A i \in DOMAIN FindCarriers(sweeps[k]) :
           \E f \in places : Near(FindCarriers(sweeps[k])[i].freq, f),
         \A f \in places : \E k \in DOMAIN sweeps : \E i \in DOMAIN FindCarriers(sweeps[k]) :
           Near(FindCarriers(sweeps[k])[i].freq, f)
  PROVE  Covers(Learn(sweeps), places)
<1>0. Fine \in Nat \ {0} /\ Tol \in Nat
  BY FrequencyAssumption
<1>1. ASSUME NEW k \in DOMAIN sweeps, NEW i \in DOMAIN FindCarriers(sweeps[k])
      PROVE  FindCarriers(sweeps[k])[i].freq \in Int
  <2>1. PICK c, R : c = FindCarriers(sweeps[k]) /\ R = Carrier
    OBVIOUS
  <2>2. c \in Seq(R)
    BY <2>1, CarriersFound
  <2>3. c[i] \in R
    BY <2>1, <2>2
  <2> QED BY <2>1, <2>3 DEF Carrier
<1>2. PICK V : V = {gs \in Seq(Group) : Settled(gs, places)}
  OBVIOUS
<1>3. V \subseteq Seq(Group) /\ <<>> \in V
  BY <1>2 DEF Settled
<1>4. ASSUME NEW gs \in V, NEW k \in DOMAIN sweeps, NEW i \in DOMAIN FindCarriers(sweeps[k])
      PROVE  Join(gs, FindCarriers(sweeps[k])[i].freq) \in V
  <2>1. PICK e : e = FindCarriers(sweeps[k])[i].freq
    OBVIOUS
  <2>2. e \in Int /\ \E f \in places : Near(e, f)
    BY <1>1, <2>1
  <2>3. gs \in Seq(Group) /\ Settled(gs, places)
    BY <1>2
  <2>4. Join(gs, e) \in Seq(Group)
    BY <2>2, <2>3, JoinKeeps, Zenon
  <2>5. Settled(Join(gs, e), places)
    BY <2>2, <2>3, JoinSettles
  <2> QED BY <1>2, <2>1, <2>4, <2>5
<1>5. PICK groups : groups = GroupsOf(sweeps)
  OBVIOUS
<1>6. groups \in V
  BY <1>3, <1>4, <1>5, GatherAll, Zenon
<1>7. groups \in Seq(Group) /\ Settled(groups, places)
  BY <1>2, <1>6
<1>8. PICK l : l = Learn(sweeps)
  OBVIOUS
<1>9. DOMAIN l = DOMAIN groups /\ \A k \in DOMAIN groups : l[k].freq = Average(groups[k])
  BY <1>5, <1>8, LearnedEmitters
<1>10. ASSUME NEW k \in DOMAIN groups, NEW f \in places, \A i \in DOMAIN groups[k] : Near(groups[k][i], f)
       PROVE  Near(l[k].freq, f)
  <2>1. groups[k] \in Group /\ f \in Int
    BY <1>7 DEF Distinct
  <2> QED BY <1>9, <1>10, <2>1, AverageOfPlace
<1>11. ASSUME NEW e \in ToSet(l) PROVE \E f \in places : Near(e.freq, f)
  <2>1. PICK k \in DOMAIN groups : e = l[k]
    BY <1>9 DEF ToSet
  <2>2. PICK f \in places : \A i \in DOMAIN groups[k] : Near(groups[k][i], f)
    BY <1>7 DEF Settled
  <2> QED BY <1>10, <2>1, <2>2
<1>12. ASSUME NEW f \in places PROVE \E e \in ToSet(l) : Near(e.freq, f)
  <2>1. PICK k \in DOMAIN sweeps : \E i \in DOMAIN FindCarriers(sweeps[k]) :
          Near(FindCarriers(sweeps[k])[i].freq, f)
    OBVIOUS
  <2>2. PICK i \in DOMAIN FindCarriers(sweeps[k]) : Near(FindCarriers(sweeps[k])[i].freq, f)
    BY <2>1
  <2>3. PICK c : c = FindCarriers(sweeps[k])[i].freq
    OBVIOUS
  <2>4. c \in Int /\ Near(c, f) /\ Has(groups, c)
    BY <1>1, <1>5, <2>2, <2>3, GroupsOfSweeps, Zenon
  <2>5. PICK m \in DOMAIN groups : \E j \in DOMAIN groups[m] : groups[m][j] = c
    BY <2>4 DEF Has
  <2>6. PICK g \in places : \A j \in DOMAIN groups[m] : Near(groups[m][j], g)
    BY <1>7 DEF Settled
  <2>7. Near(c, g)
    BY <2>5, <2>6
  <2>8. Distance(c, c) <= Tol
    BY <1>0, <2>4 DEF Distance
  <2>9. f = g
    BY <2>4, <2>7, <2>8, OnePlace
  <2>10. Near(l[m].freq, f) /\ l[m] \in ToSet(l)
    BY <1>9, <1>10, <2>6, <2>9 DEF ToSet
  <2> QED BY <2>10
<1> QED BY <1>8, <1>11, <1>12 DEF Covers

----------------------------------------------------------------------------
(* Identification and counting *)

\* Where counting would report, identification finds a carrier that is none of
\* the emitters, whatever their number and wherever they are: an emitter cannot
\* account for two carriers that are further apart than twice the tolerance
\* (rf.py:450, "stronger than counting", and 93-103).
THEOREM StrongerThanCounting ==
  ASSUME NEW carriers \in Seq(Carrier), NEW emitters \in Seq([freq : Int, tol : 0..Tol]),
         \A i, j \in DOMAIN carriers : i # j => Distance(carriers[i].freq, carriers[j].freq) > 2 * Tol,
         FindingsByCounting(carriers, Len(emitters)) # <<>>
  PROVE  \E i \in DOMAIN carriers : \A e \in ToSet(emitters) : ~Matches(e, carriers[i])
<1>0. Tol \in Nat
  BY FrequencyAssumption
<1>1. PICK n \in Nat, m \in Nat : n = Len(carriers) /\ m = Len(emitters)
  OBVIOUS
<1>2. DOMAIN carriers = 1..n /\ DOMAIN emitters = 1..m /\ n > m
  BY <1>1 DEF FindingsByCounting
<1>3. ASSUME NEW i \in 1..n PROVE carriers[i].freq \in Int
  <2>1. PICK R : R = Carrier
    OBVIOUS
  <2>2. carriers \in Seq(R)
    BY <2>1
  <2>3. carriers[i] \in R
    BY <1>1, <2>2
  <2> QED BY <2>1, <2>3 DEF Carrier
<1>4. ASSUME NEW k \in 1..m PROVE emitters[k].freq \in Int /\ emitters[k].tol \in 0..Tol
  <2>1. PICK R : R = [freq : Int, tol : 0..Tol]
    OBVIOUS
  <2>2. emitters \in Seq(R)
    BY <2>1
  <2>3. emitters[k] \in R
    BY <1>1, <2>2
  <2> QED BY <2>1, <2>3
<1>5. SUFFICES ASSUME \A i \in 1..n : \E k \in 1..m : Matches(emitters[k], carriers[i])
               PROVE  FALSE
  BY <1>2 DEF ToSet
\* Which emitter a carrier would be taken for.
<1>6. PICK f : f = [i \in 1..n |-> CHOOSE k \in 1..m : Matches(emitters[k], carriers[i])]
  OBVIOUS
<1>7. \A i \in 1..n : f[i] \in 1..m /\ Matches(emitters[f[i]], carriers[i])
  BY <1>5, <1>6
<1>8. ASSUME NEW i \in 1..n, NEW j \in 1..n, f[i] = f[j] PROVE i = j
  <2>1. PICK e, c, d, t : e = emitters[f[i]].freq /\ t = emitters[f[i]].tol
                          /\ c = carriers[i].freq /\ d = carriers[j].freq
    OBVIOUS
  <2>2. e \in Int /\ c \in Int /\ d \in Int /\ t \in Int /\ t <= Tol
    <3>1. f[i] \in 1..m
      BY <1>7
    <3>2. t \in 0..Tol /\ e \in Int
      <4>1. emitters[f[i]].freq \in Int /\ emitters[f[i]].tol \in 0..Tol
        BY <1>4, <3>1, Zenon
      <4> QED BY <2>1, <4>1, Zenon
    <3>3. c \in Int /\ d \in Int
      BY <1>3, <2>1, Zenon
    <3> QED BY <1>0, <3>2, <3>3
  <2>3. Distance(e, c) <= t /\ Distance(e, d) <= t
    BY <1>7, <1>8, <2>1 DEF Matches
  <2>4. Distance(c, d) <= 2 * Tol
    BY <1>0, <2>2, <2>3 DEF Distance
  <2>5. ~(Distance(c, d) > 2 * Tol)
    BY <1>0, <2>2, <2>4 DEF Distance
  <2> QED BY <1>2, <2>1, <2>5
<1>9. f \in Injection(1..n, 1..m)
  <2>1. f \in [1..n -> 1..m]
    BY <1>6, <1>7
  <2> QED BY <1>8, <2>1, Fun_IsInj
<1>10. /\ IsFiniteSet(1..n) /\ IsFiniteSet(1..m)
       /\ Cardinality(1..n) = n /\ Cardinality(1..m) = m
  <2>1. 1 \in Int /\ n \in Int /\ m \in Int
    OBVIOUS
  <2>2. /\ IsFiniteSet(1..n) /\ Cardinality(1..n) = IF 1 > n THEN 0 ELSE n - 1 + 1
        /\ IsFiniteSet(1..m) /\ Cardinality(1..m) = IF 1 > m THEN 0 ELSE m - 1 + 1
    BY <2>1, FS_Interval
  <2> QED BY <2>2
<1>11. Cardinality(1..n) <= Cardinality(1..m)
  BY <1>9, <1>10, FS_Injection
<1> QED BY <1>2, <1>10, <1>11

\* Rounding moves a frequency by half a grain at most.
LEMMA ShownNearby ==
  ASSUME NEW f \in Int
  PROVE  Shown(f) \in Int /\ 2 * Distance(Shown(f), f) <= Grain
<1>1. Grain \in Nat /\ Grain > 0
  BY WatchAssumption
<1>2. PICK low, r : low = f \div Grain /\ r = f % Grain
  OBVIOUS
<1>3. low \in Int /\ r \in 0..(Grain - 1) /\ f = Grain * low + r
  BY <1>1, <1>2
<1>4. PICK base : base = Grain * low
  OBVIOUS
<1>5. base \in Int /\ Grain * (low + 1) = base + Grain
  BY <1>1, <1>3, <1>4
<1>6. Shown(f) = IF 2 * r > Grain \/ (2 * r = Grain /\ low % 2 = 1) THEN base + Grain ELSE base
  BY <1>2, <1>4, <1>5 DEF Shown
<1>7. PICK s : s = Shown(f)
  OBVIOUS
<1>8. \/ s = base + Grain /\ 2 * r >= Grain
      \/ s = base /\ 2 * r <= Grain
  BY <1>1, <1>3, <1>6, <1>7
<1> QED BY <1>1, <1>3, <1>4, <1>5, <1>7, <1>8 DEF Distance

\* A measurement of a place is taken for a baselined one exactly if it is of one,
\* and so it is if it was rounded before.
LEMMA PlaceIsTold ==
  ASSUME Fine \div 2 + Grain <= Tol,
         NEW before, before \subseteq Int, NEW p \in Int, \A g \in before : p = g \/ Apart(p, g),
         NEW emitters \in Seq(Emitter), Covers(emitters, before),
         NEW c \in Int, Near(c, p), NEW s \in Int, 2 * Distance(s, c) <= Grain
  PROVE  (\E e \in ToSet(emitters) : Distance(e.freq, s) <= Tol) <=> p \in before
<1>1. Fine \in Nat \ {0} /\ Tol \in Nat /\ Grain \in Nat
  BY FrequencyAssumption, WatchAssumption
<1>2. PICK q : q = Fine \div 2
  OBVIOUS
<1>3. q \in Nat /\ q + Grain <= Tol /\ 2 * Distance(c, p) < q
  BY <1>1, <1>2 DEF Near
<1>4. ASSUME NEW e \in ToSet(emitters) PROVE e.freq \in Int
  <2>1. PICK R : R = Emitter
    OBVIOUS
  <2>2. emitters \in Seq(R)
    BY <2>1
  <2>3. e \in R
    BY <2>2 DEF ToSet
  <2> QED BY <2>1, <2>3 DEF Emitter
<1>5. ASSUME p \in before PROVE \E e \in ToSet(emitters) : Distance(e.freq, s) <= Tol
  <2>1. PICK e \in ToSet(emitters) : Near(e.freq, p)
    BY <1>5 DEF Covers
  <2>2. PICK d : d = e.freq
    OBVIOUS
  <2>3. d \in Int /\ 2 * Distance(d, p) < q
    BY <1>2, <1>4, <2>1, <2>2 DEF Near
  <2>4. Distance(d, s) <= Tol
    BY <1>1, <1>3, <2>3 DEF Distance
  <2> QED BY <2>2, <2>4
<1>6. ASSUME p \notin before, NEW e \in ToSet(emitters), Distance(e.freq, s) <= Tol PROVE FALSE
  <2>1. PICK g \in before : Near(e.freq, g)
    BY DEF Covers
  <2>2. PICK d : d = e.freq
    OBVIOUS
  <2>3. d \in Int /\ g \in Int /\ 2 * Distance(d, g) < q /\ Distance(d, s) <= Tol
    BY <1>2, <1>4, <1>6, <2>1, <2>2 DEF Near
  <2>4. Distance(p, g) >= Tol + q + Grain
    BY <1>2, <1>6 DEF Apart
  <2>5. Distance(d, c) <= Tol + Grain
    BY <1>1, <2>3 DEF Distance
  <2>6. Distance(p, g) < (Tol + Grain) + q
    BY <1>1, <1>3, <2>3, <2>5, NotSoFar
  <2>7. Distance(p, g) \in Int
    BY <2>3 DEF Distance
  <2> QED BY <1>1, <1>3, <2>4, <2>6, <2>7
<1> QED BY <1>5, <1>6

\* Who is a stranger depends on where the radios were and are alone, as long as
\* each is where one was or clearly elsewhere: no emitter takes a new radio for its
\* own, and none misses its own (rf.py:93-103).  What is compared for the screen is
\* rounded, and comes to the same (rf.py:384; rf_monitor.py:152-158).
THEOREM StrangersAreNew ==
  ASSUME Fine \div 2 + Grain <= Tol,
         NEW before, before \subseteq Int, NEW now, now \subseteq Int,
         \A f \in now : \A g \in before : f = g \/ Apart(f, g),
         NEW emitters \in Seq(Emitter), Covers(emitters, before),
         NEW carriers \in Seq(Carrier), NEW at \in Bijection(DOMAIN carriers, now),
         \A i \in DOMAIN carriers : Near(carriers[i].freq, at[i])
  PROVE  \A i \in DOMAIN carriers :
           /\ i \in Strangers(carriers, emitters) <=> at[i] \notin before
           /\ (\E e \in ToSet(emitters) : Distance(e.freq, Shown(carriers[i].freq)) <= Tol)
                <=> at[i] \in before
<1>1. ASSUME NEW i \in DOMAIN carriers
      PROVE  carriers[i].freq \in Int /\ at[i] \in now /\ at[i] \in Int
  <2>1. PICK R : R = Carrier
    OBVIOUS
  <2>2. carriers \in Seq(R)
    BY <2>1
  <2>3. carriers[i] \in R
    BY <2>2
  <2>4. carriers[i].freq \in Int
    BY <2>1, <2>3 DEF Carrier
  <2>5. at[i] \in now
    BY DEF Bijection, Injection
  <2> QED BY <2>4, <2>5
<1>2. ASSUME NEW e \in ToSet(emitters) PROVE e.tol = Tol
  <2>1. PICK R : R = Emitter
    OBVIOUS
  <2>2. emitters \in Seq(R)
    BY <2>1
  <2>3. e \in R
    BY <2>2 DEF ToSet
  <2> QED BY <2>1, <2>3 DEF Emitter
<1>3. ASSUME NEW i \in DOMAIN carriers
      PROVE  /\ i \in Strangers(carriers, emitters) <=> at[i] \notin before
             /\ (\E e \in ToSet(emitters) : Distance(e.freq, Shown(carriers[i].freq)) <= Tol)
                  <=> at[i] \in before
  <2>1. PICK c, p : c = carriers[i].freq /\ p = at[i]
    OBVIOUS
  <2>2. c \in Int /\ p \in Int /\ Near(c, p) /\ \A g \in before : p = g \/ Apart(p, g)
    BY <1>1, <2>1
  <2>3. 2 * Distance(c, c) <= Grain
    BY <2>2, WatchAssumption DEF Distance
  <2>4. (\E e \in ToSet(emitters) : Distance(e.freq, c) <= Tol) <=> p \in before
    BY <2>2, <2>3, PlaceIsTold
  <2>5. Shown(c) \in Int /\ 2 * Distance(Shown(c), c) <= Grain
    BY <2>2, ShownNearby
  <2>6. (\E e \in ToSet(emitters) : Distance(e.freq, Shown(c)) <= Tol) <=> p \in before
    BY <2>2, <2>5, PlaceIsTold
  <2>7. i \in Strangers(carriers, emitters) <=> ~\E e \in ToSet(emitters) : Distance(e.freq, c) <= Tol
    BY <1>2, <2>1 DEF Strangers, Matches
  <2> QED BY <2>1, <2>4, <2>6, <2>7
<1> QED BY <1>3

\* The findings are those of the carriers nothing accounts for, each once and by
\* frequency.
Increasing(positions) == {p \in positions \X positions : p[1] < p[2]}

OneForEach(findings, carriers, positions) ==
  /\ Len(findings) = Cardinality(positions) /\ DOMAIN findings = 1..Cardinality(positions)
  /\ \E l : /\ Arranges(l, positions, Increasing(positions))
            /\ \A k \in DOMAIN findings : findings[k].freq = carriers[l[k]].freq

LEMMA FindingsOfStrangers ==
  ASSUME NEW carriers \in Seq(Carrier), NEW emitters
  PROVE  OneForEach(FindingsByIdentification(carriers, emitters), carriers, Strangers(carriers, emitters))
<1>1. PICK n \in Nat : n = Len(carriers) /\ DOMAIN carriers = 1..n
  OBVIOUS
<1>2. PICK P : P = Strangers(carriers, emitters)
  OBVIOUS
<1>3. P \subseteq 1..n
  BY <1>1, <1>2 DEF Strangers
<1>4. IsFiniteSet(P)
  <2>1. 1 \in Int /\ n \in Int
    OBVIOUS
  <2>2. IsFiniteSet(1..n)
    BY <2>1, FS_Interval
  <2> QED BY <1>3, <2>2, FS_Subset
<1>5. PICK m \in Nat : m = Cardinality(P)
  BY <1>4, FS_CardinalityType
<1>6. Orders(Increasing(P), P)
  <2>1. \A x \in P : x \in Int
    BY <1>3
  <2>2. \A x, y \in P : <<x, y>> \in Increasing(P) <=> x < y
    BY DEF Increasing
  <2>3. \A x \in P : <<x, x>> \notin Increasing(P)
    BY <2>1, <2>2
  <2>4. \A x, y \in P : x # y => <<x, y>> \in Increasing(P) \/ <<y, x>> \in Increasing(P)
    BY <2>1, <2>2
  <2>5. ASSUME NEW x \in P, NEW y \in P, NEW z \in P,
               <<x, y>> \in Increasing(P), <<y, z>> \in Increasing(P)
        PROVE  <<x, z>> \in Increasing(P)
    BY <2>1, <2>2, <2>5
  <2> QED BY <2>3, <2>4, <2>5 DEF Orders
<1>7. PICK l : l = InOrder(P, Increasing(P))
  OBVIOUS
<1>8. Arranges(l, P, Increasing(P))
  BY <1>4, <1>6, <1>7, InOrderArranges
<1>9. DOMAIN l = 1..m
  BY <1>5, <1>8 DEF Arranges
<1>10. PICK u : u = Unaccounted(carriers, emitters)
  OBVIOUS
<1>11. u = [k \in DOMAIN l |-> carriers[l[k]]]
  BY <1>2, <1>7, <1>10, Zenon DEF Unaccounted, Part, Increasing
<1> DEFINE offset(c) == Min({Distance(e.freq, c.freq) : e \in ToSet(emitters)})
           finding(i) == [severity |-> "critical", freq |-> u[i].freq, offset |-> offset(u[i])]
<1>12. PICK f : f = FindingsByIdentification(carriers, emitters)
  OBVIOUS
<1>13. f = [i \in DOMAIN u |-> finding(i)]
  BY <1>10, <1>12, Zenon DEF FindingsByIdentification
<1> HIDE DEF offset
<1>14. PICK W : W = {finding(i) : i \in 1..m}
  OBVIOUS
<1>15. f \in [1..m -> W]
  BY <1>9, <1>11, <1>13, <1>14
<1>16. Len(f) = m /\ DOMAIN f = 1..m
  BY <1>15
<1>17. \A k \in 1..m : f[k].freq = carriers[l[k]].freq
  BY <1>9, <1>11, <1>13
<1>18. OneForEach(f, carriers, P)
  <2>1. Len(f) = Cardinality(P) /\ DOMAIN f = 1..Cardinality(P)
    BY <1>5, <1>16
  <2>2. \A k \in DOMAIN f : f[k].freq = carriers[l[k]].freq
    BY <1>16, <1>17
  <2> QED BY <1>8, <2>1, <2>2, Zenon DEF OneForEach
<1> QED BY <1>2, <1>12, <1>18

\* The colour goes by the nearest emitter and the first one's tolerance, the
\* findings by each emitter's own: there is one tolerance for all.
LEMMA KnownIsNear ==
  ASSUME NEW emitters \in Seq(Emitter), emitters # <<>>, NEW c \in Int
  PROVE  Min({Distance(e.freq, c) : e \in ToSet(emitters)}) <= emitters[1].tol
           <=> \E e \in ToSet(emitters) : Distance(e.freq, c) <= Tol
<1>1. PICK n \in Nat : n = Len(emitters) /\ DOMAIN emitters = 1..n /\ n > 0
  OBVIOUS
<1>2. ASSUME NEW k \in 1..n PROVE emitters[k].freq \in Int /\ emitters[k].tol = Tol
  <2>1. PICK R : R = Emitter
    OBVIOUS
  <2>2. emitters \in Seq(R)
    BY <2>1
  <2>3. emitters[k] \in R
    BY <1>1, <2>2
  <2> QED BY <2>1, <2>3 DEF Emitter
<1>4. PICK d, D : d = [k \in 1..n |-> Distance(emitters[k].freq, c)] /\ D = {d[k] : k \in 1..n}
  OBVIOUS
<1>5. \A k \in 1..n : d[k] \in Int /\ d[k] = Distance(emitters[k].freq, c)
  BY <1>2, <1>4 DEF Distance
<1>6. IsFiniteSet(D) /\ D \subseteq Int /\ D # {}
  <2>1. 1 \in Int /\ n \in Int
    OBVIOUS
  <2>2. IsFiniteSet(1..n)
    BY <2>1, FS_Interval
  <2>3. IsFiniteSet({d[k] : k \in 1..n})
    BY <2>2, ImageFinite
  <2>4. d[1] \in D
    BY <1>1, <1>4
  <2> QED BY <1>4, <1>5, <2>3, <2>4
<1>7. {Distance(e.freq, c) : e \in ToSet(emitters)} = D
  BY <1>1, <1>4, <1>5 DEF ToSet
<1>8. PICK m : m = Min(D)
  OBVIOUS
<1>9. m \in D /\ \A y \in D : m <= y
  BY <1>6, <1>8, LeastOfFinite
<1>10. Tol \in Nat /\ emitters[1].tol = Tol
  BY <1>1, <1>2, FrequencyAssumption
<1>11. m <= Tol <=> \E k \in 1..n : d[k] <= Tol
  BY <1>4, <1>5, <1>6, <1>9, <1>10
<1>13. (\E e \in ToSet(emitters) : Distance(e.freq, c) <= Tol) <=> \E k \in 1..n : d[k] <= Tol
  BY <1>1, <1>5 DEF ToSet
<1> QED BY <1>7, <1>8, <1>10, <1>11, <1>13

----------------------------------------------------------------------------
(* The bins of a sweep *)

Picture == Pictures(Int)

\* A picture, board by board.
LEMMA PictureParts ==
  ASSUME NEW range, NEW radios \in Pictures(range)
  PROVE  \E on \in SUBSET Board : \E f \in [on -> [at : range, level : {20, 30}]] :
           /\ \A x \in on : f[x] \in radios
           /\ \A r \in radios : \E x \in on : r = f[x]
<1>1. PICK R : R = [at : range, level : {20, 30}]
  OBVIOUS
<1>2. PICK F : F = UNION {[on -> R] : on \in SUBSET Board}
  OBVIOUS
<1>3. PICK f \in F : radios = Range(f)
  BY <1>1, <1>2 DEF Pictures
<1>4. PICK on \in SUBSET Board : f \in [on -> R]
  BY <1>2, <1>3
<1>5. (\A x \in on : f[x] \in radios) /\ \A r \in radios : \E x \in on : r = f[x]
  BY <1>3, <1>4 DEF Range
<1> QED BY <1>1, <1>4, <1>5

LEMMA PictureOf ==
  ASSUME NEW range, NEW on \in SUBSET Board, NEW f \in [on -> [at : range, level : {20, 30}]]
  PROVE  {f[x] : x \in on} \in Pictures(range)
<1>1. PICK R : R = [at : range, level : {20, 30}]
  OBVIOUS
<1>2. PICK F : F = UNION {[to -> R] : to \in SUBSET Board}
  OBVIOUS
<1>3. f \in F
  BY <1>1, <1>2
<1>4. Range(f) \in Pictures(range)
  BY <1>1, <1>2, <1>3 DEF Pictures
<1>5. Range(f) = {f[x] : x \in on}
  BY DEF Range
<1> QED BY <1>4, <1>5

LEMMA RadioOfPicture ==
  ASSUME NEW range, NEW radios \in Pictures(range), NEW r \in radios
  PROVE  r = [at |-> r.at, level |-> r.level] /\ r.at \in range /\ r.level \in {20, 30}
<1>1. PICK R : R = [at : range, level : {20, 30}]
  OBVIOUS
<1>2. \E on \in SUBSET Board : \E f \in [on -> R] :
        (\A x \in on : f[x] \in radios) /\ \A q \in radios : \E x \in on : q = f[x]
  BY <1>1, PictureParts
<1>3. r \in R
  BY <1>2
<1> QED BY <1>1, <1>3

Passes == Seq([radiated : Picture, commanded : Picture])

LEMMA SpectrumTyped ==
  ASSUME NEW air, air.radiated \in Picture, NEW bin \in Int
  PROVE  Spectrum(air, bin) \in Int
<1>1. PICK T : T = {0} \cup {r.level - 10 * Distance(r.at, bin) : r \in air.radiated}
  OBVIOUS
<1>2. ASSUME NEW r \in air.radiated
      PROVE  /\ r.level - 10 * Distance(r.at, bin) \in Int
             /\ r.level - 10 * Distance(r.at, bin) <= 30
  <2>1. r.at \in Int /\ r.level \in {20, 30}
    BY RadioOfPicture DEF Picture
  <2>2. PICK d : d = Distance(r.at, bin)
    OBVIOUS
  <2>3. d \in Int /\ d >= 0
    BY <2>1, <2>2 DEF Distance
  <2> QED BY <2>1, <2>2, <2>3
<1>3. T \subseteq Int /\ T # {} /\ \A y \in T : y <= 30
  BY <1>1, <1>2
<1>4. PICK x \in T : \A y \in T : y <= x
  <2>1. 30 \in Int
    OBVIOUS
  <2> QED BY <1>3, <2>1, GreatestOfInt
<1>5. \A y \in T : x >= y
  BY <1>3, <1>4
<1>6. Max(T) \in T
  BY <1>4, <1>5 DEF Max
<1>7. Max(T) \in Int
  BY <1>3, <1>6
<1> QED BY <1>1, <1>7 DEF Spectrum, Db

\* A pass is a whole spectrum; the bins of all of them are sorted.
LEMMA SortedTyped ==
  ASSUME NEW passes \in Passes
  PROVE  Sorted(passes) \in Seq(Measurement) /\ Ascending(Sorted(passes))
<1>0. Bins \in Nat /\ Fine \in Nat \ {0}
  BY WatchAssumption, FrequencyAssumption
<1>1. PICK n \in Nat : n = Len(passes) /\ DOMAIN passes = 1..n
  BY DEF Passes
<1> DEFINE row(p) == SubSeq([k \in 1..Bins |-> Spectrum(passes[p], k)], 1, Bins)
<1>2. ASSUME NEW p \in 1..n
      PROVE  \A k \in 1..Bins : row(p)[k] \in Int
  <2>1. passes[p].radiated \in Picture
    <3>1. PICK R : R = [radiated : Picture, commanded : Picture]
      OBVIOUS
    <3>2. passes \in Seq(R)
      BY <3>1 DEF Passes
    <3>3. passes[p] \in R
      BY <1>1, <3>2
    <3> QED BY <3>1, <3>3
  <2>2. PICK r : r = [k \in 1..Bins |-> Spectrum(passes[p], k)]
    OBVIOUS
  <2>3. r \in [1..Bins -> Int]
    BY <2>1, <2>2, SpectrumTyped
  <2>4. SubSeq(r, 1, Bins) = r
    BY <1>0, <2>3
  <2>5. row(p) = r
    BY <2>2, <2>4
  <2> QED BY <2>3, <2>5
<1> HIDE DEF row
<1>3. PICK spectra : spectra = SubSeq([p \in 1..n |-> row(p)], 1, n)
  OBVIOUS
<1>4. \A p \in 1..n : \A k \in 1..Bins : spectra[p][k] \in Int
  <2>1. PICK W, f : f = [p \in 1..n |-> row(p)] /\ W = {row(p) : p \in 1..n}
    OBVIOUS
  <2>2. f \in [1..n -> W]
    BY <2>1
  <2>3. SubSeq(f, 1, n) = f
    BY <2>2
  <2>4. \A p \in 1..n : spectra[p] = row(p)
    BY <1>3, <2>1, <2>3
  <2> QED BY <1>2, <2>4
<1> DEFINE measured(k) == {[power |-> spectra[p][k], pass |-> p] : p \in 1..n}
           ordered(k) == InOrder(measured(k), Quieter(measured(k)))
           bin(i) == ((i - 1) \div n) + 1
           row2(i) == [freq |-> bin(i) * Fine, power |-> ordered(bin(i))[((i - 1) % n) + 1].power]
<1>5. Sorted(passes) = SubSeq([i \in 1..(n * Bins) |-> row2(i)], 1, n * Bins)
  BY <1>1, <1>3, Zenon DEF Sorted, row
<1>6. ASSUME NEW k \in 1..Bins, NEW j \in 1..n
      PROVE  ordered(k)[j].power \in Int
  <2>1. PICK m : m = [p \in 1..n |-> [power |-> spectra[p][k], pass |-> p]]
    OBVIOUS
  <2>2. PICK M : M = {m[p] : p \in 1..n}
    OBVIOUS
  <2>3. M = measured(k)
    BY <2>1, <2>2
  <2>4. \A x \in M : x.power \in Int /\ x.pass \in 1..n
    BY <1>4, <2>1, <2>2
  <2>5. \A x, y \in M : x # y => x.pass # y.pass
    <3>1. \A p \in 1..n : m[p].pass = p
      BY <2>1
    <3> QED BY <2>2, <3>1
  <2>6. IsFiniteSet(M)
    <3>1. 1 \in Int /\ n \in Int
      OBVIOUS
    <3>2. IsFiniteSet(1..n)
      BY <3>1, FS_Interval
    <3> QED BY <2>2, <3>2, ImageFinite
  <2>7. Orders(Quieter(M), M)
    <3>1. \A x \in M : x.pass \in Int /\ x.power \in Int
      BY <2>4
    <3>2. \A x, y \in M : <<x, y>> \in Quieter(M) <=> (x.power < y.power \/ (x.power = y.power /\ x.pass < y.pass))
      BY DEF Quieter
    <3>3. \A x \in M : <<x, x>> \notin Quieter(M)
      BY <3>1, <3>2
    <3>4. ASSUME NEW x \in M, NEW y \in M, x # y
          PROVE  <<x, y>> \in Quieter(M) \/ <<y, x>> \in Quieter(M)
      BY <2>5, <3>1, <3>2, <3>4
    <3>5. ASSUME NEW x \in M, NEW y \in M, NEW z \in M,
                 <<x, y>> \in Quieter(M), <<y, z>> \in Quieter(M)
          PROVE  <<x, z>> \in Quieter(M)
      BY <3>1, <3>2, <3>5
    <3> QED BY <3>3, <3>4, <3>5 DEF Orders
  <2>8. Cardinality(M) = n
    <3>1. m \in Bijection(1..n, M)
      <4>1. \A p \in 1..n : m[p].pass = p
        BY <2>1
      <4>2. m \in [1..n -> M]
        BY <2>1, <2>2
      <4>3. \A p, q \in 1..n : m[p] = m[q] => p = q
        BY <4>1
      <4>4. m \in Injection(1..n, M)
        BY <4>2, <4>3, Fun_IsInj
      <4>5. m \in Surjection(1..n, M)
        BY <2>2, <4>2 DEF Surjection
      <4> QED BY <4>4, <4>5 DEF Bijection
    <3>2. ExistsBijection(1..n, M)
      BY <3>1 DEF ExistsBijection
    <3> QED BY <3>2, FS_CountingElements
  <2>9. PICK o : o = InOrder(M, Quieter(M))
    OBVIOUS
  <2>10. Arranges(o, M, Quieter(M))
    BY <2>6, <2>7, <2>9, InOrderArranges
  <2>11. o[j] \in M
    BY <2>8, <2>10 DEF Arranges
  <2> QED BY <2>3, <2>4, <2>9, <2>11
<1> HIDE DEF ordered, measured
<1>7. ASSUME NEW i \in 1..(n * Bins)
      PROVE  n > 0 /\ bin(i) \in 1..Bins /\ ((i - 1) % n) + 1 \in 1..n
  <2>1. n > 0
    BY <1>0
  <2>2. PICK a : a = i - 1
    OBVIOUS
  <2>3. a \in Nat /\ a < n * Bins
    BY <1>0, <2>2
  <2>4. a % n \in 0..(n - 1) /\ a \div n \in Nat /\ a \div n < Bins
    BY <1>0, <2>1, <2>3
  <2>5. PICK d, m : d = a \div n /\ m = a % n
    OBVIOUS
  <2>6. d + 1 \in 1..Bins /\ m + 1 \in 1..n
    BY <1>0, <2>4, <2>5
  <2> QED BY <2>1, <2>2, <2>5, <2>6
<1>8. ASSUME NEW i \in 1..(n * Bins), NEW j \in 1..(n * Bins), i <= j
      PROVE  bin(i) <= bin(j)
  <2>1. n > 0
    BY <1>7
  <2>2. PICK a, b : a = i - 1 /\ b = j - 1
    OBVIOUS
  <2>3. a \in Nat /\ b \in Nat /\ a <= b
    BY <1>8, <2>2
  <2>4. a \div n <= b \div n /\ a \div n \in Nat /\ b \div n \in Nat
    BY <2>1, <2>3
  <2>5. PICK d, e : d = a \div n /\ e = b \div n
    OBVIOUS
  <2>6. d + 1 <= e + 1
    BY <2>4, <2>5
  <2> QED BY <2>2, <2>5, <2>6
<1> HIDE DEF bin
<1>9. PICK l \in Nat : l = n * Bins
  BY <1>0
<1>10. PICK f : f = [i \in 1..l |-> row2(i)]
  OBVIOUS
<1>11. ASSUME NEW i \in 1..l
       PROVE  f[i] \in Measurement /\ f[i].freq = bin(i) * Fine
  <2>1. f[i] = row2(i)
    BY <1>10
  <2>2. PICK k, m : k = bin(i) /\ m = ((i - 1) % n) + 1
    OBVIOUS
  <2>3. k \in 1..Bins /\ m \in 1..n
    BY <1>7, <1>9, <2>2
  <2>4. ordered(k)[m].power \in Int
    BY <1>6, <2>3
  <2>5. k * Fine \in Int
    BY <1>0, <2>3
  <2> QED BY <2>1, <2>2, <2>4, <2>5 DEF Measurement
<1>12. f \in [1..l -> Measurement]
  BY <1>10, <1>11
<1>13. SubSeq(f, 1, l) = f
  BY <1>12
<1> HIDE DEF row2
<1>14. Sorted(passes) = f
  BY <1>5, <1>9, <1>10, <1>13
<1>15. ASSUME NEW i \in 1..l, NEW j \in 1..l, i <= j
       PROVE  f[i].freq <= f[j].freq
  <2>1. PICK c, d : c = bin(i) /\ d = bin(j)
    OBVIOUS
  <2>2. c \in 1..Bins /\ d \in 1..Bins /\ c <= d
    BY <1>7, <1>8, <1>9, <1>15, <2>1
  <2>3. c * Fine <= d * Fine
    BY <1>0, <2>2
  <2>4. f[i].freq = c * Fine /\ f[j].freq = d * Fine
    BY <1>11, <2>1
  <2> QED BY <2>3, <2>4
<1>16. Len(f) = l /\ f \in Seq(Measurement)
  BY <1>12
<1> QED BY <1>14, <1>15, <1>16 DEF Ascending

\* Below the floor, a radio does not change the spectrum: three bins outside the
\* band are enough.
LEMMA OutOfSight ==
  ASSUME NEW radios \in Picture
  PROVE  \E seen \in Pictures(-1..(Bins + 2)) :
           \A bin \in 1..Bins : Spectrum([radiated |-> radios, commanded |-> radios], bin)
                                  = Spectrum([radiated |-> seen, commanded |-> seen], bin)
<1>0. Bins \in Nat
  BY WatchAssumption
<1>1. PICK seen : seen = {r \in radios : r.at \in -1..(Bins + 2)}
  OBVIOUS
<1>2. seen \in Pictures(-1..(Bins + 2))
  <2>1. PICK R, S : R = [at : Int, level : {20, 30}] /\ S = [at : -1..(Bins + 2), level : {20, 30}]
    OBVIOUS
  <2>2. \E on \in SUBSET Board : \E f \in [on -> R] :
          (\A x \in on : f[x] \in radios) /\ \A r \in radios : \E x \in on : r = f[x]
    BY <2>1, PictureParts DEF Picture
  <2>3. PICK on \in SUBSET Board : \E f \in [on -> R] :
          (\A x \in on : f[x] \in radios) /\ \A r \in radios : \E x \in on : r = f[x]
    BY <2>2
  <2>4. PICK f \in [on -> R] :
          (\A x \in on : f[x] \in radios) /\ \A r \in radios : \E x \in on : r = f[x]
    BY <2>3
  <2>5. PICK near, g : near = {x \in on : f[x].at \in -1..(Bins + 2)} /\ g = [x \in near |-> f[x]]
    OBVIOUS
  <2>6. near \in SUBSET Board /\ g \in [near -> S]
    <3>1. ASSUME NEW x \in near PROVE g[x] \in S
      <4>1. f[x] \in R /\ f[x].at \in -1..(Bins + 2) /\ g[x] = f[x]
        BY <2>5
      <4> QED BY <2>1, <4>1
    <3> QED BY <2>5, <3>1
  <2>7. {g[x] : x \in near} = seen
    BY <1>1, <2>4, <2>5
  <2> QED BY <2>1, <2>6, <2>7, PictureOf
<1>3. ASSUME NEW bin \in 1..Bins
      PROVE  Spectrum([radiated |-> radios, commanded |-> radios], bin)
               = Spectrum([radiated |-> seen, commanded |-> seen], bin)
  <2>1. PICK T, U : /\ T = {0} \cup {r.level - 10 * Distance(r.at, bin) : r \in radios}
                    /\ U = {0} \cup {r.level - 10 * Distance(r.at, bin) : r \in seen}
    OBVIOUS
  <2>2. ASSUME NEW r \in radios
        PROVE  /\ r.level - 10 * Distance(r.at, bin) \in Int
               /\ r.level - 10 * Distance(r.at, bin) <= 30
               /\ r \notin seen => r.level - 10 * Distance(r.at, bin) <= 0
    <3>1. r.at \in Int /\ r.level \in {20, 30}
      BY RadioOfPicture DEF Picture
    <3>2. PICK d : d = Distance(r.at, bin)
      OBVIOUS
    <3>3. d \in Int /\ d >= 0 /\ (r \notin seen => d >= 3)
      BY <1>0, <1>1, <3>1, <3>2 DEF Distance
    <3> QED BY <3>1, <3>2, <3>3
  <2>3. U \subseteq T /\ T \subseteq Int /\ 0 \in U /\ (\A y \in T : y <= 30) /\ \A y \in T : y \in U \/ y <= 0
    BY <1>1, <2>1, <2>2
  <2>4. PICK u \in U : \A y \in U : y <= u
    <3>1. U \subseteq Int /\ U # {} /\ (\A y \in U : y <= 30) /\ 30 \in Int
      BY <2>3
    <3> QED BY <3>1, GreatestOfInt
  <2>5. u \in T /\ (\A y \in T : u >= y) /\ \A y \in U : u >= y
    BY <2>3, <2>4
  <2>6. Max(T) \in T /\ \A y \in T : Max(T) >= y
    BY <2>5 DEF Max
  <2>7. Max(U) \in U /\ \A y \in U : Max(U) >= y
    BY <2>4, <2>5 DEF Max
  <2>8. PICK m, n : m = Max(T) /\ n = Max(U)
    OBVIOUS
  <2>9. m \in T /\ m >= u /\ u >= m /\ n \in U /\ n >= u /\ u >= n
    BY <2>4, <2>5, <2>6, <2>7, <2>8
  <2>10. m = u /\ n = u
    <3>1. m \in Int /\ n \in Int /\ u \in Int
      BY <2>3, <2>5, <2>9
    <3> QED BY <2>9, <3>1
  <2> QED BY <2>1, <2>8, <2>10 DEF Spectrum
<1> QED BY <1>2, <1>3

\* A sweep is what its spectra are.
LEMMA SortedBySpectra ==
  ASSUME NEW a, NEW b, \A bin \in 1..Bins : Spectrum(a, bin) = Spectrum(b, bin)
  PROVE  Sorted(<<a>>) = Sorted(<<b>>)
<1>1. PICK as, bs : as = <<a>> /\ bs = <<b>>
  OBVIOUS
<1>2. Len(as) = 1 /\ Len(bs) = 1 /\ as[1] = a /\ bs[1] = b
  BY <1>1
<1> DEFINE row(p) == SubSeq([k \in 1..Bins |-> Spectrum(as[p], k)], 1, Bins)
           line(p) == SubSeq([k \in 1..Bins |-> Spectrum(bs[p], k)], 1, Bins)
<1>3. row(1) = line(1)
  <2>1. [k \in 1..Bins |-> Spectrum(as[1], k)] = [k \in 1..Bins |-> Spectrum(bs[1], k)]
    BY <1>2
  <2> QED BY <2>1, Zenon
<1> HIDE DEF row, line
<1>4. [p \in 1..1 |-> row(p)] = [p \in 1..1 |-> line(p)]
  BY <1>3
<1>5. PICK spectra : spectra = SubSeq([p \in 1..1 |-> row(p)], 1, 1)
  OBVIOUS
<1>6. spectra = SubSeq([p \in 1..1 |-> line(p)], 1, 1)
  BY <1>4, <1>5, Zenon
<1> DEFINE measured(k) == {[power |-> spectra[p][k], pass |-> p] : p \in 1..1}
           ordered(k) == InOrder(measured(k), Quieter(measured(k)))
           bin(i) == ((i - 1) \div 1) + 1
           row2(i) == [freq |-> bin(i) * Fine, power |-> ordered(bin(i))[((i - 1) % 1) + 1].power]
<1>7. Sorted(as) = SubSeq([i \in 1..(1 * Bins) |-> row2(i)], 1, 1 * Bins)
  BY <1>2, <1>5, Zenon DEF Sorted, row
<1>8. Sorted(bs) = SubSeq([i \in 1..(1 * Bins) |-> row2(i)], 1, 1 * Bins)
  BY <1>2, <1>6, Zenon DEF Sorted, line
<1> QED BY <1>1, <1>7, <1>8, Zenon

----------------------------------------------------------------------------
(* Sweeps of radios that keep still *)

Same(passes) == \A i \in DOMAIN passes : passes[i].radiated = passes[i].commanded

\* What the search is expected to do; the model must resolve halves of a bin.
Resolves == LocatesRadios /\ Fine > 1

LEMMA PassOfSweep ==
  ASSUME NEW passes \in Passes, NEW i \in DOMAIN passes
  PROVE  /\ passes[i].radiated \in Picture /\ passes[i].commanded \in Picture
         /\ passes[i] = [radiated |-> passes[i].radiated, commanded |-> passes[i].commanded]
<1>1. PICK R : R = [radiated : Picture, commanded : Picture]
  OBVIOUS
<1>2. passes \in Seq(R)
  BY <1>1 DEF Passes
<1>3. passes[i] \in R
  BY <1>2
<1> QED BY <1>1, <1>3

Sweep(passes) == passes \in Passes /\ passes # <<>> /\ Len(passes) <= MaxPerStamp

LEMMA PositionsTyped ==
  ASSUME NEW air, air.commanded \in Picture
  PROVE  Positions(air) \subseteq Int
<1>1. Fine \in Int
  BY FrequencyAssumption
<1>2. ASSUME NEW r \in air.commanded PROVE r.at * Fine \in Int
  <2>1. r.at \in Int
    BY RadioOfPicture DEF Picture
  <2> QED BY <1>1, <2>1
<1> QED BY <1>2 DEF Positions

\* A steady sweep of radios that can be told apart has one carrier for each.
LEMMA SteadyLocated ==
  ASSUME LocatesRadios, NEW passes, Sweep(passes), Same(passes), Steady(passes), Resolvable(passes[1])
  PROVE  Locates(FindCarriers(Sorted(passes)), passes[1], Len(passes) = 1)
<1>1. PICK n \in Nat : n = Len(passes) /\ DOMAIN passes = 1..n
  BY DEF Sweep, Passes
<1>2. n \in 1..MaxPerStamp /\ passes \in Passes
  BY <1>1, WatchAssumption DEF Sweep, Passes
<1>3. PICK air : air = passes[1]
  OBVIOUS
<1>4. PICK radios : radios = air.commanded
  OBVIOUS
<1>5. /\ radios \in Picture /\ air = [radiated |-> radios, commanded |-> radios]
  <2>1. 1 \in DOMAIN passes
    BY <1>1, <1>2
  <2>2. /\ air.radiated \in Picture /\ air.commanded \in Picture
        /\ air = [radiated |-> air.radiated, commanded |-> air.commanded]
    BY <1>2, <1>3, <2>1, PassOfSweep
  <2>3. air.radiated = air.commanded
    BY <1>3, <2>1 DEF Same
  <2> QED BY <1>4, <2>2, <2>3
<1>6. radios \in Pictures(4..(Bins - 3))
  <2>1. \A r \in radios : r.at \in 4..(Bins - 3)
    BY <1>3, <1>4 DEF Resolvable
  <2>2. PICK R, S : R = [at : Int, level : {20, 30}] /\ S = [at : 4..(Bins - 3), level : {20, 30}]
    OBVIOUS
  <2>3. \E on \in SUBSET Board : \E f \in [on -> R] :
          (\A x \in on : f[x] \in radios) /\ \A r \in radios : \E x \in on : r = f[x]
    BY <1>5, <2>2, PictureParts DEF Picture
  <2>4. PICK on \in SUBSET Board : \E f \in [on -> R] :
          (\A x \in on : f[x] \in radios) /\ \A r \in radios : \E x \in on : r = f[x]
    BY <2>3
  <2>5. PICK f \in [on -> R] :
          (\A x \in on : f[x] \in radios) /\ \A r \in radios : \E x \in on : r = f[x]
    BY <2>4
  <2>6. f \in [on -> S]
    <3>1. ASSUME NEW x \in on PROVE f[x] \in S
      <4>1. f[x] \in R /\ f[x].at \in 4..(Bins - 3)
        BY <2>1, <2>5
      <4> QED BY <2>2, <4>1
    <3> QED BY <3>1
  <2>7. {f[x] : x \in on} = radios
    BY <2>5
  <2> QED BY <2>2, <2>6, <2>7, PictureOf
<1>7. [i \in 1..n |-> air] = passes
  <2>1. \A i \in 1..n : passes[i] = air
    BY <1>1, <1>3 DEF Steady
  <2>2. passes = [i \in 1..n |-> passes[i]]
    BY <1>1, <1>2 DEF Passes
  <2> QED BY <2>1, <2>2
<1>8. LET a == [radiated |-> radios, commanded |-> radios]
      IN  Resolvable(a) => Locates(FindCarriers(Sorted([i \in 1..n |-> a])), a, n = 1)
  BY <1>2, <1>6, Zenon DEF LocatesRadios
<1> QED BY <1>1, <1>3, <1>5, <1>7, <1>8, Zenon

\* Measured exactly or nearly.
LEMMA LocatedNear ==
  ASSUME Fine > 1, NEW carriers, NEW air, air.commanded \in Picture, NEW exactly, Locates(carriers, air, exactly)
  PROVE  \E at \in Bijection(DOMAIN carriers, Positions(air)) :
           \A i \in DOMAIN carriers : Near(carriers[i].freq, at[i])
<1>1. PICK at \in Bijection(DOMAIN carriers, Positions(air)) :
        \A i \in DOMAIN carriers :
          IF exactly THEN carriers[i].freq = at[i] ELSE Near(carriers[i].freq, at[i])
  BY DEF Locates
<1>2. ASSUME NEW i \in DOMAIN carriers, carriers[i].freq = at[i] PROVE Near(carriers[i].freq, at[i])
  <2>1. at[i] \in Int
    BY PositionsTyped DEF Bijection, Injection
  <2>2. Fine \in Nat /\ Fine \div 2 > 0
    BY FrequencyAssumption
  <2> QED BY <1>2, <2>1, <2>2 DEF Near, Distance
<1> QED BY <1>1, <1>2

Recorded(sweeps) == [i \in DOMAIN sweeps |-> Sorted(sweeps[i])]

LEMMA RecordedTyped ==
  ASSUME NEW sweeps \in Seq(Passes)
  PROVE  /\ Recorded(sweeps) \in Seq(Seq(Measurement)) /\ DOMAIN Recorded(sweeps) = DOMAIN sweeps
         /\ \A k \in DOMAIN sweeps : Recorded(sweeps)[k] = Sorted(sweeps[k])
<1>1. PICK n \in Nat : n = Len(sweeps) /\ DOMAIN sweeps = 1..n
  OBVIOUS
<1>2. ASSUME NEW k \in 1..n PROVE Sorted(sweeps[k]) \in Seq(Measurement)
  <2>1. sweeps[k] \in Passes
    BY <1>1
  <2> QED BY <2>1, SortedTyped
<1>3. PICK M : M = Seq(Measurement)
  OBVIOUS
<1>4. PICK r : r = [i \in DOMAIN sweeps |-> Sorted(sweeps[i])]
  OBVIOUS
<1>5. r \in [1..n -> M]
  BY <1>1, <1>2, <1>3, <1>4
<1>6. r \in Seq(M)
  BY <1>5
<1> QED BY <1>1, <1>3, <1>4, <1>6 DEF Recorded

\* What is known of the baseline that sweeps of radios that kept still make.
LEMMA SavedCovers ==
  ASSUME Resolves, NEW sweeps \in Seq(Passes), \A k \in DOMAIN sweeps : Sweep(sweeps[k]) /\ Same(sweeps[k]),
         Situation(sweeps) # None
  PROVE  Distinct(Situation(sweeps)) /\ Covers(Learn(Recorded(sweeps)), Situation(sweeps))
<1>1. PICK places : places = UNION {Positions(sweeps[i][1]) : i \in DOMAIN sweeps}
  OBVIOUS
<1>2. /\ Situation(sweeps) = places
      /\ \A i \in DOMAIN sweeps : Steady(sweeps[i]) /\ Resolvable(sweeps[i][1])
      /\ \A f, g \in places : f = g \/ Apart(f, g)
  BY <1>1 DEF Situation
<1>3. ASSUME NEW k \in DOMAIN sweeps
      PROVE  /\ sweeps[k][1].commanded \in Picture
             /\ Positions(sweeps[k][1]) \subseteq Int
  <2>1. PICK passes : passes = sweeps[k]
    OBVIOUS
  <2>2. passes \in Passes /\ passes # <<>>
    BY <2>1 DEF Sweep
  <2>3. 1 \in DOMAIN passes
    BY <2>2 DEF Passes
  <2>4. passes[1].commanded \in Picture
    BY <2>2, <2>3, PassOfSweep
  <2> QED BY <2>1, <2>4, PositionsTyped
<1>4. Distinct(places)
  BY <1>1, <1>2, <1>3 DEF Distinct
<1>5. ASSUME NEW k \in DOMAIN sweeps
      PROVE  \E at \in Bijection(DOMAIN FindCarriers(Sorted(sweeps[k])), Positions(sweeps[k][1])) :
               \A i \in DOMAIN FindCarriers(Sorted(sweeps[k])) : Near(FindCarriers(Sorted(sweeps[k]))[i].freq, at[i])
  <2>1. PICK passes, c : passes = sweeps[k] /\ c = FindCarriers(Sorted(passes))
    OBVIOUS
  <2>2. Locates(c, passes[1], Len(passes) = 1)
    BY <1>2, <2>1, SteadyLocated DEF Resolves
  <2> QED BY <1>3, <2>1, <2>2, LocatedNear DEF Resolves
<1>6. PICK rec : rec = Recorded(sweeps)
  OBVIOUS
<1>7. /\ rec \in Seq(Seq(Measurement)) /\ DOMAIN rec = DOMAIN sweeps
      /\ \A k \in DOMAIN sweeps : rec[k] = Sorted(sweeps[k])
  BY <1>6, RecordedTyped
<1>8. ASSUME NEW k \in DOMAIN rec
      PROVE  /\ \A i \in DOMAIN FindCarriers(rec[k]) : \E f \in places : Near(FindCarriers(rec[k])[i].freq, f)
             /\ \A f \in Positions(sweeps[k][1]) :
                  \E i \in DOMAIN FindCarriers(rec[k]) : Near(FindCarriers(rec[k])[i].freq, f)
  <2>1. PICK c, p : c = FindCarriers(rec[k]) /\ p = Positions(sweeps[k][1])
    OBVIOUS
  <2>2. k \in DOMAIN sweeps /\ c = FindCarriers(Sorted(sweeps[k]))
    BY <1>7, <2>1
  <2>3. PICK at \in Bijection(DOMAIN c, p) : \A i \in DOMAIN c : Near(c[i].freq, at[i])
    BY <1>5, <2>1, <2>2
  <2>4. /\ \A i \in DOMAIN c : at[i] \in p
        /\ \A f \in p : \E i \in DOMAIN c : at[i] = f
    BY DEF Bijection, Injection, Surjection
  <2>5. p \subseteq places
    BY <1>1, <2>1, <2>2
  <2> QED BY <2>1, <2>3, <2>4, <2>5
<1>9. \A f \in places : \E k \in DOMAIN rec : \E i \in DOMAIN FindCarriers(rec[k]) :
        Near(FindCarriers(rec[k])[i].freq, f)
  <2>1. ASSUME NEW f \in places PROVE \E k \in DOMAIN rec : f \in Positions(sweeps[k][1])
    BY <1>1, <1>7
  <2> QED BY <1>8, <2>1
<1>10. Covers(Learn(rec), places)
  <2>1. \A k \in DOMAIN rec : \A i \in DOMAIN FindCarriers(rec[k]) :
          \E f \in places : Near(FindCarriers(rec[k])[i].freq, f)
    BY <1>8, Zenon
  <2> QED BY <1>4, <1>7, <1>9, <2>1, BaselineIsWhatWasSeen, Zenon
<1> QED BY <1>2, <1>4, <1>6, <1>10

----------------------------------------------------------------------------
(* The settings and the registers *)

USE TransmitterAssumption, WatchAssumption

\* The registers of a board say what it was told: the power level always, the
\* mode too, and the frequency whenever it is on the air (feather_cw.ino:121-160).
Agrees(b) ==
  /\ b.regMode = "transmit" <=> b.transmitting
  /\ b.transmitting => b.regFreq = EffectiveFrequency(b)
  /\ b.regLevel = IF b.power > TopLevel THEN TopLevel ELSE b.power

BoardType ==
  [nominal : Int, offset : Int, power : 0..255,
   transmitting : BOOLEAN, regMode : {"standby", "transmit"},
   regFreq : Int, regLevel : 0..TopLevel]

RegistersAgree == \A x \in Board : Agrees(board[x])

\* applyFrequency and applyPower write one register and change nothing else.
LEMMA FrequencyApplied ==
  ASSUME NEW b \in BoardType
  PROVE  /\ ApplyFrequency(b) \in BoardType
         /\ ApplyFrequency(b).regFreq = EffectiveFrequency(b)
         /\ EffectiveFrequency(ApplyFrequency(b)) = EffectiveFrequency(b)
         /\ \A f \in {"nominal", "offset", "power", "transmitting", "regMode", "regLevel"} :
              ApplyFrequency(b)[f] = b[f]
  BY DEF ApplyFrequency, EffectiveFrequency, BoardType

LEMMA PowerApplied ==
  ASSUME NEW b \in BoardType
  PROVE  /\ ApplyPower(b) \in BoardType
         /\ ApplyPower(b).regLevel = IF b.power > TopLevel THEN TopLevel ELSE b.power
         /\ \A f \in {"nominal", "offset", "power", "transmitting", "regMode", "regFreq"} :
              ApplyPower(b)[f] = b[f]
  BY DEF ApplyPower, BoardType, TopLevel

\* A board that comes up is in standby with its defaults in the registers.
LEMMA FreshAgrees == Fresh \in BoardType /\ Agrees(Fresh)
<1> DEFINE blank == [nominal |-> DefaultNominal, offset |-> 0, power |-> 0,
                     transmitting |-> FALSE, regMode |-> "standby", regFreq |-> 0, regLevel |-> 0]
<1>1. blank \in BoardType
  BY DEF BoardType, TopLevel
<1>2. blank.transmitting = FALSE /\ blank.regMode = "standby" /\ blank.power = 0
  OBVIOUS
<1> HIDE DEF blank
<1>3. PICK b : b = ApplyFrequency(blank)
  OBVIOUS
<1>4. b \in BoardType /\ b.transmitting = FALSE /\ b.regMode = "standby" /\ b.power = 0
  BY <1>1, <1>2, <1>3, FrequencyApplied
<1>5. PICK c : c = ApplyPower(b)
  OBVIOUS
<1>6. /\ c \in BoardType /\ c.transmitting = FALSE /\ c.regMode = "standby" /\ c.power = 0
      /\ c.regLevel = 0
  BY <1>4, <1>5, PowerApplied DEF TopLevel
<1>7. Fresh = c
  BY <1>3, <1>5 DEF Fresh, blank
<1> QED BY <1>6, <1>7 DEF Agrees, TopLevel

\* Every command leaves the registers in agreement with the settings.
LEMMA ToggleAgrees ==
  ASSUME NEW b \in BoardType, Agrees(b)
  PROVE  Toggle(b) \in BoardType /\ Agrees(Toggle(b))
<1>1. CASE b.transmitting
  <2>1. PICK c : c = [b EXCEPT !.regMode = "standby"]
    OBVIOUS
  <2>2. c \in BoardType /\ c.regMode = "standby" /\ c.power = b.power /\ c.regLevel = b.regLevel
    BY <2>1 DEF BoardType
  <2>3. PICK d : d = [c EXCEPT !.transmitting = FALSE]
    OBVIOUS
  <2>4. /\ d \in BoardType /\ d.transmitting = FALSE /\ d.regMode = "standby"
        /\ d.power = b.power /\ d.regLevel = b.regLevel
    BY <2>2, <2>3 DEF BoardType
  <2>5. Toggle(b) = d
    BY <1>1, <2>1, <2>3 DEF Toggle, StopTransmitting
  <2> QED BY <2>4, <2>5 DEF Agrees
<1>2. CASE ~b.transmitting
  <2>1. PICK c : c = ApplyFrequency(b)
    OBVIOUS
  <2>2. c \in BoardType /\ c.regFreq = EffectiveFrequency(c) /\ c.power = b.power
    BY <2>1, FrequencyApplied
  <2>3. PICK d : d = ApplyPower(c)
    OBVIOUS
  <2>4. /\ d \in BoardType /\ d.regFreq = EffectiveFrequency(d)
        /\ d.regLevel = IF d.power > TopLevel THEN TopLevel ELSE d.power
    BY <2>2, <2>3, PowerApplied DEF EffectiveFrequency
  <2>5. Toggle(b) = [d EXCEPT !.regMode = "transmit", !.transmitting = TRUE]
    BY <1>2, <2>1, <2>3 DEF Toggle, StartTransmitting
  <2>6. PICK e : e = [d EXCEPT !.regMode = "transmit", !.transmitting = TRUE]
    OBVIOUS
  <2>7. /\ e \in BoardType /\ e.regMode = "transmit" /\ e.transmitting
        /\ e.regFreq = d.regFreq /\ e.regLevel = d.regLevel /\ e.power = d.power
        /\ e.nominal = d.nominal /\ e.offset = d.offset
    BY <2>4, <2>6 DEF BoardType
  <2>8. e.regFreq = EffectiveFrequency(e)
    BY <2>4, <2>7 DEF EffectiveFrequency
  <2>9. Agrees(e)
    BY <2>4, <2>7, <2>8 DEF Agrees
  <2> QED BY <2>5, <2>6, <2>7, <2>9
<1> QED BY <1>1, <1>2

LEMMA PowerAgrees ==
  ASSUME NEW b \in BoardType, Agrees(b), NEW n \in Int
  PROVE  SetPower(b, n) \in BoardType /\ Agrees(SetPower(b, n))
<1>1. PICK c : c = [b EXCEPT !.power = n % 256]
  OBVIOUS
<1>2. n % 256 \in 0..255
  OBVIOUS
<1>3. /\ c \in BoardType /\ c.regMode = b.regMode /\ c.transmitting = b.transmitting
      /\ c.regFreq = b.regFreq /\ c.nominal = b.nominal /\ c.offset = b.offset
  BY <1>1, <1>2 DEF BoardType
<1>4. PICK d : d = ApplyPower(c)
  OBVIOUS
<1>5. d = SetPower(b, n)
  BY <1>1, <1>4 DEF SetPower
<1>6. /\ d \in BoardType /\ d.regLevel = (IF c.power > TopLevel THEN TopLevel ELSE c.power)
      /\ d.power = c.power /\ d.regMode = b.regMode /\ d.transmitting = b.transmitting
      /\ d.regFreq = b.regFreq /\ d.nominal = b.nominal /\ d.offset = b.offset
  BY <1>3, <1>4, PowerApplied
<1> QED BY <1>5, <1>6 DEF Agrees, EffectiveFrequency

\* New settings that reach the chip at once when the board is on the air.
LEMMA ApplyAgrees ==
  ASSUME NEW b \in BoardType, Agrees(b), NEW c \in BoardType,
         c.power = b.power, c.regMode = b.regMode, c.transmitting = b.transmitting,
         c.regLevel = b.regLevel
  PROVE  ApplyIfTransmitting(c) \in BoardType /\ Agrees(ApplyIfTransmitting(c))
<1>1. CASE c.transmitting
  <2>1. PICK d : d = ApplyFrequency(c)
    OBVIOUS
  <2>2. d = ApplyIfTransmitting(c)
    BY <1>1, <2>1 DEF ApplyIfTransmitting
  <2>3. /\ d \in BoardType /\ d.regFreq = EffectiveFrequency(d) /\ d.power = b.power
        /\ d.regMode = b.regMode /\ d.transmitting = b.transmitting /\ d.regLevel = b.regLevel
    BY <2>1, FrequencyApplied
  <2> QED BY <2>2, <2>3 DEF Agrees
<1>2. CASE ~c.transmitting
  BY <1>2 DEF ApplyIfTransmitting, Agrees
<1> QED BY <1>1, <1>2

LEMMA OffsetAgrees ==
  ASSUME NEW b \in BoardType, Agrees(b), NEW n \in Int
  PROVE  SetOffset(b, n) \in BoardType /\ Agrees(SetOffset(b, n))
<1>1. PICK c : c = [b EXCEPT !.offset = n]
  OBVIOUS
<1>2. /\ c \in BoardType /\ c.power = b.power /\ c.regMode = b.regMode
      /\ c.transmitting = b.transmitting /\ c.regLevel = b.regLevel
  BY <1>1 DEF BoardType
<1> QED BY <1>1, <1>2, ApplyAgrees DEF SetOffset

LEMMA NominalAgrees ==
  ASSUME NEW b \in BoardType, Agrees(b), NEW n \in Int
  PROVE  SetNominal(b, n) \in BoardType /\ Agrees(SetNominal(b, n))
<1>1. PICK c : c = [b EXCEPT !.nominal = n]
  OBVIOUS
<1>2. /\ c \in BoardType /\ c.power = b.power /\ c.regMode = b.regMode
      /\ c.transmitting = b.transmitting /\ c.regLevel = b.regLevel
  BY <1>1 DEF BoardType
<1>3. SetNominal(b, n) = ApplyIfTransmitting(c) \/ SetNominal(b, n) = b
  BY <1>1 DEF SetNominal
<1> QED BY <1>2, <1>3, ApplyAgrees

BoardsInv == TypeOK /\ RegistersAgree

\* Types and agreement are kept by every command, reset and step of a program.
LEMMA BoardsStep ==
  ASSUME BoardsInv, [RfNext]_vars
  PROVE  BoardsInv'
<1>1. board \in [Board -> BoardType] /\ commands \in 0..MaxCommands
  BY DEF BoardsInv, TypeOK, BoardType
<1>2. ASSUME NEW x \in Board, NEW b \in BoardType, Agrees(b), Becomes(x, b)
      PROVE  BoardsInv'
  <2>1. board' \in [Board -> BoardType]
    BY <1>1, <1>2 DEF Becomes
  <2>2. commands' \in 0..MaxCommands
    <3>1. commands' = commands \/ (commands < MaxCommands /\ commands' = commands + 1)
      BY <1>2 DEF Becomes
    <3> QED BY <1>1, <3>1
  <2>3. ASSUME NEW y \in Board PROVE Agrees(board'[y])
    <3>1. board'[y] = b \/ board'[y] = board[y]
      BY <1>1, <1>2 DEF Becomes
    <3> QED BY <1>2, <3>1 DEF BoardsInv, RegistersAgree
  <2>4. TypeOK'
    BY <2>1, <2>2 DEF TypeOK, BoardType
  <2>5. RegistersAgree'
    BY <2>3 DEF RegistersAgree, Agrees
  <2> QED BY <2>4, <2>5 DEF BoardsInv
<1>3. ASSUME NEW x \in Board, Command(x) PROVE BoardsInv'
  <2>1. board[x] \in BoardType /\ Agrees(board[x])
    BY <1>1 DEF BoardsInv, RegistersAgree
  <2>2. CASE Becomes(x, Toggle(board[x]))
    BY <1>2, <2>1, <2>2, ToggleAgrees
  <2>3. ASSUME NEW n \in PowerArg, Becomes(x, SetPower(board[x], n)) PROVE BoardsInv'
    BY <1>2, <2>1, <2>3, PowerAgrees
  <2>4. ASSUME NEW n \in OffsetArg, Becomes(x, SetOffset(board[x], n)) PROVE BoardsInv'
    BY <1>2, <2>1, <2>4, OffsetAgrees
  <2>5. ASSUME NEW n \in NominalArg, Becomes(x, SetNominal(board[x], n)) PROVE BoardsInv'
    BY <1>2, <2>1, <2>5, NominalAgrees
  <2> QED BY <1>3, <2>2, <2>3, <2>4, <2>5 DEF Command
<1>4. ASSUME NEW x \in Board, PowerCycle(x) PROVE BoardsInv'
  BY <1>2, <1>4, FreshAgrees DEF PowerCycle
<1>5. CASE UNCHANGED transmitterVars
  BY <1>5 DEF transmitterVars, BoardsInv, TypeOK, RegistersAgree, Agrees
<1> QED BY <1>3, <1>4, <1>5 DEF RfNext, vars

LEMMA BoardsInit == RfInit => BoardsInv
<1>1. SUFFICES ASSUME Init PROVE BoardsInv
  BY DEF RfInit
<1>2. board \in [Board -> BoardType] /\ \A x \in Board : board[x] = Fresh
  BY <1>1, FreshAgrees DEF Init
<1>3. commands \in 0..MaxCommands
  BY <1>1 DEF Init
<1> QED BY <1>2, <1>3, FreshAgrees DEF BoardsInv, TypeOK, BoardType, RegistersAgree

----------------------------------------------------------------------------
(* What is radiated *)

\* What is radiated is what the boards were told, at every moment: no command,
\* on the air or off it, leaves an old frequency or level behind
\* (feather_cw.ino:136-165, 225-274).
RadiatedAsCommanded == Air.radiated = Air.commanded

\* ... and so it is in every pass that a sweep, a baseline or a report is made of.
PassesAsCommanded ==
  LET same(passes) == \A i \in DOMAIN passes : passes[i].radiated = passes[i].commanded
  IN  /\ same(group)
      /\ \A n \in DOMAIN kept : same(kept[n])
      /\ report # None => same(report.passes)

\* Registers that agree with the settings radiate what was commanded.
LEMMA AgreementRadiates == BoardsInv => RadiatedAsCommanded
<1> SUFFICES ASSUME BoardsInv PROVE RadiatedAsCommanded
  OBVIOUS
<1>1. ASSUME NEW x \in Board
      PROVE  /\ board[x].regMode = "transmit" <=> board[x].transmitting
             /\ board[x].transmitting =>
                  Radio(x, board[x].regFreq, board[x].regLevel)
                    = Radio(x, EffectiveFrequency(board[x]), board[x].power)
  <2>1. Agrees(board[x]) /\ board[x].power \in Nat
    BY DEF BoardsInv, RegistersAgree, TypeOK
  <2>2. Level(board[x].regLevel) = Level(board[x].power)
    BY <2>1 DEF Agrees, Level, TopLevel
  <2> QED BY <2>1, <2>2 DEF Agrees, Radio
<1>2. {y \in Board : board[y].regMode = "transmit"} = {y \in Board : board[y].transmitting}
  BY <1>1
<1>3. {Radio(x, board[x].regFreq, board[x].regLevel) : x \in {y \in Board : board[y].regMode = "transmit"}}
        = {Radio(x, EffectiveFrequency(board[x]), board[x].power) : x \in {y \in Board : board[y].transmitting}}
  BY <1>1, <1>2
<1> QED BY <1>3 DEF RadiatedAsCommanded, Air

\* What is on the air is never what an earlier command set
\* (feather_cw.ino:136-165, 225-274).
THEOREM NothingStaleOnAir == Spec => []RadiatedAsCommanded
BY BoardsInit, BoardsStep, AgreementRadiates, PTL DEF Spec

----------------------------------------------------------------------------
(* The watching programs *)

\* What is handed on, and what the monitor compares it with while it runs.
Watching ==
  /\ crystal \in [Board -> Int]
  /\ group \in Passes
  /\ kept \in Seq(Passes)
  /\ prog = "idle" => kept = <<>>
  /\ prog = "monitor" => known # <<>> /\ kept = <<>>

WatchInv == Watching /\ WatchTypeOK /\ PassesAsCommanded

RfInv == BoardsInv /\ WatchInv

\* What one pass over the band sees.
LEMMA AirIsPass ==
  ASSUME RfInv
  PROVE  <<Air>> \in Passes /\ Same(<<Air>>)
<1>1. \A x \in Board : /\ crystal[x] \in Int /\ board[x].regFreq \in Int
                         /\ EffectiveFrequency(board[x]) \in Int
  BY DEF RfInv, BoardsInv, TypeOK, EffectiveFrequency, WatchInv, Watching
<1>2. \A f, l : \A x \in Board : f \in Int => Radio(x, f, l) \in [at : Int, level : {20, 30}]
  BY <1>1 DEF Radio, Level
<1>3. Air \in [radiated : Picture, commanded : Picture]
  <2>1. PICK on, to : /\ on = {y \in Board : board[y].regMode = "transmit"}
                      /\ to = {y \in Board : board[y].transmitting}
    OBVIOUS
  <2>2. PICK f, g : /\ f = [x \in on |-> Radio(x, board[x].regFreq, board[x].regLevel)]
                    /\ g = [x \in to |-> Radio(x, EffectiveFrequency(board[x]), board[x].power)]
    OBVIOUS
  <2>3. /\ f \in [on -> [at : Int, level : {20, 30}]]
        /\ g \in [to -> [at : Int, level : {20, 30}]]
    BY <1>1, <1>2, <2>1, <2>2
  <2>4. Air = [radiated |-> {f[x] : x \in on}, commanded |-> {g[x] : x \in to}]
    BY <2>1, <2>2 DEF Air
  <2>5. on \in SUBSET Board /\ to \in SUBSET Board
    BY <2>1
  <2>6. {f[x] : x \in on} \in Picture /\ {g[x] : x \in to} \in Picture
    BY <2>3, <2>5, PictureOf DEF Picture
  <2> QED BY <2>4, <2>6
<1>4. Air.radiated = Air.commanded
  BY AgreementRadiates DEF RfInv, RadiatedAsCommanded
<1> HIDE DEF Air
<1> QED BY <1>3, <1>4 DEF Passes, Same

\* The program hands the receiver back.
LEMMA ReleaseKeeps ==
  ASSUME WatchInv, Release,
         (Emitters(file) => file # <<>>)',
         \/ report' = report
         \/ /\ known # <<>> /\ Same(report'.passes)
            /\ DOMAIN report'.colour = DOMAIN report'.carriers
  PROVE  WatchInv'
<1>1. /\ prog' = "idle" /\ source' = None /\ group' = <<>> /\ kept' = <<>>
      /\ crystal' = crystal /\ known' = known
  BY DEF Release
<1>2. Watching'
  BY <1>1 DEF WatchInv, Watching, Passes
<1>3. WatchTypeOK'
  BY <1>1 DEF WatchInv, WatchTypeOK, Emitters
<1>4. PassesAsCommanded'
  BY <1>1 DEF WatchInv, PassesAsCommanded, Same
<1> QED BY <1>2, <1>3, <1>4 DEF WatchInv

\* What is saved is a baseline with an emitter, or the file is left alone, or torn.
LEMMA SaveIsBaseline ==
  ASSUME NEW sweeps, Save(sweeps), WatchTypeOK
  PROVE  (Emitters(file) => file # <<>>)' 
  BY DEF Save, WatchTypeOK, Emitters

\* What the monitor makes of a sweep names the sweep and colours each carrier.
LEMMA AnalysisIsOf ==
  ASSUME NEW passes
  PROVE  /\ Analyse(passes).passes = passes
         /\ DOMAIN Analyse(passes).colour = DOMAIN Analyse(passes).carriers
  BY DEF Analyse

\* A sweep is handed to the program that runs.
LEMMA NextSweep ==
  ASSUME RfInv, NEW passes \in Passes, Same(passes), NEW then \in Passes, Same(then),
         Len(then) <= MaxPerStamp, Consume(passes, then)
  PROVE  WatchInv'
<1>0. WatchInv
  BY DEF RfInv
<1>1. CASE prog = "baseline" /\ Save(Append(kept, passes)) /\ Release /\ UNCHANGED report
  <2>1. (Emitters(file) => file # <<>>)'
    BY <1>0, <1>1, SaveIsBaseline DEF WatchInv
  <2> QED BY <1>0, <1>1, <2>1, ReleaseKeeps
<1>2. CASE /\ prog = "baseline" /\ Len(kept) + 1 < BaselineSweeps
           /\ kept' = Append(kept, passes) /\ group' = then
           /\ UNCHANGED <<crystal, prog, source, file, heard, known, report>>
  <2>1. /\ kept' \in Seq(Passes) /\ Len(kept') = Len(kept) + 1
        /\ \A n \in DOMAIN kept' : kept'[n] = passes \/ (n \in DOMAIN kept /\ kept'[n] = kept[n])
    BY <1>0, <1>2 DEF WatchInv, Watching
  <2>2. Watching'
    BY <1>0, <1>2, <2>1 DEF WatchInv, Watching
  <2>3. WatchTypeOK'
    BY <1>0, <1>2, <2>1 DEF WatchInv, WatchTypeOK, Emitters
  <2>4. PassesAsCommanded'
    BY <1>0, <1>2, <2>1 DEF WatchInv, PassesAsCommanded, Same
  <2> QED BY <2>2, <2>3, <2>4 DEF WatchInv
<1>3. CASE /\ prog = "monitor" /\ report' = Analyse(passes) /\ group' = then
           /\ UNCHANGED <<crystal, prog, source, kept, file, heard, known>>
  <2>1. /\ report'.passes = passes
        /\ DOMAIN report'.colour = DOMAIN report'.carriers
    BY <1>3, AnalysisIsOf
  <2>2. Watching'
    BY <1>0, <1>3 DEF WatchInv, Watching
  <2>3. WatchTypeOK'
    BY <1>0, <1>3, <2>1 DEF WatchInv, Watching, WatchTypeOK, Emitters
  <2>4. PassesAsCommanded'
    BY <1>0, <1>3, <2>1 DEF WatchInv, PassesAsCommanded, Same
  <2> QED BY <2>2, <2>3, <2>4 DEF WatchInv
<1> QED BY <1>1, <1>2, <1>3 DEF Consume

\* Every step of a program, its start and its end included.
LEMMA WatchStep ==
  ASSUME RfInv, Watch
  PROVE  WatchInv'
<1>0. WatchInv /\ Watching /\ WatchTypeOK /\ PassesAsCommanded
  BY DEF RfInv, WatchInv
<1>1. <<Air>> \in Passes /\ Same(<<Air>>) /\ Len(<<Air>>) = 1
  BY AirIsPass
<1>2. group \in Passes /\ Same(group)
  BY <1>0 DEF Watching, PassesAsCommanded, Same
<1>3. CASE StartBaseline
  <2>1. /\ prog' = "baseline" /\ source' = "radio" /\ report' = None /\ known' = <<>>
        /\ crystal' = crystal /\ group' = group /\ kept' = kept /\ file' = file
    BY <1>3 DEF StartBaseline, Start
  <2>2. Watching' /\ WatchTypeOK'
    BY <1>0, <2>1 DEF Watching, WatchTypeOK, Emitters
  <2>3. PassesAsCommanded'
    BY <1>0, <2>1 DEF PassesAsCommanded
  <2> QED BY <2>2, <2>3 DEF WatchInv
<1>4. CASE StartMonitor
  <2>1. /\ prog' = "monitor" /\ source' \in {"radio", "recording"} /\ report' = None
        /\ known' = file /\ Emitters(file) /\ prog = "idle"
        /\ crystal' = crystal /\ group' = group /\ kept' = kept /\ file' = file
    BY <1>4 DEF StartMonitor, Start, Emitters
  <2>2. Watching'
    BY <1>0, <2>1 DEF Watching, WatchTypeOK
  <2>3. WatchTypeOK'
    BY <1>0, <2>1 DEF WatchTypeOK, Emitters
  <2>4. PassesAsCommanded'
    BY <1>0, <2>1 DEF PassesAsCommanded
  <2> QED BY <2>2, <2>3, <2>4 DEF WatchInv
<1>5. ASSUME NEW next \in Passes, Same(next), Len(next) <= MaxPerStamp, prog # "idle", group' = next,
             UNCHANGED <<crystal, prog, source, kept, file, heard, known, report>>
      PROVE  WatchInv'
  <2>1. Watching' /\ WatchTypeOK'
    BY <1>0, <1>5 DEF Watching, WatchTypeOK, Emitters
  <2>2. PassesAsCommanded'
    BY <1>0, <1>5 DEF PassesAsCommanded, Same
  <2> QED BY <2>1, <2>2 DEF WatchInv
<1>6. CASE FirstRow
  <2>1. 1 <= MaxPerStamp
    OBVIOUS
  <2> QED BY <1>1, <1>5, <1>6, <2>1 DEF FirstRow
<1>7. CASE RowOfSameSweep
  <2>1. PICK air : air = Air
    OBVIOUS
  <2>2. /\ <<air>> \in Passes /\ Same(<<air>>)
        /\ group' = Append(group, air) /\ Len(group) < MaxPerStamp
    BY <1>1, <1>7, <2>1 DEF RowOfSameSweep
  <2>3. air \in [radiated : Picture, commanded : Picture] /\ air.radiated = air.commanded
    BY <2>2 DEF Passes, Same
  <2>4. Append(group, air) \in Passes /\ Len(Append(group, air)) = Len(group) + 1 /\ Len(group) \in Nat
    BY <1>2, <2>3 DEF Passes
  <2>5. Same(Append(group, air))
    BY <1>2, <2>3 DEF Passes, Same
  <2>6. Len(Append(group, air)) <= MaxPerStamp
    BY <2>2, <2>4
  <2> QED BY <1>5, <1>7, <2>2, <2>4, <2>5, <2>6 DEF RowOfSameSweep
<1>8. CASE RowOfNextSweep
  <2>1. 1 <= MaxPerStamp
    OBVIOUS
  <2> QED BY <1>1, <1>2, <1>8, <2>1, NextSweep DEF RowOfNextSweep
<1>9. CASE Rewind
  <2>1. <<>> \in Passes /\ Same(<<>>) /\ Len(<<>>) <= MaxPerStamp
    BY DEF Passes, Same
  <2> QED BY <1>2, <1>9, <2>1, NextSweep DEF Rewind
<1>10. CASE EndOfRows
  <2>1. ASSUME NEW sweeps, Save(sweeps), Release, UNCHANGED report
        PROVE  WatchInv'
    <3>1. (Emitters(file) => file # <<>>)'
      BY <1>0, <2>1, SaveIsBaseline
    <3> QED BY <1>0, <2>1, <3>1, ReleaseKeeps
  <2>2. CASE /\ prog = "monitor" /\ source = "radio"
             /\ report' = IF group = <<>> THEN report ELSE Analyse(group)
             /\ Release /\ UNCHANGED <<file, heard>>
    <3>1. (Emitters(file) => file # <<>>)' /\ known # <<>>
      BY <1>0, <2>2 DEF WatchTypeOK, Emitters, Watching
    <3>2. CASE group = <<>>
      BY <1>0, <2>2, <3>1, <3>2, ReleaseKeeps
    <3>3. CASE group # <<>>
      <4>1. report'.passes = group /\ DOMAIN report'.colour = DOMAIN report'.carriers
        BY <2>2, <3>3, AnalysisIsOf
      <4> QED BY <1>0, <1>2, <2>2, <3>1, <4>1, ReleaseKeeps
    <3> QED BY <3>2, <3>3
  <2> QED BY <1>10, <2>1, <2>2 DEF EndOfRows
<1>11. CASE Stop
  <2>1. (Emitters(file) => file # <<>>)'
    BY <1>0, <1>11 DEF WatchTypeOK, Emitters, Stop
  <2> QED BY <1>0, <1>11, <2>1, ReleaseKeeps DEF Stop
<1> QED BY <1>3, <1>4, <1>6, <1>7, <1>8, <1>9, <1>10, <1>11 DEF Watch

LEMMA RfInitInv == RfInit => RfInv
<1>1. SUFFICES ASSUME RfInit PROVE WatchInv
  BY BoardsInit DEF RfInv
<1>2. /\ crystal \in Crystal /\ prog = "idle" /\ source = None /\ group = <<>>
      /\ kept = <<>> /\ file = None /\ known = <<>> /\ report = None
  BY <1>1 DEF RfInit, WatchInit
<1> QED BY <1>2 DEF WatchInv, Watching, WatchTypeOK, PassesAsCommanded, Emitters, Passes

LEMMA RfStep == RfInv /\ [RfNext]_vars => RfInv'
<1> SUFFICES ASSUME RfInv, [RfNext]_vars PROVE RfInv'
  OBVIOUS
<1>1. BoardsInv'
  BY BoardsStep DEF RfInv
<1>2. ASSUME UNCHANGED watchVars PROVE WatchInv'
  <2>1. Watching' /\ WatchTypeOK'
    BY <1>2 DEF watchVars, RfInv, WatchInv, Watching, WatchTypeOK, Emitters
  <2>2. PassesAsCommanded'
    BY <1>2 DEF watchVars, RfInv, WatchInv, PassesAsCommanded
  <2> QED BY <2>1, <2>2 DEF WatchInv
<1> QED BY <1>1, <1>2, WatchStep DEF RfNext, vars, RfInv

\* Types, for every board, command and sweep: no baseline without an emitter is
\* ever loaded, the monitor always has one, and it colours each carrier once
\* (rf_monitor.py:112-125, 151-158, 205-214).
THEOREM TypesCorrect == Spec => []RfTypeOK
<1>1. RfInv => RfTypeOK
  BY DEF RfInv, BoardsInv, WatchInv, RfTypeOK
<1> QED BY <1>1, RfInitInv, RfStep, PTL DEF Spec

\* Whenever a row arrived in the middle of a series of commands, the sweep it is
\* part of shows the boards as they had been told to be (rf_live.py:96-130;
\* feather_cw.ino:225-274).
THEOREM SweepsShowCommands == Spec => []PassesAsCommanded
<1>1. RfInv => PassesAsCommanded
  BY DEF RfInv, WatchInv
<1> QED BY <1>1, RfInitInv, RfStep, PTL DEF Spec

----------------------------------------------------------------------------
(* What is learned and reported *)

\* What the monitor makes of a sweep with the emitters it has loaded.
Outcome(r, emitters) ==
  /\ r.carriers = FindCarriers(Sorted(r.passes))
  /\ r.findings = FindingsByIdentification(r.carriers, emitters)
  /\ DOMAIN r.colour = DOMAIN r.carriers
  /\ \A i \in DOMAIN r.carriers :
       r.colour[i] <=> Min({Distance(e.freq, Shown(r.carriers[i].freq)) : e \in ToSet(emitters)})
                         <= emitters[1].tol

\* Baselines are learned and reports made from whole sweeps; a monitor, and what it
\* has reported, goes by the file there is; and that file says where the radios were.
Learnt ==
  /\ \A k \in DOMAIN kept : Sweep(kept[k])
  /\ known \in Seq(Emitter)
  /\ Emitters(file) => file \in Seq(Emitter)
  /\ prog = "baseline" => report = None
  /\ prog = "monitor" \/ report # None => Emitters(file) /\ known = file
  /\ report # None => Sweep(report.passes) /\ Outcome(report, known)
  /\ Resolves /\ heard # None /\ Emitters(file) => Distinct(heard) /\ Covers(file, heard)

LEMMA AnalysisIsOutcome ==
  ASSUME NEW passes, known # <<>>
  PROVE  Analyse(passes).passes = passes /\ Outcome(Analyse(passes), known)
<1>1. PICK sweep, c : sweep = Sorted(passes) /\ c = FindCarriers(sweep)
  OBVIOUS
<1>2. AnalyseSweep(sweep, known, 1) = [carriers |-> c, findings |-> FindingsByIdentification(c, known)]
  BY <1>1 DEF AnalyseSweep
<1>3. PICK colour : colour = [i \in DOMAIN c |-> IsKnown(c[i])]
  OBVIOUS
<1>4. Analyse(passes) = [passes |-> passes, carriers |-> c,
                         findings |-> FindingsByIdentification(c, known), colour |-> colour]
  BY <1>1, <1>2, <1>3 DEF Analyse
<1>5. /\ DOMAIN colour = DOMAIN c
      /\ \A i \in DOMAIN c :
           colour[i] <=> Min({Distance(e.freq, Shown(c[i].freq)) : e \in ToSet(known)}) <= known[1].tol
  BY <1>3 DEF IsKnown, Nearest
<1> QED BY <1>1, <1>4, <1>5 DEF Outcome

\* The end of a baseline.
LEMMA SaveLearns ==
  ASSUME RfInv, Learnt, prog = "baseline", NEW sweeps \in Seq(Passes),
         \A k \in DOMAIN sweeps : Sweep(sweeps[k]) /\ Same(sweeps[k]),
         Save(sweeps), Release, UNCHANGED report
  PROVE  Learnt'
<1>1. report' = None /\ prog' = "idle" /\ kept' = <<>> /\ known' = known /\ known \in Seq(Emitter)
  BY DEF Learnt, Release
<1>2. PICK emitters : emitters = Learn(Recorded(sweeps))
  OBVIOUS
<1>3. emitters \in Seq(Emitter)
  BY <1>2, RecordedTyped, LearnedEmitters
<1>4. \/ file' = file /\ heard' = heard
      \/ file' = emitters /\ heard' = Situation(sweeps)
      \/ file' = Torn
  BY <1>2 DEF Save, Recorded
<1>5. CASE file' = file /\ heard' = heard
  BY <1>1, <1>5 DEF Learnt, Emitters
<1>6. CASE file' = emitters /\ heard' = Situation(sweeps)
  <2>1. Resolves /\ heard' # None => Distinct(heard') /\ Covers(file', heard')
    BY <1>2, <1>6, SavedCovers
  <2> QED BY <1>1, <1>3, <1>6, <2>1 DEF Learnt
<1>7. CASE file' = Torn
  BY <1>1, <1>7 DEF Learnt, Emitters
<1> QED BY <1>4, <1>5, <1>6, <1>7

\* A monitor has made something of a sweep.
LEMMA ReportLearns ==
  ASSUME RfInv, Learnt, prog = "monitor", NEW passes, Sweep(passes), report' = Analyse(passes),
         prog' \in {"monitor", "idle"}, kept' = <<>> \/ kept' = kept,
         known' = known, file' = file, heard' = heard
  PROVE  Learnt'
<1>1. known # <<>>
  BY DEF RfInv, WatchInv, Watching
<1>2. PICK r : r = Analyse(passes)
  OBVIOUS
<1>3. r.passes = passes /\ Outcome(r, known)
  BY <1>1, <1>2, AnalysisIsOutcome
<1>4. report' = r /\ Sweep(r.passes) /\ Outcome(r, known')
  BY <1>2, <1>3
<1> QED BY <1>4 DEF Learnt, Emitters

LEMMA ConsumeLearns ==
  ASSUME RfInv, Learnt, NEW passes, Sweep(passes), Same(passes), NEW then, Consume(passes, then)
  PROVE  Learnt'
<1>1. passes \in Passes /\ kept \in Seq(Passes) /\ \A k \in DOMAIN kept : Sweep(kept[k]) /\ Same(kept[k])
  BY DEF RfInv, WatchInv, Watching, PassesAsCommanded, Learnt, Sweep, Same
<1>2. /\ Append(kept, passes) \in Seq(Passes)
      /\ \A k \in DOMAIN Append(kept, passes) :
           Sweep(Append(kept, passes)[k]) /\ Same(Append(kept, passes)[k])
  <2>1. PICK more : more = Append(kept, passes)
    OBVIOUS
  <2>2. /\ more \in Seq(Passes)
        /\ \A k \in DOMAIN more : more[k] = passes \/ (k \in DOMAIN kept /\ more[k] = kept[k])
    BY <1>1, <2>1
  <2>3. \A k \in DOMAIN more : Sweep(more[k]) /\ Same(more[k])
    BY <1>1, <2>2
  <2> QED BY <2>1, <2>2, <2>3
<1>3. CASE prog = "baseline" /\ Save(Append(kept, passes)) /\ Release /\ UNCHANGED report
  BY <1>2, <1>3, SaveLearns
<1>4. CASE /\ prog = "baseline" /\ Len(kept) + 1 < BaselineSweeps
           /\ kept' = Append(kept, passes) /\ group' = then
           /\ UNCHANGED <<crystal, prog, source, file, heard, known, report>>
  <2>1. \A k \in DOMAIN kept' : Sweep(kept'[k])
    BY <1>2, <1>4
  <2> QED BY <1>4, <2>1 DEF Learnt, Emitters
<1>5. CASE /\ prog = "monitor" /\ report' = Analyse(passes) /\ group' = then
           /\ UNCHANGED <<crystal, prog, source, kept, file, heard, known>>
  BY <1>5, ReportLearns
<1> QED BY <1>3, <1>4, <1>5 DEF Consume

LEMMA LearntStep ==
  ASSUME RfInv, Learnt, [RfNext]_vars
  PROVE  Learnt'
<1>1. /\ group \in Passes /\ Len(group) <= MaxPerStamp /\ Same(group)
      /\ kept \in Seq(Passes) /\ \A k \in DOMAIN kept : Sweep(kept[k]) /\ Same(kept[k])
  BY DEF RfInv, WatchInv, Watching, WatchTypeOK, PassesAsCommanded, Learnt, Same
<1>2. ASSUME UNCHANGED <<prog, kept, file, heard, known, report>> PROVE Learnt'
  BY <1>2 DEF Learnt, Emitters
<1>3. CASE StartBaseline
  BY <1>3 DEF StartBaseline, Start, Learnt, Emitters
<1>4. CASE StartMonitor
  <2>1. /\ prog' = "monitor" /\ report' = None /\ known' = file /\ Emitters(file)
        /\ kept' = kept /\ file' = file /\ heard' = heard
    BY <1>4 DEF StartMonitor, Start, Emitters
  <2> QED BY <2>1 DEF Learnt, Emitters
<1>5. CASE FirstRow \/ RowOfSameSweep
  BY <1>2, <1>5 DEF FirstRow, RowOfSameSweep
<1>6. CASE RowOfNextSweep \/ Rewind
  <2>1. Sweep(group)
    BY <1>1, <1>6 DEF Sweep, RowOfNextSweep, Rewind
  <2> QED BY <1>1, <1>6, <2>1, ConsumeLearns DEF RowOfNextSweep, Rewind
<1>7. CASE EndOfRows
  <2>1. CASE /\ prog = "baseline"
             /\ Save(IF group = <<>> THEN kept ELSE Append(kept, group))
             /\ Release /\ UNCHANGED report
    <3>1. CASE group = <<>>
      BY <1>1, <2>1, <3>1, SaveLearns
    <3>2. CASE group # <<>>
      <4>1. PICK more : more = Append(kept, group)
        OBVIOUS
      <4>2. /\ more \in Seq(Passes)
            /\ \A k \in DOMAIN more : more[k] = group \/ (k \in DOMAIN kept /\ more[k] = kept[k])
        BY <1>1, <4>1
      <4>3. \A k \in DOMAIN more : Sweep(more[k]) /\ Same(more[k])
        BY <1>1, <3>2, <4>2 DEF Sweep
      <4> QED BY <2>1, <3>2, <4>1, <4>2, <4>3, SaveLearns
    <3> QED BY <3>1, <3>2
  <2>2. CASE /\ prog = "monitor" /\ source = "radio"
             /\ report' = IF group = <<>> THEN report ELSE Analyse(group)
             /\ Release /\ UNCHANGED <<file, heard>>
    <3>1. prog' = "idle" /\ kept' = <<>> /\ known' = known /\ file' = file /\ heard' = heard
      BY <2>2 DEF Release
    <3>2. CASE group = <<>>
      BY <2>2, <3>1, <3>2 DEF Learnt, Emitters
    <3>3. CASE group # <<>>
      <4>1. Sweep(group)
        BY <1>1, <3>3 DEF Sweep
      <4> QED BY <2>2, <3>1, <3>3, <4>1, ReportLearns
    <3> QED BY <3>2, <3>3
  <2> QED BY <1>7, <2>1, <2>2 DEF EndOfRows
<1>8. CASE Stop
  BY <1>8 DEF Stop, Release, Learnt, Emitters
<1>9. CASE UNCHANGED watchVars
  BY <1>2, <1>9 DEF watchVars
<1> QED BY <1>3, <1>4, <1>5, <1>6, <1>7, <1>8, <1>9 DEF RfNext, Watch, vars

LEMMA LearntInit == RfInit => Learnt
<1> SUFFICES ASSUME RfInit PROVE Learnt
  OBVIOUS
<1>1. prog = "idle" /\ kept = <<>> /\ file = None /\ known = <<>> /\ report = None
  BY DEF RfInit, WatchInit
<1> QED BY <1>1 DEF Learnt, Emitters

LEMMA LearntAlways == Spec => [](RfInv /\ Learnt)
<1>1. RfInit => RfInv /\ Learnt
  BY RfInitInv, LearntInit
<1>2. RfInv /\ Learnt /\ [RfNext]_vars => (RfInv /\ Learnt)'
  BY RfStep, LearntStep
<1> QED BY <1>1, <1>2, PTL DEF Spec

\* What is known of a report, carrier by carrier.
LEMMA ColoursOfReport ==
  ASSUME RfInv, Learnt, report # None
  PROVE  /\ report.carriers \in Seq(Carrier) /\ known \in Seq(Emitter)
         /\ DOMAIN report.colour = DOMAIN report.carriers
         /\ \A i \in DOMAIN report.carriers :
              /\ report.carriers[i].freq \in Int
              /\ report.colour[i]
                   <=> \E e \in ToSet(known) : Distance(e.freq, Shown(report.carriers[i].freq)) <= Tol
<1>1. Sweep(report.passes) /\ Outcome(report, known) /\ known \in Seq(Emitter) /\ known # <<>>
  BY DEF Learnt, RfInv, WatchInv, WatchTypeOK
<1>2. PICK c : c = report.carriers
  OBVIOUS
<1>3. c = FindCarriers(Sorted(report.passes)) /\ DOMAIN report.colour = DOMAIN c
  BY <1>1, <1>2 DEF Outcome
<1>4. c \in Seq(Carrier)
  <2>1. Sorted(report.passes) \in Seq(Measurement)
    BY <1>1, SortedTyped DEF Sweep
  <2> QED BY <1>3, <2>1, CarriersFound
<1>5. ASSUME NEW i \in DOMAIN c
      PROVE  /\ c[i].freq \in Int
             /\ report.colour[i] <=> \E e \in ToSet(known) : Distance(e.freq, Shown(c[i].freq)) <= Tol
  <2>1. PICK R : R = Carrier
    OBVIOUS
  <2>2. c[i] \in R
    BY <1>4, <2>1
  <2>3. c[i].freq \in Int
    BY <2>1, <2>2 DEF Carrier
  <2>4. PICK s : s = Shown(c[i].freq)
    OBVIOUS
  <2>5. s \in Int
    BY <2>3, <2>4, ShownNearby
  <2>6. report.colour[i] <=> Min({Distance(e.freq, s) : e \in ToSet(known)}) <= known[1].tol
    BY <1>1, <1>2, <2>4 DEF Outcome
  <2>7. Min({Distance(e.freq, s) : e \in ToSet(known)}) <= known[1].tol
          <=> \E e \in ToSet(known) : Distance(e.freq, s) <= Tol
    BY <1>1, <2>5, KnownIsNear
  <2> QED BY <2>3, <2>4, <2>6, <2>7
<1> QED BY <1>1, <1>2, <1>3, <1>4, <1>5

\* The screen and the findings are computed apart: the findings by the frequencies
\* as measured and every emitter, the colours by the frequencies as rounded and the
\* nearest one.  Every carrier that nothing accounts for is reported, once and by
\* frequency, and the colour of a carrier says something else only if the rounding
\* can have moved it across the edge of an emitter's tolerance (rf.py:384, 397-409,
\* 442-483; rf_monitor.py:152-158).
AtTheEdge(freq) == \E e \in ToSet(known) : 2 * Distance(Distance(e.freq, freq), Tol) <= Grain

ScreenShowsFindings ==
  LET strangers == Strangers(report.carriers, known)
  IN  report # None =>
        /\ OneForEach(report.findings, report.carriers, strangers)
        /\ \A i \in DOMAIN report.carriers :
             AtTheEdge(report.carriers[i].freq) \/ (report.colour[i] <=> i \notin strangers)

LEMMA RoundedAcross ==
  ASSUME NEW e \in Int, NEW f \in Int, NEW s \in Int, 2 * Distance(s, f) <= Grain,
         (Distance(e, f) <= Tol) # (Distance(e, s) <= Tol)
  PROVE  2 * Distance(Distance(e, f), Tol) <= Grain
<1>1. Tol \in Nat /\ Grain \in Nat
  BY FrequencyAssumption, WatchAssumption
<1>2. PICK a, b : a = Distance(e, f) /\ b = Distance(e, s)
  OBVIOUS
<1>3. a \in Int /\ b \in Int /\ 2 * (a - b) <= Grain /\ 2 * (b - a) <= Grain
  BY <1>1, <1>2 DEF Distance
<1>4. (a <= Tol /\ b > Tol) \/ (a > Tol /\ b <= Tol)
  BY <1>1, <1>2, <1>3
<1> QED BY <1>1, <1>2, <1>3, <1>4 DEF Distance

THEOREM ScreenAgrees == Spec => []ScreenShowsFindings
<1>1. ASSUME RfInv, Learnt, report # None
      PROVE  /\ OneForEach(report.findings, report.carriers, Strangers(report.carriers, known))
             /\ \A i \in DOMAIN report.carriers :
                  \/ AtTheEdge(report.carriers[i].freq)
                  \/ report.colour[i] <=> i \notin Strangers(report.carriers, known)
  <2>1. PICK c, k : c = report.carriers /\ k = known
    OBVIOUS
  <2>2. /\ c \in Seq(Carrier) /\ k \in Seq(Emitter)
        /\ \A i \in DOMAIN c :
             /\ c[i].freq \in Int
             /\ report.colour[i] <=> \E e \in ToSet(k) : Distance(e.freq, Shown(c[i].freq)) <= Tol
    BY <1>1, <2>1, ColoursOfReport
  <2>3. report.findings = FindingsByIdentification(c, k)
    BY <1>1, <2>1 DEF Learnt, Outcome
  <2>4. OneForEach(FindingsByIdentification(c, k), c, Strangers(c, k))
    BY <2>2, FindingsOfStrangers, Zenon
  <2>5. ASSUME NEW e \in ToSet(k) PROVE e.freq \in Int /\ e.tol = Tol
    <3>1. PICK R : R = Emitter
      OBVIOUS
    <3>2. k \in Seq(R)
      BY <2>2, <3>1
    <3>3. e \in R
      BY <3>2 DEF ToSet
    <3> QED BY <3>1, <3>3 DEF Emitter
  <2>6. ASSUME NEW i \in DOMAIN c, ~AtTheEdge(c[i].freq)
        PROVE  report.colour[i] <=> i \notin Strangers(c, k)
    <3>1. PICK f, s : f = c[i].freq /\ s = Shown(f)
      OBVIOUS
    <3>2. f \in Int /\ s \in Int /\ 2 * Distance(s, f) <= Grain
      BY <2>2, <3>1, ShownNearby
    <3>3. ASSUME NEW e \in ToSet(k) PROVE Distance(e.freq, f) <= Tol <=> Distance(e.freq, s) <= Tol
      <4>1. ~(2 * Distance(Distance(e.freq, f), Tol) <= Grain)
        BY <2>1, <2>6, <3>1 DEF AtTheEdge
      <4>2. e.freq \in Int
        BY <2>5
      <4> QED BY <3>2, <4>1, <4>2, RoundedAcross
    <3>4. i \notin Strangers(c, k) <=> \E e \in ToSet(k) : Distance(e.freq, f) <= Tol
      BY <2>5, <3>1 DEF Strangers, Matches
    <3>5. report.colour[i] <=> \E e \in ToSet(k) : Distance(e.freq, s) <= Tol
      BY <2>2, <3>1
    <3> QED BY <3>3, <3>4, <3>5
  <2> QED BY <2>1, <2>3, <2>4, <2>6
<1>2. RfInv /\ Learnt => ScreenShowsFindings
  BY <1>1 DEF ScreenShowsFindings
<1> QED BY <1>2, LearntAlways, PTL

\* Radios that can be told apart are not in one place.
LEMMA OnePerPlace ==
  ASSUME NEW air, air.commanded \in Picture, Resolvable(air),
         NEW n \in Nat, NEW at \in Bijection(1..n, Positions(air))
  PROVE  n = Cardinality(air.commanded)
<1>0. Fine \in Nat \ {0}
  BY FrequencyAssumption
<1>1. PICK C : C = air.commanded
  OBVIOUS
<1>2. \A r \in C : r.at \in Int /\ r.level \in {20, 30}
  BY <1>1, RadioOfPicture DEF Picture
<1>3. ASSUME NEW r \in C, NEW s \in C, r.at * Fine = s.at * Fine PROVE r = s
  <2>1. SUFFICES ASSUME r # s PROVE FALSE
    OBVIOUS
  <2>2. 10 * (Distance(r.at, s.at) - 4) >= Distance(r.level, s.level)
    BY <1>1, <2>1 DEF Resolvable
  <2>3. PICK a, b : a = r.at /\ b = s.at
    OBVIOUS
  <2>4. a \in Int /\ b \in Int /\ a # b
    BY <1>2, <2>2, <2>3 DEF Distance
  <2>5. ASSUME NEW x \in Int, NEW y \in Int, x < y PROVE x * Fine < y * Fine
    <3>1. (x + 1) * Fine <= y * Fine
      BY <1>0, <2>5
    <3>2. (x + 1) * Fine = x * Fine + Fine
      BY <1>0
    <3>3. PICK p, q : p = x * Fine /\ q = y * Fine
      OBVIOUS
    <3>4. p \in Int /\ q \in Int /\ p + Fine <= q
      BY <1>0, <3>1, <3>2, <3>3
    <3> QED BY <1>0, <3>3, <3>4
  <2>6. a * Fine # b * Fine
    <3>1. a < b \/ b < a
      BY <2>4
    <3>2. PICK p, q : p = a * Fine /\ q = b * Fine
      OBVIOUS
    <3>3. p < q \/ q < p
      BY <2>4, <2>5, <3>1, <3>2
    <3>4. p \in Int /\ q \in Int
      BY <1>0, <2>4, <3>2
    <3> QED BY <3>2, <3>3, <3>4
  <2> QED BY <1>3, <2>3, <2>6
<1>4. /\ \A i \in 1..n : \E r \in C : r.at * Fine = at[i]
      /\ \A r \in C : \E i \in 1..n : at[i] = r.at * Fine
      /\ \A i, j \in 1..n : at[i] = at[j] => i = j
  <2>1. PICK P : P = Positions(air)
    OBVIOUS
  <2>2. /\ \A i \in 1..n : at[i] \in P
        /\ \A f \in P : \E i \in 1..n : at[i] = f
    BY <2>1 DEF Bijection, Injection, Surjection
  <2>3. \A i, j \in 1..n : at[i] = at[j] => i = j
    BY DEF Bijection, Injection, IsInjective
  <2>4. (\A f \in P : \E r \in C : r.at * Fine = f) /\ \A r \in C : r.at * Fine \in P
    BY <1>1, <2>1 DEF Positions
  <2> QED BY <2>2, <2>3, <2>4
<1>5. PICK f : f = [i \in 1..n |-> CHOOSE r \in C : r.at * Fine = at[i]]
  OBVIOUS
<1>6. \A i \in 1..n : f[i] \in C /\ f[i].at * Fine = at[i]
  BY <1>4, <1>5
<1>7. f \in Bijection(1..n, C)
  <2>1. f \in [1..n -> C]
    BY <1>5, <1>6
  <2>2. \A i, j \in 1..n : f[i] = f[j] => i = j
    BY <1>4, <1>6
  <2>3. \A r \in C : \E i \in 1..n : f[i] = r
    <3>1. ASSUME NEW r \in C PROVE \E i \in 1..n : f[i] = r
      <4>1. PICK i \in 1..n : at[i] = r.at * Fine
        BY <1>4
      <4> QED BY <1>3, <1>6, <4>1
    <3> QED BY <3>1
  <2>4. f \in Injection(1..n, C)
    BY <2>1, <2>2, Fun_IsInj
  <2>5. f \in Surjection(1..n, C)
    BY <2>1, <2>3 DEF Surjection
  <2> QED BY <2>4, <2>5 DEF Bijection
<1>8. ExistsBijection(1..n, C)
  BY <1>7 DEF ExistsBijection
<1> QED BY <1>1, <1>8, FS_CountingElements

\* If the search finds every radio of a still picture, then in the running system,
\* whatever was typed and whenever the rows came, each board told to transmit is
\* one carrier at its own frequency, and there is no other (feather_cw.ino:225-274;
\* rf.py:309).
THEOREM RadiosAreCarriers ==
  ASSUME LocatesRadios
  PROVE  Spec => []EachRadioIsOneCarrier
<1>1. ASSUME RfInv, Learnt, report # None, Len(report.passes) = 1, Resolvable(report.passes[1])
      PROVE  /\ Found(report.carriers) = Positions(report.passes[1])
             /\ Len(report.carriers) = Cardinality(report.passes[1].commanded)
  <2>1. PICK passes, air, c : passes = report.passes /\ air = passes[1] /\ c = report.carriers
    OBVIOUS
  <2>2. Sweep(passes) /\ Same(passes) /\ c = FindCarriers(Sorted(passes))
    BY <1>1, <2>1 DEF Learnt, Outcome, RfInv, WatchInv, PassesAsCommanded, Same
  <2>3. passes \in Passes /\ DOMAIN passes = 1..1
    BY <1>1, <2>1, <2>2 DEF Sweep, Passes
  <2>4. Steady(passes) /\ Resolvable(air)
    BY <1>1, <2>1, <2>3 DEF Steady
  <2>5. air.commanded \in Picture
    BY <2>1, <2>3, PassOfSweep
  <2>6. Locates(c, air, Len(passes) = 1)
    BY <2>1, <2>2, <2>4, SteadyLocated
  <2>7. PICK at \in Bijection(DOMAIN c, Positions(air)) : \A i \in DOMAIN c : c[i].freq = at[i]
    BY <1>1, <2>1, <2>6 DEF Locates
  <2>8. /\ \A i \in DOMAIN c : c[i].freq \in Positions(air)
        /\ \A f \in Positions(air) : \E i \in DOMAIN c : c[i].freq = f
    BY <2>7 DEF Bijection, Injection, Surjection
  <2>9. Found(c) = Positions(air)
    BY <2>8 DEF Found
  <2>10. c \in Seq(Carrier)
    BY <1>1, <2>1, ColoursOfReport
  <2>11. PICK n \in Nat : n = Len(c) /\ DOMAIN c = 1..n
    BY <2>10
  <2>12. n = Cardinality(air.commanded)
    BY <2>4, <2>5, <2>7, <2>11, OnePerPlace
  <2> QED BY <2>1, <2>9, <2>11, <2>12
<1>2. RfInv /\ Learnt => EachRadioIsOneCarrier
  BY <1>1 DEF EachRadioIsOneCarrier
<1> QED BY <1>2, LearntAlways, PTL

\* If no two carriers of one pass are within twice the tolerance, then identification
\* reports in every sweep of one pass in which counting would, wherever the radios
\* are (rf.py:450).
THEOREM NeverWeaker ==
  ASSUME SeparatesCarriers
  PROVE  Spec => []NotWeakerThanCounting
<1>1. ASSUME RfInv, Learnt, report # None, Len(report.passes) = 1,
             FindingsByCounting(report.carriers, Len(known)) # <<>>
      PROVE  report.findings # <<>>
  <2>1. PICK passes, air, c : passes = report.passes /\ air = passes[1] /\ c = report.carriers
    OBVIOUS
  <2>2. /\ Sweep(passes) /\ Same(passes) /\ c = FindCarriers(Sorted(passes))
        /\ report.findings = FindingsByIdentification(c, known)
    BY <1>1, <2>1 DEF Learnt, Outcome, RfInv, WatchInv, PassesAsCommanded, Same
  <2>3. passes \in Passes /\ DOMAIN passes = 1..1 /\ passes = <<air>>
    BY <1>1, <2>1, <2>2 DEF Sweep, Passes
  <2>4. PICK radios : radios = air.commanded
    OBVIOUS
  <2>5. radios \in Picture /\ air = [radiated |-> radios, commanded |-> radios]
    <3>1. /\ air.radiated \in Picture /\ air.commanded \in Picture
          /\ air = [radiated |-> air.radiated, commanded |-> air.commanded]
      BY <2>1, <2>3, PassOfSweep
    <3>2. air.radiated = air.commanded
      BY <2>1, <2>2, <2>3 DEF Same
    <3> QED BY <2>4, <3>1, <3>2
  <2>6. PICK seen \in Pictures(-1..(Bins + 2)) :
          \A bin \in 1..Bins : Spectrum([radiated |-> radios, commanded |-> radios], bin)
                                 = Spectrum([radiated |-> seen, commanded |-> seen], bin)
    BY <2>5, OutOfSight
  <2>7. PICK picture : picture = [radiated |-> seen, commanded |-> seen]
    OBVIOUS
  <2>8. Sorted(<<air>>) = Sorted(<<picture>>)
    BY <2>5, <2>6, <2>7, SortedBySpectra, Zenon
  <2>9. c = FindCarriers(Sorted(<<picture>>))
    BY <2>2, <2>3, <2>8
  <2>10. \A i, j \in DOMAIN c : i # j => Distance(c[i].freq, c[j].freq) > 2 * Tol
    BY <2>7, <2>9, Zenon DEF SeparatesCarriers
  <2>11. c \in Seq(Carrier)
    BY <1>1, <2>1, ColoursOfReport
  <2>12. PICK E : E = [freq : Int, tol : 0..Tol]
    OBVIOUS
  <2>13. known \in Seq(E)
    <3>1. PICK R : R = Emitter
      OBVIOUS
    <3>2. known \in Seq(R)
      BY <1>1, <3>1 DEF Learnt
    <3>3. R \subseteq E
      BY <2>12, <3>1, FrequencyAssumption DEF Emitter
    <3> QED BY <3>2, <3>3
  <2>14. \E i \in DOMAIN c : \A e \in ToSet(known) : ~Matches(e, c[i])
    BY <1>1, <2>1, <2>10, <2>11, <2>12, <2>13, StrongerThanCounting
  <2>15. PICK s : s = Strangers(c, known)
    OBVIOUS
  <2>16. s # {}
    BY <2>14, <2>15 DEF Strangers
  <2>17. PICK f : f = report.findings
    OBVIOUS
  <2>18. OneForEach(f, c, s)
    BY <2>2, <2>11, <2>15, <2>17, FindingsOfStrangers
  <2>19. Len(f) = Cardinality(s) /\ \E l : Arranges(l, s, Increasing(s))
    BY <2>18, Zenon DEF OneForEach
  <2>20. PICK l : Arranges(l, s, Increasing(s))
    BY <2>19
  <2>21. \E k \in 1..Cardinality(s) : TRUE
    BY <2>16, <2>20 DEF Arranges
  <2>22. f # <<>>
    <3>1. ASSUME f = <<>> PROVE FALSE
      <4>1. Cardinality(s) = 0
        BY <2>19, <3>1
      <4> QED BY <2>21, <4>1
    <3> QED BY <3>1
  <2> QED BY <2>17, <2>22
<1>2. RfInv /\ Learnt => NotWeakerThanCounting
  BY <1>1 DEF NotWeakerThanCounting
<1> QED BY <1>2, LearntAlways, PTL

\* Exactly the radios that were not there are reported and coloured unknown, for
\* every number of boards, baseline and split of the passes into sweeps: as long as
\* the search finds the radios of a still picture, and the tolerance is half a bin
\* or more, the rounding included, as the demo's 400 Hz and the monitor's own
\* 2,000 Hz are with bins of 250 Hz.  How far apart the radios have to be grows with
\* the tolerance: of baselines and radios nearer than that nothing is said
\* (rf.py:93-103, 442-453; rf_monitor.py:132-138, 151-158).
THEOREM StrangersAreReported ==
  ASSUME LocatesRadios, Fine > 1, Fine \div 2 + Grain <= Tol
  PROVE  Spec => []ExactlyStrangersReported
<1>0. Resolves /\ Fine \in Nat /\ Tol \in Nat
  BY FrequencyAssumption DEF Resolves
<1>1. ASSUME RfInv, Learnt, report # None,
             Steady(report.passes), Resolvable(report.passes[1]),
             heard # None, ClearlyPlaced(report.passes[1]),
             NEW strangers, strangers = Positions(report.passes[1]) \ heard
      PROVE  /\ Len(report.findings) = Cardinality(strangers)
             /\ Cardinality({i \in DOMAIN report.colour : ~report.colour[i]}) = Cardinality(strangers)
             /\ \A i \in DOMAIN report.findings :
                  \E f \in strangers : Distance(f, report.findings[i].freq) < Fine
  <2>1. PICK passes, air, c, found :
          passes = report.passes /\ air = passes[1] /\ c = report.carriers /\ found = report.findings
    OBVIOUS
  <2>2. /\ Sweep(passes) /\ Same(passes) /\ c = FindCarriers(Sorted(passes))
        /\ found = FindingsByIdentification(c, known)
    BY <1>1, <2>1 DEF Learnt, Outcome, RfInv, WatchInv, PassesAsCommanded, Same
  <2>3. air.commanded \in Picture
    <3>1. passes \in Passes /\ 1 \in DOMAIN passes
      BY <2>2 DEF Sweep, Passes
    <3> QED BY <2>1, <3>1, PassOfSweep
  <2>4. PICK now : now = Positions(air)
    OBVIOUS
  <2>5. now \subseteq Int
    BY <2>3, <2>4, PositionsTyped
  <2>6. PICK at \in Bijection(DOMAIN c, now) : \A i \in DOMAIN c : Near(c[i].freq, at[i])
    <3>1. Locates(c, air, Len(passes) = 1)
      BY <1>0, <1>1, <2>1, <2>2, SteadyLocated DEF Resolves
    <3> QED BY <1>0, <2>3, <2>4, <3>1, LocatedNear DEF Resolves
  <2>7. PICK before : before = heard
    OBVIOUS
  <2>8. Distinct(before) /\ Covers(known, before) /\ known \in Seq(Emitter)
    BY <1>0, <1>1, <2>7 DEF Learnt
  <2>9. before \subseteq Int
    BY <2>8 DEF Distinct
  <2>10. \A f \in now : \A g \in before : f = g \/ Apart(f, g)
    BY <1>1, <2>1, <2>4, <2>7 DEF ClearlyPlaced
  <2>11. PICK s : s = Strangers(c, known)
    OBVIOUS
  <2>12. /\ c \in Seq(Carrier) /\ DOMAIN report.colour = DOMAIN c
         /\ \A i \in DOMAIN c :
              report.colour[i] <=> \E e \in ToSet(known) : Distance(e.freq, Shown(c[i].freq)) <= Tol
    BY <1>1, <2>1, ColoursOfReport
  <2>13. \A i \in DOMAIN c :
           /\ i \in s <=> at[i] \notin before
           /\ (\E e \in ToSet(known) : Distance(e.freq, Shown(c[i].freq)) <= Tol) <=> at[i] \in before
    <3>1. c \in Seq(Carrier) /\ known \in Seq(Emitter) /\ Covers(known, before)
      BY <2>8, <2>12
    <3>2. Fine \div 2 + Grain <= Tol
      OBVIOUS
    <3> QED BY <2>5, <2>6, <2>9, <2>10, <2>11, <3>1, <3>2, StrangersAreNew, Zenon
  <2>14. s \subseteq DOMAIN c
    BY <2>11 DEF Strangers
  <2>14a. {i \in DOMAIN report.colour : ~report.colour[i]} = s
    BY <2>12, <2>13, <2>14
  <2>15. strangers = now \ before
    BY <1>1, <2>1, <2>4, <2>7
  <2>16. IsFiniteSet(s)
    <3>1. PICK n \in Nat : n = Len(c) /\ DOMAIN c = 1..n
      BY <2>12
    <3>2. 1 \in Int /\ n \in Int
      OBVIOUS
    <3>3. IsFiniteSet(1..n)
      BY <3>2, FS_Interval
    <3> QED BY <2>14, <3>1, <3>3, FS_Subset
  <2>17. Cardinality(s) = Cardinality(strangers)
    <3>1. PICK f : f = [i \in s |-> at[i]]
      OBVIOUS
    <3>2. /\ \A i \in DOMAIN c : at[i] \in now
          /\ \A p \in now : \E i \in DOMAIN c : at[i] = p
      BY DEF Bijection, Injection, Surjection
    <3>3. \A i, j \in DOMAIN c : at[i] = at[j] => i = j
      BY DEF Bijection, Injection, IsInjective
    <3>4. f \in [s -> strangers]
      BY <2>13, <2>14, <2>15, <3>1, <3>2
    <3>5. \A i, j \in s : f[i] = f[j] => i = j
      BY <2>14, <3>1, <3>3
    <3>6. f \in Injection(s, strangers)
      BY <3>4, <3>5, Fun_IsInj
    <3>7. f \in Surjection(s, strangers)
      <4>1. ASSUME NEW p \in strangers PROVE \E i \in s : f[i] = p
        <5>1. PICK i \in DOMAIN c : at[i] = p
          BY <2>15, <3>2
        <5>2. i \in s
          BY <2>13, <2>15, <5>1
        <5> QED BY <3>1, <5>1, <5>2
      <4> QED BY <3>4, <4>1 DEF Surjection
    <3>8. f \in Bijection(s, strangers)
      BY <3>6, <3>7 DEF Bijection
    <3>9. ExistsBijection(s, strangers)
      BY <3>8 DEF ExistsBijection
    <3> QED BY <2>16, <3>9, FS_Bijection
  <2>18. OneForEach(found, c, s)
    BY <2>2, <2>11, <2>12, FindingsOfStrangers
  <2>19. /\ Len(found) = Cardinality(s) /\ DOMAIN found = 1..Cardinality(s)
         /\ \E l : /\ Arranges(l, s, Increasing(s))
                   /\ \A k \in DOMAIN found : found[k].freq = c[l[k]].freq
    BY <2>18, Zenon DEF OneForEach
  <2>20. PICK l : /\ Arranges(l, s, Increasing(s))
                  /\ \A k \in DOMAIN found : found[k].freq = c[l[k]].freq
    BY <2>19
  <2>21. ASSUME NEW k \in DOMAIN found
         PROVE  \E f \in strangers : Distance(f, found[k].freq) < Fine
    <3>1. PICK i \in s : i = l[k]
      BY <2>19, <2>20 DEF Arranges
    <3>2. PICK p, d : p = at[i] /\ d = found[k].freq
      OBVIOUS
    <3>3. i \in DOMAIN c /\ d = c[i].freq
      BY <2>14, <2>20, <3>1, <3>2
    <3>4. p \in now
      BY <3>2, <3>3 DEF Bijection, Injection
    <3>5. p \in strangers /\ p \in Int
      BY <2>5, <2>13, <2>15, <3>2, <3>3, <3>4
    <3>6. d \in Int
      <4>1. PICK R : R = Carrier
        OBVIOUS
      <4>2. c[i] \in R
        BY <2>12, <3>3, <4>1
      <4> QED BY <3>3, <4>1, <4>2 DEF Carrier
    <3>7. 2 * Distance(d, p) < Fine \div 2
      BY <2>6, <3>2, <3>3 DEF Near
    <3>8. Distance(p, d) < Fine
      BY <1>0, <3>5, <3>6, <3>7 DEF Distance
    <3> QED BY <3>2, <3>5, <3>8
  <2> QED BY <2>1, <2>14a, <2>17, <2>19, <2>21
<1>2. RfInv /\ Learnt => ExactlyStrangersReported
  BY <1>1 DEF ExactlyStrangersReported
<1> QED BY <1>2, LearntAlways, PTL

=============================================================================
