---------------------------- MODULE PlannerProofs ---------------------------
(* Theorems about Planner, for any prices, offers, places and needs and    *)
(* any number of chains, products and shown plans.                         *)
(*                                                                         *)
(* The state machine keeps little (PlanInv); the work is in what its       *)
(* operators return.  A checkout is the least that can be paid             *)
(* (CheckoutIsLeast); sums and round trips grow with what they are of      *)
(* (SumMonotone, FewerChainsAreNoDetour); so the candidate of a set of     *)
(* chains matches every way to buy the basket there (Matched), and some    *)
(* undominated plan matches the candidate (Covers).  The orders are strict *)
(* and tell plans apart (KeysOfPlans), so both ends of the frontier are    *)
(* what they should be (FrontierHolds), and the choice of representatives  *)
(* keeps them (Projected) and every number of stores there is room for     *)
(* (EveryCountGetsAPlan).                                                  *)
(*                                                                         *)
(* A definition by recursion on the naturals needs its function to exist:  *)
(* UpTo and Iterated give it for the choice of representatives, and SumRec *)
(* for sums over a finite set, by their number of elements.                *)
EXTENDS Planner, FiniteSetTheorems, SequenceTheorems, WellFoundedInduction, TLAPS

-----------------------------------------------------------------------------
(* Numbers and sums.                                                       *)

(* A set of naturals has a least element, which Min is. *)
LEMMA Least ==
  ASSUME NEW S \in SUBSET Nat, S # {}
  PROVE  Min(S) \in S /\ \A n \in S : Min(S) <= n
<1>0. S \subseteq Nat
  OBVIOUS
<1>1. PICK m \in S : \A n \in S : ~(<<n, m>> \in OpToRel(<, Nat))
  BY <1>0, NatLessThanWellFounded, WFMin
<1>2. ASSUME NEW n \in S
      PROVE  m <= n
  <2>1. m \in Nat /\ n \in Nat
    BY <1>0
  <2>2. ~(n < m)
    BY <1>1, <2>1 DEF OpToRel
  <2> QED
    BY <2>1, <2>2
<1> QED
  BY <1>1, <1>2 DEF Min

(* What SumFunction adds up, in whatever order it takes the values. *)
AddsUp(it, D, f) ==
  /\ it \in [SUBSET D -> Nat]
  /\ it[{}] = 0
  /\ \A s \in SUBSET D : \A x \in s : it[s] = f[x] + it[s \ {x}]

(* However the values are taken, the sum obeys one recursion. *)
LEMMA SumRec ==
  ASSUME NEW D, IsFiniteSet(D), NEW f \in [D -> Nat]
  PROVE  \E it : AddsUp(it, D, f) /\ SumFunction(f) = it[D]
<1> DEFINE pick(s) == CHOOSE x \in s : TRUE
           IsSum(g, n) ==
             /\ g \in [{s \in SUBSET D : Cardinality(s) <= n} -> Nat]
             /\ \A s \in SUBSET D : Cardinality(s) <= n =>
                  g[s] = IF s = {} THEN 0 ELSE f[pick(s)] + g[s \ {pick(s)}]
           bad == {n \in Nat : \A g : ~IsSum(g, n)}
<1>1. \A s \in SUBSET D : /\ IsFiniteSet(s) /\ Cardinality(s) \in Nat
                          /\ s # {} => pick(s) \in s /\ Cardinality(s) > 0
                          /\ \A x \in s : s \ {x} \in SUBSET D /\ Cardinality(s \ {x}) = Cardinality(s) - 1
  <2> SUFFICES ASSUME NEW s \in SUBSET D
               PROVE  /\ IsFiniteSet(s) /\ Cardinality(s) \in Nat
                      /\ s # {} => pick(s) \in s /\ Cardinality(s) > 0
                      /\ \A x \in s : s \ {x} \in SUBSET D /\ Cardinality(s \ {x}) = Cardinality(s) - 1
    OBVIOUS
  <2>1. IsFiniteSet(s)
    BY FS_Subset
  <2>2. Cardinality(s) \in Nat
    BY <2>1, FS_CardinalityType
  <2>3. s # {} => pick(s) \in s /\ Cardinality(s) > 0
    BY <2>1, <2>2, FS_EmptySet
  <2>4. \A x \in s : Cardinality(s \ {x}) = Cardinality(s) - 1
    BY <2>1, FS_RemoveElement
  <2> QED
    BY <2>1, <2>2, <2>3, <2>4
<1>2. bad = {}
  <2>1. SUFFICES ASSUME bad # {} PROVE FALSE
    OBVIOUS
  <2>2. PICK m \in bad : \A n \in bad : m <= n
    <3> HIDE DEF bad
    <3>1. bad \subseteq Nat
      BY DEF bad
    <3> QED
      BY <2>1, <3>1, Least
  <2>n. m \in Nat
    <3> HIDE DEF IsSum
    <3> QED
      BY <2>2
  <2>3. \A n \in Nat : n < m => \E g : IsSum(g, n)
    <3> HIDE DEF IsSum
    <3>1. \A n \in Nat : (\A g : ~IsSum(g, n)) => m <= n
      BY <2>2
    <3> QED
      BY <2>n, <3>1
  <2>4. CASE m = 0
    <3> DEFINE h == [s \in {s \in SUBSET D : Cardinality(s) <= 0} |-> 0]
    <3>1. \A s \in SUBSET D : Cardinality(s) <= 0 => s = {}
      BY <1>1
    <3>2. IsSum(h, 0)
      BY <3>1
    <3>3. \E g : IsSum(g, m)
      <4> HIDE DEF IsSum, h
      <4> QED
        BY <2>4, <3>2
    <3>4. \A g : ~IsSum(g, m)
      BY <2>2
    <3> HIDE DEF IsSum, h
    <3> QED
      BY <3>3, <3>4
  <2>5. CASE m # 0
    <3>1. m - 1 \in Nat /\ m - 1 < m
      BY <2>n, <2>5
    <3>2. PICK g : IsSum(g, m - 1)
      BY <2>3, <3>1
    <3> DEFINE h == [s \in {s \in SUBSET D : Cardinality(s) <= m} |->
                       IF s = {} THEN 0 ELSE f[pick(s)] + g[s \ {pick(s)}]]
    <3> HIDE DEF pick
    <3>3. \A s \in SUBSET D : Cardinality(s) <= m /\ s # {} =>
            /\ pick(s) \in D /\ s \ {pick(s)} \in SUBSET D /\ Cardinality(s \ {pick(s)}) <= m - 1
      BY <1>1, <3>1
    <3>4. h \in [{s \in SUBSET D : Cardinality(s) <= m} -> Nat]
      BY <3>2, <3>3
    <3>5. \A s \in SUBSET D : Cardinality(s) <= m - 1 => h[s] = g[s]
      BY <1>1, <3>1, <3>2
    <3>6. ASSUME NEW s \in SUBSET D, Cardinality(s) <= m
          PROVE  h[s] = IF s = {} THEN 0 ELSE f[pick(s)] + h[s \ {pick(s)}]
      BY <3>3, <3>5, <3>6
    <3>7. IsSum(h, m)
      BY <3>4, <3>6
    <3> QED
      BY <2>2, <3>7
  <2> QED
    BY <2>4, <2>5
<1> DEFINE it == CHOOSE g : g = [s \in SUBSET D |-> IF s = {} THEN 0 ELSE f[pick(s)] + g[s \ {pick(s)}]]
<1>3. it = [s \in SUBSET D |-> IF s = {} THEN 0 ELSE f[pick(s)] + it[s \ {pick(s)}]] /\ it \in [SUBSET D -> Nat]
  <2>1. Cardinality(D) \in Nat
    BY FS_CardinalityType
  <2>2. PICK g : IsSum(g, Cardinality(D))
    <3> HIDE DEF IsSum
    <3> QED
      BY <1>2, <2>1
  <2>3. \A s \in SUBSET D : Cardinality(s) <= Cardinality(D)
    BY FS_Subset
  <2>4. {s \in SUBSET D : Cardinality(s) <= Cardinality(D)} = SUBSET D
    BY <2>3
  <2> HIDE DEF pick
  <2>5. g = [s \in SUBSET D |-> IF s = {} THEN 0 ELSE f[pick(s)] + g[s \ {pick(s)}]]
    BY <2>2, <2>3, <2>4
  <2>6. it = [s \in SUBSET D |-> IF s = {} THEN 0 ELSE f[pick(s)] + it[s \ {pick(s)}]]
    BY <2>5
  <2>7. \A h : h = [s \in SUBSET D |-> IF s = {} THEN 0 ELSE f[pick(s)] + h[s \ {pick(s)}]] => h \in [SUBSET D -> Nat]
    <3> SUFFICES ASSUME NEW h, h = [s \in SUBSET D |-> IF s = {} THEN 0 ELSE f[pick(s)] + h[s \ {pick(s)}]]
                 PROVE  \A s \in SUBSET D : h[s] = g[s]
      BY <2>2, <2>4
    <3> DEFINE off == {Cardinality(s) : s \in {r \in SUBSET D : h[r] # g[r]}}
    <3> SUFFICES ASSUME NEW r \in SUBSET D, h[r] # g[r] PROVE FALSE
      OBVIOUS
    <3>1. off # {}
      OBVIOUS
    <3>2. PICK m \in off : \A n \in off : m <= n
      <4>1. off \subseteq Nat
        BY <1>1
      <4> HIDE DEF off
      <4> QED
        BY <3>1, <4>1, Least
    <3>3. PICK s \in SUBSET D : h[s] # g[s] /\ Cardinality(s) = m
      BY <3>2
    <3>4. s # {}
      BY <2>5, <3>3
    <3>5. pick(s) \in s
      BY <1>1, <3>4
    <3>6. s \ {pick(s)} \in SUBSET D /\ Cardinality(s \ {pick(s)}) < m /\ Cardinality(s \ {pick(s)}) \in Nat /\ m \in Nat
      BY <1>1, <3>3, <3>5
    <3>7. h[s \ {pick(s)}] = g[s \ {pick(s)}]
      <4>1. ~(m <= Cardinality(s \ {pick(s)}))
        BY <3>6
      <4> QED
        BY <3>2, <3>6, <4>1
    <3> QED
      BY <2>5, <3>3, <3>7
  <2> QED
    BY <2>6, <2>7
<1>4. SumFunction(f) = it[D]
  BY DEF SumFunction, SumFunctionOnSet, FoldFunctionOnSet, MapThenFoldSet
<1> HIDE DEF it
<1>5. it[{}] = 0
  BY <1>3
<1>6. \A s \in SUBSET D : s # {} => it[s] = f[pick(s)] + it[s \ {pick(s)}]
  BY <1>3
<1>7. \A s \in SUBSET D : \A x \in s : it[s] = f[x] + it[s \ {x}]
  <2> DEFINE off == {Cardinality(s) : s \in {r \in SUBSET D : \E x \in r : it[r] # f[x] + it[r \ {x}]}}
  <2>1. SUFFICES ASSUME off # {} PROVE FALSE
    OBVIOUS
  <2>2. PICK m \in off : \A n \in off : m <= n
    <3>1. off \subseteq Nat
      BY <1>1
    <3> HIDE DEF off
    <3> QED
      BY <2>1, <3>1, Least
  <2>p. PICK s \in SUBSET D : Cardinality(s) = m /\ \E x \in s : it[s] # f[x] + it[s \ {x}]
    BY <2>2
  <2>3. PICK x \in s : it[s] # f[x] + it[s \ {x}] /\ Cardinality(s) = m
    BY <2>p
  <2>4. pick(s) \in s /\ it[s] = f[pick(s)] + it[s \ {pick(s)}]
    BY <1>1, <1>6, <2>3
  <2> DEFINE y == pick(s)
  <2> HIDE DEF pick
  <2>5. x # y
    BY <2>3, <2>4
  <2>6. s \ {y} \in SUBSET D /\ s \ {x} \in SUBSET D /\ x \in s \ {y} /\ y \in s \ {x}
        /\ (s \ {y}) \ {x} = (s \ {x}) \ {y} /\ (s \ {y}) \ {x} \in SUBSET D
    BY <2>3, <2>4, <2>5
  <2>7. Cardinality(s \ {y}) < m /\ Cardinality(s \ {x}) < m /\ m \in Nat
        /\ Cardinality(s \ {y}) \in Nat /\ Cardinality(s \ {x}) \in Nat
    BY <1>1, <2>3, <2>4, <2>6
  <2>8. it[s \ {y}] = f[x] + it[(s \ {y}) \ {x}] /\ it[s \ {x}] = f[y] + it[(s \ {x}) \ {y}]
    <3>1. ~(m <= Cardinality(s \ {y})) /\ ~(m <= Cardinality(s \ {x}))
      BY <2>7
    <3>2. \A r \in SUBSET D : \A z \in r : ~(m <= Cardinality(r)) => it[r] = f[z] + it[r \ {z}]
      BY <2>2
    <3> QED
      BY <2>6, <3>1, <3>2
  <2>9. f[x] \in Nat /\ f[y] \in Nat /\ it[(s \ {y}) \ {x}] \in Nat
    BY <1>3, <2>3, <2>4, <2>6
  <2>10. it[(s \ {y}) \ {x}] = it[(s \ {x}) \ {y}]
    BY <2>6
  <2>11. it[s] = f[y] + it[s \ {y}]
    BY <2>4 DEF y
  <2> HIDE DEF y
  <2> QED
    BY <2>3, <2>8, <2>9, <2>10, <2>11
<1>8. AddsUp(it, D, f)
  BY <1>3, <1>5, <1>7 DEF AddsUp
<1> QED
  BY <1>4, <1>8

(* A sum of larger values is larger. *)
LEMMA SumMonotone ==
  ASSUME NEW D, IsFiniteSet(D), NEW f \in [D -> Nat], NEW g \in [D -> Nat],
         \A x \in D : f[x] <= g[x]
  PROVE  SumFunction(f) \in Nat /\ SumFunction(g) \in Nat /\ SumFunction(f) <= SumFunction(g)
<1>a. PICK F : AddsUp(F, D, f) /\ SumFunction(f) = F[D]
  BY SumRec
<1>b. PICK G : AddsUp(G, D, g) /\ SumFunction(g) = G[D]
  BY SumRec
<1>1. /\ F \in [SUBSET D -> Nat] /\ F[{}] = 0
      /\ \A s \in SUBSET D : \A x \in s : F[s] = f[x] + F[s \ {x}]
  BY <1>a DEF AddsUp
<1>2. /\ G \in [SUBSET D -> Nat] /\ G[{}] = 0
      /\ \A s \in SUBSET D : \A x \in s : G[s] = g[x] + G[s \ {x}]
  BY <1>b DEF AddsUp
<1> DEFINE off == {Cardinality(s) : s \in {r \in SUBSET D : F[r] > G[r]}}
<1>3. off = {}
  <2> SUFFICES ASSUME off # {} PROVE FALSE
    OBVIOUS
  <2>0. \A s \in SUBSET D : IsFiniteSet(s)
    BY FS_Subset
  <2>1. off \subseteq Nat
    BY <2>0, FS_CardinalityType
  <2>2. PICK m \in off : \A n \in off : m <= n
    <3> HIDE DEF off
    <3> QED
      BY <2>1, Least
  <2>3. PICK s \in SUBSET D : F[s] > G[s] /\ Cardinality(s) = m
    BY <2>2
  <2>4. s # {}
    <3> SUFFICES ASSUME s = {} PROVE FALSE
      OBVIOUS
    <3>1. F[s] = 0 /\ G[s] = 0
      BY <1>1, <1>2
    <3> QED
      BY <2>3, <3>1
  <2>5. PICK x \in s : TRUE
    BY <2>4
  <2>6. Cardinality(s \ {x}) = m - 1 /\ m \in Nat /\ s \ {x} \in SUBSET D
    BY <2>0, <2>1, <2>3, <2>5, FS_RemoveElement
  <2>7. F[s \ {x}] <= G[s \ {x}]
    <3>1. ~(m <= Cardinality(s \ {x}))
      BY <2>6
    <3>2. F[s \ {x}] \in Nat /\ G[s \ {x}] \in Nat
      BY <1>1, <1>2, <2>6
    <3> QED
      BY <2>2, <2>6, <3>1, <3>2
  <2>8. F[s] = f[x] + F[s \ {x}] /\ G[s] = g[x] + G[s \ {x}]
    BY <1>1, <1>2, <2>3, <2>5
  <2>9. f[x] <= g[x] /\ f[x] \in Nat /\ g[x] \in Nat /\ F[s \ {x}] \in Nat /\ G[s \ {x}] \in Nat
    BY <1>1, <1>2, <2>5, <2>6
  <2> QED
    BY <2>3, <2>7, <2>8, <2>9
<1>4. \A s \in SUBSET D : F[s] <= G[s]
  BY <1>1, <1>2, <1>3
<1>5. F[D] \in Nat /\ G[D] \in Nat /\ F[D] <= G[D]
  BY <1>1, <1>2, <1>4
<1> QED
  BY <1>a, <1>b, <1>5

(* The sum over an interval is the last of its prefix sums. *)
PrefixSums(P, n, f) ==
  /\ P \in [0..n -> Nat] /\ P[0] = 0
  /\ \A i \in 1..n : P[i] = P[i - 1] + f[i]

(* They exist and end in the sum. *)
LEMMA SumPrefix ==
  ASSUME NEW n \in Nat, NEW f \in [1..n -> Nat]
  PROVE  \E P : PrefixSums(P, n, f) /\ SumFunction(f) = P[n]
<1>f. IsFiniteSet(1..n)
  BY FS_Interval
<1>a. PICK F : AddsUp(F, 1..n, f) /\ SumFunction(f) = F[1..n]
  BY <1>f, SumRec
<1>1. /\ F \in [SUBSET (1..n) -> Nat] /\ F[{}] = 0
      /\ \A s \in SUBSET (1..n) : \A x \in s : F[s] = f[x] + F[s \ {x}]
  BY <1>a DEF AddsUp
<1> DEFINE P == [i \in 0..n |-> F[1..i]]
<1>2. P \in [0..n -> Nat]
  BY <1>1
<1>3. P[0] = 0
  <2>1. 1..0 = {}
    OBVIOUS
  <2> QED
    BY <1>1, <2>1
<1>4. ASSUME NEW i \in 1..n
      PROVE  P[i] = P[i - 1] + f[i]
  <2>1. 1..i \in SUBSET (1..n) /\ i \in 1..i /\ (1..i) \ {i} = 1..(i - 1)
    OBVIOUS
  <2>2. F[1..i] = f[i] + F[(1..i) \ {i}]
    BY <1>1, <2>1
  <2>3. i \in 0..n /\ i - 1 \in 0..n /\ f[i] \in Nat /\ F[1..(i - 1)] \in Nat
    BY <1>1
  <2> QED
    <3>1. F[(1..i) \ {i}] = F[1..(i - 1)]
      BY <2>1
    <3>2. P[i] = F[1..i] /\ P[i - 1] = F[1..(i - 1)]
      BY <2>3
    <3> HIDE DEF P
    <3> QED
      BY <2>2, <2>3, <3>1, <3>2
<1>5. SumFunction(f) = P[n]
  BY <1>a
<1> HIDE DEF P
<1> QED
  BY <1>2, <1>3, <1>4, <1>5 DEF PrefixSums

-----------------------------------------------------------------------------
(* Round trips.                                                            *)

(* The places of a tour, and what it takes to get to each of them. *)
Tour(k, stops) == [i \in 1..(k + 2) |-> IF i = 1 \/ i = k + 2 THEN 0 ELSE stops[i - 1]]

Cells(k, stops) == [i \in 1..(k + 1) |-> Cell(Tour(k, stops)[i], Tour(k, stops)[i + 1])]

(* The duration of a tour is the last of its prefix sums. *)
LEMMA TourSums ==
  ASSUME NEW k \in Nat, NEW stops \in [1..k -> Int]
  PROVE  /\ Tour(k, stops) \in [1..(k + 2) -> Int]
         /\ \E P : PrefixSums(P, k + 1, Cells(k, stops)) /\ Duration(stops) = P[k + 1]
<1> DEFINE tour == <<0>> \o stops \o <<0>>
<1>1. stops \in Seq(Int) /\ Len(stops) = k
  OBVIOUS
<1>2. tour \in Seq(Int) /\ Len(tour) = k + 2
  BY <1>1
<1>3. \A i \in 1..(k + 2) : tour[i] = Tour(k, stops)[i]
  BY <1>1 DEF Tour
<1>4. Tour(k, stops) \in [1..(k + 2) -> Int]
  BY DEF Tour
<1>5. Cells(k, stops) \in [1..(k + 1) -> Nat]
  <2>1. \A x, y \in Int : Cell(x, y) \in Nat
    BY DEF Cell
  <2>2. \A i \in 1..(k + 1) : Tour(k, stops)[i] \in Int /\ Tour(k, stops)[i + 1] \in Int
    BY <1>4
  <2> QED
    BY <2>1, <2>2 DEF Cells
<1>6. [i \in 1..(Len(tour) - 1) |-> Cell(tour[i], tour[i + 1])] = Cells(k, stops)
  <2>1. Len(tour) - 1 = k + 1
    BY <1>2
  <2>2. \A i \in 1..(k + 1) : tour[i] = Tour(k, stops)[i] /\ tour[i + 1] = Tour(k, stops)[i + 1]
    BY <1>3
  <2> HIDE DEF tour
  <2> QED
    BY <2>1, <2>2 DEF Cells
<1>7. Duration(stops) = SumFunction(Cells(k, stops))
  BY <1>6 DEF Duration
<1>8. k + 1 \in Nat
  OBVIOUS
<1> QED
  BY <1>4, <1>5, <1>7, <1>8, SumPrefix

(* A tour that leaves a stop out is not longer. *)
Without(k, stops, j) == [i \in 1..(k - 1) |-> IF i < j THEN stops[i] ELSE stops[i + 1]]

(* The detour to a stop takes no less than passing it by. *)
LEMMA ShorterTour ==
  ASSUME NEW k \in Nat, NEW stops \in [1..k -> Int], NEW j \in 1..k
  PROVE  Duration(Without(k, stops, j)) <= Duration(stops)
<1> DEFINE less == Without(k, stops, j)
           t == Tour(k, stops)
           u == Tour(k - 1, less)
           e(i) == IF i <= j THEN i ELSE i + 1
<1>1. k - 1 \in Nat /\ less \in [1..(k - 1) -> Int] /\ (k - 1) + 1 = k /\ (k - 1) + 2 = k + 1
  BY DEF Without
<1>a. PICK P : PrefixSums(P, k + 1, Cells(k, stops)) /\ Duration(stops) = P[k + 1]
  BY TourSums
<1>b. PICK Q : PrefixSums(Q, (k - 1) + 1, Cells(k - 1, less)) /\ Duration(less) = Q[(k - 1) + 1]
  BY <1>1, TourSums
<1>4. t \in [1..(k + 2) -> Int] /\ u \in [1..(k + 1) -> Int]
  BY <1>1, TourSums
<1>2. /\ P \in [0..(k + 1) -> Nat] /\ P[0] = 0 /\ Duration(stops) = P[k + 1]
      /\ \A i \in 1..(k + 1) : P[i] = P[i - 1] + Cell(t[i], t[i + 1])
  BY <1>a DEF PrefixSums, Cells
<1>3. /\ Q \in [0..k -> Nat] /\ Q[0] = 0 /\ Duration(less) = Q[k]
      /\ \A i \in 1..k : Q[i] = Q[i - 1] + Cell(u[i], u[i + 1])
  BY <1>1, <1>b DEF PrefixSums, Cells
<1>5. \A i \in 1..(k + 1) : u[i] = t[e(i)]
  BY <1>1 DEF Tour, Without
<1>d. \A x, y, z \in Int : Cell(x, y) \in Nat /\ Cell(x, z) <= Cell(x, y) + Cell(y, z)
  BY DEF Cell
<1> HIDE DEF t, u, less
<1> DEFINE off == {i \in 1..(k + 1) : Q[i - 1] > P[e(i) - 1]}
<1>6. off = {}
  <2> SUFFICES ASSUME off # {} PROVE FALSE
    OBVIOUS
  <2>1. PICK m \in off : \A n \in off : m <= n
    <3>1. off \subseteq Nat
      OBVIOUS
    <3> HIDE DEF off
    <3> QED
      BY <3>1, Least
  <2>2. m \in 1..(k + 1) /\ m \in Nat /\ Q[m - 1] > P[e(m) - 1]
    BY <2>1
  <2>3. m # 1
    BY <1>2, <1>3, <2>2
  <2>4. Q[m - 2] <= P[e(m - 1) - 1]
    <3>1. m - 1 \in 1..(k + 1) /\ ~(m <= m - 1) /\ (m - 1) - 1 = m - 2
      BY <2>2, <2>3
    <3>2. m - 2 \in 0..k /\ e(m - 1) - 1 \in 0..(k + 1)
      BY <2>2, <2>3
    <3>3. Q[m - 2] \in Nat /\ P[e(m - 1) - 1] \in Nat
      BY <1>2, <1>3, <3>2
    <3>4. m - 1 \notin off
      BY <2>1, <3>1
    <3> QED
      BY <3>1, <3>3, <3>4, SMTT(60)
  <2>e. e(m) = (IF m <= j THEN m ELSE m + 1) /\ e(m - 1) = (IF m - 1 <= j THEN m - 1 ELSE m)
    BY <2>2
  <2> HIDE DEF off, e
  <2>5. Q[m - 1] = Q[m - 2] + Cell(u[m - 1], u[m])
    <3>1. m - 1 \in 1..k /\ (m - 1) - 1 = m - 2 /\ (m - 1) + 1 = m
      BY <2>2, <2>3
    <3> QED
      BY <1>3, <3>1
  <2>c. /\ m - 1 \in 1..(k + 1) /\ (m - 1) - 1 = m - 2 /\ (m - 1) + 1 = m
        /\ P[m - 2] \in Nat /\ P[m - 1] \in Nat /\ P[m] \in Nat
        /\ Q[m - 2] \in Nat /\ Q[m - 1] \in Nat
    BY <1>2, <1>3, <2>2, <2>3
  <2>w. /\ P[m - 1] = P[m - 2] + Cell(t[m - 1], t[m])
        /\ P[m] = P[m - 1] + Cell(t[m], t[m + 1])
    BY <1>2, <2>2, <2>c
  <2>i. t[m - 1] \in Int /\ t[m] \in Int /\ t[m + 1] \in Int
    <3>1. m - 1 \in 1..(k + 2) /\ m \in 1..(k + 2) /\ m + 1 \in 1..(k + 2)
      BY <2>2, <2>c
    <3> QED
      BY <1>4, <3>1
  <2>n. /\ Cell(t[m - 1], t[m]) \in Nat /\ Cell(t[m], t[m + 1]) \in Nat
        /\ Cell(t[m - 1], t[m + 1]) \in Nat
        /\ Cell(t[m - 1], t[m + 1]) <= Cell(t[m - 1], t[m]) + Cell(t[m], t[m + 1])
    BY <1>d, <2>i
  <2>v. PICK q0, q1, p0, p1, p2 \in Nat :
          /\ q0 = Q[m - 2] /\ q1 = Q[m - 1]
          /\ p0 = P[m - 2] /\ p1 = P[m - 1] /\ p2 = P[m]
    BY <2>c
  <2>6. CASE m <= j
    <3>1. u[m - 1] = t[m - 1] /\ u[m] = t[m] /\ Q[m - 2] <= P[m - 2] /\ Q[m - 1] > P[m - 1]
      <4>1. u[m - 1] = t[e(m - 1)] /\ u[m] = t[e(m)]
        BY <1>5, <2>2, <2>c
      <4>2. e(m - 1) = m - 1 /\ e(m) = m
        BY <2>2, <2>e, <2>6
      <4>3. (m + 1) - 1 = m
        BY <2>2
      <4> QED
        BY <2>2, <2>4, <2>c, <4>1, <4>2, <4>3
    <3>2. Q[m - 1] = Q[m - 2] + Cell(t[m - 1], t[m])
      BY <2>5, <3>1
    <3>3. PICK c \in Nat : c = Cell(t[m - 1], t[m])
      BY <2>n
    <3>4. q1 = q0 + c /\ p1 = p0 + c /\ q0 <= p0 /\ q1 > p1
      BY <2>v, <2>w, <3>1, <3>2, <3>3
    <3> QED
      BY <3>4
  <2>7. CASE m = j + 1
    <3>1. u[m - 1] = t[m - 1] /\ u[m] = t[m + 1] /\ Q[m - 2] <= P[m - 2] /\ Q[m - 1] > P[m]
      <4>1. u[m - 1] = t[e(m - 1)] /\ u[m] = t[e(m)]
        BY <1>5, <2>2, <2>c
      <4>2. e(m - 1) = m - 1 /\ e(m) = m + 1
        BY <2>2, <2>e, <2>7
      <4>3. (m + 1) - 1 = m
        BY <2>2
      <4> QED
        BY <2>2, <2>4, <2>c, <4>1, <4>2, <4>3
    <3>2. Q[m - 1] = Q[m - 2] + Cell(t[m - 1], t[m + 1])
      BY <2>5, <3>1
    <3>3. PICK c, d, e1 \in Nat : c = Cell(t[m - 1], t[m]) /\ d = Cell(t[m], t[m + 1])
                                  /\ e1 = Cell(t[m - 1], t[m + 1])
      BY <2>n
    <3>4. q1 = q0 + e1 /\ p1 = p0 + c /\ p2 = p1 + d /\ e1 <= c + d /\ q0 <= p0 /\ q1 > p2
      BY <2>v, <2>w, <2>n, <3>1, <3>2, <3>3
    <3> QED
      BY <3>4
  <2>8. CASE m > j + 1
    <3>1. u[m - 1] = t[m] /\ u[m] = t[m + 1] /\ Q[m - 2] <= P[m - 1] /\ Q[m - 1] > P[m]
      <4>1. u[m - 1] = t[e(m - 1)] /\ u[m] = t[e(m)]
        BY <1>5, <2>2, <2>c
      <4>2. e(m - 1) = m /\ e(m) = m + 1
        BY <2>2, <2>e, <2>8
      <4>3. (m + 1) - 1 = m
        BY <2>2
      <4> QED
        BY <2>2, <2>4, <2>c, <4>1, <4>2, <4>3
    <3>2. Q[m - 1] = Q[m - 2] + Cell(t[m], t[m + 1])
      BY <2>5, <3>1
    <3>3. PICK d \in Nat : d = Cell(t[m], t[m + 1])
      BY <2>n
    <3>4. q1 = q0 + d /\ p2 = p1 + d /\ q0 <= p1 /\ q1 > p2
      BY <2>v, <2>w, <3>1, <3>2, <3>3
    <3> QED
      BY <3>4
  <2> QED
    BY <2>2, <2>6, <2>7, <2>8
<1>7. Q[k] <= P[k + 1]
  <2>0. \A i \in 1..(k + 1) : ~(Q[i - 1] > P[e(i) - 1])
    BY <1>6
  <2> HIDE DEF off
  <2>1. k + 1 \in 1..(k + 1) /\ (k + 1) - 1 = k /\ e(k + 1) = k + 2 /\ (k + 2) - 1 = k + 1
    OBVIOUS
  <2>2. Q[k] \in Nat /\ P[k + 1] \in Nat
    BY <1>2, <1>3
  <2> QED
    BY <2>0, <2>1, <2>2
<1> QED
  BY <1>2, <1>3, <1>7 DEF less

(* The round trips of a set of chains, one per choice of branches and      *)
(* order (permutations and combinations of route-order.ts).                *)
Visits(b, C) == {f \in [C -> UNION {b.at[c] : c \in C}] : \A c \in C : f[c] \in b.at[c]}

Along(f, order) == [i \in DOMAIN order |-> f[order[i]]]

Trips(b, C) == {Duration(Along(f, order)) : f \in Visits(b, C), order \in SetToSeqs(C)}

(* A choice of branches in some order is a round trip, *)
LEMMA TripOf ==
  ASSUME NEW b, NEW C, NEW f \in Visits(b, C), NEW order \in SetToSeqs(C)
  PROVE  Duration(Along(f, order)) \in Trips(b, C)
BY DEF Trips

(* and every round trip is one. *)
LEMMA OfTrip ==
  ASSUME NEW b, NEW C, NEW d \in Trips(b, C)
  PROVE  \E f \in Visits(b, C) : \E order \in SetToSeqs(C) : d = Duration(Along(f, order))
BY DEF Trips

(* The stops of a round trip are one place per chain. *)
LEMMA Stopped ==
  ASSUME NEW b, IsRequest(b), NEW C \in SUBSET Chain,
         NEW f \in Visits(b, C), NEW order \in SetToSeqs(C)
  PROVE  /\ Cardinality(C) \in Nat
         /\ order \in [1..Cardinality(C) -> C]
         /\ Along(f, order) \in [1..Cardinality(C) -> Int]
<1>1. IsFiniteSet(C)
  BY PlannerAssumption, FS_Subset
<1>2. Cardinality(C) \in Nat
  BY <1>1, FS_CardinalityType
<1>3. order \in [1..Cardinality(C) -> C]
  BY DEF SetToSeqs
<1>4. \A c \in C : f[c] \in Int
  BY DEF IsRequest, Visits
<1> QED
  BY <1>2, <1>3, <1>4 DEF Along

(* Every set of chains has a round trip, and it takes a number. *)
LEMMA TripsExist ==
  ASSUME NEW b, IsRequest(b), NEW C \in SUBSET Chain
  PROVE  Trips(b, C) \subseteq Nat /\ Trips(b, C) # {}
<1>1. IsFiniteSet(C)
  BY PlannerAssumption, FS_Subset
<1>2. ASSUME NEW f \in Visits(b, C), NEW order \in SetToSeqs(C)
      PROVE  Duration(Along(f, order)) \in Nat
  <2>1. PICK k \in Nat : Along(f, order) \in [1..k -> Int]
    BY Stopped
  <2>2. PICK P : PrefixSums(P, k + 1, Cells(k, Along(f, order))) /\ Duration(Along(f, order)) = P[k + 1]
    BY <2>1, TourSums
  <2>3. P \in [0..(k + 1) -> Nat] /\ k + 1 \in 0..(k + 1)
    BY <2>1, <2>2 DEF PrefixSums
  <2> QED
    BY <2>2, <2>3
<1>3. Trips(b, C) \subseteq Nat
  BY <1>2, OfTrip
<1>4. PICK g \in Bijection(1..Cardinality(C), C) : TRUE
  BY <1>1, FS_CardinalityType DEF ExistsBijection
<1>5. g \in SetToSeqs(C)
  BY <1>4 DEF SetToSeqs, Bijection, Injection, IsInjective
<1>6. [c \in C |-> CHOOSE x \in b.at[c] : TRUE] \in Visits(b, C)
  <2> DEFINE h == [c \in C |-> CHOOSE x \in b.at[c] : TRUE]
  <2>1. \A c \in C : h[c] \in b.at[c]
    BY DEF IsRequest
  <2>2. h \in [C -> UNION {b.at[c] : c \in C}]
    BY <2>1
  <2> QED
    BY <2>1, <2>2 DEF Visits
<1> QED
  BY <1>3, <1>5, <1>6, TripOf

(* The best round trip is one of them and takes no longer than any. *)
LEMMA BestTrip ==
  ASSUME NEW b, IsRequest(b), NEW C \in SUBSET Chain
  PROVE  /\ BestRoundTrip(b, C) \in Trips(b, C) /\ BestRoundTrip(b, C) \in Nat
         /\ \A d \in Trips(b, C) : BestRoundTrip(b, C) <= d
<1>1. BestRoundTrip(b, C) = Min(Trips(b, C))
  BY DEF BestRoundTrip, Trips, Visits, Along
<1> QED
  BY <1>1, TripsExist, Least

(* One chain less. *)
LEMMA ShorterTrip ==
  ASSUME NEW b, IsRequest(b), NEW D \in SUBSET Chain, NEW c \in D
  PROVE  BestRoundTrip(b, D \ {c}) <= BestRoundTrip(b, D)
<1> DEFINE k == Cardinality(D)
           C == D \ {c}
<1>1. IsFiniteSet(D) /\ k \in Nat /\ C \in SUBSET Chain /\ IsFiniteSet(C) /\ Cardinality(C) = k - 1
  <2>1. IsFiniteSet(D)
    BY PlannerAssumption, FS_Subset
  <2> QED
    BY <2>1, FS_CardinalityType, FS_RemoveElement
<1>2. PICK f \in Visits(b, D) :
        \E order \in SetToSeqs(D) : BestRoundTrip(b, D) = Duration(Along(f, order))
  BY BestTrip, OfTrip
<1>3. PICK order \in SetToSeqs(D) : BestRoundTrip(b, D) = Duration(Along(f, order))
  BY <1>2
<1> DEFINE stops == Along(f, order)
<1>4. order \in [1..k -> D] /\ stops \in [1..k -> Int]
  BY Stopped
<1>5. \A i, j \in 1..k : i # j => order[i] # order[j]
  BY DEF SetToSeqs
<1>6. PICK j \in 1..k : order[j] = c
  <2>1. order \in Injection(1..k, D)
    BY <1>4, <1>5 DEF Injection, IsInjective
  <2>2. Cardinality(1..k) = k
    BY <1>1, FS_Interval
  <2>3. order \in Surjection(1..k, D)
    BY <1>1, <2>1, <2>2, FS_Injection
  <2> QED
    BY <2>3 DEF Surjection
<1> DEFINE rest == [i \in 1..(k - 1) |-> IF i < j THEN order[i] ELSE order[i + 1]]
           g == [x \in C |-> f[x]]
<1>7. rest \in [1..(k - 1) -> C]
  <2>1. ASSUME NEW i \in 1..(k - 1)
        PROVE  rest[i] \in C
    <3>1. i \in 1..k /\ i + 1 \in 1..k /\ (i < j \/ i + 1 # j)
      BY <1>1
    <3>2. i < j => i # j
      BY <1>1
    <3> QED
      BY <1>1, <1>4, <1>5, <1>6, <3>1, <3>2
  <2> QED
    BY <2>1
<1>8. rest \in SetToSeqs(C)
  <2>1. ASSUME NEW i \in 1..(k - 1), NEW l \in 1..(k - 1), i # l
        PROVE  rest[i] # rest[l]
    <3> DEFINE at(n) == IF n < j THEN n ELSE n + 1
    <3>1. at(i) \in 1..k /\ at(l) \in 1..k /\ at(i) # at(l)
      BY <1>1, <2>1
    <3>2. rest[i] = order[at(i)] /\ rest[l] = order[at(l)]
      OBVIOUS
    <3> HIDE DEF at, rest
    <3> QED
      BY <1>5, <3>1, <3>2
  <2> HIDE DEF rest
  <2> QED
    BY <1>1, <1>7, <2>1 DEF SetToSeqs
<1>9. g \in Visits(b, C)
  <2>1. \A x \in C : g[x] \in b.at[x]
    BY DEF Visits
  <2>2. g \in [C -> UNION {b.at[x] : x \in C}]
    BY <2>1
  <2> QED
    BY <2>1, <2>2 DEF Visits
<1>10. Along(g, rest) = Without(k, stops, j)
  <2>1. DOMAIN rest = 1..(k - 1)
    OBVIOUS
  <2>2. ASSUME NEW i \in 1..(k - 1)
        PROVE  g[rest[i]] = IF i < j THEN stops[i] ELSE stops[i + 1]
    <3>1. rest[i] \in C /\ i \in 1..k /\ i + 1 \in 1..k
      BY <1>1, <1>7
    <3>2. g[rest[i]] = f[rest[i]]
      BY <3>1
    <3>3. stops[i] = f[order[i]] /\ stops[i + 1] = f[order[i + 1]]
      BY <1>4, <3>1 DEF Along
    <3> QED
      BY <3>2, <3>3
  <2> HIDE DEF g, rest, stops
  <2> QED
    BY <2>1, <2>2 DEF Without, Along
<1>11. Duration(Without(k, stops, j)) \in Trips(b, C)
  <2> HIDE DEF g, rest, stops, C
  <2> QED
    BY <1>8, <1>9, <1>10, TripOf
<1>12. BestRoundTrip(b, C) <= Duration(Without(k, stops, j))
  BY <1>1, <1>11, BestTrip
<1>13. Duration(Without(k, stops, j)) <= Duration(stops)
  <2> HIDE DEF stops
  <2> QED
    BY <1>1, <1>4, ShorterTour
<1>14. Duration(Without(k, stops, j)) \in Nat /\ BestRoundTrip(b, C) \in Nat /\ BestRoundTrip(b, D) \in Nat
  BY <1>1, <1>11, TripsExist, BestTrip
<1> HIDE DEF stops, C
<1> QED
  BY <1>3, <1>12, <1>13, <1>14 DEF stops, C

(* Fewer chains take no longer. *)
LEMMA FewerChainsAreNoDetour ==
  ASSUME NEW b, IsRequest(b), NEW D \in SUBSET Chain, NEW C \in SUBSET D
  PROVE  BestRoundTrip(b, C) <= BestRoundTrip(b, D)
<1> DEFINE off == {Cardinality(D \ S) : S \in {R \in SUBSET D : ~(BestRoundTrip(b, R) <= BestRoundTrip(b, D))}}
<1>1. SUFFICES ASSUME off # {} PROVE FALSE
  OBVIOUS
<1>2. IsFiniteSet(D) /\ \A S : IsFiniteSet(D \ S) /\ Cardinality(D \ S) \in Nat
  <2>1. IsFiniteSet(D)
    BY PlannerAssumption, FS_Subset
  <2>2. ASSUME NEW S
        PROVE  IsFiniteSet(D \ S)
    BY <2>1, FS_Subset
  <2> QED
    BY <2>1, <2>2, FS_CardinalityType
<1>3. PICK m \in off : \A n \in off : m <= n
  <2>1. off \subseteq Nat
    BY <1>2
  <2> HIDE DEF off
  <2> QED
    BY <1>1, <2>1, Least
<1>4. PICK S \in SUBSET D : m = Cardinality(D \ S) /\ ~(BestRoundTrip(b, S) <= BestRoundTrip(b, D))
  BY <1>3
<1>5. S # D
  BY <1>4, BestTrip
<1>6. PICK c \in D \ S : TRUE
  BY <1>5
<1> DEFINE T == S \cup {c}
<1>7. T \in SUBSET D /\ T \ {c} = S /\ c \in T /\ D \ T = (D \ S) \ {c} /\ T \in SUBSET Chain /\ S \in SUBSET Chain
  BY <1>6
<1>8. Cardinality(D \ T) = m - 1 /\ m \in Nat
  <2>1. PICK X : X = D \ S /\ IsFiniteSet(X) /\ Cardinality(X) \in Nat
    BY <1>2
  <2>2. Cardinality(X \ {c}) = Cardinality(X) - 1
    BY <1>6, <2>1, FS_RemoveElement
  <2>3. D \ T = X \ {c} /\ m = Cardinality(X)
    BY <1>4, <1>7, <2>1
  <2> HIDE DEF T
  <2> QED
    BY <2>1, <2>2, <2>3
<1>9. BestRoundTrip(b, T) <= BestRoundTrip(b, D)
  <2>1. ~(m <= Cardinality(D \ T))
    BY <1>8
  <2> HIDE DEF T
  <2> QED
    BY <1>3, <1>7, <2>1
<1>10. BestRoundTrip(b, S) <= BestRoundTrip(b, T)
  BY <1>7, ShorterTrip
<1>11. BestRoundTrip(b, S) \in Nat /\ BestRoundTrip(b, T) \in Nat /\ BestRoundTrip(b, D) \in Nat
  BY <1>7, BestTrip
<1> HIDE DEF T
<1> QED
  BY <1>4, <1>9, <1>10, <1>11

-----------------------------------------------------------------------------
(* Orders.                                                                 *)

(* Sequences of one length are ordered by Before, strictly and totally,    *)
(* and the first place counts most.                                        *)
LEMMA BeforeOrders ==
  ASSUME NEW n \in Nat
  PROVE  /\ \A s \in [1..n -> Int] : ~Before(s, s)
         /\ \A s, t \in [1..n -> Int] : s # t => Before(s, t) \/ Before(t, s)
         /\ \A s, t, u \in [1..n -> Int] : Before(s, t) /\ Before(t, u) => Before(s, u)
         /\ \A s, t \in [1..n -> Int] : n > 0 /\ Before(s, t) => s[1] <= t[1]
<1>1. \A s \in [1..n -> Int] : Len(s) = n
  OBVIOUS
<1>2. ASSUME NEW s \in [1..n -> Int]
      PROVE  ~Before(s, s)
  <2>1. \A i \in 1..n : s[i] \in Int
    OBVIOUS
  <2> QED
    BY <1>1, <2>1 DEF Before
<1>3. ASSUME NEW s \in [1..n -> Int], NEW t \in [1..n -> Int], s # t
      PROVE  Before(s, t) \/ Before(t, s)
  <2> DEFINE off == {i \in 1..n : s[i] # t[i]}
  <2>1. off # {} /\ off \subseteq Nat
    BY <1>3
  <2>2. PICK m \in off : \A i \in off : m <= i
    <3> HIDE DEF off
    <3> QED
      BY <2>1, Least
  <2>3. m \in 1..n /\ s[m] # t[m] /\ s[m] \in Int /\ t[m] \in Int
    BY <2>2
  <2>4. ASSUME NEW j \in 1..(m - 1)
        PROVE  s[j] = t[j]
    <3>1. j \in 1..n /\ ~(m <= j)
      BY <2>3
    <3> QED
      BY <2>2, <3>1
  <2>5. s[m] < t[m] \/ t[m] < s[m]
    BY <2>3
  <2> HIDE DEF off
  <2> QED
    BY <1>1, <2>3, <2>4, <2>5 DEF Before
<1>4. ASSUME NEW s \in [1..n -> Int], NEW t \in [1..n -> Int], NEW u \in [1..n -> Int],
             Before(s, t), Before(t, u)
      PROVE  Before(s, u)
  <2>1. PICK i \in 1..n : s[i] < t[i] /\ \A l \in 1..(i - 1) : s[l] = t[l]
    BY <1>1, <1>4 DEF Before
  <2>2. PICK j \in 1..n : t[j] < u[j] /\ \A l \in 1..(j - 1) : t[l] = u[l]
    BY <1>1, <1>4 DEF Before
  <2>3. PICK m \in 1..n : m = (IF i < j THEN i ELSE j)
    OBVIOUS
  <2>4. s[m] < u[m]
    <3>1. CASE i < j
      <4>1. m = i /\ i \in 1..(j - 1)
        BY <2>3, <3>1
      <4>2. t[i] = u[i]
        BY <2>2, <4>1
      <4> QED
        BY <2>1, <4>1, <4>2
    <3>2. CASE i = j
      <4>1. s[i] \in Int /\ t[i] \in Int /\ u[i] \in Int
        OBVIOUS
      <4> QED
        BY <2>1, <2>2, <2>3, <3>2, <4>1
    <3>3. CASE i > j
      <4>1. m = j /\ j \in 1..(i - 1)
        BY <2>3, <3>3
      <4>2. s[j] = t[j]
        BY <2>1, <4>1
      <4> QED
        BY <2>2, <4>1, <4>2
    <3> QED
      BY <3>1, <3>2, <3>3
  <2>5. ASSUME NEW l \in 1..(m - 1)
        PROVE  s[l] = u[l]
    <3>1. l \in 1..(i - 1) /\ l \in 1..(j - 1)
      BY <2>3
    <3> QED
      BY <2>1, <2>2, <3>1
  <2> QED
    BY <1>1, <2>4, <2>5 DEF Before
<1>5. ASSUME NEW s \in [1..n -> Int], NEW t \in [1..n -> Int], n > 0, Before(s, t)
      PROVE  s[1] <= t[1]
  <2>1. PICK i \in 1..n : s[i] < t[i] /\ \A l \in 1..(i - 1) : s[l] = t[l]
    BY <1>1, <1>5 DEF Before
  <2>2. 1 \in 1..n /\ s[1] \in Int /\ t[1] \in Int
    BY <1>5
  <2>3. CASE i = 1
    BY <2>1, <2>2, <2>3
  <2>4. CASE i # 1
    <3>1. 1 \in 1..(i - 1)
      BY <2>4
    <3> QED
      BY <2>1, <2>2, <3>1
  <2> QED
    BY <2>3, <2>4
<1> QED
  BY <1>2, <1>3, <1>4, <1>5

(* The elements of a finite set under keys that differ, and those before x. *)
Keyed(S, n, k) ==
  /\ IsFiniteSet(S) /\ n \in Nat /\ k \in [S -> [1..n -> Int]]
  /\ \A x, y \in S : k[x] = k[y] => x = y

Smaller(S, k, x) == {y \in S : Before(k[y], k[x])}

(* The elements before x are the fewer the earlier x comes. *)
LEMMA SmallerCounts ==
  ASSUME NEW S, NEW n, NEW k, Keyed(S, n, k)
  PROVE  /\ Cardinality(S) \in Nat
         /\ \A x \in S : Cardinality(Smaller(S, k, x)) \in 0..(Cardinality(S) - 1)
         /\ \A x, y \in S : Before(k[x], k[y]) =>
              Cardinality(Smaller(S, k, x)) < Cardinality(Smaller(S, k, y))
         /\ \A x, y \in S : x # y => Before(k[x], k[y]) \/ Before(k[y], k[x])
<1>1. /\ IsFiniteSet(S) /\ n \in Nat /\ k \in [S -> [1..n -> Int]]
      /\ \A x, y \in S : k[x] = k[y] => x = y
  BY DEF Keyed
<1>2. /\ \A x \in S : ~Before(k[x], k[x])
      /\ \A x, y \in S : x # y => Before(k[x], k[y]) \/ Before(k[y], k[x])
      /\ \A x, y, z \in S : Before(k[x], k[y]) /\ Before(k[y], k[z]) => Before(k[x], k[z])
  <2>1. \A x \in S : k[x] \in [1..n -> Int]
    BY <1>1
  <2> QED
    BY <1>1, <2>1, BeforeOrders
<1>3. Cardinality(S) \in Nat
  BY <1>1, FS_CardinalityType
<1>4. ASSUME NEW x \in S
      PROVE  /\ IsFiniteSet(Smaller(S, k, x)) /\ Cardinality(Smaller(S, k, x)) \in Nat
             /\ Cardinality(Smaller(S, k, x)) \in 0..(Cardinality(S) - 1)
  <2>1. Smaller(S, k, x) \in SUBSET (S \ {x})
    BY <1>2 DEF Smaller
  <2>2. IsFiniteSet(S \ {x}) /\ Cardinality(S \ {x}) = Cardinality(S) - 1
    BY <1>1, FS_RemoveElement
  <2>3. IsFiniteSet(Smaller(S, k, x)) /\ Cardinality(Smaller(S, k, x)) <= Cardinality(S \ {x})
    BY <2>1, <2>2, FS_Subset
  <2>4. Cardinality(Smaller(S, k, x)) \in Nat
    BY <2>3, FS_CardinalityType
  <2> QED
    BY <1>3, <2>2, <2>3, <2>4
<1>5. ASSUME NEW x \in S, NEW y \in S, Before(k[x], k[y])
      PROVE  Cardinality(Smaller(S, k, x)) < Cardinality(Smaller(S, k, y))
  <2>1. PICK Y : Y = Smaller(S, k, y) /\ IsFiniteSet(Y) /\ Cardinality(Y) \in Nat
    BY <1>4
  <2>2. x \in Y
    BY <1>5, <2>1 DEF Smaller
  <2>3. Smaller(S, k, x) \in SUBSET (Y \ {x})
    BY <1>2, <1>5, <2>1 DEF Smaller
  <2>4. IsFiniteSet(Y \ {x}) /\ Cardinality(Y \ {x}) = Cardinality(Y) - 1
    BY <2>1, <2>2, FS_RemoveElement
  <2>5. Cardinality(Smaller(S, k, x)) <= Cardinality(Y \ {x})
    BY <2>3, <2>4, FS_Subset
  <2>6. Cardinality(Smaller(S, k, x)) \in Nat
    BY <1>4
  <2> QED
    BY <2>1, <2>4, <2>5, <2>6
<1> QED
  BY <1>2, <1>3, <1>4, <1>5

(* Every place is taken. *)
LEMMA PlaceTaken ==
  ASSUME NEW S, NEW n, NEW k, Keyed(S, n, k), NEW i \in 1..Cardinality(S)
  PROVE  \E x \in S : Cardinality(Smaller(S, k, x)) = i - 1
<1>1. IsFiniteSet(S) /\ Cardinality(S) \in Nat
  BY SmallerCounts DEF Keyed
<1> DEFINE r == [x \in S |-> Cardinality(Smaller(S, k, x)) + 1]
<1>2. \A x \in S : Cardinality(Smaller(S, k, x)) \in 0..(Cardinality(S) - 1)
  BY SmallerCounts
<1>3. r \in [S -> 1..Cardinality(S)]
  BY <1>1, <1>2
<1>4. ASSUME NEW x \in S, NEW y \in S, x # y
      PROVE  r[x] # r[y]
  <2>1. Before(k[x], k[y]) \/ Before(k[y], k[x])
    BY <1>4, SmallerCounts
  <2>2. \/ Cardinality(Smaller(S, k, x)) < Cardinality(Smaller(S, k, y))
        \/ Cardinality(Smaller(S, k, y)) < Cardinality(Smaller(S, k, x))
    BY <2>1, SmallerCounts
  <2>3. r[x] = Cardinality(Smaller(S, k, x)) + 1 /\ r[y] = Cardinality(Smaller(S, k, y)) + 1
    OBVIOUS
  <2> HIDE DEF r
  <2> QED
    BY <1>2, <2>2, <2>3
<1>5. r \in Injection(S, 1..Cardinality(S))
  <2> HIDE DEF r
  <2> QED
    BY <1>3, <1>4 DEF Injection, IsInjective
<1>6. IsFiniteSet(1..Cardinality(S)) /\ Cardinality(1..Cardinality(S)) = Cardinality(S)
  BY <1>1, FS_Interval
<1>7. r \in Surjection(S, 1..Cardinality(S))
  <2> HIDE DEF r
  <2> QED
    BY <1>5, <1>6, FS_Injection
<1>8. PICK x \in S : r[x] = i
  <2> HIDE DEF r
  <2> QED
    BY <1>7 DEF Surjection
<1> QED
  BY <1>2, <1>8

(* An element comes first. *)
LEMMA OneIsFirst ==
  ASSUME NEW S, NEW n, NEW k, Keyed(S, n, k), S # {}
  PROVE  \E x \in S : \A y \in S \ {x} : Before(k[x], k[y])
<1>1. Cardinality(S) \in Nat /\ Cardinality(S) # 0
  BY FS_EmptySet, SmallerCounts DEF Keyed
<1>2. 1 \in 1..Cardinality(S)
  BY <1>1
<1>3. PICK x \in S : Cardinality(Smaller(S, k, x)) = 1 - 1
  BY <1>2, PlaceTaken
<1>4. ASSUME NEW y \in S \ {x}
      PROVE  Before(k[x], k[y])
  <2>1. Before(k[x], k[y]) \/ Before(k[y], k[x])
    BY <1>4, SmallerCounts
  <2>2. ASSUME Before(k[y], k[x])
        PROVE  FALSE
    <3>1. Cardinality(Smaller(S, k, y)) < Cardinality(Smaller(S, k, x))
      BY <2>2, SmallerCounts
    <3>2. Cardinality(Smaller(S, k, y)) \in 0..(Cardinality(S) - 1)
      BY SmallerCounts
    <3> QED
      BY <1>1, <1>3, <3>1, <3>2
  <2> QED
    BY <2>1, <2>2
<1> QED
  BY <1>4

(* What takes every place is all there is, in order. *)
LEMMA InPlaceInOrder ==
  ASSUME NEW S, NEW n, NEW k, Keyed(S, n, k), NEW a,
         \A i \in 1..Cardinality(S) : a[i] \in S /\ Cardinality(Smaller(S, k, a[i])) = i - 1
  PROVE  /\ \A x \in S : \E i \in 1..Cardinality(S) : a[i] = x
         /\ \A i, j \in 1..Cardinality(S) : i < j => Before(k[a[i]], k[a[j]])
<1>1. Cardinality(S) \in Nat
  BY SmallerCounts
<1>2. ASSUME NEW x \in S
      PROVE  \E i \in 1..Cardinality(S) : a[i] = x
  <2>1. PICK i \in 1..Cardinality(S) : Cardinality(Smaller(S, k, x)) = i - 1
    <3>1. Cardinality(Smaller(S, k, x)) \in 0..(Cardinality(S) - 1)
      BY SmallerCounts
    <3>2. Cardinality(Smaller(S, k, x)) + 1 \in 1..Cardinality(S)
      BY <1>1, <3>1
    <3> QED
      BY <3>1, <3>2
  <2>2. a[i] \in S /\ Cardinality(Smaller(S, k, a[i])) = Cardinality(Smaller(S, k, x))
    BY <2>1
  <2>3. ASSUME a[i] # x
        PROVE  FALSE
    <3>1. Before(k[a[i]], k[x]) \/ Before(k[x], k[a[i]])
      BY <2>2, <2>3, SmallerCounts
    <3>2. \/ Cardinality(Smaller(S, k, a[i])) < Cardinality(Smaller(S, k, x))
          \/ Cardinality(Smaller(S, k, x)) < Cardinality(Smaller(S, k, a[i]))
      BY <2>2, <3>1, SmallerCounts
    <3> QED
      BY <1>1, <2>1, <2>2, <3>2
  <2> QED
    BY <2>3
<1>3. ASSUME NEW i \in 1..Cardinality(S), NEW j \in 1..Cardinality(S), i < j
      PROVE  Before(k[a[i]], k[a[j]])
  <2>1. /\ a[i] \in S /\ Cardinality(Smaller(S, k, a[i])) = i - 1
        /\ a[j] \in S /\ Cardinality(Smaller(S, k, a[j])) = j - 1
    OBVIOUS
  <2>2. a[i] # a[j]
    BY <1>1, <1>3, <2>1
  <2>3. Before(k[a[i]], k[a[j]]) \/ Before(k[a[j]], k[a[i]])
    BY <2>1, <2>2, SmallerCounts
  <2>4. ASSUME Before(k[a[j]], k[a[i]])
        PROVE  FALSE
    <3>1. Cardinality(Smaller(S, k, a[j])) < Cardinality(Smaller(S, k, a[i]))
      BY <2>1, <2>4, SmallerCounts
    <3> QED
      BY <1>1, <1>3, <2>1, <3>1
  <2> QED
    BY <2>3, <2>4
<1> QED
  BY <1>2, <1>3

-----------------------------------------------------------------------------
(* The orders of plans.                                                    *)

IsPlan(p) ==
  /\ p.take \in [Need -> Product \X Chain] /\ p.total \in Nat /\ p.travel \in Nat
  /\ p.chains \in SUBSET Chain /\ Stores(p) \in 1..3

(* Plans of one request: those with the same assignments are the same. *)
PlansOfOne(P) ==
  /\ IsFiniteSet(P) /\ \A p \in P : IsPlan(p)
  /\ \A p, q \in P : p.take = q.take => p = q

(* How long an id is. *)
Width == 2 * Cardinality(Need)

(* An id is a sequence of numbers that tells assignments apart. *)
LEMMA IdTellsPlans ==
  /\ Width \in Nat
  /\ \A p : IsPlan(p) => Id(p) \in [1..Width -> Int]
  /\ \A p, q : IsPlan(p) /\ IsPlan(q) /\ Id(p) = Id(q) => p.take = q.take
<1>1. Width \in Nat /\ Need = 1..Cardinality(Need) /\ Cardinality(Need) \in Nat
  BY PlannerAssumption DEF Width
<1>2. ASSUME NEW p, IsPlan(p), NEW i \in 1..Width
      PROVE  p.take[(i + 1) \div 2][2 - (i % 2)] \in Int
  <2>1. (i + 1) \div 2 \in Need
    BY <1>1 DEF Width
  <2>2. PICK x \in Product, c \in Chain : p.take[(i + 1) \div 2] = <<x, c>>
    BY <1>2, <2>1 DEF IsPlan
  <2>3. x \in Int /\ c \in Int
    BY PlannerAssumption
  <2>4. 2 - (i % 2) = 1 \/ 2 - (i % 2) = 2
    BY <1>1
  <2>5. p.take[(i + 1) \div 2][1] \in Int /\ p.take[(i + 1) \div 2][2] \in Int
    BY <2>2, <2>3
  <2>6. CASE 2 - (i % 2) = 1
    BY <2>5, <2>6
  <2>7. CASE 2 - (i % 2) = 2
    BY <2>5, <2>7
  <2> QED
    BY <2>4, <2>6, <2>7
<1>3. \A p : IsPlan(p) => Id(p) \in [1..Width -> Int]
  BY <1>2 DEF Id, Width
<1>4. ASSUME NEW p, NEW q, IsPlan(p), IsPlan(q), Id(p) = Id(q)
      PROVE  p.take = q.take
  <2>1. \A i \in 1..Width :
          p.take[(i + 1) \div 2][2 - (i % 2)] = q.take[(i + 1) \div 2][2 - (i % 2)]
    BY <1>4 DEF Id, Width
  <2>2. ASSUME NEW n \in Need
        PROVE  p.take[n] = q.take[n]
    <3>1. n \in 1..Cardinality(Need)
      BY <1>1
    <3>2. 2 * n - 1 \in 1..Width /\ 2 * n \in 1..Width
      BY <1>1, <3>1 DEF Width
    <3>3. /\ ((2 * n - 1) + 1) \div 2 = n /\ 2 - ((2 * n - 1) % 2) = 1
          /\ ((2 * n) + 1) \div 2 = n /\ 2 - ((2 * n) % 2) = 2
      BY <3>1
    <3>a. PICK i \in 1..Width : (i + 1) \div 2 = n /\ 2 - (i % 2) = 1
      BY <3>2, <3>3
    <3>b. PICK j \in 1..Width : (j + 1) \div 2 = n /\ 2 - (j % 2) = 2
      BY <3>2, <3>3
    <3>c. p.take[n][1] = q.take[n][1]
      BY <2>1, <3>a
    <3>d. p.take[n][2] = q.take[n][2]
      BY <2>1, <3>b
    <3>4. p.take[n][1] = q.take[n][1] /\ p.take[n][2] = q.take[n][2]
      BY <3>c, <3>d
    <3>5. p.take[n] \in Product \X Chain /\ q.take[n] \in Product \X Chain
      BY <1>4 DEF IsPlan
    <3> QED
      BY <3>4, <3>5
  <2> QED
    BY <1>4, <2>2 DEF IsPlan
<1> QED
  BY <1>1, <1>3, <1>4

(* Sequences of one length that agree everywhere are the same. *)
LEMMA SameSequence ==
  ASSUME NEW I, NEW f \in [I -> Int], NEW h \in [I -> Int], \A i \in I : f[i] = h[i]
  PROVE  f = h
OBVIOUS

(* A function on 1..n is a sequence. *)
LEMMA IsSequence ==
  ASSUME NEW V, NEW n \in Nat, NEW m \in [1..n -> V]
  PROVE  m \in Seq(V) /\ Len(m) = n
OBVIOUS

(* Three numbers before an id. *)
EndsWith(v, m, s) == \A i \in 1..m : v[i + 3] = s[i]

IsPrefixed(v, m, x, y, z, s) ==
  /\ m \in Nat /\ x \in Int /\ y \in Int /\ z \in Int /\ s \in [1..m -> Int]
  /\ v = <<x, y, z>> \o s

(* The numbers come first and the id follows. *)
LEMMA Prefixed ==
  ASSUME NEW m, NEW x, NEW y, NEW z, NEW s, NEW v, IsPrefixed(v, m, x, y, z, s)
  PROVE  /\ v \in [1..(m + 3) -> Int] /\ v[1] = x /\ v[2] = y /\ v[3] = z
         /\ EndsWith(v, m, s)
<1>0. m \in Nat /\ x \in Int /\ y \in Int /\ z \in Int /\ s \in [1..m -> Int]
  BY DEF IsPrefixed
<1>1. s \in Seq(Int) /\ Len(s) = m /\ <<x, y, z>> \in Seq(Int) /\ Len(<<x, y, z>>) = 3
  BY <1>0
<1>2. /\ <<x, y, z>> \o s \in Seq(Int) /\ Len(<<x, y, z>> \o s) = m + 3
      /\ \A i \in 1..(m + 3) : (<<x, y, z>> \o s)[i] = IF i <= 3 THEN <<x, y, z>>[i] ELSE s[i - 3]
  BY <1>0, <1>1
<1>3. PICK t : /\ t = <<x, y, z>> \o s /\ t \in Seq(Int) /\ Len(t) = m + 3
               /\ \A i \in 1..(m + 3) : t[i] = IF i <= 3 THEN <<x, y, z>>[i] ELSE s[i - 3]
  BY <1>2
<1>4. t \in [1..(m + 3) -> Int]
  BY <1>0, <1>3, LenProperties
<1>5. t[1] = x /\ t[2] = y /\ t[3] = z
  BY <1>0, <1>3
<1>6. ASSUME NEW i \in 1..m
      PROVE  t[i + 3] = s[i]
  <2>1. i + 3 \in 1..(m + 3) /\ ~(i + 3 <= 3) /\ (i + 3) - 3 = i
    BY <1>0
  <2> QED
    BY <1>0, <1>3, <2>1
<1>7. EndsWith(t, m, s)
  BY <1>6 DEF EndsWith
<1>8. v = t
  BY <1>3 DEF IsPrefixed
<1> QED
  BY <1>4, <1>5, <1>7, <1>8

(* Each of the three orders tells the plans of a request apart. *)
LEMMA KeysOfPlans ==
  ASSUME NEW P, PlansOfOne(P)
  PROVE  /\ Keyed(P, Width + 3, [p \in P |-> Convenience(p)])
         /\ Keyed(P, Width + 3, [p \in P |-> Savings(p)])
         /\ Keyed(P, Width + 3, [p \in P |-> Middle(p)])
<1>1. IsFiniteSet(P) /\ Width \in Nat /\ Width + 3 \in Nat
  BY IdTellsPlans DEF PlansOfOne
<1>2. ASSUME NEW p \in P
      PROVE  Stores(p) \in Int /\ p.total \in Int /\ p.travel \in Int /\ 0 - p.total \in Int
             /\ Id(p) \in [1..Width -> Int]
  BY IdTellsPlans DEF PlansOfOne, IsPlan
<1>3. ASSUME NEW p \in P
      PROVE  /\ Convenience(p) \in [1..(Width + 3) -> Int]
             /\ Savings(p) \in [1..(Width + 3) -> Int]
             /\ Middle(p) \in [1..(Width + 3) -> Int]
             /\ \A i \in 1..Width : /\ Convenience(p)[i + 3] = Id(p)[i]
                                    /\ Savings(p)[i + 3] = Id(p)[i]
                                    /\ Middle(p)[i + 3] = Id(p)[i]
  <2>2. Stores(p) \in Int /\ p.total \in Int /\ p.travel \in Int /\ 0 - p.total \in Int
        /\ Id(p) \in [1..Width -> Int]
    BY <1>2
  <2>p. PICK x, y, z, w \in Int, s \in [1..Width -> Int] :
          x = Stores(p) /\ y = p.travel /\ z = p.total /\ w = 0 - p.total /\ s = Id(p)
    BY <2>2
  <2>3. /\ Convenience(p) \in [1..(Width + 3) -> Int]
        /\ \A i \in 1..Width : Convenience(p)[i + 3] = Id(p)[i]
    <3>1. Convenience(p) = <<x, y, z>> \o s
      BY <2>p DEF Convenience
    <3>2. x \in Int /\ y \in Int /\ z \in Int /\ w \in Int /\ s \in [1..Width -> Int]
      BY <2>p
    <3>3. PICK m \in Nat : m = Width
      BY <1>1
    <3>5. m \in Nat /\ s \in [1..m -> Int]
      BY <3>2, <3>3
    <3>4. PICK t : t = <<x, y, z>> \o s /\ IsPrefixed(t, m, x, y, z, s)
      BY <3>2, <3>5 DEF IsPrefixed
    <3>6. t \in [1..(m + 3) -> Int] /\ \A i \in 1..m : t[i + 3] = s[i]
      <4>1. IsPrefixed(t, m, x, y, z, s)
        BY <3>4
      <4>2. t \in [1..(m + 3) -> Int]
        BY <4>1, Prefixed
      <4>3. EndsWith(t, m, s)
        BY <4>1, Prefixed
      <4> QED
        BY <4>2, <4>3 DEF EndsWith
    <3> QED
      BY <2>p, <3>1, <3>3, <3>4, <3>6
  <2>4. /\ Savings(p) \in [1..(Width + 3) -> Int]
        /\ \A i \in 1..Width : Savings(p)[i + 3] = Id(p)[i]
    <3>1. Savings(p) = <<z, y, x>> \o s
      BY <2>p DEF Savings
    <3>2. x \in Int /\ y \in Int /\ z \in Int /\ w \in Int /\ s \in [1..Width -> Int]
      BY <2>p
    <3>3. PICK m \in Nat : m = Width
      BY <1>1
    <3>5. m \in Nat /\ s \in [1..m -> Int]
      BY <3>2, <3>3
    <3>4. PICK t : t = <<z, y, x>> \o s /\ IsPrefixed(t, m, z, y, x, s)
      BY <3>2, <3>5 DEF IsPrefixed
    <3>6. t \in [1..(m + 3) -> Int] /\ \A i \in 1..m : t[i + 3] = s[i]
      <4>1. IsPrefixed(t, m, z, y, x, s)
        BY <3>4
      <4>2. t \in [1..(m + 3) -> Int]
        BY <4>1, Prefixed
      <4>3. EndsWith(t, m, s)
        BY <4>1, Prefixed
      <4> QED
        BY <4>2, <4>3 DEF EndsWith
    <3> QED
      BY <2>p, <3>1, <3>3, <3>4, <3>6
  <2>5. /\ Middle(p) \in [1..(Width + 3) -> Int]
        /\ \A i \in 1..Width : Middle(p)[i + 3] = Id(p)[i]
    <3>1. Middle(p) = <<x, y, w>> \o s
      BY <2>p DEF Middle
    <3>2. x \in Int /\ y \in Int /\ z \in Int /\ w \in Int /\ s \in [1..Width -> Int]
      BY <2>p
    <3>3. PICK m \in Nat : m = Width
      BY <1>1
    <3>5. m \in Nat /\ s \in [1..m -> Int]
      BY <3>2, <3>3
    <3>4. PICK t : t = <<x, y, w>> \o s /\ IsPrefixed(t, m, x, y, w, s)
      BY <3>2, <3>5 DEF IsPrefixed
    <3>6. t \in [1..(m + 3) -> Int] /\ \A i \in 1..m : t[i + 3] = s[i]
      <4>1. IsPrefixed(t, m, x, y, w, s)
        BY <3>4
      <4>2. t \in [1..(m + 3) -> Int]
        BY <4>1, Prefixed
      <4>3. EndsWith(t, m, s)
        BY <4>1, Prefixed
      <4> QED
        BY <4>2, <4>3 DEF EndsWith
    <3> QED
      BY <2>p, <3>1, <3>3, <3>4, <3>6
  <2> QED
    BY <2>3, <2>4, <2>5
<1>4. ASSUME NEW p \in P, NEW q \in P, \/ Convenience(p) = Convenience(q)
                                       \/ Savings(p) = Savings(q) \/ Middle(p) = Middle(q)
      PROVE  p = q
  <2>1. \A i \in 1..Width : Id(p)[i] = Id(q)[i]
    BY <1>3, <1>4
  <2>2. Id(p) = Id(q)
    <3>1. PICK f, h \in [1..Width -> Int] : f = Id(p) /\ h = Id(q)
      BY <1>2
    <3>2. \A i \in 1..Width : f[i] = h[i]
      BY <2>1, <3>1
    <3>3. PICK I : I = 1..Width
      OBVIOUS
    <3>4. f \in [I -> Int] /\ h \in [I -> Int] /\ \A i \in I : f[i] = h[i]
      BY <3>1, <3>2, <3>3
    <3>5. f = h
      BY <3>4, SameSequence, ZenonT(60)
    <3> QED
      BY <3>1, <3>5
  <2> QED
    BY <2>2, IdTellsPlans DEF PlansOfOne
<1> QED
  BY <1>1, <1>3, <1>4 DEF Keyed

(* Both ends of the order. *)
LEMMA Ends ==
  ASSUME NEW P, PlansOfOne(P), P # {}
  PROVE  /\ First(P, Convenience) \in P
         /\ \A q \in P \ {First(P, Convenience)} :
              Before(Convenience(First(P, Convenience)), Convenience(q))
         /\ First(P, Savings) \in P
         /\ \A q \in P \ {First(P, Savings)} : Before(Savings(First(P, Savings)), Savings(q))
<1>1. \E p \in P : \A q \in P \ {p} : Before(Convenience(p), Convenience(q))
  <2> DEFINE k == [p \in P |-> Convenience(p)]
  <2>1. Keyed(P, Width + 3, k)
    BY KeysOfPlans
  <2>2. \A p \in P : k[p] = Convenience(p)
    OBVIOUS
  <2> HIDE DEF k
  <2>3. PICK p \in P : \A q \in P \ {p} : Before(k[p], k[q])
    BY <2>1, OneIsFirst
  <2> QED
    BY <2>2, <2>3
<1>2. \E p \in P : \A q \in P \ {p} : Before(Savings(p), Savings(q))
  <2> DEFINE k == [p \in P |-> Savings(p)]
  <2>1. Keyed(P, Width + 3, k)
    BY KeysOfPlans
  <2>2. \A p \in P : k[p] = Savings(p)
    OBVIOUS
  <2> HIDE DEF k
  <2>3. PICK p \in P : \A q \in P \ {p} : Before(k[p], k[q])
    BY <2>1, OneIsFirst
  <2> QED
    BY <2>2, <2>3
<1> QED
  BY <1>1, <1>2 DEF First

(* The middle of the frontier has every plan it is made of. *)
LEMMA MiddleArranged ==
  ASSUME NEW P, PlansOfOne(P)
  PROVE  /\ Cardinality(P) \in Nat
         /\ Arranged(P, Middle) \in [1..Cardinality(P) -> P]
         /\ \A p \in P : \E i \in 1..Cardinality(P) : Arranged(P, Middle)[i] = p
<1> DEFINE k == [p \in P |-> Middle(p)]
           a == Arranged(P, Middle)
<1>1. Keyed(P, Width + 3, k)
  BY KeysOfPlans
<1>2. \A p \in P : Smaller(P, k, p) = {y \in P : Before(Middle(y), Middle(p))}
  BY DEF Smaller
<1>3. Cardinality(P) \in Nat
  BY <1>1, SmallerCounts
<1>4. ASSUME NEW i \in 1..Cardinality(P)
      PROVE  a[i] \in P /\ Cardinality(Smaller(P, k, a[i])) = i - 1
  <2>1. \E p \in P : Cardinality(Smaller(P, k, p)) = i - 1
    <3> HIDE DEF k
    <3> QED
      BY <1>1, PlaceTaken
  <2>2. \E p \in P : Cardinality({y \in P : Before(Middle(y), Middle(p))}) = i - 1
    BY <1>2, <2>1
  <2>3. a[i] = CHOOSE p \in P : Cardinality({y \in P : Before(Middle(y), Middle(p))}) = i - 1
    BY DEF Arranged
  <2>4. a[i] \in P /\ Cardinality({y \in P : Before(Middle(y), Middle(a[i]))}) = i - 1
    <3> HIDE DEF a
    <3> QED
      BY <2>2, <2>3
  <2> HIDE DEF a, k
  <2> QED
    BY <1>2, <2>4
<1>5. \A p \in P : \E i \in 1..Cardinality(P) : a[i] = p
  <2> HIDE DEF a, k
  <2> QED
    BY <1>1, <1>4, InPlaceInOrder
<1>6. a \in [1..Cardinality(P) -> P]
  BY <1>4 DEF Arranged
<1> QED
  BY <1>3, <1>5, <1>6

(* Two sequences joined. *)
LEMMA Joined ==
  ASSUME NEW V, NEW s \in Seq(V), NEW t \in Seq(V)
  PROVE  /\ s \o t \in Seq(V) /\ Len(s \o t) = Len(s) + Len(t)
         /\ \A i \in 1..(Len(s) + Len(t)) :
              (s \o t)[i] = IF i <= Len(s) THEN s[i] ELSE t[i - Len(s)]
OBVIOUS

(* What comes first, what is an end, and that everything is there. *)
LEMMA OrderedHolds ==
  ASSUME NEW P, PlansOfOne(P), P # {}
  PROVE  /\ Ordered(P) \in Seq(P) /\ Len(Ordered(P)) \in Nat \ {0}
         /\ Ordered(P)[1] = First(P, Convenience)
         /\ \E i \in {1, Len(Ordered(P))} : Ordered(P)[i] = First(P, Savings)
         /\ \A p \in P : \E i \in 1..Len(Ordered(P)) : Ordered(P)[i] = p
<1> DEFINE conv == First(P, Convenience)
           save == First(P, Savings)
           R == P \ {conv, save}
           mid == Arranged(R, Middle)
           end == IF conv = save THEN <<>> ELSE <<save>>
<1>1. conv \in P /\ save \in P
  BY Ends
<1>2. PlansOfOne(R)
  <2>1. IsFiniteSet(R)
    BY FS_Subset DEF PlansOfOne
  <2> HIDE DEF conv, save
  <2> QED
    BY <2>1 DEF PlansOfOne
<1> HIDE DEF conv, save
<1>3. PICK r \in Nat : r = Cardinality(R) /\ mid \in [1..r -> R] /\ \A p \in R : \E i \in 1..r : mid[i] = p
  <2> HIDE DEF R
  <2> QED
    BY <1>2, MiddleArranged
<1>4. Ordered(P) = <<conv>> \o mid \o end
  BY DEF Ordered, conv, save
<1>5. mid \in Seq(P) /\ Len(mid) = r
  <2>1. PICK m : m = mid /\ m \in [1..r -> P]
    BY <1>3
  <2>a. m \in [1..r -> P] /\ r \in Nat
    BY <1>3, <2>1
  <2>2. m \in Seq(P) /\ Len(m) = r
    BY <2>a, IsSequence
  <2> HIDE DEF mid
  <2> QED
    BY <2>1, <2>2
<1>6. <<conv>> \in Seq(P) /\ Len(<<conv>>) = 1 /\ end \in Seq(P) /\ Len(end) = (IF conv = save THEN 0 ELSE 1)
      /\ (conv # save => end[1] = save)
  BY <1>1
<1> HIDE DEF mid, end
<1>7. /\ <<conv>> \o mid \in Seq(P) /\ Len(<<conv>> \o mid) = 1 + r
      /\ \A i \in 1..(1 + r) : (<<conv>> \o mid)[i] = IF i = 1 THEN conv ELSE mid[i - 1]
  BY <1>5, <1>6
<1>8. PICK s : s = <<conv>> \o mid /\ s \in Seq(P) /\ Len(s) = 1 + r
               /\ \A i \in 1..(1 + r) : s[i] = IF i = 1 THEN conv ELSE mid[i - 1]
  BY <1>7
<1>9. /\ s \o end \in Seq(P) /\ Len(s \o end) = Len(s) + Len(end)
      /\ \A i \in 1..(Len(s) + Len(end)) : (s \o end)[i] = IF i <= Len(s) THEN s[i] ELSE end[i - Len(s)]
  BY <1>6, <1>8, Joined, ZenonT(60)
<1>o. PICK o : o = Ordered(P)
  OBVIOUS
<1>10. PICK n \in Nat : o \in Seq(P) /\ Len(o) = n /\ n >= 1 + r
               /\ \A i \in 1..(1 + r) : o[i] = IF i = 1 THEN conv ELSE mid[i - 1]
  BY <1>o, <1>4, <1>6, <1>8, <1>9
<1>11. conv # save => Len(Ordered(P)) = 2 + r /\ Ordered(P)[2 + r] = save
  <2> SUFFICES ASSUME conv # save
               PROVE  Len(s \o end) = 2 + r /\ (s \o end)[2 + r] = save
    BY <1>4, <1>8
  <2>1. Len(s) = 1 + r /\ Len(end) = 1 /\ end[1] = save
    BY <1>6, <1>8
  <2>2. 2 + r \in 1..(Len(s) + Len(end)) /\ ~(2 + r <= Len(s)) /\ (2 + r) - Len(s) = 1
    BY <2>1
  <2>3. PICK i : i = 2 + r /\ i \in 1..(Len(s) + Len(end)) /\ ~(i <= Len(s)) /\ i - Len(s) = 1
    BY <2>2
  <2>4. (s \o end)[i] = end[1]
    BY <1>9, <2>3
  <2> QED
    BY <1>9, <2>1, <2>3, <2>4
<1>12. o[1] = conv
  BY <1>10
<1>13. ASSUME NEW p \in P
       PROVE  \E i \in 1..n : o[i] = p
  <2>1. CASE p = conv
    <3>1. 1 \in 1..n
      BY <1>10
    <3> QED
      BY <1>12, <2>1, <3>1
  <2>2. CASE p = save /\ conv # save
    <3>1. n = 2 + r /\ o[2 + r] = save
      BY <1>o, <1>10, <1>11, <2>2
    <3> QED
      BY <2>2, <3>1
  <2>3. CASE p \in R
    <3>1. PICK i \in 1..r : mid[i] = p
      BY <1>3, <2>3
    <3>2. i + 1 \in 1..(1 + r) /\ i + 1 \in 1..n /\ i + 1 # 1 /\ (i + 1) - 1 = i
      BY <1>10
    <3> QED
      BY <1>10, <3>1, <3>2
  <2> QED
    BY <2>1, <2>2, <2>3
<1>14. \E i \in {1, n} : o[i] = save
  <2>1. CASE conv = save
    BY <1>12, <2>1
  <2>2. CASE conv # save
    BY <1>o, <1>10, <1>11, <2>2
  <2> QED
    BY <2>1, <2>2
<1> QED
  BY <1>o, <1>10, <1>12, <1>13, <1>14 DEF conv, save

-----------------------------------------------------------------------------
(* Which plans represent the others.                                       *)

(* Some position is the farthest. *)
LEMMA FarthestIsThere ==
  ASSUME NEW n \in Nat, NEW I \in SUBSET (1..n), I # {}, NEW c \in SUBSET (1..n), c # {}
  PROVE  Farthest(I, c) \in I
<1> DEFINE away(i) == {IF i > j THEN i - j ELSE j - i : j \in c}
           d(i) == Min(away(i))
           k == [i \in I |-> [l \in 1..2 |-> IF l = 1 THEN 0 - d(i) ELSE i]]
<1>1. ASSUME NEW i \in I
      PROVE  d(i) \in Nat
  <2>1. away(i) # {} /\ away(i) \in SUBSET Nat
    <3>1. i \in Nat /\ \A j \in c : j \in Nat
      OBVIOUS
    <3>2. \A j \in c : (IF i > j THEN i - j ELSE j - i) \in Nat
      BY <3>1
    <3> QED
      BY <3>2
  <2> HIDE DEF away
  <2>2. Min(away(i)) \in away(i)
    BY <2>1, Least
  <2> QED
    BY <2>1, <2>2
<1> HIDE DEF d
<1>2. I \subseteq Int
  OBVIOUS
<1>3. \A i \in I : k[i] \in [1..2 -> Int] /\ k[i][1] = 0 - d(i) /\ k[i][2] = i
  BY <1>1, <1>2
<1>4. k \in [I -> [1..2 -> Int]]
  BY <1>3
<1>5. IsFiniteSet(I)
  <2>1. IsFiniteSet(1..n)
    BY FS_Interval
  <2> QED
    BY <2>1, FS_Subset
<1> HIDE DEF k
<1>6. Keyed(I, 2, k)
  BY <1>3, <1>4, <1>5 DEF Keyed
<1>7. PICK i \in I : \A y \in I \ {i} : Before(k[i], k[y])
  BY <1>6, OneIsFirst
<1>8. ASSUME NEW y \in I \ {i}
      PROVE  d(y) < d(i) \/ (d(y) = d(i) /\ i < y)
  <2>1. Before(k[i], k[y]) /\ Len(k[i]) = 2
    BY <1>3, <1>7
  <2>2. PICK l \in 1..2 : k[i][l] < k[y][l] /\ \A j \in 1..(l - 1) : k[i][j] = k[y][j]
    BY <2>1 DEF Before
  <2>3. d(i) \in Nat /\ d(y) \in Nat /\ i \in Int /\ y \in Int
    BY <1>1, <1>2
  <2>4. CASE l = 1
    BY <1>3, <2>2, <2>3, <2>4
  <2>5. CASE l = 2
    <3>1. 1 \in 1..(l - 1)
      BY <2>5
    <3>2. k[i][1] = k[y][1]
      BY <2>2, <3>1
    <3> QED
      BY <1>3, <2>2, <2>3, <2>5, <3>2
  <2> QED
    BY <2>4, <2>5
<1>9. \E x \in I : \A y \in I \ {x} : d(y) < d(x) \/ (d(y) = d(x) /\ x < y)
  BY <1>8
<1>10. Farthest(I, c) = CHOOSE x \in I : \A y \in I \ {x} : d(y) < d(x) \/ (d(y) = d(x) /\ x < y)
  BY DEF Farthest, d, away
<1> QED
  BY <1>9, <1>10

(* Positions that have both ends and are not too many. *)
Growing(n, c) ==
  /\ c \in SUBSET (1..n) /\ 1 \in c /\ n \in c
  /\ IsFiniteSet(c) /\ Cardinality(c) \in Nat /\ Cardinality(c) <= Representatives

(* One position is added. *)
LEMMA GrowsBy ==
  ASSUME NEW n, NEW c, Growing(n, c), Room(c), NEW i \in (1..n) \ c
  PROVE  Growing(n, c \cup {i}) /\ Cardinality(c \cup {i}) = Cardinality(c) + 1
<1>1. IsFiniteSet(c \cup {i}) /\ Cardinality(c \cup {i}) = Cardinality(c) + 1
  BY FS_AddElement DEF Growing
<1> QED
  BY <1>1, PlannerAssumption DEF Growing, Room

(* A number of stores gets its plan while there is room. *)
LEMMA CountGrows ==
  ASSUME NEW V, NEW F \in Seq(V), NEW c, Growing(Len(F), c), NEW k
  PROVE  LET e == AddCount(F, c, k)
         IN  /\ Growing(Len(F), e) /\ c \subseteq e
             /\ Room(c) /\ OfCount(F, k) # {} => OfCount(F, k) \cap e # {}
             /\ IF OfCount(F, k) # {} /\ OfCount(F, k) \cap c = {}
                THEN Cardinality(e) <= Cardinality(c) + 1 ELSE e = c
<1> DEFINE I == OfCount(F, k)
<1>1. Len(F) \in Nat /\ DOMAIN F = 1..Len(F)
  OBVIOUS
<1>2. I \in SUBSET (1..Len(F)) /\ c \in SUBSET (1..Len(F)) /\ c # {} /\ Cardinality(c) \in Nat
  BY <1>1 DEF OfCount, Growing
<1> HIDE DEF I
<1>3. CASE Room(c) /\ I # {} /\ I \cap c = {}
  <2>1. PICK i \in I : i = Farthest(I, c)
    BY <1>1, <1>2, <1>3, FarthestIsThere
  <2>2. AddCount(F, c, k) = c \cup {i}
    BY <1>3, <2>1 DEF AddCount, I
  <2>3. i \in (1..Len(F)) \ c
    BY <1>2, <1>3
  <2>4. Growing(Len(F), c \cup {i}) /\ Cardinality(c \cup {i}) = Cardinality(c) + 1
    BY <1>3, <2>3, GrowsBy
  <2>5. i \in I \cap (c \cup {i})
    OBVIOUS
  <2> QED
    BY <1>2, <1>3, <2>2, <2>4, <2>5 DEF I
<1>4. CASE ~(Room(c) /\ I # {} /\ I \cap c = {})
  <2>1. AddCount(F, c, k) = c
    BY <1>4 DEF AddCount, I
  <2> QED
    BY <1>2, <1>4, <2>1 DEF I
<1> QED
  BY <1>3, <1>4

(* While there is room one more position is chosen. *)
LEMMA FarthestGrows ==
  ASSUME NEW V, NEW F \in Seq(V), Len(F) > Representatives, NEW c, Growing(Len(F), c)
  PROVE  LET e == AddFarthest(F, c)
         IN  /\ Growing(Len(F), e) /\ c \subseteq e
             /\ Cardinality(e) = IF Room(c) THEN Cardinality(c) + 1 ELSE Cardinality(c)
<1>1. Len(F) \in Nat /\ DOMAIN F = 1..Len(F) /\ Representatives \in Nat
  BY PlannerAssumption
<1>2. c \in SUBSET (1..Len(F)) /\ c # {} /\ Cardinality(c) <= Representatives /\ Cardinality(c) \in Nat
  BY DEF Growing
<1>3. CASE Room(c)
  <2>1. (1..Len(F)) \ c # {}
    <3>1. Cardinality(1..Len(F)) = Len(F)
      BY <1>1, FS_Interval
    <3>2. c # 1..Len(F)
      BY <1>1, <1>2, <3>1
    <3> QED
      BY <1>2, <3>2
  <2>2. PICK i \in (1..Len(F)) \ c : i = Farthest((1..Len(F)) \ c, c)
    BY <1>1, <1>2, <2>1, FarthestIsThere
  <2>3. AddFarthest(F, c) = c \cup {i}
    BY <1>1, <1>3, <2>2 DEF AddFarthest
  <2>4. Growing(Len(F), c \cup {i}) /\ Cardinality(c \cup {i}) = Cardinality(c) + 1
    BY <1>3, <2>2, GrowsBy
  <2> QED
    BY <1>3, <2>3, <2>4
<1>4. CASE ~Room(c)
  BY <1>4 DEF AddFarthest
<1> QED
  BY <1>3, <1>4

(* A function applied over and over. *)
UpTo(g, n, base, A, V) ==
  g \in [0..n -> V] /\ g[0] = base /\ \A k \in 1..n : g[k] = A[g[k - 1]]

(* It can be applied any number of times, *)
LEMMA UpToExists ==
  ASSUME NEW V, NEW base \in V, NEW A \in [V -> V], NEW n \in Nat
  PROVE  \E g : UpTo(g, n, base, A, V)
<1> DEFINE bad == {m \in Nat : ~ \E g : UpTo(g, m, base, A, V)}
<1>1. SUFFICES ASSUME bad # {} PROVE FALSE
  OBVIOUS
<1>2. PICK m \in bad : \A l \in bad : m <= l
  <2>1. bad \subseteq Nat
    OBVIOUS
  <2> HIDE DEF bad
  <2> QED
    BY <1>1, <2>1, Least
<1>3. m \in Nat /\ ~ \E g : UpTo(g, m, base, A, V)
  BY <1>2
<1>4. \A l \in Nat : ~(m <= l) => \E g : UpTo(g, l, base, A, V)
  BY <1>2
<1> HIDE DEF bad
<1>5. CASE m = 0
  <2>1. UpTo([i \in 0..0 |-> base], 0, base, A, V)
    BY DEF UpTo
  <2> QED
    BY <1>3, <1>5, <2>1
<1>6. CASE m # 0
  <2>1. m - 1 \in Nat /\ ~(m <= m - 1)
    BY <1>3, <1>6
  <2>2. PICK g : UpTo(g, m - 1, base, A, V)
    BY <1>4, <2>1
  <2>3. g \in [0..(m - 1) -> V] /\ g[0] = base /\ \A k \in 1..(m - 1) : g[k] = A[g[k - 1]]
    BY <2>2 DEF UpTo
  <2> DEFINE h == [i \in 0..m |-> IF i = m THEN A[g[m - 1]] ELSE g[i]]
  <2>4. g[m - 1] \in V /\ A[g[m - 1]] \in V
    BY <2>1, <2>3
  <2>5. ASSUME NEW i \in 0..m
        PROVE  h[i] \in V
    <3>1. i = m \/ i \in 0..(m - 1)
      BY <1>3
    <3> QED
      BY <2>3, <2>4, <3>1
  <2>6. h[0] = base
    BY <1>3, <1>6, <2>3
  <2>7. ASSUME NEW k \in 1..m
        PROVE  h[k] = A[h[k - 1]]
    <3>1. k - 1 \in 0..m /\ k - 1 # m /\ h[k - 1] = g[k - 1]
      BY <1>3
    <3>2. CASE k = m
      BY <3>1, <3>2
    <3>3. CASE k # m
      <4>1. k \in 1..(m - 1) /\ h[k] = g[k]
        BY <1>3, <3>3
      <4> QED
        BY <2>3, <3>1, <4>1
    <3> QED
      BY <3>2, <3>3
  <2>8. UpTo(h, m, base, A, V)
    <3>1. h \in [0..m -> V]
      BY <2>5
    <3> HIDE DEF h
    <3> QED
      BY <2>6, <2>7, <3>1 DEF UpTo
  <2> QED
    BY <1>3, <2>8
<1> QED
  BY <1>5, <1>6

(* which extends what fewer times give, *)
LEMMA UpToAgree ==
  ASSUME NEW V, NEW base \in V, NEW A \in [V -> V], NEW n \in Nat, NEW m \in Nat, n <= m,
         NEW g, UpTo(g, n, base, A, V), NEW h, UpTo(h, m, base, A, V)
  PROVE  \A i \in 0..n : g[i] = h[i]
<1> DEFINE off == {i \in 0..n : g[i] # h[i]}
<1>1. SUFFICES ASSUME off # {} PROVE FALSE
  OBVIOUS
<1>2. PICK i \in off : \A l \in off : i <= l
  <2>1. off \subseteq Nat
    OBVIOUS
  <2> HIDE DEF off
  <2> QED
    BY <1>1, <2>1, Least
<1>3. i \in 0..n /\ g[i] # h[i] /\ g[0] = base /\ h[0] = base
  BY <1>2 DEF UpTo
<1>4. i - 1 \in 0..n /\ ~(i <= i - 1) /\ i \in 1..n /\ i \in 1..m
  BY <1>3
<1>5. g[i - 1] = h[i - 1]
  BY <1>2, <1>4
<1>6. g[i] = A[g[i - 1]] /\ h[i] = A[h[i - 1]]
  BY <1>4 DEF UpTo
<1> QED
  BY <1>3, <1>5, <1>6

(* so a recursive function on all naturals does it. *)
LEMMA Iterated ==
  ASSUME NEW V, NEW base \in V, NEW A \in [V -> V]
  PROVE  \E g : g = [k \in Nat |-> IF k = 0 THEN base ELSE A[g[k - 1]]] /\ g \in [Nat -> V]
<1> DEFINE to(k) == CHOOSE g : UpTo(g, k, base, A, V)
           h == [k \in Nat |-> to(k)[k]]
<1>1. \A k \in Nat : UpTo(to(k), k, base, A, V)
  BY UpToExists
<1> HIDE DEF to
<1>2. \A k \in Nat : h[k] = to(k)[k] /\ h[k] \in V
  BY <1>1 DEF UpTo
<1>3. h[0] = base
  BY <1>1, <1>2 DEF UpTo
<1>4. ASSUME NEW k \in Nat, k # 0
      PROVE  h[k] = A[h[k - 1]]
  <2>1. k - 1 \in Nat /\ k - 1 <= k /\ k \in 1..k /\ k - 1 \in 0..(k - 1)
    BY <1>4
  <2>2. UpTo(to(k), k, base, A, V) /\ UpTo(to(k - 1), k - 1, base, A, V)
    BY <1>1, <2>1
  <2>3. to(k)[k] = A[to(k)[k - 1]]
    BY <2>1, <2>2 DEF UpTo
  <2>4. to(k - 1)[k - 1] = to(k)[k - 1]
    BY <2>1, <2>2, UpToAgree
  <2> HIDE DEF h
  <2> QED
    BY <1>2, <2>1, <2>3, <2>4
<1>5. h = [k \in Nat |-> IF k = 0 THEN base ELSE A[h[k - 1]]]
  <2>1. \A k \in Nat : h[k] = IF k = 0 THEN base ELSE A[h[k - 1]]
    <3> HIDE DEF h
    <3> QED
      BY <1>3, <1>4
  <2>2. h = [k \in Nat |-> h[k]]
    OBVIOUS
  <2> HIDE DEF h
  <2> QED
    BY <2>1, <2>2
<1>6. h \in [Nat -> V]
  BY <1>2
<1> QED
  BY <1>5, <1>6

(* With too many plans, there are as many as there may be. *)
LEMMA ChosenHolds ==
  ASSUME NEW V, NEW F \in Seq(V), Len(F) > Representatives, Growing(Len(F), Counted(F))
  PROVE  /\ Growing(Len(F), Chosen(F)) /\ Counted(F) \subseteq Chosen(F)
         /\ Cardinality(Chosen(F)) = Representatives
<1> DEFINE W == {c \in SUBSET (1..Len(F)) : Growing(Len(F), c)}
           A == [c \in W |-> AddFarthest(F, c)]
           g == CHOOSE h : h = [k \in Nat |-> IF k = 0 THEN Counted(F) ELSE AddFarthest(F, h[k - 1])]
           Good(k) == /\ Growing(Len(F), g[k]) /\ Counted(F) \subseteq g[k]
                      /\ Cardinality(g[k]) = Representatives \/ Cardinality(g[k]) >= k
<1>1. \A c : Growing(Len(F), c) <=> c \in W
  BY DEF Growing
<1>2. A \in [W -> W] /\ Counted(F) \in W
  <2>1. \A c \in W : AddFarthest(F, c) \in W
    <3> HIDE DEF W
    <3> QED
      BY <1>1, FarthestGrows
  <2> HIDE DEF W
  <2> QED
    BY <1>1, <2>1
<1>3. PICK h : h = [k \in Nat |-> IF k = 0 THEN Counted(F) ELSE A[h[k - 1]]] /\ h \in [Nat -> W]
  <2> HIDE DEF W, A
  <2> QED
    BY <1>2, Iterated, ZenonT(60)
<1>4. h = [k \in Nat |-> IF k = 0 THEN Counted(F) ELSE AddFarthest(F, h[k - 1])]
  <2>1. ASSUME NEW k \in Nat, k # 0
        PROVE  A[h[k - 1]] = AddFarthest(F, h[k - 1])
    <3>1. k - 1 \in Nat
      BY <2>1
    <3>2. h[k - 1] \in W
      BY <1>3, <3>1
    <3> HIDE DEF W
    <3> QED
      BY <3>2
  <2>2. \A k \in Nat : h[k] = IF k = 0 THEN Counted(F) ELSE AddFarthest(F, h[k - 1])
    <3>1. \A k \in Nat : h[k] = IF k = 0 THEN Counted(F) ELSE A[h[k - 1]]
      BY <1>3
    <3> HIDE DEF A, W
    <3> QED
      BY <2>1, <3>1
  <2>3. h = [k \in Nat |-> h[k]]
    BY <1>3
  <2> HIDE DEF A, W
  <2> QED
    BY <2>2, <2>3
<1>5. g = [k \in Nat |-> IF k = 0 THEN Counted(F) ELSE AddFarthest(F, g[k - 1])]
  BY <1>4
<1>6. Chosen(F) = g[Representatives]
  BY DEF Chosen
<1> HIDE DEF g
<1>7. g[0] = Counted(F) /\ \A k \in Nat : k # 0 => g[k] = AddFarthest(F, g[k - 1])
  BY <1>5
<1>8. Representatives \in Nat
  BY PlannerAssumption
<1> DEFINE off == {k \in Nat : ~Good(k)}
<1>9. off = {}
  <2> SUFFICES ASSUME off # {} PROVE FALSE
    OBVIOUS
  <2>1. PICK k \in off : \A l \in off : k <= l
    <3>1. off \subseteq Nat
      OBVIOUS
    <3> HIDE DEF off
    <3> QED
      BY <3>1, Least
  <2>2. k \in Nat /\ ~Good(k)
    BY <2>1
  <2>3. \A l \in Nat : ~(k <= l) => Good(l)
    BY <2>1
  <2> HIDE DEF off
  <2>4. CASE k = 0
    <3>1. Cardinality(g[0]) \in Nat
      BY <1>7 DEF Growing
    <3> QED
      BY <1>7, <2>2, <2>4, <3>1
  <2>5. CASE k # 0
    <3>1. k - 1 \in Nat /\ ~(k <= k - 1)
      BY <2>2, <2>5
    <3>2. Good(k - 1)
      BY <2>3, <3>1
    <3>3. PICK c : c = g[k - 1] /\ Growing(Len(F), c) /\ Counted(F) \subseteq c
                   /\ (Cardinality(c) = Representatives \/ Cardinality(c) >= k - 1)
      BY <3>2
    <3>4. /\ Growing(Len(F), AddFarthest(F, c)) /\ c \subseteq AddFarthest(F, c)
          /\ Cardinality(AddFarthest(F, c)) = IF Room(c) THEN Cardinality(c) + 1 ELSE Cardinality(c)
      BY <3>3, FarthestGrows
    <3>5. g[k] = AddFarthest(F, c)
      BY <1>7, <2>2, <2>5, <3>3
    <3>6. Cardinality(c) \in Nat /\ Cardinality(c) <= Representatives
      BY <3>3 DEF Growing
    <3>7. \/ Cardinality(AddFarthest(F, c)) = Representatives
          \/ Cardinality(AddFarthest(F, c)) >= k
      BY <1>8, <2>2, <3>3, <3>4, <3>6 DEF Room
    <3> QED
      BY <2>2, <3>3, <3>4, <3>5, <3>7
  <2> QED
    BY <2>4, <2>5
<1>10. Good(Representatives)
  BY <1>8, <1>9
<1>11. Cardinality(g[Representatives]) \in Nat /\ Cardinality(g[Representatives]) <= Representatives
  BY <1>10 DEF Growing
<1> QED
  BY <1>6, <1>8, <1>10, <1>11

(* A set of numbers in their order. *)
LEMMA IncreasingHolds ==
  ASSUME NEW C \in SUBSET Nat, IsFiniteSet(C)
  PROVE  /\ Cardinality(C) \in Nat /\ Increasing(C) \in [1..Cardinality(C) -> C]
         /\ \A x \in C : \E i \in 1..Cardinality(C) : Increasing(C)[i] = x
         /\ \A i, j \in 1..Cardinality(C) : i < j => Increasing(C)[i] < Increasing(C)[j]
<1> DEFINE k == [x \in C |-> <<x>>]
           a == Increasing(C)
<1>1. \A x \in C : <<x>> \in [1..1 -> Int] /\ <<x>>[1] = x /\ Len(<<x>>) = 1
  OBVIOUS
<1>2. Keyed(C, 1, k)
  BY <1>1 DEF Keyed
<1>3. \A x \in C : Smaller(C, k, x) = {y \in C : Before(<<y>>, <<x>>)} /\ k[x] = <<x>>
  BY DEF Smaller
<1>4. Cardinality(C) \in Nat
  BY FS_CardinalityType
<1> HIDE DEF k
<1>5. ASSUME NEW i \in 1..Cardinality(C)
      PROVE  a[i] \in C /\ Cardinality(Smaller(C, k, a[i])) = i - 1
  <2>1. \E x \in C : Cardinality(Smaller(C, k, x)) = i - 1
    BY <1>2, PlaceTaken
  <2>2. \E x \in C : Cardinality({y \in C : Before(<<y>>, <<x>>)}) = i - 1
    BY <1>3, <2>1
  <2>3. a[i] = CHOOSE x \in C : Cardinality({y \in C : Before(<<y>>, <<x>>)}) = i - 1
    BY DEF Increasing, Arranged
  <2>4. a[i] \in C /\ Cardinality({y \in C : Before(<<y>>, <<a[i]>>)}) = i - 1
    <3> HIDE DEF a
    <3> QED
      BY <2>2, <2>3
  <2> HIDE DEF a
  <2> QED
    BY <1>3, <2>4
<1>6. a \in [1..Cardinality(C) -> C]
  BY <1>5 DEF Increasing, Arranged
<1> HIDE DEF a
<1>7. /\ \A x \in C : \E i \in 1..Cardinality(C) : a[i] = x
      /\ \A i, j \in 1..Cardinality(C) : i < j => Before(k[a[i]], k[a[j]])
  BY <1>2, <1>5, InPlaceInOrder
<1>8. ASSUME NEW i \in 1..Cardinality(C), NEW j \in 1..Cardinality(C), i < j
      PROVE  a[i] < a[j]
  <2>1. a[i] \in C /\ a[j] \in C /\ Before(<<a[i]>>, <<a[j]>>)
    BY <1>3, <1>5, <1>7, <1>8
  <2>2. PICK l \in 1..Len(<<a[i]>>) : <<a[i]>>[l] < <<a[j]>>[l]
    BY <2>1 DEF Before
  <2> QED
    BY <1>1, <2>1, <2>2
<1> QED
  BY <1>4, <1>6, <1>7, <1>8 DEF a

(* Both ends are there, the first plan stays first, and all of a short list. *)
LEMMA EndsGrow ==
  ASSUME NEW V, NEW F \in Seq(V), Len(F) > Representatives, Representatives > 1
  PROVE  /\ Growing(Len(F), {1, Len(F)}) /\ Cardinality({1, Len(F)}) = 2
         /\ Growing(Len(F), Counted(F))
<1>1. Len(F) \in Nat /\ Representatives \in Nat
  BY PlannerAssumption
<1>2. IsFiniteSet({1}) /\ Cardinality({1}) = 1
  BY FS_Singleton
<1>3. {1, Len(F)} = {1} \cup {Len(F)} /\ Len(F) \notin {1}
  <2>1. PICK l, r \in Nat : l = Len(F) /\ r = Representatives /\ l > r /\ r > 1
    BY <1>1
  <2>2. l # 1
    BY <2>1
  <2> QED
    BY <2>1, <2>2
<1>4. IsFiniteSet({1} \cup {Len(F)}) /\ Cardinality({1} \cup {Len(F)}) = 1 + 1
  BY <1>2, <1>3, FS_AddElement
<1>5. Growing(Len(F), {1, Len(F)}) /\ Cardinality({1, Len(F)}) = 2
  <2>1. PICK n, r \in Nat : n = Len(F) /\ r = Representatives /\ n > r /\ r > 1
    BY <1>1
  <2>2. PICK c : c = {1, n} /\ IsFiniteSet(c) /\ Cardinality(c) = 2
    BY <1>3, <1>4, <2>1
  <2>3. c \in SUBSET (1..n) /\ 1 \in c /\ n \in c
    BY <2>1, <2>2
  <2>4. Cardinality(c) \in Nat /\ Cardinality(c) <= Representatives
    BY <2>1, <2>2
  <2>5. Growing(n, c)
    BY <2>2, <2>3, <2>4 DEF Growing
  <2> QED
    BY <2>1, <2>2, <2>5
<1> QED
  BY <1>5, CountGrows DEF Counted

(* What the representatives keep of the frontier. *)
LEMMA Projected ==
  ASSUME NEW V, NEW F \in Seq(V), Len(F) > 0, Representatives > 1
  PROVE  /\ Project(F) \in Seq(V)
         /\ Len(Project(F)) = IF Len(F) <= Representatives THEN Len(F) ELSE Representatives
         /\ Project(F)[1] = F[1]
         /\ \E i \in 1..Len(Project(F)) : Project(F)[i] = F[Len(F)]
         /\ \A i \in 1..Len(Project(F)) : \E j \in 1..Len(F) : Project(F)[i] = F[j]
         /\ Len(F) > Representatives =>
              \A j \in Counted(F) : \E i \in 1..Len(Project(F)) : Project(F)[i] = F[j]
<1>1. Len(F) \in Nat /\ Representatives \in Nat
  BY PlannerAssumption
<1>2. CASE Len(F) <= Representatives
  <2>1. Project(F) = F
    BY <1>2 DEF Project
  <2>2. Len(F) \in 1..Len(F)
    BY <1>1
  <2> QED
    BY <1>1, <1>2, <2>1, <2>2
<1>3. CASE Len(F) > Representatives
  <2> DEFINE C == Chosen(F)
             o == Increasing(C)
  <2>1. /\ Growing(Len(F), C) /\ Counted(F) \subseteq C /\ Cardinality(C) = Representatives
    BY <1>3, EndsGrow, ChosenHolds
  <2>2. C \in SUBSET (1..Len(F)) /\ C \in SUBSET Nat /\ IsFiniteSet(C) /\ 1 \in C /\ Len(F) \in C
    BY <2>1 DEF Growing
  <2> HIDE DEF C
  <2>3. /\ o \in [1..Representatives -> C]
        /\ \A x \in C : \E i \in 1..Representatives : o[i] = x
        /\ \A i, j \in 1..Representatives : i < j => o[i] < o[j]
    BY <2>1, <2>2, IncreasingHolds
  <2>4. Project(F) = [i \in 1..Len(o) |-> F[o[i]]]
    <3>1. ~(Len(F) <= Representatives) /\ Representatives # 1
      BY <1>1, <1>3
    <3> QED
      BY <3>1 DEF Project, C
  <2> HIDE DEF o
  <2>5. Len(o) = Representatives
    BY <1>1, <2>3
  <2>6. \A i \in 1..Representatives : o[i] \in 1..Len(F) /\ F[o[i]] \in V
    <3>1. \A j \in 1..Len(F) : F[j] \in V
      OBVIOUS
    <3>2. \A i \in 1..Representatives : o[i] \in 1..Len(F)
      BY <2>2, <2>3
    <3> HIDE DEF o
    <3> QED
      BY <3>1, <3>2
  <2>7. PICK p : p = Project(F) /\ p = [i \in 1..Representatives |-> F[o[i]]]
    BY <2>4, <2>5
  <2>8. p \in Seq(V) /\ Len(p) = Representatives /\ \A i \in 1..Representatives : p[i] = F[o[i]]
    BY <1>1, <2>6, <2>7
  <2>9. o[1] = 1
    <3>1. PICK i \in 1..Representatives : o[i] = 1
      BY <2>2, <2>3
    <3>2. 1 \in 1..Representatives /\ o[1] \in 1..Len(F)
      BY <1>1, <2>6
    <3>3. i # 1 => o[1] < o[i]
      BY <2>3, <3>2
    <3> QED
      BY <1>1, <3>1, <3>2, <3>3
  <2>10. \A j \in C : \E i \in 1..Representatives : p[i] = F[j]
    BY <2>3, <2>8
  <2>11. p[1] = F[1]
    <3>1. 1 \in 1..Representatives
      BY <1>1
    <3> QED
      BY <2>8, <2>9, <3>1
  <2>12. ~(Len(F) <= Representatives)
    BY <1>1, <1>3
  <2>13. \E i \in 1..Representatives : p[i] = F[Len(F)]
    BY <2>2, <2>10
  <2>14. \A i \in 1..Representatives : \E j \in 1..Len(F) : p[i] = F[j]
    BY <2>6, <2>8
  <2>15. \A j \in Counted(F) : \E i \in 1..Representatives : p[i] = F[j]
    BY <2>1, <2>10
  <2>16. Len(Project(F)) = Representatives
    BY <2>7, <2>8
  <2>17. Len(Project(F)) = IF Len(F) <= Representatives THEN Len(F) ELSE Representatives
    BY <2>12, <2>16
  <2>18. Project(F) \in Seq(V) /\ Project(F)[1] = F[1]
    BY <2>7, <2>8, <2>11
  <2>19. /\ \E i \in 1..Len(Project(F)) : Project(F)[i] = F[Len(F)]
         /\ \A i \in 1..Len(Project(F)) : \E j \in 1..Len(F) : Project(F)[i] = F[j]
         /\ \A j \in Counted(F) : \E i \in 1..Len(Project(F)) : Project(F)[i] = F[j]
    <3>1. \E i \in 1..Len(Project(F)) : Project(F)[i] = F[Len(F)]
      BY <2>7, <2>13, <2>16
    <3>2. \A i \in 1..Len(Project(F)) : \E j \in 1..Len(F) : Project(F)[i] = F[j]
      BY <2>7, <2>14, <2>16
    <3>3. \A j \in Counted(F) : \E i \in 1..Len(Project(F)) : Project(F)[i] = F[j]
      BY <2>7, <2>15, <2>16
    <3> QED
      BY <3>1, <3>2, <3>3
  <2> QED
    BY <2>17, <2>18, <2>19
<1> QED
  BY <1>1, <1>2, <1>3

(* A number of stores that some plan of F has. *)
CountsOf(F) == {Stores(F[i]) : i \in 1..Len(F)}

(* Every number of stores gets a plan if there is room for those of neither
   end. *)
LEMMA EveryCountGetsAPlan ==
  ASSUME NEW V, NEW F \in Seq(V), Len(F) > Representatives, Representatives > 1,
         CountsOf(F) \subseteq 1..3,
         Cardinality(CountsOf(F) \ {Stores(F[1]), Stores(F[Len(F)])}) + 2 <= Representatives
  PROVE  \A s \in CountsOf(F) : OfCount(F, s) \cap Counted(F) # {}
<1> DEFINE c0 == {1, Len(F)}
           c1 == AddCount(F, c0, 1)
           c2 == AddCount(F, c1, 2)
           c3 == AddCount(F, c2, 3)
           E == {Stores(F[1]), Stores(F[Len(F)])}
           D == CountsOf(F) \ E
           new(s) == IF s \in D THEN 1 ELSE 0
<1>1. Len(F) \in Nat /\ Len(F) > 1 /\ Representatives \in Nat /\ DOMAIN F = 1..Len(F)
  BY PlannerAssumption
<1>2. Growing(Len(F), c0) /\ Cardinality(c0) = 2
  BY EndsGrow
<1>3. Counted(F) = c3
  BY DEF Counted
<1>4. \A s : OfCount(F, s) # {} <=> s \in CountsOf(F)
  BY <1>1 DEF OfCount, CountsOf
<1>5. \A s \in E : OfCount(F, s) \cap c0 # {}
  BY <1>1 DEF OfCount
<1>d. D \subseteq 1..3
  OBVIOUS
<1> HIDE DEF E
<1>6. Cardinality(D) = new(1) + new(2) + new(3)
  <2> HIDE DEF D
  <2>2. IsFiniteSet(D)
    <3>1. D \in SUBSET Nat /\ 3 \in Nat /\ \A s \in D : s <= 3
      BY <1>d
    <3> QED
      BY <3>1, FS_BoundedSetOfNaturals
  <2>3. Cardinality(D) \in Nat
    BY <2>2, FS_CardinalityType
  <2>4. PICK D1 : D1 = D \ {1} /\ IsFiniteSet(D1) /\ Cardinality(D1) = Cardinality(D) - new(1)
    <3>1. IsFiniteSet(D \ {1}) /\ Cardinality(D \ {1}) = IF 1 \in D THEN Cardinality(D) - 1 ELSE Cardinality(D)
      BY <2>2, FS_RemoveElement
    <3> QED
      BY <2>3, <3>1
  <2>5. PICK D2 : D2 = D1 \ {2} /\ IsFiniteSet(D2) /\ Cardinality(D2) = Cardinality(D1) - new(2)
    <3>1. Cardinality(D1) \in Nat
      BY <2>4, FS_CardinalityType
    <3>2. 2 \in D1 <=> 2 \in D
      BY <2>4
    <3> QED
      <4>1. IsFiniteSet(D1 \ {2}) /\ Cardinality(D1 \ {2}) = IF 2 \in D1 THEN Cardinality(D1) - 1 ELSE Cardinality(D1)
        BY <2>4, FS_RemoveElement
      <4> QED
        BY <3>1, <3>2, <4>1
  <2>6. PICK D3 : D3 = D2 \ {3} /\ IsFiniteSet(D3) /\ Cardinality(D3) = Cardinality(D2) - new(3)
    <3>1. Cardinality(D2) \in Nat
      BY <2>5, FS_CardinalityType
    <3>2. 3 \in D2 <=> 3 \in D
      BY <2>4, <2>5
    <3> QED
      <4>1. IsFiniteSet(D2 \ {3}) /\ Cardinality(D2 \ {3}) = IF 3 \in D2 THEN Cardinality(D2) - 1 ELSE Cardinality(D2)
        BY <2>5, FS_RemoveElement
      <4> QED
        BY <3>1, <3>2, <4>1
  <2>7. D3 = {}
    BY <1>d, <2>4, <2>5, <2>6
  <2>8. Cardinality(D3) = 0
    BY <2>7, FS_EmptySet
  <2>9. Cardinality(D1) \in Nat /\ Cardinality(D2) \in Nat
    BY <2>4, <2>5, FS_CardinalityType
  <2> QED
    BY <2>3, <2>4, <2>5, <2>6, <2>8, <2>9
<1>7. /\ Growing(Len(F), c1) /\ c0 \subseteq c1
      /\ Room(c0) /\ OfCount(F, 1) # {} => OfCount(F, 1) \cap c1 # {}
      /\ IF OfCount(F, 1) # {} /\ OfCount(F, 1) \cap c0 = {}
         THEN Cardinality(c1) <= Cardinality(c0) + 1 ELSE c1 = c0
  <2> HIDE DEF c0
  <2> QED
    BY <1>2, CountGrows
<1> HIDE DEF c1
<1>8. /\ Growing(Len(F), c2) /\ c1 \subseteq c2
      /\ Room(c1) /\ OfCount(F, 2) # {} => OfCount(F, 2) \cap c2 # {}
      /\ IF OfCount(F, 2) # {} /\ OfCount(F, 2) \cap c1 = {}
         THEN Cardinality(c2) <= Cardinality(c1) + 1 ELSE c2 = c1
  BY <1>7, CountGrows
<1> HIDE DEF c2
<1>9. /\ Growing(Len(F), c3) /\ c2 \subseteq c3
      /\ Room(c2) /\ OfCount(F, 3) # {} => OfCount(F, 3) \cap c3 # {}
      /\ IF OfCount(F, 3) # {} /\ OfCount(F, 3) \cap c2 = {}
         THEN Cardinality(c3) <= Cardinality(c2) + 1 ELSE c3 = c2
  BY <1>8, CountGrows
<1> HIDE DEF c3, c0
<1>10. /\ Cardinality(c0) \in Nat /\ Cardinality(c1) \in Nat /\ Cardinality(c2) \in Nat
  BY <1>2, <1>7, <1>8 DEF Growing
<1>11. \A s \in 1..3 : new(s) \in 0..1 /\ (new(s) = 0 => s \notin D)
  OBVIOUS
<1>12. /\ new(1) \in 0..1 /\ new(2) \in 0..1 /\ new(3) \in 0..1
  BY <1>11
<1>13. \A s : s \notin D /\ OfCount(F, s) # {} => OfCount(F, s) \cap c0 # {}
  BY <1>4, <1>5
<1>14. new(1) + new(2) + new(3) + 2 <= Representatives
  BY <1>6 DEF E
<1>n. \A s : s \in D => new(s) = 1
  OBVIOUS
<1> HIDE DEF new
<1>15. ASSUME OfCount(F, 1) # {}
       PROVE  OfCount(F, 1) \cap c1 # {}
  <2>1. CASE 1 \in D
    BY <1>2, <1>1, <1>7, <1>12, <1>14, <1>15, <1>n, <2>1 DEF Room
  <2>2. CASE 1 \notin D
    BY <1>7, <1>13, <1>15, <2>2
  <2> QED
    BY <2>1, <2>2
<1>16. Cardinality(c1) <= 2 + new(1)
  <2>1. CASE OfCount(F, 1) # {} /\ OfCount(F, 1) \cap c0 = {}
    <3>1. 1 \in D
      BY <1>13, <2>1
    <3> QED
      BY <1>2, <1>7, <1>n, <2>1, <3>1
  <2>2. CASE ~(OfCount(F, 1) # {} /\ OfCount(F, 1) \cap c0 = {})
    BY <1>2, <1>7, <1>12, <2>2
  <2> QED
    BY <2>1, <2>2
<1>17. ASSUME OfCount(F, 2) # {}
       PROVE  OfCount(F, 2) \cap c2 # {}
  <2>1. CASE 2 \in D
    BY <1>1, <1>8, <1>10, <1>12, <1>14, <1>16, <1>17, <1>n, <2>1 DEF Room
  <2>2. CASE 2 \notin D
    BY <1>7, <1>8, <1>13, <1>17, <2>2
  <2> QED
    BY <2>1, <2>2
<1>18. Cardinality(c2) <= 2 + new(1) + new(2)
  <2>1. CASE OfCount(F, 2) # {} /\ OfCount(F, 2) \cap c1 = {}
    <3>1. 2 \in D
      BY <1>7, <1>13, <2>1
    <3> QED
      BY <1>8, <1>10, <1>12, <1>16, <1>n, <2>1, <3>1
  <2>2. CASE ~(OfCount(F, 2) # {} /\ OfCount(F, 2) \cap c1 = {})
    BY <1>8, <1>10, <1>12, <1>16, <2>2
  <2> QED
    BY <2>1, <2>2
<1>19. ASSUME OfCount(F, 3) # {}
       PROVE  OfCount(F, 3) \cap c3 # {}
  <2>1. CASE 3 \in D
    BY <1>1, <1>9, <1>10, <1>12, <1>14, <1>18, <1>19, <1>n, <2>1 DEF Room
  <2>2. CASE 3 \notin D
    BY <1>7, <1>8, <1>9, <1>13, <1>19, <2>2
  <2> QED
    BY <2>1, <2>2
<1>20. ASSUME NEW s \in CountsOf(F)
       PROVE  OfCount(F, s) \cap c3 # {}
  <2>1. s = 1 \/ s = 2 \/ s = 3
    BY <1>20
  <2>2. OfCount(F, s) # {}
    BY <1>4
  <2> QED
    BY <1>8, <1>9, <1>15, <1>17, <1>19, <2>1, <2>2
<1> QED
  BY <1>3, <1>20

-----------------------------------------------------------------------------
(* What is paid.                                                           *)

LEMMA PricesHold ==
  ASSUME NEW b, IsRequest(b), NEW n \in Need, NEW p \in Product, NEW c \in Chain
  PROVE  /\ PackageCount(b, n, p) \in Nat /\ b.price[p][c] \in Nat
         /\ Ordinary(b, n, p, c) = PackageCount(b, n, p) * b.price[p][c]
         /\ Ordinary(b, n, p, c) \in Nat
<1>1. PICK a, s \in Nat \ {0} : a = b.asked[n].amount /\ s = b.size[p]
  BY DEF IsRequest
<1>2. (a + s - 1) \div s \in Nat
  BY <1>1
<1>3. PackageCount(b, n, p) \in Nat
  BY <1>1, <1>2 DEF PackageCount
<1>4. b.price[p][c] \in Nat
  BY DEF IsRequest
<1>5. \A x, y \in Nat : x * y \in Nat
  OBVIOUS
<1> QED
  BY <1>3, <1>4, <1>5 DEF Ordinary

(* The greatest number of groups is the best, unless none is. *)
LEMMA AllGroupsOrNone ==
  ASSUME NEW N \in Nat, NEW p \in Nat, NEW a \in Nat, NEW q \in Nat \ {0}, NEW g \in 0..(N \div q)
  PROVE  /\ (N \div q) * a + (N % q) * p \in Nat
         /\ g * a + (N - g * q) * p \in Nat
         /\ \/ N * p <= g * a + (N - g * q) * p
            \/ (N \div q) * a + (N % q) * p <= g * a + (N - g * q) * p
<1>1. PICK G, r \in Nat : G = N \div q /\ r = N % q /\ N = G * q + r
  <2>1. N \div q \in Nat /\ N % q \in Nat /\ N = (N \div q) * q + (N % q)
    OBVIOUS
  <2> QED
    BY <2>1
<1>2. PICK s \in Nat : G = g + s /\ g \in Nat
  <2>1. g \in 0..G
    BY <1>1
  <2>2. G - g \in Nat /\ G = g + (G - g) /\ g \in Nat
    BY <2>1
  <2> QED
    BY <2>2
<1>3. N = g * q + s * q + r
  BY <1>1, <1>2
<1>4. N - g * q = s * q + r
  BY <1>3
<1>t. \A x, y \in Nat : x * y \in Nat
  OBVIOUS
<1>5. PICK e \in Nat : e = q * p
  BY <1>t
<1>6. PICK ga, ge, sa, se, rp \in Nat :
        ga = g * a /\ ge = g * e /\ sa = s * a /\ se = s * e /\ rp = r * p
  BY <1>1, <1>2, <1>5, <1>t
<1>7. (N - g * q) * p = se + rp
  <2>1. (s * q + r) * p = s * (q * p) + r * p
    BY <1>1, <1>2
  <2> QED
    BY <1>4, <1>5, <1>6, <2>1
<1>8. G * a = ga + sa
  <2>1. (g + s) * a = g * a + s * a
    BY <1>2
  <2> QED
    BY <1>2, <1>6, <2>1
<1>9. N * p = ge + se + rp
  <2>1. (g * q + s * q + r) * p = g * (q * p) + s * (q * p) + r * p
    BY <1>1, <1>2
  <2> QED
    BY <1>3, <1>5, <1>6, <2>1
<1>12. (N \div q) * a + (N % q) * p = ga + sa + rp
  BY <1>1, <1>6, <1>8
<1>13. g * a + (N - g * q) * p = ga + se + rp
  BY <1>6, <1>7
<1>10. CASE a >= e
  <2>1. g * a >= g * e
    BY <1>2, <1>5, <1>10
  <2>2. ga >= ge
    BY <1>6, <2>1
  <2>3. ga + sa + rp \in Nat /\ ga + se + rp \in Nat
    BY <1>6
  <2> QED
    BY <1>6, <1>9, <1>12, <1>13, <2>2, <2>3
<1>11. CASE a < e
  <2>1. s * a <= s * e
    BY <1>2, <1>5, <1>11
  <2>2. sa <= se
    BY <1>6, <2>1
  <2>3. ga + sa + rp \in Nat /\ ga + se + rp \in Nat
    BY <1>6
  <2> QED
    BY <1>6, <1>9, <1>12, <1>13, <2>2, <2>3
<1> QED
  BY <1>5, <1>10, <1>11

(* What an offer makes of a number of packages is a number. *)
LEMMA OfferTotalHolds ==
  ASSUME NEW b, IsRequest(b), NEW o \in b.offers, NEW N \in Nat, NEW p \in Nat
  PROVE  OfferTotal(o, N, p) \in Nat
<1>1. o.kind \in {"unit", "multibuy"} /\ o.ore \in Nat /\ (o.kind = "multibuy" => o.quantity \in Nat \ {0})
  BY DEF IsRequest
<1>2. CASE o.kind = "unit"
  <2>1. \A x, y \in Nat : x * y \in Nat
    OBVIOUS
  <2> QED
    BY <1>1, <1>2, <2>1 DEF OfferTotal
<1>3. CASE o.kind = "multibuy"
  <2>1. PICK a \in Nat, q \in Nat \ {0} : a = o.ore /\ q = o.quantity
    BY <1>1, <1>3
  <2>2. 0 \in 0..(N \div q)
    BY <2>1
  <2>3. (N \div q) * a + (N % q) * p \in Nat
    BY <2>1, <2>2, AllGroupsOrNone
  <2> QED
    BY <1>3, <2>1, <2>3 DEF OfferTotal
<1> QED
  BY <1>1, <1>2, <1>3

(* A checkout is no more than the ordinary total or any offer total. *)
LEMMA CheckoutHolds ==
  ASSUME NEW b, IsRequest(b), NEW n \in Need, NEW p \in Product, NEW c \in Chain
  PROVE  /\ Checkout(b, n, p, c) \in Nat
         /\ Checkout(b, n, p, c) <= Ordinary(b, n, p, c)
         /\ \A t \in OfferTotals(b, n, p, c) : Checkout(b, n, p, c) <= t
<1> DEFINE S == {Ordinary(b, n, p, c)} \cup OfferTotals(b, n, p, c)
<1>1. PackageCount(b, n, p) \in Nat /\ b.price[p][c] \in Nat /\ Ordinary(b, n, p, c) \in Nat
  BY PricesHold
<1>2. \A o \in b.offers : OfferTotal(o, PackageCount(b, n, p), b.price[p][c]) \in Nat
  BY <1>1, OfferTotalHolds
<1>3. OfferTotals(b, n, p, c) \subseteq Nat
  BY <1>2 DEF OfferTotals
<1>4. S \in SUBSET Nat /\ S # {}
  BY <1>1, <1>3
<1>5. Checkout(b, n, p, c) = Min(S)
  BY DEF Checkout
<1> HIDE DEF S
<1>6. Min(S) \in S /\ \A t \in S : Min(S) <= t
  BY <1>4, Least
<1> QED
  BY <1>4, <1>5, <1>6 DEF S

(* The checkout is the least that can be paid. *)
LEMMA CheckoutIsLeast ==
  ASSUME NEW b, IsRequest(b), NEW n \in Need, NEW p \in Product, NEW c \in Chain,
         Ordinary(b, n, p, c) <= MoneyCap
  PROVE  LeastPaid(b, n, p, c) \in Nat /\ Checkout(b, n, p, c) <= LeastPaid(b, n, p, c)
<1> DEFINE mine == {o \in b.offers : o.product = p /\ o.chain = c /\ PackageCount(b, n, p) >= o.minimum}
           units == {PackageCount(b, n, p) * o.ore : o \in {x \in mine : x.kind = "unit"}}
           bundles == UNION {{g * o.ore + (PackageCount(b, n, p) - g * o.quantity) * b.price[p][c] :
                                g \in 0..(PackageCount(b, n, p) \div o.quantity)} :
                             o \in {x \in mine : x.kind = "multibuy"}}
           S == {PackageCount(b, n, p) * b.price[p][c]} \cup units \cup bundles
<1>1. PICK N, w, u, d \in Nat :
        /\ N = PackageCount(b, n, p) /\ w = b.price[p][c] /\ u = N * w
        /\ u = Ordinary(b, n, p, c) /\ d = Checkout(b, n, p, c) /\ d <= u
  BY PricesHold, CheckoutHolds
<1>2. \A o \in mine : OfferTotal(o, N, w) \in Nat /\ d <= OfferTotal(o, N, w)
  <2> SUFFICES ASSUME NEW o \in mine
               PROVE  OfferTotal(o, N, w) \in Nat /\ d <= OfferTotal(o, N, w)
    OBVIOUS
  <2>1. PICK t \in Nat : t = OfferTotal(o, N, w)
    BY OfferTotalHolds
  <2>2. CASE t <= MoneyCap /\ t < u
    <3>1. t \in {OfferTotal(x, PackageCount(b, n, p), b.price[p][c]) : x \in mine}
      BY <1>1, <2>1
    <3>2. t \in OfferTotals(b, n, p, c)
      BY <1>1, <2>2, <3>1 DEF OfferTotals
    <3> QED
      BY <1>1, <2>1, <3>2, CheckoutHolds
  <2>3. CASE ~(t <= MoneyCap /\ t < u)
    <3>1. MoneyCap \in Nat /\ u <= MoneyCap
      BY <1>1, PlannerAssumption
    <3> QED
      BY <1>1, <2>1, <2>3, <3>1
  <2> QED
    BY <2>2, <2>3
<1>3. ASSUME NEW x \in units
      PROVE  x \in Nat /\ d <= x
  <2>1. PICK o \in mine : o.kind = "unit" /\ x = N * o.ore
    BY <1>1, <1>3
  <2>2. OfferTotal(o, N, w) = N * o.ore
    BY <2>1 DEF OfferTotal
  <2> HIDE DEF mine
  <2> QED
    BY <1>2, <2>1, <2>2
<1>4. ASSUME NEW x \in bundles
      PROVE  x \in Nat /\ d <= x
  <2>1. PICK o \in mine : o.kind = "multibuy" /\ \E g \in 0..(N \div o.quantity) :
                            x = g * o.ore + (N - g * o.quantity) * w
    BY <1>1, <1>4
  <2>2. PICK a \in Nat, q \in Nat \ {0} : a = o.ore /\ q = o.quantity
    BY <2>1 DEF IsRequest
  <2>3. PICK g \in 0..(N \div q) : x = g * a + (N - g * q) * w
    BY <2>1, <2>2
  <2>4. OfferTotal(o, N, w) = (N \div q) * a + (N % q) * w
    BY <2>1, <2>2 DEF OfferTotal
  <2>5. PICK y \in Nat : y = (N \div q) * a + (N % q) * w /\ d <= y
    BY <1>2, <2>1, <2>4
  <2>6. x \in Nat /\ (u <= x \/ y <= x)
    <3>1. /\ g * a + (N - g * q) * w \in Nat
          /\ \/ N * w <= g * a + (N - g * q) * w
             \/ (N \div q) * a + (N % q) * w <= g * a + (N - g * q) * w
      BY AllGroupsOrNone
    <3> QED
      BY <1>1, <2>3, <2>5, <3>1
  <2> QED
    BY <1>1, <2>5, <2>6
<1>5. PackageCount(b, n, p) * b.price[p][c] = u
  BY <1>1
<1>6. LeastPaid(b, n, p, c) = Min(S)
  BY DEF LeastPaid
<1> HIDE DEF units, bundles
<1>7. S \in SUBSET Nat /\ S # {} /\ \A x \in S : d <= x
  BY <1>1, <1>3, <1>4, <1>5
<1> HIDE DEF S
<1>8. Min(S) \in S
  BY <1>7, Least
<1> QED
  BY <1>1, <1>6, <1>7, <1>8

(* The selected offer of a need costs the least. *)
LEMMA SelectedIsBest ==
  ASSUME NEW b, IsRequest(b), NEW n \in Need, NEW S \in SUBSET Chain, Buyable(b, n, S) # {}
  PROVE  /\ Selected(b, n, S) \in Buyable(b, n, S)
         /\ \A y \in Buyable(b, n, S) :
              Checkout(b, n, Selected(b, n, S)[1], Selected(b, n, S)[2]) <= Checkout(b, n, y[1], y[2])
<1> DEFINE B == Buyable(b, n, S)
           k == [x \in B |-> Preference(b, n, x)]
<1>1. B \subseteq Product \X Chain
  BY DEF Buyable, IsRequest
<1>2. IsFiniteSet(B)
  <2>1. IsFiniteSet(Product \X Chain)
    BY PlannerAssumption, FS_Product
  <2> HIDE DEF B
  <2> QED
    BY <1>1, <2>1, FS_Subset
<1> HIDE DEF B
<1>3. ASSUME NEW x \in B
      PROVE  /\ Preference(b, n, x) \in [1..4 -> Int]
             /\ Preference(b, n, x)[1] = Checkout(b, n, x[1], x[2])
             /\ Preference(b, n, x)[3] = x[1] /\ Preference(b, n, x)[4] = x[2]
             /\ x = <<x[1], x[2]>>
  <2>1. PICK p \in Product, c \in Chain : x = <<p, c>>
    BY <1>1
  <2>2. p \in Int /\ c \in Int /\ Checkout(b, n, p, c) \in Int /\ Ordinary(b, n, p, c) \in Int
    BY PlannerAssumption, PricesHold, CheckoutHolds
  <2> QED
    BY <2>1, <2>2 DEF Preference
<1>4. Keyed(B, 4, k)
  <2>1. k \in [B -> [1..4 -> Int]]
    BY <1>3
  <2>2. ASSUME NEW x \in B, NEW y \in B, k[x] = k[y]
        PROVE  x = y
    <3>1. Preference(b, n, x) = Preference(b, n, y)
      BY <2>2
    <3> QED
      BY <1>3, <3>1
  <2> HIDE DEF k
  <2> QED
    BY <1>2, <2>1, <2>2 DEF Keyed
<1>5. \A x \in B : k[x] = Preference(b, n, x)
  OBVIOUS
<1> HIDE DEF k
<1>6. PICK x \in B : \A y \in B \ {x} : Before(k[x], k[y])
  BY <1>4, OneIsFirst DEF B
<1>7. \E z \in B : \A y \in B \ {z} : Before(Preference(b, n, z), Preference(b, n, y))
  BY <1>5, <1>6
<1>8. PICK z \in B : z = Selected(b, n, S) /\ \A y \in B \ {z} : Before(Preference(b, n, z), Preference(b, n, y))
  BY <1>7 DEF Selected, B
<1>9. ASSUME NEW y \in B
      PROVE  Checkout(b, n, z[1], z[2]) <= Checkout(b, n, y[1], y[2])
  <2>1. CASE y = z
    <3>1. Checkout(b, n, z[1], z[2]) \in Nat
      <4>1. PICK p \in Product, c \in Chain : z = <<p, c>>
        BY <1>1
      <4> QED
        BY <4>1, CheckoutHolds
    <3> QED
      BY <2>1, <3>1
  <2>2. CASE y # z
    <3>1. Before(Preference(b, n, z), Preference(b, n, y))
      BY <1>8, <2>2
    <3>2. Preference(b, n, z) \in [1..4 -> Int] /\ Preference(b, n, y) \in [1..4 -> Int]
      BY <1>3
    <3>4. PICK m \in Nat : m = 4
      OBVIOUS
    <3>5. Preference(b, n, z) \in [1..m -> Int] /\ Preference(b, n, y) \in [1..m -> Int] /\ m > 0
      BY <3>2, <3>4
    <3>3. Preference(b, n, z)[1] <= Preference(b, n, y)[1]
      BY <3>1, <3>5, BeforeOrders
    <3> QED
      BY <1>3, <3>3
  <2> QED
    BY <2>1, <2>2
<1> QED
  BY <1>8, <1>9 DEF B

-----------------------------------------------------------------------------
(* The complete plans.                                                     *)

(* The assignment a set of chains gets. *)
TakeFor(b, S) == [n \in Need |-> Selected(b, n, S)]

Whole(b, S) == S \in Subsets(b) /\ \A n \in Need : Buyable(b, n, S) # {}

(* What can be bought is a product of the need at a chain of the set. *)
LEMMA BuyableHolds ==
  ASSUME NEW b, IsRequest(b), NEW n \in Need, NEW S \in SUBSET Chain, NEW x \in Buyable(b, n, S)
  PROVE  /\ x[1] \in Product /\ x[2] \in S /\ x[2] \in Chain /\ x = <<x[1], x[2]>>
         /\ x \in Product \X Chain
         /\ x[1] \in b.fits[n] /\ b.price[x[1]][x[2]] > 0 /\ Ordinary(b, n, x[1], x[2]) <= MoneyCap
  BY DEF Buyable, IsRequest

(* The sets of chains that are planned for are those allowed with prices. *)
LEMMA SubsetsHold ==
  ASSUME NEW b, IsRequest(b)
  PROVE  /\ \A S \in Subsets(b) : S \in SUBSET Chain /\ S # {} /\ IsFiniteSet(S)
                                  /\ Cardinality(S) \in 1..3
         /\ \A S \in SUBSET Chain :
              /\ \A c \in S : \E p \in Product : b.price[p][c] > 0
              /\ S # {} /\ Cardinality(S) <= b.maxStores
              => S \in Subsets(b)
         /\ IsFiniteSet(Subsets(b))
<1>1. b.maxStores \in 1..3 /\ IsFiniteSet(Chain)
  BY PlannerAssumption DEF IsRequest
<1>2. PICK M : M = {b.maxStores, 3}
  OBVIOUS
<1>3. M \in SUBSET Nat /\ M # {}
  BY <1>1, <1>2
<1>4. PICK m : m = Min(M) /\ m \in M /\ \A x \in M : m <= x
  BY <1>3, Least
<1>5. m = b.maxStores
  BY <1>1, <1>2, <1>4
<1>6. Subsets(b) = {S \in SUBSET {c \in Chain : \E p \in Product : b.price[p][c] > 0} :
                      Cardinality(S) \in 1..b.maxStores}
  BY <1>2, <1>4, <1>5 DEF Subsets
<1>7. ASSUME NEW S \in Subsets(b)
      PROVE  S \in SUBSET Chain /\ S # {} /\ IsFiniteSet(S) /\ Cardinality(S) \in 1..3
  <2>1. S \in SUBSET Chain /\ Cardinality(S) \in 1..b.maxStores
    BY <1>6
  <2>2. IsFiniteSet(S)
    BY <1>1, <2>1, FS_Subset
  <2>3. Cardinality(S) \in 1..3 /\ Cardinality(S) # 0
    BY <1>1, <2>1
  <2> QED
    BY <2>1, <2>2, <2>3, FS_EmptySet
<1>8. ASSUME NEW S \in SUBSET Chain, \A c \in S : \E p \in Product : b.price[p][c] > 0,
             S # {}, Cardinality(S) <= b.maxStores
      PROVE  S \in Subsets(b)
  <2>1. IsFiniteSet(S)
    BY <1>1, FS_Subset
  <2>2. Cardinality(S) \in Nat /\ Cardinality(S) # 0
    BY <1>8, <2>1, FS_EmptySet, FS_CardinalityType
  <2> QED
    BY <1>1, <1>6, <1>8, <2>2
<1>9. IsFiniteSet(Subsets(b))
  <2>1. IsFiniteSet(SUBSET Chain)
    BY <1>1, FS_SUBSET
  <2>2. Subsets(b) \in SUBSET (SUBSET Chain)
    BY <1>7
  <2> QED
    BY <2>1, <2>2, FS_Subset
<1> QED
  BY <1>7, <1>8, <1>9

(* What an assignment costs is a sum of checkouts. *)
LEMMA WholeHolds ==
  ASSUME NEW b, IsRequest(b), NEW S, Whole(b, S)
  PROVE  /\ TakeFor(b, S) \in [Need -> Product \X Chain]
         /\ \A n \in Need : TakeFor(b, S)[n] \in Buyable(b, n, S)
         /\ [n \in Need |-> Checkout(b, n, TakeFor(b, S)[n][1], TakeFor(b, S)[n][2])] \in [Need -> Nat]
         /\ PlanOf(b, TakeFor(b, S)).total \in Nat
         /\ PlanOf(b, TakeFor(b, S)).chains \in SUBSET S
         /\ Stores(PlanOf(b, TakeFor(b, S))) \in 1..3
         /\ Stores(PlanOf(b, TakeFor(b, S))) <= Cardinality(S)
<1>1. S \in SUBSET Chain /\ IsFiniteSet(S) /\ Cardinality(S) \in 1..3
  BY SubsetsHold DEF Whole
<1>2. ASSUME NEW n \in Need
      PROVE  /\ TakeFor(b, S)[n] \in Buyable(b, n, S)
             /\ TakeFor(b, S)[n] \in Product \X Chain /\ TakeFor(b, S)[n][2] \in S
             /\ Checkout(b, n, TakeFor(b, S)[n][1], TakeFor(b, S)[n][2]) \in Nat
  <2>1. Buyable(b, n, S) # {}
    BY DEF Whole
  <2>2. Selected(b, n, S) \in Buyable(b, n, S)
    BY <1>1, <2>1, SelectedIsBest
  <2>3. PICK x : x = Selected(b, n, S) /\ x = TakeFor(b, S)[n] /\ x \in Buyable(b, n, S)
    BY <2>2 DEF TakeFor
  <2>4. x[1] \in Product /\ x[2] \in S /\ x[2] \in Chain /\ x \in Product \X Chain
    BY <1>1, <2>3, BuyableHolds
  <2>5. Checkout(b, n, x[1], x[2]) \in Nat
    BY <2>4, CheckoutHolds
  <2> QED
    BY <2>3, <2>4, <2>5
<1>3. TakeFor(b, S) \in [Need -> Product \X Chain]
  BY <1>2 DEF TakeFor
<1>4. PICK t : t = TakeFor(b, S)
  OBVIOUS
<1>5. PICK f : f = [n \in Need |-> Checkout(b, n, t[n][1], t[n][2])]
  OBVIOUS
<1>6. f \in [Need -> Nat]
  BY <1>2, <1>4, <1>5
<1>7. IsFiniteSet(Need) /\ 1 \in Need
  <2>1. PICK k \in Nat : k = Cardinality(Need) /\ Need = 1..k /\ k # 0
    BY PlannerAssumption
  <2>2. IsFiniteSet(1..k)
    BY <2>1, FS_Interval
  <2>3. 1 \in 1..k
    BY <2>1
  <2> QED
    BY <2>1, <2>2, <2>3
<1>8. SumFunction(f) \in Nat
  <2>1. \A n \in Need : f[n] <= f[n]
    BY <1>6
  <2> QED
    BY <1>6, <1>7, <2>1, SumMonotone
<1>9. PICK D : D = {t[n][2] : n \in Need}
  OBVIOUS
<1>10. D \in SUBSET S /\ D # {}
  BY <1>2, <1>4, <1>7, <1>9
<1>11. IsFiniteSet(D) /\ Cardinality(D) <= Cardinality(S)
  BY <1>1, <1>10, FS_Subset
<1>12. Cardinality(D) \in 1..3
  <2>1. Cardinality(D) \in Nat /\ Cardinality(D) # 0
    BY <1>10, <1>11, FS_EmptySet, FS_CardinalityType
  <2> QED
    BY <1>1, <1>11, <2>1
<1>13. /\ PlanOf(b, TakeFor(b, S)).total = SumFunction(f)
       /\ PlanOf(b, TakeFor(b, S)).chains = D
       /\ Stores(PlanOf(b, TakeFor(b, S))) = Cardinality(D)
  BY <1>4, <1>5, <1>9 DEF PlanOf, Stores
<1> QED
  BY <1>2, <1>3, <1>4, <1>5, <1>6, <1>8, <1>10, <1>11, <1>12, <1>13

(* Every candidate is the plan of a set of chains. *)
LEMMA CandidateIs ==
  ASSUME NEW b
  PROVE  Candidates(b) = {p \in {PlanOf(b, TakeFor(b, S)) : S \in {S \in Subsets(b) : Whole(b, S)}} :
                            p.total <= MoneyCap /\ Cardinality(p.chains) <= b.maxStores}
<1>1. {S \in Subsets(b) : Whole(b, S)} = {S \in Subsets(b) : \A n \in Need : Buyable(b, n, S) # {}}
  BY DEF Whole
<1> QED
  BY <1>1 DEF Candidates, TakeFor

(* The candidates are plans of one request. *)
LEMMA CandidatesHold ==
  ASSUME NEW b, IsRequest(b)
  PROVE  PlansOfOne(Candidates(b)) /\ \A p \in Candidates(b) : p.travel = 0 /\ p = PlanOf(b, p.take)
<1>1. ASSUME NEW p \in Candidates(b)
      PROVE  IsPlan(p) /\ p.travel = 0 /\ p = PlanOf(b, p.take)
  <2>1. PICK S \in Subsets(b) : Whole(b, S) /\ p = PlanOf(b, TakeFor(b, S))
    BY CandidateIs
  <2>2. p.take = TakeFor(b, S) /\ p.travel = 0
    BY <2>1 DEF PlanOf
  <2>3. /\ p.take \in [Need -> Product \X Chain]
        /\ p.total \in Nat /\ p.chains \in SUBSET S /\ Stores(p) \in 1..3
    BY <2>1, <2>2, WholeHolds
  <2>4. S \in SUBSET Chain
    BY SubsetsHold
  <2> QED
    BY <2>1, <2>2, <2>3, <2>4 DEF IsPlan
<1>2. IsFiniteSet(Candidates(b))
  <2> DEFINE W == {S \in Subsets(b) : Whole(b, S)}
             T == {PlanOf(b, TakeFor(b, S)) : S \in W}
             f == [S \in W |-> PlanOf(b, TakeFor(b, S))]
  <2>1. IsFiniteSet(W)
    <3>1. W \in SUBSET Subsets(b)
      OBVIOUS
    <3> QED
      BY <3>1, SubsetsHold, FS_Subset
  <2>2. f \in Surjection(W, T)
    <3> HIDE DEF W
    <3> QED
      BY DEF Surjection
  <2>3. IsFiniteSet(T)
    <3> HIDE DEF W, T, f
    <3> QED
      BY <2>1, <2>2, FS_Surjection
  <2>4. Candidates(b) \in SUBSET T
    BY CandidateIs
  <2> HIDE DEF T
  <2> QED
    BY <2>3, <2>4, FS_Subset
<1>3. ASSUME NEW p \in Candidates(b), NEW q \in Candidates(b), p.take = q.take
      PROVE  p = q
  BY <1>1, <1>3
<1> QED
  BY <1>1, <1>2, <1>3 DEF PlansOfOne

(* The same plans with their round trips. *)
LEMMA AttachedHolds ==
  ASSUME NEW b, IsRequest(b)
  PROVE  /\ PlansOfOne(Attached(b, Candidates(b)))
         /\ \A p \in Candidates(b) : \E q \in Attached(b, Candidates(b)) :
              /\ q.take = p.take /\ q.total = p.total /\ q.chains = p.chains
              /\ Stores(q) = Stores(p) /\ q.travel = BestRoundTrip(b, p.chains)
<1> DEFINE C == Candidates(b)
           A == Attached(b, C)
           f == [p \in C |-> [p EXCEPT !.travel = BestRoundTrip(b, p.chains)]]
<1>1. PlansOfOne(C) /\ \A p \in C : p.travel = 0 /\ p = PlanOf(b, p.take)
  BY CandidatesHold
<1>2. ASSUME NEW p \in C
      PROVE  /\ f[p].take = p.take /\ f[p].total = p.total /\ f[p].chains = p.chains
             /\ Stores(f[p]) = Stores(p) /\ f[p].travel = BestRoundTrip(b, p.chains)
             /\ f[p] \in A /\ IsPlan(f[p])
  <2>1. PICK r : r = PlanOf(b, p.take)
    OBVIOUS
  <2>2. p = r /\ IsPlan(p)
    BY <1>1, <2>1 DEF PlansOfOne
  <2>3. PICK t : t = BestRoundTrip(b, p.chains) /\ t \in Nat
    BY <2>2, BestTrip DEF IsPlan
  <2>4. PICK q : q = f[p] /\ q = [p EXCEPT !.travel = t]
    BY <2>3
  <2>5. q.take = p.take /\ q.total = p.total /\ q.chains = p.chains /\ q.travel = t
    <3>1. PICK w, x, y, z : p = [take |-> w, total |-> x, chains |-> y, travel |-> z]
      BY <2>1, <2>2 DEF PlanOf
    <3> QED
      BY <2>4, <3>1
  <2>6. Stores(q) = Stores(p)
    BY <2>5 DEF Stores
  <2>7. IsPlan(q)
    BY <2>2, <2>3, <2>5, <2>6 DEF IsPlan
  <2>8. q \in A
    BY <2>4 DEF Attached
  <2> QED
    BY <2>3, <2>4, <2>5, <2>6, <2>7, <2>8
<1>3. A = {f[p] : p \in C}
  BY DEF Attached
<1>4. IsFiniteSet(A)
  <2>1. f \in Surjection(C, A)
    <3>1. f \in [C -> A]
      BY <1>2
    <3> HIDE DEF C, f, A
    <3> QED
      BY <1>3, <3>1 DEF Surjection
  <2>2. IsFiniteSet(C)
    BY <1>1 DEF PlansOfOne
  <2> HIDE DEF C, f, A
  <2> QED
    BY <2>1, <2>2, FS_Surjection
<1> HIDE DEF C, f, A
<1>5. ASSUME NEW q \in A, NEW r \in A, q.take = r.take
      PROVE  q = r
  <2>1. PICK p \in C, s \in C : q = f[p] /\ r = f[s]
    BY <1>3
  <2>2. p.take = s.take
    BY <1>2, <1>5, <2>1
  <2>3. p = s
    BY <1>1, <2>2 DEF PlansOfOne
  <2> QED
    BY <2>1, <2>3
<1>6. \A q \in A : IsPlan(q)
  BY <1>2, <1>3
<1>7. PlansOfOne(A)
  BY <1>4, <1>5, <1>6 DEF PlansOfOne
<1> QED
  BY <1>2, <1>7 DEF A, C

-----------------------------------------------------------------------------
(* Every way to buy the basket is matched by a plan.                       *)

(* A way to buy the basket in the stores allowed, and the least it costs. *)
Way(b, t) ==
  /\ t \in [Need -> Product \X Chain] /\ \A n \in Need : t[n] \in Buyable(b, n, Chain)
  /\ Cardinality({t[n][2] : n \in Need}) <= b.maxStores

Spent(b, t) == SumFunction([n \in Need |-> LeastPaid(b, n, t[n][1], t[n][2])])

(* There are needs, and finitely many. *)
LEMMA NeedHolds == IsFiniteSet(Need) /\ Need # {}
<1>1. PICK k \in Nat : k = Cardinality(Need) /\ Need = 1..k /\ k # 0
  BY PlannerAssumption
<1>2. IsFiniteSet(1..k)
  BY <1>1, FS_Interval
<1>3. 1 \in 1..k
  BY <1>1
<1> QED
  BY <1>1, <1>2, <1>3

(* What is bought in a set of chains is matched by the plan of that set. *)
LEMMA Matched ==
  ASSUME NEW b, IsRequest(b), NEW t, Way(b, t), Spent(b, t) <= MoneyCap
  PROVE  /\ Spent(b, t) \in Nat
         /\ \E p \in Candidates(b) :
              p.total <= Spent(b, t) /\ p.chains \in SUBSET {t[n][2] : n \in Need}
<1>1. PICK D : D = {t[n][2] : n \in Need}
  OBVIOUS
<1>2. ASSUME NEW n \in Need
      PROVE  /\ t[n][1] \in Product /\ t[n][2] \in Chain /\ t[n] = <<t[n][1], t[n][2]>>
             /\ t[n][1] \in b.fits[n] /\ b.price[t[n][1]][t[n][2]] > 0
             /\ Ordinary(b, n, t[n][1], t[n][2]) <= MoneyCap
             /\ LeastPaid(b, n, t[n][1], t[n][2]) \in Nat
             /\ Checkout(b, n, t[n][1], t[n][2]) <= LeastPaid(b, n, t[n][1], t[n][2])
  <2>1. t[n] \in Buyable(b, n, Chain)
    BY DEF Way
  <2>2. PICK x : x = t[n] /\ x \in Buyable(b, n, Chain)
    BY <2>1
  <2>3. /\ x[1] \in Product /\ x[2] \in Chain /\ x = <<x[1], x[2]>>
        /\ x[1] \in b.fits[n] /\ b.price[x[1]][x[2]] > 0 /\ Ordinary(b, n, x[1], x[2]) <= MoneyCap
    BY <2>2, BuyableHolds
  <2>4. /\ LeastPaid(b, n, x[1], x[2]) \in Nat
        /\ Checkout(b, n, x[1], x[2]) <= LeastPaid(b, n, x[1], x[2])
    BY <2>3, CheckoutIsLeast
  <2> QED
    BY <2>2, <2>3, <2>4
<1>3. D \in Subsets(b)
  <2>1. D \in SUBSET Chain /\ D # {}
    BY <1>1, <1>2, NeedHolds
  <2>2. \A c \in D : \E p \in Product : b.price[p][c] > 0
    BY <1>1, <1>2
  <2>3. Cardinality(D) <= b.maxStores
    BY <1>1 DEF Way
  <2> QED
    BY <2>1, <2>2, <2>3, SubsetsHold
<1>4. D \in SUBSET Chain
  BY <1>3, SubsetsHold
<1>5. \A n \in Need : t[n] \in Buyable(b, n, D)
  <2> SUFFICES ASSUME NEW n \in Need
               PROVE  t[n] \in Buyable(b, n, D)
    OBVIOUS
  <2>1. t[n][2] \in D
    BY <1>1
  <2>2. PICK x, c : x = t[n][1] /\ c = t[n][2] /\ t[n] = <<x, c>>
    BY <1>2
  <2>3. x \in b.fits[n] /\ c \in D /\ b.price[x][c] > 0 /\ Ordinary(b, n, x, c) <= MoneyCap
    BY <1>2, <2>1, <2>2
  <2>4. <<x, c>> \in Buyable(b, n, D)
    BY <2>3 DEF Buyable
  <2> QED
    BY <2>2, <2>4
<1>6. Whole(b, D)
  BY <1>3, <1>5 DEF Whole
<1>7. PICK s, p : s = TakeFor(b, D) /\ p = PlanOf(b, s)
  OBVIOUS
<1>8. PICK f, g : /\ f = [n \in Need |-> Checkout(b, n, s[n][1], s[n][2])]
                  /\ g = [n \in Need |-> LeastPaid(b, n, t[n][1], t[n][2])]
  OBVIOUS
<1>9. f \in [Need -> Nat] /\ g \in [Need -> Nat]
  BY <1>2, <1>6, <1>7, <1>8, WholeHolds
<1>10. ASSUME NEW n \in Need
       PROVE  f[n] <= g[n]
  <2>1. s[n] = Selected(b, n, D)
    BY <1>7 DEF TakeFor
  <2>2. t[n] \in Buyable(b, n, D)
    BY <1>5
  <2>3. Checkout(b, n, Selected(b, n, D)[1], Selected(b, n, D)[2]) <= Checkout(b, n, t[n][1], t[n][2])
    BY <1>4, <2>2, SelectedIsBest
  <2>4. f[n] <= Checkout(b, n, t[n][1], t[n][2])
    BY <1>8, <2>1, <2>3
  <2>5. Checkout(b, n, t[n][1], t[n][2]) \in Nat
    BY <1>2, CheckoutHolds
  <2>6. Checkout(b, n, t[n][1], t[n][2]) <= g[n] /\ f[n] \in Nat /\ g[n] \in Nat
    BY <1>2, <1>8, <1>9
  <2> QED
    BY <2>4, <2>5, <2>6
<1>11. SumFunction(f) \in Nat /\ SumFunction(g) \in Nat /\ SumFunction(f) <= SumFunction(g)
  BY <1>9, <1>10, NeedHolds, SumMonotone
<1>12. p.total = SumFunction(f) /\ Spent(b, t) = SumFunction(g)
  BY <1>7, <1>8 DEF PlanOf, Spent
<1>13. p.chains \in SUBSET D /\ Stores(p) \in 1..3 /\ Stores(p) <= Cardinality(D)
  BY <1>6, <1>7, WholeHolds
<1>14. p.total <= MoneyCap
  BY <1>11, <1>12, PlannerAssumption
<1>15. Cardinality(p.chains) <= b.maxStores
  <2>1. Cardinality(D) <= b.maxStores /\ b.maxStores \in Nat
    BY <1>1 DEF Way, IsRequest
  <2>2. Cardinality(D) \in 1..3
    BY <1>3, SubsetsHold
  <2> QED
    BY <1>13, <2>1, <2>2 DEF Stores
<1>16. p \in Candidates(b)
  BY <1>3, <1>6, <1>7, <1>14, <1>15, CandidateIs
<1> QED
  BY <1>1, <1>11, <1>12, <1>13, <1>16

-----------------------------------------------------------------------------
(* The frontier keeps what is worth keeping.                               *)

(* A plan that is as good in every respect. *)
AsGood(r, p) == r.total <= p.total /\ Stores(r) <= Stores(p) /\ r.travel <= p.travel

(* What a plan is compared by are numbers. *)
LEMMA PlanNumbers ==
  ASSUME NEW p, IsPlan(p)
  PROVE  p.total \in Nat /\ Stores(p) \in 1..3 /\ Stores(p) \in Nat /\ p.travel \in Nat
BY DEF IsPlan

(* Every plan is matched by an undominated one, the least of those that
   match it. *)
LEMMA Covers ==
  ASSUME NEW P, PlansOfOne(P), NEW p \in P
  PROVE  PlansOfOne(Undominated(P)) /\ \E r \in Undominated(P) : AsGood(r, p)
<1>1. PlansOfOne(Undominated(P))
  <2>1. PICK U : U = Undominated(P) /\ U \in SUBSET P
    BY DEF Undominated
  <2>2. IsFiniteSet(U)
    BY <2>1, FS_Subset DEF PlansOfOne
  <2> QED
    BY <2>1, <2>2 DEF PlansOfOne
<1>2. \A q \in P : q.total \in Nat /\ Stores(q) \in Nat /\ q.travel \in Nat
  BY PlanNumbers DEF PlansOfOne
<1>3. PICK Q : Q = {q \in P : AsGood(q, p)}
  OBVIOUS
<1>4. PICK T : T = {q.total + Stores(q) + q.travel : q \in Q}
  OBVIOUS
<1>5. p \in Q
  BY <1>2, <1>3 DEF AsGood
<1>6. T \in SUBSET Nat /\ T # {}
  BY <1>2, <1>3, <1>4, <1>5
<1>7. PICK m \in T : \A n \in T : m <= n
  BY <1>6, Least
<1>8. PICK r \in Q : m = r.total + Stores(r) + r.travel
  BY <1>4, <1>7
<1>9. ASSUME NEW q \in P, Dominates(q, r)
      PROVE  FALSE
  <2>1. PICK a, c, d, e, f, g, h, i, j \in Nat :
          /\ a = q.total /\ c = Stores(q) /\ d = q.travel
          /\ e = r.total /\ f = Stores(r) /\ g = r.travel
          /\ h = p.total /\ i = Stores(p) /\ j = p.travel
    BY <1>2, <1>3, <1>8
  <2>2. a <= e /\ c <= f /\ d <= g /\ (a < e \/ c < f \/ d < g)
    BY <1>9, <2>1 DEF Dominates
  <2>3. e <= h /\ f <= i /\ g <= j
    BY <1>3, <1>8, <2>1 DEF AsGood
  <2>4. a <= h /\ c <= i /\ d <= j /\ a + c + d < e + f + g
    BY <2>1, <2>2, <2>3
  <2>5. q \in Q
    BY <1>3, <2>1, <2>4 DEF AsGood
  <2>6. a + c + d \in T
    BY <1>4, <2>1, <2>5
  <2>7. e + f + g <= a + c + d
    BY <1>7, <1>8, <2>1, <2>6
  <2> QED
    BY <2>1, <2>4, <2>7
<1>10. r \in Undominated(P) /\ AsGood(r, p)
  BY <1>3, <1>8, <1>9 DEF Undominated
<1> QED
  BY <1>1, <1>10

(* Numbers compared from the left. *)
Leads(a, c, d, e, f, g) == a < e \/ (a = e /\ (c < f \/ (c = f /\ d < g)))

(* Before on three numbers. *)
LEMMA LeadsIsBefore ==
  ASSUME NEW a \in Int, NEW c \in Int, NEW d \in Int, NEW e \in Int, NEW f \in Int, NEW g \in Int,
         Before(<<a, c, d>>, <<e, f, g>>)
  PROVE  Leads(a, c, d, e, f, g)
<1>1. PICK s, t : s = <<a, c, d>> /\ t = <<e, f, g>>
  OBVIOUS
<1>2. s[1] = a /\ s[2] = c /\ s[3] = d /\ t[1] = e /\ t[2] = f /\ t[3] = g /\ Len(s) = 3
  BY <1>1
<1>3. PICK i \in 1..3 : s[i] < t[i] /\ \A j \in 1..(i - 1) : s[j] = t[j]
  BY <1>1, <1>2 DEF Before
<1>4. CASE i = 1
  BY <1>2, <1>3, <1>4 DEF Leads
<1>5. CASE i = 2
  <2>1. 1 \in 1..(i - 1)
    BY <1>5
  <2>2. s[1] = t[1] /\ s[2] < t[2]
    BY <1>3, <1>5, <2>1
  <2> QED
    BY <1>2, <2>2 DEF Leads
<1>6. CASE i = 3
  <2>1. 1 \in 1..(i - 1) /\ 2 \in 1..(i - 1)
    BY <1>6
  <2>2. s[1] = t[1] /\ s[2] = t[2] /\ s[3] < t[3]
    BY <1>3, <1>6, <2>1
  <2> QED
    BY <1>2, <2>2 DEF Leads
<1>7. i = 1 \/ i = 2 \/ i = 3
  OBVIOUS
<1> QED
  BY <1>4, <1>5, <1>6, <1>7

(* What comes before does not come after in its first three numbers. *)
LEMMA BeforeLeads ==
  ASSUME NEW n \in Nat, n >= 3, NEW s \in [1..n -> Int], NEW t \in [1..n -> Int], Before(s, t)
  PROVE  ~Leads(t[1], t[2], t[3], s[1], s[2], s[3])
<1>1. Len(s) = n
  OBVIOUS
<1>2. PICK i \in 1..n : s[i] < t[i] /\ \A j \in 1..(i - 1) : s[j] = t[j]
  BY <1>1 DEF Before
<1>3. 1 \in 1..n /\ 2 \in 1..n /\ 3 \in 1..n
  OBVIOUS
<1>4. /\ s[1] \in Int /\ s[2] \in Int /\ s[3] \in Int /\ s[i] \in Int
      /\ t[1] \in Int /\ t[2] \in Int /\ t[3] \in Int /\ t[i] \in Int
  BY <1>3
<1>5. CASE i = 1
  BY <1>2, <1>4, <1>5 DEF Leads
<1>6. CASE i = 2
  <2>1. 1 \in 1..(i - 1)
    BY <1>6
  <2>2. s[1] = t[1] /\ s[2] < t[2]
    BY <1>2, <1>6, <2>1
  <2> QED
    BY <1>4, <2>2 DEF Leads
<1>7. CASE i >= 3
  <2>1. 1 \in 1..(i - 1) /\ 2 \in 1..(i - 1)
    BY <1>7
  <2>2. s[1] = t[1] /\ s[2] = t[2]
    BY <1>2, <2>1
  <2>3. s[3] <= t[3]
    <3>1. CASE i = 3
      BY <1>2, <1>4, <3>1
    <3>2. CASE i > 3
      <4>1. 3 \in 1..(i - 1)
        BY <3>2
      <4>2. s[3] = t[3]
        BY <1>2, <4>1
      <4> QED
        BY <1>4, <4>2
    <3> QED
      BY <1>7, <3>1, <3>2
  <2> QED
    BY <1>4, <2>2, <2>3 DEF Leads
<1>8. i = 1 \/ i = 2 \/ i >= 3
  OBVIOUS
<1> QED
  BY <1>5, <1>6, <1>7, <1>8

(* The three numbers a plan is shown first for. *)
Ahead(p, q) == Leads(Stores(p), p.travel, p.total, Stores(q), q.travel, q.total)

(* The keys of a plan start with its numbers. *)
LEMMA KeyStarts ==
  ASSUME NEW p, IsPlan(p)
  PROVE  /\ Convenience(p) \in [1..(Width + 3) -> Int] /\ Savings(p) \in [1..(Width + 3) -> Int]
         /\ Convenience(p)[1] = Stores(p) /\ Convenience(p)[2] = p.travel
         /\ Convenience(p)[3] = p.total /\ Savings(p)[1] = p.total
<1>1. Stores(p) \in Int /\ p.total \in Int /\ p.travel \in Int
  BY PlanNumbers
<1>2. PICK m, s : m \in Nat /\ m = Width /\ s = Id(p) /\ s \in [1..m -> Int]
  BY IdTellsPlans
<1>3. PICK x, y, z \in Int : x = Stores(p) /\ y = p.travel /\ z = p.total
  BY <1>1
<1>4. PICK v : v = Convenience(p) /\ IsPrefixed(v, m, x, y, z, s)
  BY <1>2, <1>3 DEF Convenience, IsPrefixed
<1>5. PICK w : w = Savings(p) /\ IsPrefixed(w, m, z, y, x, s)
  BY <1>2, <1>3 DEF Savings, IsPrefixed
<1>6. v \in [1..(m + 3) -> Int] /\ v[1] = x /\ v[2] = y /\ v[3] = z
  <2>1. IsPrefixed(v, m, x, y, z, s)
    BY <1>4
  <2> QED
    BY <2>1, Prefixed
<1>7. w \in [1..(m + 3) -> Int] /\ w[1] = z
  <2>1. IsPrefixed(w, m, z, y, x, s)
    BY <1>5
  <2> QED
    BY <2>1, Prefixed
<1> QED
  BY <1>2, <1>3, <1>4, <1>5, <1>6, <1>7

(* The frontier begins with the most convenient plan, and one end of it is
   the cheapest. *)
LEMMA FrontierHolds ==
  ASSUME NEW P, PlansOfOne(P), P # {}
  PROVE  LET F == Frontier(P)
         IN  /\ F \in Seq(Undominated(P)) /\ Len(F) \in Nat \ {0}
             /\ F[1] \in Undominated(P) /\ F[Len(F)] \in Undominated(P)
             /\ \A r \in Undominated(P) : ~Ahead(r, F[1])
             /\ \E i \in {1, Len(F)} : \A r \in Undominated(P) : F[i].total <= r.total
             /\ \A r \in Undominated(P) : \E i \in 1..Len(F) : F[i] = r
<1>1. PICK U : U = Undominated(P) /\ PlansOfOne(U) /\ U # {}
  BY Covers
<1>2. PICK F : F = Frontier(P) /\ F = Ordered(U)
  BY <1>1 DEF Frontier
<1>3. PICK c, s : c = First(U, Convenience) /\ s = First(U, Savings)
  OBVIOUS
<1>4. /\ F \in Seq(U) /\ Len(F) \in Nat \ {0} /\ F[1] = c
      /\ \E i \in {1, Len(F)} : F[i] = s
      /\ \A p \in U : \E i \in 1..Len(F) : F[i] = p
  <2>1. PlansOfOne(U) /\ U # {}
    BY <1>1
  <2>2. /\ Ordered(U) \in Seq(U) /\ Len(Ordered(U)) \in Nat \ {0}
        /\ Ordered(U)[1] = First(U, Convenience)
        /\ \E i \in {1, Len(Ordered(U))} : Ordered(U)[i] = First(U, Savings)
        /\ \A p \in U : \E i \in 1..Len(Ordered(U)) : Ordered(U)[i] = p
    BY <2>1, OrderedHolds
  <2>3. F = Ordered(U)
    BY <1>2
  <2>4. F \in Seq(U) /\ Len(F) \in Nat \ {0} /\ F[1] = c
    BY <1>3, <2>2, <2>3
  <2>5. \E i \in {1, Len(F)} : F[i] = s
    BY <1>3, <2>2, <2>3
  <2>6. \A p \in U : \E i \in 1..Len(F) : F[i] = p
    BY <2>2, <2>3
  <2> QED
    BY <2>4, <2>5, <2>6
<1>5. /\ c \in U /\ \A q \in U \ {c} : Before(Convenience(c), Convenience(q))
      /\ s \in U /\ \A q \in U \ {s} : Before(Savings(s), Savings(q))
  BY <1>1, <1>3, Ends
<1>6. PICK n \in Nat : n = Width + 3 /\ n >= 3
  BY IdTellsPlans
<1>7. ASSUME NEW p \in U
      PROVE  /\ Convenience(p) \in [1..n -> Int] /\ Savings(p) \in [1..n -> Int]
             /\ Convenience(p)[1] = Stores(p) /\ Convenience(p)[2] = p.travel
             /\ Convenience(p)[3] = p.total /\ Savings(p)[1] = p.total
             /\ p.total \in Nat /\ Stores(p) \in Nat /\ p.travel \in Nat
  <2>1. IsPlan(p)
    BY <1>1 DEF PlansOfOne
  <2> QED
    BY <1>6, <2>1, KeyStarts, PlanNumbers
<1>8. ASSUME NEW r \in U
      PROVE  ~Ahead(r, c)
  <2>1. CASE r = c
    BY <1>7, <2>1 DEF Ahead, Leads
  <2>2. CASE r # c
    <3>1. PICK v, w \in [1..n -> Int] : v = Convenience(c) /\ w = Convenience(r)
      BY <1>5, <1>7
    <3>2. Before(v, w)
      BY <1>5, <2>2, <3>1
    <3>3. ~Leads(w[1], w[2], w[3], v[1], v[2], v[3])
      BY <1>6, <3>1, <3>2, BeforeLeads
    <3> QED
      BY <1>5, <1>7, <3>1, <3>3 DEF Ahead
  <2> QED
    BY <2>1, <2>2
<1>9. ASSUME NEW r \in U
      PROVE  s.total <= r.total
  <2>1. CASE r = s
    BY <1>7, <2>1
  <2>2. CASE r # s
    <3>1. PICK v, w \in [1..n -> Int] : v = Savings(s) /\ w = Savings(r)
      BY <1>5, <1>7
    <3>2. Before(v, w)
      BY <1>5, <2>2, <3>1
    <3>3. v[1] <= w[1]
      <4>1. n > 0 /\ v \in [1..n -> Int] /\ w \in [1..n -> Int]
        BY <1>6, <3>1
      <4>2. \A x, y \in [1..n -> Int] : n > 0 /\ Before(x, y) => x[1] <= y[1]
        BY BeforeOrders
      <4> QED
        BY <3>2, <4>1, <4>2
    <3> QED
      BY <1>5, <1>7, <3>1, <3>3
  <2> QED
    BY <2>1, <2>2
<1>10. \E i \in {1, Len(F)} : \A r \in U : F[i].total <= r.total
  BY <1>4, <1>9
<1>11. F[Len(F)] \in U
  BY <1>4
<1> QED
  BY <1>1, <1>2, <1>4, <1>5, <1>8, <1>10, <1>11

-----------------------------------------------------------------------------
(* The request.                                                            *)

(* The answers a request can have when it was not cancelled. *)
PricesOnly(b) == [kind |-> "price-only", plans |-> Project(Frontier(Candidates(b)))]
WithTravel(b) == [kind |-> "travel", plans |-> Project(Frontier(Attached(b, Candidates(b))))]

PlanInv ==
  /\ basket \in Basket
  /\ step \in {"planning", "origin", "branches", "matrix", "answered"}
  /\ step \in {"origin", "branches", "matrix"} =>
       complete = Candidates(basket) /\ answer = PricesOnly(basket)
  /\ step = "answered" =>
       \/ answer.kind = "cancelled"
       \/ complete = Candidates(basket) /\ answer \in {PricesOnly(basket), WithTravel(basket)}

(* The request keeps the candidates and the answers made of them. *)
LEMMA PlanInvariance == PlanSpec => []PlanInv
<1>1. PlanInit => PlanInv
  BY DEF PlanInit, PlanInv
<1>2. PlanInv /\ [PlanNext]_planVars => PlanInv'
  <2> SUFFICES ASSUME PlanInv, [PlanNext]_planVars
               PROVE  PlanInv'
    OBVIOUS
  <2>1. CASE PlanPrices
    <3>1. basket' = basket /\ step' \in {"answered", "origin"}
      BY <2>1 DEF PlanPrices
    <3>2. complete' = Candidates(basket) /\ answer' = PricesOnly(basket)
      BY <2>1 DEF PlanPrices, PricesOnly
    <3> QED
      BY <3>1, <3>2 DEF PlanInv
  <2>2. CASE TravelUnavailable
    BY <2>2 DEF TravelUnavailable, PlanInv
  <2>3. CASE ResolveOrigin
    BY <2>3 DEF ResolveOrigin, PlanInv
  <2>4. CASE LoadBranches
    BY <2>4 DEF LoadBranches, PlanInv
  <2>5. CASE CalculateTravel
    <3>1. complete = Candidates(basket) /\ complete' = complete /\ basket' = basket /\ step' = "answered"
      BY <2>5 DEF CalculateTravel, PlanInv
    <3>2. answer' = WithTravel(basket)
      BY <2>5, <3>1 DEF CalculateTravel, WithTravel
    <3> QED
      BY <3>1, <3>2 DEF PlanInv
  <2>6. CASE CancelRequest
    <3>1. basket' = basket /\ step' = "answered" /\ answer'.kind = "cancelled"
      BY <2>6 DEF CancelRequest
    <3> QED
      BY <3>1 DEF PlanInv
  <2>7. CASE UNCHANGED planVars
    BY <2>7 DEF planVars, PlanInv
  <2> QED
    BY <2>1, <2>2, <2>3, <2>4, <2>5, <2>6, <2>7 DEF PlanNext
<1> QED
  BY <1>1, <1>2, PTL DEF PlanSpec

(* What a shopper could do is a way to buy the basket. *)
LEMMA PossibleIs ==
  ASSUME NEW q \in Possible(basket)
  PROVE  \E t : /\ Way(basket, t) /\ Spent(basket, t) <= MoneyCap
                /\ q.total = Spent(basket, t) /\ q.chains = {t[n][2] : n \in Need}
                /\ q.travel = IF answer.kind = "travel"
                              THEN BestRoundTrip(basket, {t[n][2] : n \in Need}) ELSE 0
<1>1. q.total <= MoneyCap /\ \E t \in [Need -> Product \X Chain] :
        /\ \A n \in Need : t[n] \in Buyable(basket, n, Chain)
        /\ Cardinality({t[n][2] : n \in Need}) <= basket.maxStores
        /\ q = [take   |-> t,
                total  |-> SumFunction([n \in Need |-> LeastPaid(basket, n, t[n][1], t[n][2])]),
                chains |-> {t[n][2] : n \in Need},
                travel |-> IF answer.kind = "travel"
                           THEN BestRoundTrip(basket, {t[n][2] : n \in Need}) ELSE 0]
  BY DEF Possible
<1>2. PICK t \in [Need -> Product \X Chain] :
        /\ \A n \in Need : t[n] \in Buyable(basket, n, Chain)
        /\ Cardinality({t[n][2] : n \in Need}) <= basket.maxStores
        /\ q = [take   |-> t,
                total  |-> SumFunction([n \in Need |-> LeastPaid(basket, n, t[n][1], t[n][2])]),
                chains |-> {t[n][2] : n \in Need},
                travel |-> IF answer.kind = "travel"
                           THEN BestRoundTrip(basket, {t[n][2] : n \in Need}) ELSE 0]
  BY <1>1
<1>3. Way(basket, t)
  BY <1>2 DEF Way
<1>4. q.total = Spent(basket, t)
  BY <1>2 DEF Spent
<1>5. /\ q.chains = {t[n][2] : n \in Need}
      /\ q.travel = IF answer.kind = "travel"
                    THEN BestRoundTrip(basket, {t[n][2] : n \in Need}) ELSE 0
  BY <1>2
<1> QED
  BY <1>1, <1>3, <1>4, <1>5

(* The plans an answer is made of: they match whatever a shopper could do. *)
Backing == IF answer.kind = "travel" THEN Attached(basket, complete) ELSE complete

(* They match whatever a shopper could do, with travel as without. *)
LEMMA BackingHolds ==
  ASSUME PlanInv, Answered
  PROVE  /\ PlansOfOne(Backing) /\ answer.plans = Project(Frontier(Backing))
         /\ \A q \in Possible(basket) :
              /\ q.total \in Nat /\ Stores(q) \in Nat /\ q.travel \in Nat
              /\ \E p \in Backing : AsGood(p, q)
<1>1. IsRequest(basket)
  BY PlannerAssumption DEF PlanInv
<1>2. PICK C, A : C = Candidates(basket) /\ A = Attached(basket, C)
  OBVIOUS
<1>3. complete = C /\ answer \in {PricesOnly(basket), WithTravel(basket)}
  BY <1>2 DEF PlanInv, Answered
<1>4. \/ answer.kind = "price-only" /\ answer.plans = Project(Frontier(C))
      \/ answer.kind = "travel" /\ answer.plans = Project(Frontier(A))
  BY <1>2, <1>3 DEF PricesOnly, WithTravel
<1>5. /\ Backing = IF answer.kind = "travel" THEN A ELSE C
      /\ answer.plans = Project(Frontier(Backing))
  BY <1>2, <1>3, <1>4 DEF Backing
<1>6. PlansOfOne(C) /\ PlansOfOne(A) /\ \A p \in C : p.travel = 0
  BY <1>1, <1>2, CandidatesHold, AttachedHolds
<1>7. ASSUME NEW q \in Possible(basket)
      PROVE  /\ q.total \in Nat /\ Stores(q) \in Nat /\ q.travel \in Nat
             /\ \E p \in Backing : AsGood(p, q)
  <2>1. PICK t : /\ Way(basket, t) /\ Spent(basket, t) <= MoneyCap
                 /\ q.total = Spent(basket, t) /\ q.chains = {t[n][2] : n \in Need}
                 /\ q.travel = IF answer.kind = "travel"
                               THEN BestRoundTrip(basket, {t[n][2] : n \in Need}) ELSE 0
    BY PossibleIs
  <2>2. PICK D : D = {t[n][2] : n \in Need}
    OBVIOUS
  <2>3. Spent(basket, t) \in Nat /\ \E p \in C : p.total <= Spent(basket, t) /\ p.chains \in SUBSET D
    <3>1. Way(basket, t) /\ Spent(basket, t) <= MoneyCap
      BY <2>1
    <3>2. /\ Spent(basket, t) \in Nat
          /\ \E p \in Candidates(basket) :
               p.total <= Spent(basket, t) /\ p.chains \in SUBSET {t[n][2] : n \in Need}
      BY <1>1, <3>1, Matched
    <3> QED
      BY <1>2, <2>2, <3>2
  <2>4. PICK p \in C : p.total <= Spent(basket, t) /\ p.chains \in SUBSET D
    BY <2>3
  <2>5. D \in SUBSET Chain /\ IsFiniteSet(D)
    <3>1. \A n \in Need : t[n] \in Product \X Chain
      BY <2>1 DEF Way
    <3>2. D \in SUBSET Chain
      BY <2>2, <3>1
    <3> QED
      BY <3>2, PlannerAssumption, FS_Subset
  <2>6. Cardinality(p.chains) <= Cardinality(D) /\ Cardinality(D) \in Nat
    BY <2>4, <2>5, FS_Subset, FS_CardinalityType
  <2>7. /\ q.total \in Nat /\ Stores(q) = Cardinality(D) /\ Stores(q) \in Nat
        /\ p.total <= q.total /\ Stores(p) <= Stores(q)
    BY <2>1, <2>2, <2>3, <2>4, <2>6 DEF Stores
  <2>8. BestRoundTrip(basket, D) \in Nat /\ BestRoundTrip(basket, p.chains) <= BestRoundTrip(basket, D)
    <3>1. BestRoundTrip(basket, D) \in Nat
      BY <1>1, <2>5, BestTrip
    <3>2. BestRoundTrip(basket, p.chains) <= BestRoundTrip(basket, D)
      BY <1>1, <2>4, <2>5, FewerChainsAreNoDetour
    <3> QED
      BY <3>1, <3>2
  <2>9. CASE answer.kind = "travel"
    <3>1. PICK r \in A : /\ r.total = p.total /\ Stores(r) = Stores(p)
                         /\ r.travel = BestRoundTrip(basket, p.chains)
      BY <1>1, <1>2, <2>4, AttachedHolds
    <3>2. q.travel = BestRoundTrip(basket, D)
      BY <2>1, <2>2, <2>9
    <3>3. AsGood(r, q) /\ r \in Backing
      BY <1>5, <2>7, <2>8, <2>9, <3>1, <3>2 DEF AsGood
    <3> QED
      BY <2>7, <2>8, <3>2, <3>3
  <2>10. CASE answer.kind # "travel"
    <3>1. q.travel = 0 /\ p.travel = 0 /\ p \in Backing
      BY <1>5, <1>6, <2>1, <2>10
    <3>2. AsGood(p, q)
      BY <2>7, <3>1 DEF AsGood
    <3> QED
      BY <2>7, <3>1, <3>2
  <2> QED
    BY <2>9, <2>10
<1> QED
  BY <1>5, <1>6, <1>7

(* What matches a plan of a set is matched by its frontier. *)
LEMMA AsGoodIsTransitive ==
  ASSUME NEW p, NEW q, NEW r, AsGood(p, q), AsGood(q, r),
         p.total \in Int /\ Stores(p) \in Int /\ p.travel \in Int,
         q.total \in Int /\ Stores(q) \in Int /\ q.travel \in Int,
         r.total \in Int /\ Stores(r) \in Int /\ r.travel \in Int
  PROVE  AsGood(p, r)
<1>1. PICK a, c, d, e, f, g, h, i, j \in Int :
        /\ a = p.total /\ c = Stores(p) /\ d = p.travel
        /\ e = q.total /\ f = Stores(q) /\ g = q.travel
        /\ h = r.total /\ i = Stores(r) /\ j = r.travel
  OBVIOUS
<1>2. a <= e /\ c <= f /\ d <= g /\ e <= h /\ f <= i /\ g <= j
  BY <1>1 DEF AsGood
<1>3. a <= h /\ c <= i /\ d <= j
  BY <1>1, <1>2
<1> QED
  BY <1>1, <1>3 DEF AsGood

(* So do those of them that are undominated. *)
LEMMA FrontierMatches ==
  ASSUME PlanInv, Answered, NEW q \in Possible(basket)
  PROVE  \E r \in Undominated(Backing) : IsPlan(r) /\ AsGood(r, q)
<1>1. PlansOfOne(Backing) /\ q.total \in Nat /\ Stores(q) \in Nat /\ q.travel \in Nat
  BY BackingHolds
<1>2. PICK p \in Backing : AsGood(p, q)
  BY BackingHolds
<1>3. PlansOfOne(Undominated(Backing)) /\ \E r \in Undominated(Backing) : AsGood(r, p)
  BY <1>1, <1>2, Covers
<1>4. PICK r \in Undominated(Backing) : AsGood(r, p)
  BY <1>3
<1>5. IsPlan(p) /\ IsPlan(r)
  BY <1>1, <1>2, <1>3, <1>4 DEF PlansOfOne
<1>6. /\ p.total \in Nat /\ Stores(p) \in Nat /\ p.travel \in Nat
      /\ r.total \in Nat /\ Stores(r) \in Nat /\ r.travel \in Nat
  BY <1>5, PlanNumbers
<1>7. AsGood(r, q)
  BY <1>1, <1>2, <1>4, <1>6, AsGoodIsTransitive
<1> QED
  BY <1>4, <1>5, <1>7

(* The plans shown are those of the frontier, or as many as may be shown. *)
LEMMA ShownHolds ==
  ASSUME NEW V, NEW F \in Seq(V), Len(F) > 0
  PROVE  /\ Len(F) <= Representatives => Project(F) = F
         /\ Len(F) > Representatives => Len(Project(F)) = Representatives
<1>1. Representatives \in Nat \ {0} /\ Len(F) \in Nat
  BY PlannerAssumption
<1>2. Len(F) <= Representatives => Project(F) = F
  BY DEF Project
<1>3. ASSUME Len(F) > Representatives
      PROVE  Len(Project(F)) = Representatives
  <2>1. CASE Representatives = 1
    <3>1. Project(F) = <<F[1]>>
      BY <1>1, <1>3, <2>1 DEF Project
    <3> QED
      BY <2>1, <3>1
  <2>2. CASE Representatives > 1
    <3>1. Len(Project(F)) = IF Len(F) <= Representatives THEN Len(F) ELSE Representatives
      BY <2>2, Projected
    <3> QED
      BY <1>1, <1>3, <3>1
  <2> QED
    BY <1>1, <2>1, <2>2
<1> QED
  BY <1>2, <1>3

(* When nothing is left out, those are the plans shown. *)
LEMMA NothingBetterInState == PlanInv => NothingBetterIsMissed
<1> SUFFICES ASSUME PlanInv, Answered, Len(answer.plans) < Representatives,
                    NEW q \in Possible(basket)
             PROVE  \E p \in Shown :
                      p.total <= q.total /\ Stores(p) <= Stores(q) /\ p.travel <= q.travel
  BY DEF NothingBetterIsMissed
<1>1. PICK r \in Undominated(Backing) : AsGood(r, q)
  BY FrontierMatches
<1>2. PlansOfOne(Backing) /\ answer.plans = Project(Frontier(Backing))
  BY BackingHolds
<1>3. Backing # {}
  BY <1>1 DEF Undominated
<1>4. PICK F : F = Frontier(Backing)
  OBVIOUS
<1>5. /\ F \in Seq(Undominated(Backing)) /\ Len(F) \in Nat \ {0}
      /\ \E i \in 1..Len(F) : F[i] = r
  BY <1>1, <1>2, <1>3, <1>4, FrontierHolds
<1>6. /\ Len(F) <= Representatives => Project(F) = F
      /\ Len(F) > Representatives => Len(Project(F)) = Representatives
  BY <1>5, ShownHolds
<1>7. Len(F) <= Representatives
  BY <1>2, <1>4, <1>5, <1>6, PlannerAssumption
<1>8. answer.plans = F
  BY <1>2, <1>4, <1>6, <1>7
<1>9. r \in Shown
  BY <1>5, <1>8 DEF Shown, ToSet
<1> QED
  BY <1>1, <1>9 DEF AsGood

(* Unless plans had to be left out, every way to buy the basket is matched   *)
(* by a plan of the answer (calculatePlansV2, TravelService): one plan per   *)
(* set of chains, with the cheapest product of each need, and only the       *)
(* undominated ones, are enough, with travel as without.                     *)
THEOREM NothingBetter == PlanSpec => []NothingBetterIsMissed
BY PlanInvariance, NothingBetterInState, PTL

(* Nothing is shown when there is no plan. *)
LEMMA NoPlans == Project(Frontier({})) = <<>>
<1>1. Undominated({}) = {}
  BY DEF Undominated
<1>2. Frontier({}) = <<>>
  BY <1>1 DEF Frontier, Ordered
<1>3. Len(<<>>) = 0
  OBVIOUS
<1> QED
  BY <1>2, <1>3, PlannerAssumption DEF Project

(* A plan that no shown plan is behind of. *)
LEMMA AheadOfAll ==
  ASSUME NEW p, NEW q, NEW r, AsGood(r, q), ~Ahead(r, p),
         p.total \in Int /\ Stores(p) \in Int /\ p.travel \in Int,
         q.total \in Int /\ Stores(q) \in Int /\ q.travel \in Int,
         r.total \in Int /\ Stores(r) \in Int /\ r.travel \in Int
  PROVE  ~Before(<<Stores(q), q.travel, q.total>>, <<Stores(p), p.travel, p.total>>)
<1> SUFFICES ASSUME Before(<<Stores(q), q.travel, q.total>>, <<Stores(p), p.travel, p.total>>)
             PROVE  FALSE
  OBVIOUS
<1>1. Leads(Stores(q), q.travel, q.total, Stores(p), p.travel, p.total)
  BY LeadsIsBefore
<1>2. PICK a, c, d, e, f, g, h, i, j \in Int :
        /\ a = p.total /\ c = Stores(p) /\ d = p.travel
        /\ e = q.total /\ f = Stores(q) /\ g = q.travel
        /\ h = r.total /\ i = Stores(r) /\ j = r.travel
  OBVIOUS
<1>3. Leads(f, g, e, c, d, a) /\ ~Leads(i, j, h, c, d, a)
  BY <1>1, <1>2 DEF Ahead
<1>4. h <= e /\ i <= f /\ j <= g
  BY <1>2 DEF AsGood
<1> QED
  BY <1>2, <1>3, <1>4 DEF Leads

(* When something is left out, the ends are not. *)
LEMMA ShownSpansInState ==
  ASSUME Representatives > 1, PlanInv
  PROVE  ShownPlansSpanTheChoice
<1> SUFFICES ASSUME Answered, Shown # {}
             PROVE  ShownPlansSpanTheChoice
  BY DEF ShownPlansSpanTheChoice
<1>1. PlansOfOne(Backing) /\ answer.plans = Project(Frontier(Backing))
  BY BackingHolds
<1>2. Backing # {}
  <2> SUFFICES ASSUME Backing = {}
               PROVE  FALSE
    OBVIOUS
  <2>1. answer.plans = <<>>
    BY <1>1, NoPlans
  <2> QED
    BY <2>1 DEF Shown, ToSet
<1>3. PICK U, F, s : U = Undominated(Backing) /\ F = Frontier(Backing) /\ s = answer.plans
  OBVIOUS
<1>4. /\ F \in Seq(U) /\ Len(F) \in Nat \ {0} /\ F[1] \in U /\ F[Len(F)] \in U
      /\ \A r \in U : ~Ahead(r, F[1])
      /\ \E i \in {1, Len(F)} : \A r \in U : F[i].total <= r.total
      /\ \A r \in U : \E i \in 1..Len(F) : F[i] = r
  BY <1>1, <1>2, <1>3, FrontierHolds
<1>5. /\ s = Project(F) /\ s \in Seq(U)
      /\ Len(s) = (IF Len(F) <= Representatives THEN Len(F) ELSE Representatives)
      /\ s[1] = F[1]
      /\ \E i \in 1..Len(s) : s[i] = F[Len(F)]
      /\ \A i \in 1..Len(s) : \E j \in 1..Len(F) : s[i] = F[j]
      /\ Len(F) > Representatives => \A j \in Counted(F) : \E i \in 1..Len(s) : s[i] = F[j]
  <2>1. Project(F) = s
    BY <1>1, <1>3
  <2>2. Len(F) > 0 /\ F \in Seq(U)
    BY <1>4
  <2>3. /\ Project(F) \in Seq(U)
        /\ Len(Project(F)) = IF Len(F) <= Representatives THEN Len(F) ELSE Representatives
        /\ Project(F)[1] = F[1]
        /\ \E i \in 1..Len(Project(F)) : Project(F)[i] = F[Len(F)]
        /\ \A i \in 1..Len(Project(F)) : \E j \in 1..Len(F) : Project(F)[i] = F[j]
        /\ Len(F) > Representatives =>
             \A j \in Counted(F) : \E i \in 1..Len(Project(F)) : Project(F)[i] = F[j]
    BY <2>2, Projected
  <2>4. /\ s = Project(F) /\ s \in Seq(U) /\ s[1] = F[1]
        /\ Len(s) = (IF Len(F) <= Representatives THEN Len(F) ELSE Representatives)
    BY <2>1, <2>3
  <2>5. \E i \in 1..Len(s) : s[i] = F[Len(F)]
    BY <2>1, <2>3
  <2>6. \A i \in 1..Len(s) : \E j \in 1..Len(F) : s[i] = F[j]
    BY <2>1, <2>3
  <2>7. Len(F) > Representatives => \A j \in Counted(F) : \E i \in 1..Len(s) : s[i] = F[j]
    BY <2>1, <2>3
  <2> QED
    BY <2>4, <2>5, <2>6, <2>7, SMTT(60)
<1>6. Len(s) \in Nat \ {0} /\ DOMAIN s = 1..Len(s) /\ DOMAIN F = 1..Len(F)
  BY <1>4, <1>5, PlannerAssumption
<1>7. Shown = {s[i] : i \in 1..Len(s)}
  BY <1>3, <1>6 DEF Shown, ToSet
<1>8. \A r \in U : IsPlan(r) /\ r.total \in Nat /\ Stores(r) \in 1..3 /\ Stores(r) \in Nat /\ r.travel \in Nat
  <2>1. PlansOfOne(U)
    BY <1>1, <1>2, <1>3, Covers
  <2> QED
    BY <2>1, PlanNumbers DEF PlansOfOne
<1>9. ASSUME NEW q \in Possible(basket)
      PROVE  /\ q.total \in Nat /\ Stores(q) \in Nat /\ q.travel \in Nat
             /\ \E r \in U : AsGood(r, q)
  BY <1>3, BackingHolds, FrontierMatches
<1>10. ASSUME NEW q \in Possible(basket)
       PROVE  ~Before(<<Stores(q), q.travel, q.total>>, <<Stores(s[1]), s[1].travel, s[1].total>>)
  <2>1. PICK r \in U : AsGood(r, q)
    BY <1>9
  <2>2. PICK p \in U : p = s[1] /\ ~Ahead(r, p)
    BY <1>4, <1>5, <2>1
  <2>3. ~Before(<<Stores(q), q.travel, q.total>>, <<Stores(p), p.travel, p.total>>)
    BY <1>8, <1>9, <2>1, <2>2, AheadOfAll
  <2> QED
    BY <2>2, <2>3
<1>11. \E p \in Shown : \A q \in Possible(basket) : p.total <= q.total
  <2>1. PICK i \in {1, Len(F)} : \A r \in U : F[i].total <= r.total
    BY <1>4, Zenon
  <2>2. \E k \in 1..Len(s) : s[k] = F[i]
    <3>1. CASE i = 1
      <4>1. PICK n \in Nat \ {0} : n = Len(s)
        BY <1>6, Zenon
      <4>2. 1 \in 1..n
        OBVIOUS
      <4>3. 1 \in 1..Len(s)
        BY <4>1, <4>2
      <4>4. s[1] = F[1]
        BY <1>5
      <4> QED
        BY <3>1, <4>3, <4>4
    <3>2. CASE i = Len(F)
      <4>1. \E k \in 1..Len(s) : s[k] = F[Len(F)]
        BY <1>5
      <4> QED
        BY <3>2, <4>1
    <3> QED
      BY <2>1, <3>1, <3>2
  <2>3. PICK p \in U : p = F[i] /\ p \in Shown /\ \A r \in U : p.total <= r.total
    BY <1>4, <1>7, <2>1, <2>2
  <2>4. ASSUME NEW q \in Possible(basket)
        PROVE  p.total <= q.total
    <3>1. PICK r \in U : AsGood(r, q)
      BY <1>9
    <3>2. p.total <= r.total /\ r.total <= q.total
      BY <2>3, <3>1 DEF AsGood
    <3>3. p.total \in Nat /\ r.total \in Nat /\ q.total \in Nat
      BY <1>8, <1>9
    <3> QED
      BY <3>2, <3>3
  <2> QED
    BY <2>3, <2>4
<1>12. Len(s) = Min({Len(F), Representatives})
  <2>a. PICK l, R \in Nat : l = Len(F) /\ R = Representatives
    BY <1>4, PlannerAssumption
  <2>b. PICK M : M = {l, R}
    OBVIOUS
  <2>1. M = {Len(F), Representatives} /\ M \in SUBSET Nat /\ M # {}
    BY <2>a, <2>b
  <2>2. Min(M) \in M /\ \A n \in M : Min(M) <= n
    BY <2>1, Least
  <2>3. PICK m \in Nat : m = Min(M) /\ m \in M /\ \A n \in M : m <= n
    BY <2>1, <2>2
  <2>4. (m = Len(F) \/ m = Representatives) /\ m <= Len(F) /\ m <= Representatives
    BY <2>1, <2>3
  <2>5. Representatives \in Nat
    BY PlannerAssumption
  <2>6. m = IF Len(F) <= Representatives THEN Len(F) ELSE Representatives
    BY <1>4, <2>4, <2>5
  <2> QED
    BY <1>5, <2>1, <2>3, <2>6
<1>13. {Stores(p) : p \in ToSet(F)} = CountsOf(F)
  BY <1>6 DEF ToSet, CountsOf
<1>14. ASSUME Cardinality(CountsOf(F) \ {Stores(F[1]), Stores(F[Len(F)])}) + 2 <= Representatives
       PROVE  CountsOf(F) = {Stores(p) : p \in Shown}
  <2>1. CASE Len(F) <= Representatives
    <3>1. s = F
      BY <1>5, <2>1 DEF Project
    <3> QED
      BY <1>7, <3>1 DEF CountsOf
  <2>2. CASE Len(F) > Representatives
    <3>1. CountsOf(F) \subseteq 1..3
      <4>1. \A i \in 1..Len(F) : F[i] \in U
        BY <1>4
      <4> QED
        BY <1>8, <4>1 DEF CountsOf
    <3>2. \A k \in CountsOf(F) : OfCount(F, k) \cap Counted(F) # {}
      BY <1>4, <1>14, <2>2, <3>1, EveryCountGetsAPlan
    <3>3. ASSUME NEW k \in CountsOf(F)
          PROVE  k \in {Stores(p) : p \in Shown}
      <4>1. PICK j : j \in OfCount(F, k) /\ j \in Counted(F)
        BY <3>2
      <4>2. Stores(F[j]) = k
        BY <4>1 DEF OfCount
      <4>3. PICK i \in 1..Len(s) : s[i] = F[j]
        BY <1>5, <2>2, <4>1
      <4> QED
        BY <1>7, <4>2, <4>3
    <3>4. ASSUME NEW p \in Shown
          PROVE  Stores(p) \in CountsOf(F)
      <4>1. PICK i \in 1..Len(s) : p = s[i]
        BY <1>7
      <4>2. PICK j \in 1..Len(F) : s[i] = F[j]
        BY <1>5
      <4> QED
        BY <4>1, <4>2 DEF CountsOf
    <3> QED
      BY <3>3, <3>4
  <2>3. Len(F) \in Nat /\ Representatives \in Nat
    BY <1>4, PlannerAssumption
  <2>4. Len(F) <= Representatives \/ Len(F) > Representatives
    BY <2>3
  <2> QED
    BY <2>1, <2>2, <2>4
<1>15. F = Frontier(IF answer.kind = "travel" THEN Attached(basket, complete) ELSE complete)
  BY <1>3 DEF Backing
<1> DEFINE ends == {Stores(F[1]), Stores(F[Len(F)])}
           counts == {Stores(p) : p \in ToSet(F)}
<1>16. Cardinality(counts \ ends) + 2 <= Representatives => counts = {Stores(p) : p \in Shown}
  BY <1>13, <1>14
<1>17. \A q \in Possible(basket) :
         ~Before(<<Stores(q), q.travel, q.total>>,
                 <<Stores(answer.plans[1]), answer.plans[1].travel, answer.plans[1].total>>)
  BY <1>3, <1>10
<1>18. Len(answer.plans) = Min({Len(F), Representatives})
  BY <1>3, <1>12
<1> QED
  BY <1>11, <1>15, <1>16, <1>17, <1>18 DEF ShownPlansSpanTheChoice

(* When more than one plan may be shown, what is left out keeps the choice   *)
(* whole (orderCohort, projectRepresentativesV2): the first plan is the most *)
(* convenient there can be, one plan has the lowest total there can be, and  *)
(* every number of stores of the frontier is there while there is room.      *)
THEOREM ChoiceSpanned ==
  ASSUME Representatives > 1
  PROVE  PlanSpec => []ShownPlansSpanTheChoice
<1>1. PlanInv => ShownPlansSpanTheChoice
  BY ShownSpansInState
<1> QED
  BY <1>1, PlanInvariance, PTL

=============================================================================
