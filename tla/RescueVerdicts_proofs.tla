----------------------- MODULE RescueVerdicts_proofs -----------------------
(***************************************************************************)
(* TLAPS proofs about what the comparisons of the rescue desk decide, for  *)
(* any number of children, any ports, wallets, markets, policies, budgets  *)
(* and probes: the amount of a verdict is the least that satisfies the     *)
(* policy, the other verdicts are true, and receipts agree with them.      *)
(*                                                                         *)
(* Three facts carry it.  PassesGrow: an amount greater than one that      *)
(* passes, up to the bound, passes too, since the wallet then owes no more *)
(* and has no less (Eases); so a binary search finds the least.  Narrowed: *)
(* what a search has ruled out fails, what it found passes, and the        *)
(* interval left halves at each probe, which is what a search that runs    *)
(* out of probes reports.  SessionsRight: a session nobody else worked     *)
(* with, whose calls were not lost, measures the changed wallet and no     *)
(* other, whatever else happens on the host (Right, Telling).              *)
(***************************************************************************)
EXTENDS RescueDesk_proofs

(* A sum may be taken in any order.                                        *)
LEMMA SumSplits ==
  ASSUME NEW S, IsFiniteSet(S), NEW f, NEW it, SumsUp(it, f, S), \A x \in S : f[x] \in Int
  PROVE  \A X \in SUBSET S : \A x \in X : it[X] = f[x] + it[X \ {x}]
  <1>. DEFINE Wrong(X) == \E x \in X : it[X] # f[x] + it[X \ {x}]
              T == {X \in SUBSET S : Wrong(X)}
  <1>. SUFFICES ASSUME T # {} PROVE FALSE
    OBVIOUS
  <1>1. T \subseteq SUBSET S
    OBVIOUS
  <1>. HIDE DEF T
  <1>2. PICK X \in T : \A Y \in SUBSET X : Y # X => Y \notin T
    BY <1>1, LeastSubset
  <1>3. X \in SUBSET S /\ \E x \in X : it[X] # f[x] + it[X \ {x}]
    BY <1>2 DEF T
  <1>4. PICK x \in X : it[X] # f[x] + it[X \ {x}]
    BY <1>3
  <1>. DEFINE p == Pick(X)
              Y == X \ {p}
              Z == X \ {x}
  <1>5. p \in X /\ p \in S /\ it[X] = f[p] + it[Y]
    BY <1>3, <1>4, Picked DEF SumsUp, AddsUp
  <1>6. p # x
    BY <1>4, <1>5
  <1>7. Y \in SUBSET X /\ Y # X /\ Z \in SUBSET X /\ Z # X /\ x \in Y /\ p \in Z /\ Y \ {x} = Z \ {p}
    BY <1>5, <1>6
  <1>. HIDE DEF p, Y, Z
  <1>8. Y \in SUBSET S /\ Z \in SUBSET S /\ Z \ {p} \in SUBSET S
    BY <1>3, <1>7
  <1>9. Y \notin T /\ Z \notin T
    BY <1>2, <1>7
  <1>10. it[Y] = f[x] + it[Y \ {x}] /\ it[Z] = f[p] + it[Z \ {p}]
    BY <1>7, <1>8, <1>9 DEF T
  <1>11. f[x] \in Int /\ f[p] \in Int /\ it[Z \ {p}] \in Int
    BY <1>3, <1>4, <1>5, <1>8 DEF SumsUp
  <1>12. it[X] = f[p] + (f[x] + it[Z \ {p}]) /\ it[Z] = f[p] + it[Z \ {p}]
    BY <1>5, <1>7, <1>10
  <1>13. it[X] = f[x] + it[Z]
    BY <1>11, <1>12
  <1>. QED  BY <1>4, <1>13 DEF Z

(* A sum whose terms are no greater is no greater; what is not in a sum    *)
(* counts for zero.                                                        *)
LEMMA SumBounded ==
  ASSUME NEW S, IsFiniteSet(S), NEW T \in SUBSET S, NEW R \in SUBSET S, NEW f, NEW g,
         \A x \in S : f[x] \in Int /\ g[x] \in Int,
         \A x \in S : (IF x \in T THEN f[x] ELSE 0) <= (IF x \in R THEN g[x] ELSE 0)
  PROVE  SumFunctionOnSet(f, T) <= SumFunctionOnSet(g, R)
  <1>0. IsFiniteSet(T) /\ IsFiniteSet(R)
    BY FS_Subset
  <1>1. PICK it : SumsUp(it, f, T) /\ SumFunctionOnSet(f, T) = it[T]
    BY <1>0, SumDefined
  <1>2. PICK jt : SumsUp(jt, g, R) /\ SumFunctionOnSet(g, R) = jt[R]
    BY <1>0, SumDefined
  <1>. DEFINE W == {X \in SUBSET S : ~(it[X \cap T] <= jt[X \cap R])}
  <1>3. ASSUME W # {} PROVE FALSE
    <2>1. W \subseteq SUBSET S
      OBVIOUS
    <2>. HIDE DEF W
    <2>2. PICK X \in W : \A Y \in SUBSET X : Y # X => Y \notin W
      BY <1>3, <2>1, LeastSubset
    <2>3. X \in SUBSET S /\ ~(it[X \cap T] <= jt[X \cap R])
      BY <2>2 DEF W
    <2>4. it[{}] = 0 /\ jt[{}] = 0
      BY <1>1, <1>2 DEF SumsUp, AddsUp
    <2>5. X # {}
      <3>1. ASSUME X = {} PROVE FALSE
        <4>1. X \cap T = {} /\ X \cap R = {}
          BY <3>1
        <4>2. it[X \cap T] = 0 /\ jt[X \cap R] = 0
          BY <2>4, <4>1
        <4>3. it[X \cap T] <= jt[X \cap R]
          <5>. DEFINE y == it[X \cap T]
                      z == jt[X \cap R]
          <5>1. y = 0 /\ z = 0
            BY <4>2
          <5>. HIDE DEF y, z
          <5>2. y <= z
            BY <5>1
          <5>. QED  BY <5>2 DEF y, z
        <4>. QED  BY <2>3, <4>3
      <3>. QED  BY <3>1
    <2>6. PICK x \in X : TRUE
      BY <2>5
    <2>. DEFINE Y == X \ {x}
                TX == X \cap T
                TY == Y \cap T
                RX == X \cap R
                RY == Y \cap R
    <2>7. /\ Y \in SUBSET X /\ Y # X /\ Y \in SUBSET S /\ x \in S
          /\ TX \in SUBSET T /\ TY \in SUBSET T /\ RX \in SUBSET R /\ RY \in SUBSET R
          /\ x \in T => x \in TX /\ TX \ {x} = TY
          /\ x \notin T => TX = TY
          /\ x \in R => x \in RX /\ RX \ {x} = RY
          /\ x \notin R => RX = RY
      BY <2>3, <2>6
    <2>8. it[TY] <= jt[RY]
      BY <2>2, <2>7 DEF W
    <2>. HIDE DEF Y, TX, TY, RX, RY
    <2>9. /\ it[TY] \in Int /\ jt[RY] \in Int /\ f[x] \in Int /\ g[x] \in Int
      BY <1>1, <1>2, <2>7 DEF SumsUp
    <2>10. it[TX] = (IF x \in T THEN f[x] ELSE 0) + it[TY]
      <3>1. CASE x \in T
        <4>1. it[TX] = f[x] + it[TX \ {x}]
          BY <1>0, <1>1, <2>7, <3>1, SumSplits
        <4>. QED  BY <2>7, <3>1, <4>1
      <3>2. CASE x \notin T
        BY <2>7, <2>9, <3>2
      <3>. QED  BY <3>1, <3>2
    <2>11. jt[RX] = (IF x \in R THEN g[x] ELSE 0) + jt[RY]
      <3>1. CASE x \in R
        <4>1. jt[RX] = g[x] + jt[RX \ {x}]
          BY <1>0, <1>2, <2>7, <3>1, SumSplits
        <4>. QED  BY <2>7, <3>1, <4>1
      <3>2. CASE x \notin R
        BY <2>7, <2>9, <3>2
      <3>. QED  BY <3>1, <3>2
    <2>12. (IF x \in T THEN f[x] ELSE 0) <= (IF x \in R THEN g[x] ELSE 0)
      BY <2>7
    <2>. DEFINE y == IF x \in T THEN f[x] ELSE 0
                z == IF x \in R THEN g[x] ELSE 0
    <2>13. y \in Int /\ z \in Int /\ y <= z /\ it[TX] = y + it[TY] /\ jt[RX] = z + jt[RY]
      BY <2>9, <2>10, <2>11, <2>12
    <2>. HIDE DEF y, z
    <2>14. it[TX] <= jt[RX]
      BY <2>8, <2>9, <2>13
    <2>. QED  BY <2>3, <2>14 DEF TX, RX
  <1>4. S \in SUBSET S /\ S \cap T = T /\ S \cap R = R
    OBVIOUS
  <1>5. it[T] <= jt[R]
    <2>1. S \notin W
      BY <1>3
    <2>. QED  BY <1>4, <2>1
  <1>. QED  BY <1>1, <1>2, <1>5

(* Division.                                                               *)
LEMMA QuotientAtLeast ==
  ASSUME NEW n \in Int, NEW d \in Nat, d > 0, NEW q \in Int, q * d <= n
  PROVE  q <= n \div d
  <1>. DEFINE k == n \div d
  <1>1. k \in Int /\ n < (k + 1) * d
    OBVIOUS
  <1>. HIDE DEF k
  <1>2. q * d < (k + 1) * d
    BY <1>1
  <1>3. q < k + 1
    BY <1>1, <1>2
  <1>. QED  BY <1>1, <1>3 DEF k

LEMMA QuotientWithin ==
  ASSUME NEW n \in Int, NEW d \in Nat, d > 0
  PROVE  n \div d \in Int /\ (n \div d) * d <= n
  OBVIOUS

LEMMA QuotientGrows ==
  ASSUME NEW x \in Int, NEW y \in Int, x <= y
  PROVE  x \div 10 \in Int /\ y \div 10 \in Int /\ x \div 10 <= y \div 10
  OBVIOUS

(* More liquidity for less debt leaves no smaller a buffer.                *)
LEMMA BufferGrows ==
  ASSUME NEW l \in Nat, NEW k \in Nat, l <= k, NEW d \in Nat, NEW e \in Nat, e <= d, e > 0
  PROVE  (l * 10000) \div d <= (k * 10000) \div e
  <1>. DEFINE q == (l * 10000) \div d
  <1>1. q \in Int /\ q * d <= l * 10000
    BY QuotientWithin
  <1>. HIDE DEF q
  <1>2. CASE q <= 0
    <2>1. q * e <= k * 10000
      <3>1. q * e <= 0
        BY <1>1, <1>2
      <3>. DEFINE u == q * e
      <3>2. u \in Int /\ u <= 0
        BY <1>1, <3>1
      <3>. HIDE DEF u
      <3>3. u <= k * 10000
        BY <3>2
      <3>. QED  BY <3>3 DEF u
    <2>. QED  BY <1>1, <2>1, QuotientAtLeast DEF q
  <1>3. CASE q > 0
    <2>1. q * e <= q * d
      BY <1>1, <1>3
    <2>2. q * e <= k * 10000
      <3>. DEFINE u == q * e
                  w == q * d
      <3>1. u \in Int /\ w \in Int /\ u <= w /\ w <= l * 10000
        BY <1>1, <2>1
      <3>. HIDE DEF u, w
      <3>2. u <= k * 10000
        BY <3>1
      <3>. QED  BY <3>2 DEF u
    <2>. QED  BY <1>1, <2>2, QuotientAtLeast DEF q
  <1>. QED  BY <1>1, <1>2, <1>3

(* A power of two is the number of subsets.                                *)
LEMMA PowerDoubles ==
  ASSUME NEW n \in Nat
  PROVE  2 ^ n \in Nat /\ 2 ^ n >= 1 /\ 2 ^ (n + 1) = 2 * 2 ^ n
  <1>. DEFINE k == n + 1
              S == 1..n
              A == SUBSET S
              B == {x \cup {k} : x \in A}
              f == [x \in A |-> x \cup {k}]
  <1>1. k \in Nat /\ k \notin S /\ 1..k = S \cup {k} /\ k = n + 1
    OBVIOUS
  <1>2. IsFiniteSet(S) /\ Cardinality(S) = n
    BY FS_Interval
  <1>3. IsFiniteSet(1..k) /\ Cardinality(1..k) = k
    BY <1>1, FS_Interval
  <1>4. IsFiniteSet(A) /\ Cardinality(A) = 2 ^ n
    BY <1>2, FS_SUBSET
  <1>5. Cardinality(SUBSET (1..k)) = 2 ^ k
    BY <1>3, FS_SUBSET
  <1>. HIDE DEF k, S
  <1>6. SUBSET (1..k) = A \cup B /\ A \cap B = {}
    <2>1. ASSUME NEW y \in SUBSET (1..k), k \in y PROVE y \in B
      <3>1. y \ {k} \in A /\ y = (y \ {k}) \cup {k}
        BY <1>1, <2>1
      <3>. QED  BY <3>1
    <2>2. ASSUME NEW y \in SUBSET (1..k), k \notin y PROVE y \in A
      BY <1>1, <2>2
    <2>3. \A y \in B : y \in SUBSET (1..k) /\ k \in y
      BY <1>1
    <2>4. \A y \in A : y \in SUBSET (1..k) /\ k \notin y
      BY <1>1
    <2>. QED  BY <2>1, <2>2, <2>3, <2>4
  <1>7. f \in Bijection(A, B)
    <2>1. f \in [A -> B]
      OBVIOUS
    <2>2. \A x, y \in A : f[x] = f[y] => x = y
      <3>1. \A x \in A : k \notin x /\ f[x] \ {k} = x
        BY <1>1
      <3>. QED  BY <3>1
    <2>3. \A y \in B : \E x \in A : f[x] = y
      OBVIOUS
    <2>. HIDE DEF f, A, B
    <2>4. f \in Injection(A, B)
      BY <2>1, <2>2 DEF Injection, IsInjective
    <2>5. f \in Surjection(A, B)
      BY <2>1, <2>3 DEF Surjection
    <2>. QED  BY <2>4, <2>5 DEF Bijection
  <1>8. IsFiniteSet(B) /\ Cardinality(B) = Cardinality(A)
    <2>1. ExistsBijection(A, B)
      BY <1>7 DEF ExistsBijection
    <2>. QED  BY <1>4, <2>1, FS_Bijection
  <1>. HIDE DEF A, B
  <1>9. Cardinality(A \cup B) = Cardinality(A) + Cardinality(B) - Cardinality(A \cap B)
    BY <1>4, <1>8, FS_Union
  <1>10. Cardinality(A \cap B) = 0
    BY <1>6, FS_EmptySet
  <1>11. Cardinality(A) \in Nat /\ Cardinality(A) # 0
    <2>1. A # {}
      BY DEF A
    <2>. QED  BY <1>4, <2>1, FS_CardinalityType, FS_EmptySet
  <1>12. 2 ^ k = Cardinality(A) + Cardinality(A)
    <2>1. 2 ^ k = Cardinality(A \cup B)
      BY <1>5, <1>6
    <2>2. Cardinality(A \cup B) = Cardinality(A) + Cardinality(A) - 0
      BY <1>8, <1>9, <1>10
    <2>. DEFINE y == Cardinality(A)
                z == Cardinality(A \cup B)
    <2>3. z = y + y - 0 /\ y \in Nat
      BY <2>2, <1>11
    <2>. HIDE DEF y, z
    <2>4. z = y + y
      BY <2>3
    <2>. QED  BY <2>1, <2>4 DEF y, z
  <1>. QED  BY <1>1, <1>4, <1>11, <1>12

(***************************************************************************)
(* A greater rescue never leaves a wallet worse off.                       *)
(***************************************************************************)
(* In y the wallet owes no more and has no less than in x, of each market. *)
Eases(x, y) ==
    /\ y.entered = x.entered /\ y.factor = x.factor
    /\ \A m \in Markets : y.borrowed[m] <= x.borrowed[m] /\ x.supplied[m] <= y.supplied[m]

LEMMA WorthGrows ==
  ASSUME NEW st \in Statics, NEW m \in Markets, NEW i \in Nat, NEW j \in Nat, i <= j
  PROVE  /\ Worth(st, m, i) \in Nat /\ Worth(st, m, j) \in Nat
         /\ Worth(st, m, i) <= Worth(st, m, j)
         /\ Worth(st, m, 0) = 0
  <1>1. st.price[m] \in Nat
    BY StaticFields
  <1>2. Worth(st, m, i) \in Nat /\ Worth(st, m, j) \in Nat
    BY WorthTyped
  <1>3. i * st.price[m] <= j * st.price[m] /\ 0 * st.price[m] = 0
    BY <1>1
  <1>. QED  BY <1>1, <1>2, <1>3 DEF Worth

LEMMA DebtFalls ==
  ASSUME NEW x \in Holdings, NEW y \in Holdings, NEW st \in Statics, Eases(x, y)
  PROVE  /\ Debt(y, st, Markets) <= Debt(x, st, Markets)
         /\ Debt(y, st, Positions(y, st, AllRead)) <= Debt(x, st, Positions(x, st, AllRead))
  <1>. DEFINE f == [m \in Markets |-> Worth(st, m, y.borrowed[m])]
              g == [m \in Markets |-> Worth(st, m, x.borrowed[m])]
              T == Positions(y, st, AllRead)
              R == Positions(x, st, AllRead)
  <1>1. ASSUME NEW m \in Markets
        PROVE  /\ x.borrowed[m] \in Nat /\ y.borrowed[m] \in Nat /\ y.borrowed[m] <= x.borrowed[m]
               /\ x.supplied[m] \in Nat /\ y.supplied[m] \in Nat /\ x.supplied[m] <= y.supplied[m]
               /\ f[m] \in Nat /\ g[m] \in Nat /\ f[m] <= g[m]
               /\ y.borrowed[m] = 0 => f[m] = 0
    <2>1. /\ x.borrowed[m] \in Nat /\ y.borrowed[m] \in Nat /\ y.borrowed[m] <= x.borrowed[m]
          /\ x.supplied[m] \in Nat /\ y.supplied[m] \in Nat /\ x.supplied[m] <= y.supplied[m]
      BY HoldingsFields DEF Eases
    <2>. QED  BY <2>1, WorthGrows
  <1>2. T \in SUBSET Markets /\ R \in SUBSET Markets /\ IsFiniteSet(Markets)
    BY MarketsAssumption DEF Positions, ListMarkets
  <1>3. ASSUME NEW m \in Markets
        PROVE  (IF m \in T THEN f[m] ELSE 0) <= (IF m \in R THEN g[m] ELSE 0)
    <2>1. CASE m \in R
      BY <1>1, <2>1
    <2>2. CASE m \notin R /\ m \in T
      <3>1. m \in Markets \ {} /\ st.listed[m]
        BY <2>2 DEF Positions, ListMarkets
      <3>2. ~(x.borrowed[m] > 0)
        BY <2>2, <3>1 DEF Positions, ListMarkets
      <3>3. y.borrowed[m] = 0
        BY <1>1, <3>2
      <3>. QED  BY <1>1, <2>2, <3>3
    <2>3. CASE m \notin R /\ m \notin T
      BY <2>3
    <2>. QED  BY <2>1, <2>2, <2>3
  <1>. HIDE DEF f, g, T, R
  <1>4. \A m \in Markets : f[m] \in Int /\ g[m] \in Int
    BY <1>1
  <1>5. SumFunctionOnSet(f, T) <= SumFunctionOnSet(g, R)
    BY <1>2, <1>3, <1>4, SumBounded
  <1>6. \A m \in Markets : (IF m \in Markets THEN f[m] ELSE 0) <= (IF m \in Markets THEN g[m] ELSE 0)
    BY <1>1
  <1>7. SumFunctionOnSet(f, Markets) <= SumFunctionOnSet(g, Markets)
    BY <1>2, <1>4, <1>6, SumBounded
  <1>. QED  BY <1>5, <1>7 DEF Debt, f, g, T, R

LEMMA CollateralGrows ==
  ASSUME NEW x \in Holdings, NEW y \in Holdings, NEW st \in Statics, Eases(x, y)
  PROVE  Collateral(x, st) <= Collateral(y, st)
  <1>. DEFINE f == [m \in Markets |-> (Worth(st, m, x.supplied[m]) * x.factor[m]) \div 10]
              g == [m \in Markets |-> (Worth(st, m, y.supplied[m]) * y.factor[m]) \div 10]
              T == {m \in Markets : x.entered[m]}
  <1>1. ASSUME NEW m \in Markets
        PROVE  f[m] \in Int /\ g[m] \in Int /\ f[m] <= g[m]
    <2>1. x.supplied[m] \in Nat /\ y.supplied[m] \in Nat /\ x.supplied[m] <= y.supplied[m]
      BY HoldingsFields DEF Eases
    <2>. DEFINE i == Worth(st, m, x.supplied[m])
                j == Worth(st, m, y.supplied[m])
                k == x.factor[m]
    <2>2. i \in Nat /\ j \in Nat /\ i <= j
      BY <2>1, WorthGrows
    <2>3. k \in Nat /\ f[m] = (i * k) \div 10 /\ g[m] = (j * k) \div 10
      BY HoldingsFields DEF Eases
    <2>. HIDE DEF i, j, k
    <2>4. i * k \in Int /\ j * k \in Int /\ i * k <= j * k
      BY <2>2, <2>3
    <2>5. (i * k) \div 10 \in Int /\ (j * k) \div 10 \in Int /\ (i * k) \div 10 <= (j * k) \div 10
      BY <2>4, QuotientGrows
    <2>. HIDE DEF f, g
    <2>. QED  BY <2>3, <2>5
  <1>2. T \in SUBSET Markets /\ IsFiniteSet(Markets)
    BY MarketsAssumption
  <1>3. \A m \in Markets : f[m] \in Int /\ g[m] \in Int
    BY <1>1
  <1>4. \A m \in Markets : (IF m \in T THEN f[m] ELSE 0) <= (IF m \in T THEN g[m] ELSE 0)
    BY <1>1
  <1>5. T = {m \in Markets : y.entered[m]}
    BY DEF Eases
  <1>. HIDE DEF f, g, T
  <1>6. SumFunctionOnSet(f, T) <= SumFunctionOnSet(g, T)
    BY <1>2, <1>3, <1>4, SumBounded
  <1>7. Collateral(x, st) = SumFunctionOnSet(f, T)
    BY DEF Collateral, f, T
  <1>8. Collateral(y, st) = SumFunctionOnSet(g, T)
    BY <1>5 DEF Collateral, g
  <1>. QED  BY <1>6, <1>7, <1>8

LEMMA UnpricedStays ==
  ASSUME NEW x \in Holdings, NEW y \in Holdings, NEW st \in Statics, Eases(x, y), Unpriced(y, st)
  PROVE  Unpriced(x, st)
  <1>1. PICK m \in Markets : (y.entered[m] \/ y.borrowed[m] > 0) /\ st.price[m] = 0
    BY DEF Unpriced
  <1>2. x.borrowed[m] \in Nat /\ y.borrowed[m] \in Nat /\ y.borrowed[m] <= x.borrowed[m]
    BY HoldingsFields DEF Eases
  <1>3. x.entered[m] \/ x.borrowed[m] > 0
    BY <1>1, <1>2 DEF Eases
  <1>. QED  BY <1>1, <1>3 DEF Unpriced

LEMMA DebtIsNatural ==
  ASSUME NEW w \in Holdings, NEW st \in Statics, NEW S \in SUBSET Markets
  PROVE  Debt(w, st, S) \in Nat
  <1>. DEFINE f == [m \in Markets |-> Worth(st, m, w.borrowed[m])]
  <1>1. \A m \in Markets : f[m] \in Nat
    BY HoldingsFields, WorthTyped
  <1>. HIDE DEF f
  <1>2. /\ \A m \in Markets : f[m] \in Int /\ f[m] \in Int
        /\ \A m \in Markets : (IF m \in {} THEN f[m] ELSE 0) <= (IF m \in S THEN f[m] ELSE 0)
        /\ {} \in SUBSET Markets
    BY <1>1
  <1>3. SumFunctionOnSet(f, {}) <= SumFunctionOnSet(f, S)
    BY <1>2, MarketsAssumption, SumBounded
  <1>4. SumFunctionOnSet(f, {}) = 0
    <2>1. IsFiniteSet({}) /\ \A m \in {} : f[m] \in Int
      BY FS_EmptySet
    <2>2. PICK it : SumsUp(it, f, {}) /\ SumFunctionOnSet(f, {}) = it[{}]
      BY <2>1, SumDefined
    <2>. QED  BY <2>2 DEF SumsUp, AddsUp
  <1>5. Debt(w, st, S) = SumFunctionOnSet(f, S) /\ Debt(w, st, S) \in Int
    BY DebtTyped DEF Debt, f
  <1>. DEFINE d == Debt(w, st, S)
  <1>6. d \in Int /\ 0 <= d
    BY <1>3, <1>4, <1>5
  <1>. HIDE DEF d
  <1>7. d \in Nat
    BY <1>6
  <1>. QED  BY <1>7 DEF d

(* The buffer of a policy is met by more liquidity for less debt.          *)
LEMMA BufferMet ==
  ASSUME NEW l \in Int, NEW k \in Int, l <= k, NEW d \in Nat, NEW e \in Nat, e <= d, e # 0,
         NEW b \in Nat, b > 0, SafetyBuffer(l, d) # NoAmount, SafetyBuffer(l, d) >= b
  PROVE  SafetyBuffer(k, e) # NoAmount /\ SafetyBuffer(k, e) >= b
  <1>1. ~(d <= 0) /\ ~(e <= 0) /\ e > 0
    OBVIOUS
  <1>. DEFINE x == (l * 10000) \div d
              y == (k * 10000) \div e
  <1>2. ~(l <= 0)
    BY <1>1 DEF SafetyBuffer
  <1>3. ~(k <= 0) /\ l \in Nat /\ k \in Nat
    BY <1>2
  <1>4. x \in Nat /\ y \in Nat /\ MaxBufferBps \in Nat
    BY <1>1, <1>3, MarketsAssumption, SMT
  <1>5. x <= y
    BY <1>1, <1>3, BufferGrows
  <1>6. SafetyBuffer(l, d) = Min({x, MaxBufferBps}) /\ SafetyBuffer(k, e) = Min({y, MaxBufferBps})
    BY <1>1, <1>2, <1>3 DEF SafetyBuffer
  <1>. HIDE DEF x, y
  <1>7. /\ Min({x, MaxBufferBps}) \in {x, MaxBufferBps}
        /\ \A z \in {x, MaxBufferBps} : Min({x, MaxBufferBps}) <= z
    BY <1>4, LeastOf
  <1>8. Min({y, MaxBufferBps}) \in {y, MaxBufferBps}
    BY <1>4, LeastOf
  <1>9. x >= b /\ MaxBufferBps >= b
    <2>. DEFINE z == Min({x, MaxBufferBps})
    <2>1. z \in Nat /\ z <= x /\ z <= MaxBufferBps /\ z >= b
      BY <1>4, <1>6, <1>7
    <2>. HIDE DEF z
    <2>. QED  BY <1>4, <2>1
  <1>10. Min({y, MaxBufferBps}) \in Nat /\ Min({y, MaxBufferBps}) >= b
    BY <1>4, <1>5, <1>8, <1>9
  <1>. QED  BY <1>6, <1>10, NoAmountAssumption

LEMMA EasedPasses ==
  ASSUME NEW x \in Holdings, NEW y \in Holdings, NEW st \in Statics, Eases(x, y),
         NEW p \in RiskPolicySet, PolicyPasses(ReadRisk(x, st, AllRead), p)
  PROVE  PolicyPasses(ReadRisk(y, st, AllRead), p)
  <1>. DEFINE lx == Liquidity(x, st)
              ly == Liquidity(y, st)
              dx == Debt(x, st, Positions(x, st, AllRead))
              dy == Debt(y, st, Positions(y, st, AllRead))
              b  == p.minBuffer
              rx == ReadRisk(x, st, AllRead)
              ry == ReadRisk(y, st, AllRead)
  <1>1. /\ rx.status = Classify(Unpriced(x, st), lx) /\ rx.debt = dx
        /\ rx.buffer = SafetyBuffer(lx, dx)
        /\ ry.status = Classify(Unpriced(y, st), ly) /\ ry.debt = dy
        /\ ry.buffer = SafetyBuffer(ly, dy)
    BY DEF ReadRisk, WithBuffer, RawRisk
  <1>2. rx.status \notin {"UNKNOWN", "SHORTFALL"}
    BY DEF PolicyPasses
  <1>3. ~Unpriced(x, st) /\ ~(lx < 0)
    BY <1>1, <1>2 DEF Classify
  <1>4. ~Unpriced(y, st)
    BY <1>3, UnpricedStays
  <1>5. /\ lx = Collateral(x, st) - Debt(x, st, Markets)
        /\ ly = Collateral(y, st) - Debt(y, st, Markets)
    BY <1>3, <1>4 DEF Liquidity
  <1>6. lx \in Int /\ ly \in Int /\ lx <= ly
    <2>. DEFINE cx == Collateral(x, st)
                cy == Collateral(y, st)
                ex == Debt(x, st, Markets)
                ey == Debt(y, st, Markets)
    <2>1. cx \in Int /\ cy \in Int /\ ex \in Int /\ ey \in Int
      BY CollateralTyped, DebtTyped
    <2>2. cx <= cy /\ ey <= ex
      BY CollateralGrows, DebtFalls
    <2>3. lx = cx - ex /\ ly = cy - ey
      BY <1>5
    <2>. HIDE DEF cx, cy, ex, ey, lx, ly
    <2>. QED  BY <2>1, <2>2, <2>3
  <1>7. dx \in Nat /\ dy \in Nat /\ dy <= dx
    <2>1. Positions(x, st, AllRead) \in SUBSET Markets /\ Positions(y, st, AllRead) \in SUBSET Markets
      BY DEF Positions, ListMarkets
    <2>. QED  BY <2>1, DebtIsNatural, DebtFalls
  <1>8. b \in Nat
    BY PolicyFields
  <1>9. b > 0 /\ rx.debt # 0 => rx.buffer # NoAmount /\ rx.buffer >= b
    BY DEF PolicyPasses
  <1>. HIDE DEF lx, ly, dx, dy, rx, ry, b
  <1>10. ry.status \notin {"UNKNOWN", "SHORTFALL"}
    BY <1>1, <1>3, <1>4, <1>6 DEF Classify
  <1>11. ASSUME b > 0, ry.debt # 0 PROVE ry.buffer # NoAmount /\ ry.buffer >= b
    <2>1. dy # 0 /\ dx # 0
      BY <1>1, <1>7, <1>11
    <2>2. SafetyBuffer(lx, dx) # NoAmount /\ SafetyBuffer(lx, dx) >= b
      BY <1>1, <1>9, <1>11, <2>1
    <2>. QED  BY <1>1, <1>6, <1>7, <1>8, <1>11, <2>1, <2>2, BufferMet
  <1>. QED  BY <1>10, <1>11 DEF PolicyPasses, ry, b

LEMMA EntersEither ==
  ASSUME NEW h \in Holdings, NEW t \in Strategies, NEW m \in Markets, NEW a \in Nat, NEW c \in Nat
  PROVE  /\ MovedFrom(h, t, m, a).entered \in [Markets -> BOOLEAN]
         /\ MovedFrom(h, t, m, a).entered = MovedFrom(h, t, m, c).entered
  <1>. DEFINE yes == [h.entered EXCEPT ![m] = TRUE]
              same == [h.entered EXCEPT ![m] = h.entered[m]]
  <1>1. h.entered \in [Markets -> BOOLEAN]
    BY HoldingsFields
  <1>2. CASE t = "ADD_COLLATERAL"
    <2>1. MovedFrom(h, t, m, a).entered = yes
      BY <1>2 DEF Holdings, MovedFrom
    <2>2. MovedFrom(h, t, m, c).entered = yes
      BY <1>2 DEF Holdings, MovedFrom
    <2>3. yes \in [Markets -> BOOLEAN]
      BY <1>1
    <2>. QED  BY <2>1, <2>2, <2>3
  <1>3. CASE t # "ADD_COLLATERAL"
    <2>1. MovedFrom(h, t, m, a).entered = same
      BY <1>3 DEF Holdings, MovedFrom
    <2>2. MovedFrom(h, t, m, c).entered = same
      BY <1>3 DEF Holdings, MovedFrom
    <2>3. same \in [Markets -> BOOLEAN]
      BY <1>1
    <2>. QED  BY <2>1, <2>2, <2>3
  <1>. QED  BY <1>2, <1>3

(* What is moved is had, so what is left is a wallet too.                  *)
LEMMA MovedTyped ==
  ASSUME NEW h \in Holdings, NEW st, NEW t \in Strategies, NEW m, NEW a, Doable(h, st, t, m, a)
  PROVE  MovedFrom(h, t, m, a) \in Holdings
  <1>. DEFINE v == MovedFrom(h, t, m, a)
  <1>1. m \in Markets /\ a \in Nat /\ a <= h.balance[m] /\ (t = "REPAY_DEBT" => a <= h.borrowed[m])
    BY DEF Doable
  <1>2. Less(h.balance, m, a) \in [Markets -> Nat] /\ More(h.supplied, m, a) \in [Markets -> Nat]
    BY <1>1, HoldingsFields DEF Less, More
  <1>3. t = "REPAY_DEBT" => Less(h.borrowed, m, a) \in [Markets -> Nat]
    BY <1>1, HoldingsFields DEF Less
  <1>4. /\ v.balance \in [Markets -> Nat] /\ v.allowance \in [Markets -> Nat]
        /\ v.factor \in [Markets -> 0..10]
    BY <1>1, <1>2, HoldingsFields, MovedFields
  <1>5. v.entered \in [Markets -> BOOLEAN]
    BY <1>1, EntersEither
  <1>6. v.supplied \in [Markets -> Nat] /\ v.borrowed \in [Markets -> Nat]
    BY <1>1, <1>2, <1>3, HoldingsFields, MovedByStrategy
  <1>7. v = [f \in HoldingFields |-> v[f]]
    BY MovedShape
  <1>. HIDE DEF v
  <1>8. v \in Holdings
    BY <1>4, <1>5, <1>6, <1>7 DEF Holdings, HoldingFields
  <1>. QED  BY <1>8 DEF v

(* Once the proposal is executed, a greater amount moved eases the wallet. *)
LEMMA MoreIsEasier ==
  ASSUME NEW h \in Holdings, NEW st \in Statics, NEW t \in Strategies, NEW m, NEW a, NEW c,
         Doable(h, st, t, m, a), Doable(h, st, t, m, c), a <= c
  PROVE  /\ ApplyChange(MovedFrom(h, t, m, a), st) \in Holdings
         /\ ApplyChange(MovedFrom(h, t, m, c), st) \in Holdings
         /\ Eases(ApplyChange(MovedFrom(h, t, m, a), st), ApplyChange(MovedFrom(h, t, m, c), st))
  <1>. DEFINE v == MovedFrom(h, t, m, a)
              u == MovedFrom(h, t, m, c)
              x == ApplyChange(v, st)
              y == ApplyChange(u, st)
  <1>1. m \in Markets /\ a \in Nat /\ c \in Nat
    BY DEF Doable
  <1>2. v \in Holdings /\ u \in Holdings
    BY MovedTyped
  <1>3. v.entered = u.entered /\ v.factor = u.factor
    BY <1>1, MovedFields, EntersEither
  <1>4. ASSUME NEW n \in Markets PROVE u.borrowed[n] <= v.borrowed[n] /\ v.supplied[n] <= u.supplied[n]
    <2>1. /\ h.borrowed[n] \in Nat /\ h.supplied[n] \in Nat /\ h.borrowed \in [Markets -> Nat]
          /\ h.supplied \in [Markets -> Nat]
      BY HoldingsFields
    <2>2. CASE t = "REPAY_DEBT"
      <3>1. v.supplied = h.supplied /\ u.supplied = h.supplied
            /\ v.borrowed = Less(h.borrowed, m, a) /\ u.borrowed = Less(h.borrowed, m, c)
        BY <1>1, <2>2, MovedByStrategy
      <3>. HIDE DEF v, u
      <3>. QED  BY <1>1, <2>1, <3>1 DEF Less
    <2>3. CASE t # "REPAY_DEBT"
      <3>1. v.borrowed = h.borrowed /\ u.borrowed = h.borrowed
            /\ v.supplied = More(h.supplied, m, a) /\ u.supplied = More(h.supplied, m, c)
        BY <1>1, <2>3, MovedByStrategy
      <3>. HIDE DEF v, u
      <3>. QED  BY <1>1, <2>1, <3>1 DEF More
    <2>. QED  BY <2>2, <2>3
  <1>. HIDE DEF v, u
  <1>5. /\ x \in Holdings /\ x.supplied = v.supplied /\ x.borrowed = v.borrowed
        /\ x.entered = v.entered /\ x.factor = [v.factor EXCEPT ![st.changed] = st.newFactor]
    BY <1>2, ChangeFields
  <1>6. /\ y \in Holdings /\ y.supplied = u.supplied /\ y.borrowed = u.borrowed
        /\ y.entered = u.entered /\ y.factor = [u.factor EXCEPT ![st.changed] = st.newFactor]
    BY <1>2, ChangeFields
  <1>. HIDE DEF x, y
  <1>7. Eases(x, y)
    BY <1>3, <1>4, <1>5, <1>6 DEF Eases
  <1>. QED  BY <1>5, <1>6, <1>7 DEF x, y, v, u

(* The wallet passes the policy once the amount was moved and the change   *)
(* executed, or when the change alone is executed.                         *)
PassesAt(h, st, p, t, m, a) ==
    PolicyPasses(ReadRisk(ApplyChange(MovedFrom(h, t, m, a), st), st, AllRead), p)
ChangePasses(h, st, p) == PolicyPasses(ReadRisk(ApplyChange(h, st), st, AllRead), p)

LEMMA PassesGrow ==
  ASSUME NEW h \in Holdings, NEW st \in Statics, NEW p \in RiskPolicySet, NEW t \in Strategies,
         NEW m, NEW a, NEW c, Doable(h, st, t, m, a), Doable(h, st, t, m, c), a <= c,
         PassesAt(h, st, p, t, m, a)
  PROVE  PassesAt(h, st, p, t, m, c)
  <1>1. /\ ApplyChange(MovedFrom(h, t, m, a), st) \in Holdings
        /\ ApplyChange(MovedFrom(h, t, m, c), st) \in Holdings
        /\ Eases(ApplyChange(MovedFrom(h, t, m, a), st), ApplyChange(MovedFrom(h, t, m, c), st))
    BY MoreIsEasier
  <1>. DEFINE x == ApplyChange(MovedFrom(h, t, m, a), st)
              y == ApplyChange(MovedFrom(h, t, m, c), st)
  <1>2. x \in Holdings /\ y \in Holdings /\ Eases(x, y) /\ PolicyPasses(ReadRisk(x, st, AllRead), p)
    BY <1>1 DEF PassesAt
  <1>. HIDE DEF x, y
  <1>3. PolicyPasses(ReadRisk(y, st, AllRead), p)
    BY <1>2, EasedPasses
  <1>. QED  BY <1>3 DEF PassesAt, y

(* What the policy looks at does not depend on approvals nor on balances.  *)
LEMMA ReadAgrees ==
  ASSUME NEW w, NEW v, NEW st,
         w.supplied = v.supplied, w.borrowed = v.borrowed, w.entered = v.entered,
            w.factor = v.factor
  PROVE  ReadRisk(w, st, AllRead) = ReadRisk(v, st, AllRead)
  <1>1. RawRisk(w, st) = RawRisk(v, st)
    BY RiskAgrees
  <1>2. Positions(w, st, AllRead) = Positions(v, st, AllRead)
    BY DEF Positions
  <1>3. Debt(w, st, Positions(w, st, AllRead)) = Debt(v, st, Positions(v, st, AllRead))
    BY <1>2 DEF Debt
  <1>. QED  BY <1>1, <1>3 DEF ReadRisk

(* A branch whose calls were made is judged as the amount deserves.        *)
LEMMA BranchRisk ==
  ASSUME NEW h \in Holdings, NEW st \in Statics, NEW t \in Strategies, NEW m \in Markets,
         NEW a \in Nat,
         NEW w, HasMoved(h, w, t, m, a, MovedFrom(h, t, m, a).entered)
  PROVE  ReadRisk(ApplyChange(w, st), st, AllRead) = ReadRisk(ApplyChange(MovedFrom(h, t, m, a), st), st, AllRead)
  <1>. DEFINE v == MovedFrom(h, t, m, a)
              u == ApplyChange(w, st)
              x == ApplyChange(v, st)
  <1>1. v = [f \in HoldingFields |-> v[f]] /\ v.factor = h.factor
    BY MovedShape, MovedFields
  <1>2. /\ w \in Holdings /\ w.supplied = v.supplied /\ w.borrowed = v.borrowed
        /\ w.entered = v.entered /\ w.factor = v.factor
    BY <1>1 DEF HasMoved
  <1>. HIDE DEF v
  <1>3. /\ x.supplied = v.supplied /\ x.borrowed = v.borrowed /\ x.entered = v.entered
        /\ x.factor = [v.factor EXCEPT ![st.changed] = st.newFactor]
    BY <1>1 DEF ApplyChange, HoldingFields
  <1>4. /\ u.supplied = w.supplied /\ u.borrowed = w.borrowed /\ u.entered = w.entered
        /\ u.factor = [w.factor EXCEPT ![st.changed] = st.newFactor]
    BY <1>2, ChangeFields
  <1>. HIDE DEF u, x
  <1>5. ReadRisk(u, st, AllRead) = ReadRisk(x, st, AllRead)
    BY <1>2, <1>3, <1>4, ReadAgrees
  <1>. QED  BY <1>5 DEF u, x, v

(***************************************************************************)
(* What the verdict on a strategy says, of measurements that were not      *)
(* lost: r is a result, p the policy it was measured under.                *)
(***************************************************************************)
Least(h, st, p, t, m, a) ==
    /\ PassesAt(h, st, p, t, m, a)
    /\ \A c \in 1..(a - 1) : ~PassesAt(h, st, p, t, m, c)

Decided(h, st, p, t, r, budget) ==
    LET m    == Best(h, st, p, t, AllRead)
        none == Feasible(h, st, p, t, AllRead) = {}
    IN  /\ r.status = "VERIFIED" =>
              /\ PassesAt(h, st, p, t, m, r.amount)
              /\ \/ p.goal = "MAX_SAFETY" /\ r.amount = r.bound
                 \/ Least(h, st, p, t, m, r.amount)
        /\ r.status = "NOT_REQUIRED" => ChangePasses(h, st, p)
        /\ r.status = "INFEASIBLE" =>
              /\ none => r.bound = 0
              /\ ~none /\ p.goal # "MAX_SAFETY" =>
                    \A a \in 1..r.bound : ~PassesAt(h, st, p, t, m, a)
        /\ r.status = "INCOMPLETE" => ~r.planned /\ r.bound >= 2 ^ budget
        /\ r.status # "REJECTED"
        /\ ChangePasses(h, st, p) => r.status \in {"NONE", "NOT_REQUIRED"} \/ r.bound = 0

(* What a search of the bound b has excluded, what it has found, and how   *)
(* far it has halved the interval.                                         *)
Narrowed(h, st, p, t, m, q, b) ==
    /\ \A a \in 1..(q.low - 1) : ~PassesAt(h, st, p, t, m, a)
    /\ q.found = NoAmount => q.high = b
    /\ q.found # NoAmount => q.found = q.high + 1 /\ PassesAt(h, st, p, t, m, q.found)
    /\ (q.high - q.low + 1) * 2 ^ q.probes <= b

Searching(h, st, w, budget) ==
    w.task = "compare" /\ w.stage \in OnFork /\ w.purpose = "branch" =>
        /\ ~ChangePasses(h, st, w.policy)
        /\ w.search.max = budget /\ w.search.probes \in Nat /\ w.search.probes < budget
        /\ Narrowed(h, st, w.policy, w.strategy, TargetOf(h, st, w), w.search, BoundFor(h, st, w))

(* What a session has found when none of its calls was lost.               *)
Exact(h, st, w, budget) ==
    ~w.glitched =>
        /\ w.missing = AllRead
        /\ \A t \in Strategies : Decided(h, st, w.policy, t, w.results[t], budget)
        /\ Searching(h, st, w, budget)

-----------------------------------------------------------------------------
(***************************************************************************)
(* The search.                                                             *)
(***************************************************************************)
LEMMA PowerZero == 2 ^ 0 = 1
  <1>1. IsFiniteSet({}) /\ Cardinality({}) = 0
    BY FS_EmptySet
  <1>2. Cardinality(SUBSET {}) = 2 ^ 0
    BY <1>1, FS_SUBSET
  <1>3. SUBSET {} = {{}}
    OBVIOUS
  <1>4. Cardinality({{}}) = 1
    BY FS_Singleton
  <1>. QED  BY <1>2, <1>3, <1>4

(* Half of an interval, twice: no more than the interval.                  *)
LEMMA Halves ==
  ASSUME NEW low \in Nat, NEW high \in Nat, low <= high
  PROVE  LET k == low + ((high - low) \div 2)
         IN  /\ k \in Nat /\ low <= k /\ k <= high
             /\ 2 * ((k - 1) - low + 1) <= high - low + 1
             /\ 2 * (high - (k + 1) + 1) <= high - low + 1
  OBVIOUS

LEMMA HalvedCost ==
  ASSUME NEW e \in Nat, NEW i \in Int, NEW j \in Int, 2 * i <= j, NEW b \in Nat, j * e <= b
  PROVE  i * (2 * e) <= b
  <1>1. (2 * i) * e <= j * e
    OBVIOUS
  <1>2. i * (2 * e) = (2 * i) * e
    OBVIOUS
  <1>. DEFINE x == (2 * i) * e
              y == j * e
  <1>3. x \in Int /\ y \in Int /\ x <= y /\ y <= b
    BY <1>1
  <1>. HIDE DEF x, y
  <1>4. x <= b
    BY <1>3
  <1>. QED  BY <1>2, <1>4 DEF x

LEMMA ProbeNarrows ==
  ASSUME NEW h \in Holdings, NEW st \in Statics, NEW p \in RiskPolicySet, NEW t \in Strategies,
         NEW m, NEW b \in Nat, \A a \in 1..b : Doable(h, st, t, m, a),
         NEW q, q.low \in Nat, q.high \in Nat, 1 <= q.low, q.low <= q.high, q.high <= b,
         q.probes \in Nat, Narrowed(h, st, p, t, m, q, b),
         NEW passed \in BOOLEAN, passed <=> PassesAt(h, st, p, t, m, Mid(q))
  PROVE  /\ Narrowed(h, st, p, t, m, Probe(q, passed), b)
         /\ Probe(q, passed).probes = q.probes + 1 /\ Probe(q, passed).max = q.max
         /\ Probe(q, passed).low \in Nat /\ Probe(q, passed).high \in Int
         /\ Probe(q, passed).high <= b
         /\ Probe(q, passed).found \in Nat \cup {q.found}
  <1>. DEFINE k == Mid(q)
              n == Probe(q, passed)
              low == q.low
              high == q.high
              e == 2 ^ q.probes
  <1>1. /\ k \in Nat /\ low <= k /\ k <= high
        /\ 2 * ((k - 1) - low + 1) <= high - low + 1
        /\ 2 * (high - (k + 1) + 1) <= high - low + 1
    BY Halves DEF Mid
  <1>2. e \in Nat /\ 2 ^ (q.probes + 1) = 2 * e
    BY PowerDoubles
  <1>3. (high - low + 1) * e <= b
    BY DEF Narrowed
  <1>4. CASE passed
    <2>1. /\ n.low = low /\ n.high = k - 1 /\ n.found = k /\ n.probes = q.probes + 1
          /\ n.max = q.max
      BY <1>4 DEF Probe
    <2>2. \A a \in 1..(low - 1) : ~PassesAt(h, st, p, t, m, a)
      BY DEF Narrowed
    <2>. HIDE DEF k, n, low, high, e
    <2>3. ((k - 1) - low + 1) * (2 * e) <= b
      <3>. DEFINE i == (k - 1) - low + 1
                  j == high - low + 1
      <3>1. i \in Int /\ j \in Int /\ 2 * i <= j /\ j * e <= b
        BY <1>1, <1>3 DEF low, high
      <3>. HIDE DEF i, j
      <3>2. i * (2 * e) <= b
        BY <1>2, <3>1, HalvedCost
      <3>. QED  BY <3>2 DEF i
    <2>4. PassesAt(h, st, p, t, m, k)
      BY <1>4 DEF k
    <2>5. k # NoAmount /\ k = (k - 1) + 1
      BY <1>1, NoAmountAssumption
    <2>6. Narrowed(h, st, p, t, m, n, b)
      BY <1>2, <2>1, <2>2, <2>3, <2>4, <2>5 DEF Narrowed
    <2>7. n.low \in Nat /\ n.high \in Int /\ n.high <= b /\ n.found \in Nat
      BY <1>1, <2>1 DEF low, high
    <2>. QED  BY <2>1, <2>6, <2>7 DEF n
  <1>5. CASE ~passed
    <2>1. /\ n.low = k + 1 /\ n.high = high /\ n.found = q.found /\ n.probes = q.probes + 1
          /\ n.max = q.max
      BY <1>5 DEF Probe
    <2>2. /\ q.found = NoAmount => high = b
          /\ q.found # NoAmount => q.found = high + 1 /\ PassesAt(h, st, p, t, m, q.found)
      BY DEF Narrowed
    <2>3. ~PassesAt(h, st, p, t, m, k)
      BY <1>5
    <2>4. high \in Nat /\ high <= b /\ k \in 1..b
      BY <1>1
    <2>. HIDE DEF k, n, low, high, e
    <2>5. (high - (k + 1) + 1) * (2 * e) <= b
      <3>. DEFINE i == high - (k + 1) + 1
                  j == high - low + 1
      <3>1. i \in Int /\ j \in Int /\ 2 * i <= j /\ j * e <= b
        BY <1>1, <1>3 DEF low, high
      <3>. HIDE DEF i, j
      <3>2. i * (2 * e) <= b
        BY <1>2, <3>1, HalvedCost
      <3>. QED  BY <3>2 DEF i
    <2>6. ASSUME NEW a \in 1..((k + 1) - 1) PROVE ~PassesAt(h, st, p, t, m, a)
      <3>1. a \in 1..b /\ a <= k
        BY <1>1, <2>4
      <3>2. Doable(h, st, t, m, a) /\ Doable(h, st, t, m, k)
        BY <2>4, <3>1
      <3>. QED  BY <2>3, <3>1, <3>2, PassesGrow
    <2>7. Narrowed(h, st, p, t, m, n, b)
      BY <1>2, <2>1, <2>2, <2>5, <2>6 DEF Narrowed
    <2>8. n.low \in Nat /\ n.high \in Int /\ n.high <= b /\ n.found = q.found
      BY <1>1, <2>1, <2>4
    <2>. QED  BY <2>1, <2>7, <2>8 DEF n
  <1>. QED  BY <1>4, <1>5

(* The verdict at the end of a search.                                     *)
LEMMA SearchDecides ==
  ASSUME NEW h \in Holdings, NEW st \in Statics, NEW p \in RiskPolicySet, NEW t \in Strategies,
         Feasible(h, st, p, t, AllRead) # {}, ~ChangePasses(h, st, p),
         NEW b \in Nat, NEW budget \in Nat \ {0},
         NEW q, q.low \in Nat, q.high \in Int, q.high <= b, q.found \in Nat \cup {NoAmount},
         q.probes \in Nat, q.probes <= budget, q.max = budget,
         Narrowed(h, st, p, t, Best(h, st, p, t, AllRead), q, b), Ended(q),
         NEW w, q.found \in w.verified \cup {NoAmount}
  PROVE  Decided(h, st, p, t, FinalizeResult(w, q.found, Complete(q), b), budget)
  <1>. DEFINE m == Best(h, st, p, t, AllRead)
              r == FinalizeResult(w, q.found, Complete(q), b)
              P(a) == PassesAt(h, st, p, t, m, a)
  <1>1. /\ \A a \in 1..(q.low - 1) : ~P(a)
        /\ q.found = NoAmount => q.high = b
        /\ q.found # NoAmount => q.found = q.high + 1 /\ P(q.found)
        /\ (q.high - q.low + 1) * 2 ^ q.probes <= b
    BY DEF Narrowed
  <1>2. Complete(q) <=> q.low > q.high
    BY DEF Complete
  <1>3. CASE ~Complete(q)
    <2>1. r.status = "INCOMPLETE" /\ r.bound = b /\ r.planned = FALSE
      BY <1>3 DEF FinalizeResult, Result
    <2>2. q.probes = budget /\ q.high - q.low + 1 >= 1
      BY <1>2, <1>3 DEF Ended
    <2>3. 2 ^ budget \in Nat
      BY PowerDoubles
    <2>. DEFINE e == 2 ^ budget
                i == q.high - q.low + 1
    <2>4. e \in Nat /\ i \in Int /\ i >= 1 /\ i * e <= b
      BY <1>1, <2>2, <2>3
    <2>. HIDE DEF e, i
    <2>5. 1 * e <= i * e
      BY <2>4
    <2>6. e <= b
      <3>. DEFINE x == i * e
      <3>1. x \in Int /\ e <= x /\ x <= b
        BY <2>4, <2>5
      <3>. HIDE DEF x
      <3>. QED  BY <2>4, <3>1
    <2>. HIDE DEF r
    <2>. QED  BY <2>1, <2>4, <2>6 DEF Decided, r, e
  <1>4. CASE Complete(q) /\ q.found = NoAmount
    <2>1. r.status = "INFEASIBLE" /\ r.bound = b
      BY <1>4 DEF FinalizeResult, Result
    <2>2. \A a \in 1..b : ~P(a)
      BY <1>1, <1>2, <1>4
    <2>. HIDE DEF r
    <2>. QED  BY <2>1, <2>2 DEF Decided, r
  <1>5. CASE Complete(q) /\ q.found # NoAmount
    <2>1. r.status = "VERIFIED" /\ r.amount = q.found
      BY <1>5 DEF FinalizeResult, Result
    <2>2. P(q.found) /\ \A a \in 1..(q.found - 1) : ~P(a)
      BY <1>1, <1>2, <1>5
    <2>. HIDE DEF r
    <2>3. Least(h, st, p, t, m, r.amount)
      BY <2>1, <2>2 DEF Least
    <2>. QED  BY <2>1, <2>2, <2>3 DEF Decided, r
  <1>. QED  BY <1>3, <1>4, <1>5

(* The verdict of a policy that asks for the greatest amount.              *)
LEMMA BoundDecides ==
  ASSUME NEW h, NEW st, NEW p, NEW t, p.goal = "MAX_SAFETY",
         Feasible(h, st, p, t, AllRead) # {}, ~ChangePasses(h, st, p),
         NEW b \in Nat, NEW budget, NEW passed \in BOOLEAN,
         passed => PassesAt(h, st, p, t, Best(h, st, p, t, AllRead), b),
         NEW w, passed => b \in w.verified
  PROVE  Decided(h, st, p, t, FinalizeResult(w, IF passed THEN b ELSE NoAmount, TRUE, b), budget)
  <1>. DEFINE r == FinalizeResult(w, IF passed THEN b ELSE NoAmount, TRUE, b)
  <1>1. CASE passed
    <2>1. b # NoAmount
      BY NoAmountAssumption
    <2>2. r.status = "VERIFIED" /\ r.amount = b /\ r.bound = b
      BY <1>1, <2>1 DEF FinalizeResult, Result
    <2>. HIDE DEF r
    <2>. QED  BY <1>1, <2>2 DEF Decided, r
  <1>2. CASE ~passed
    <2>1. r.status = "INFEASIBLE"
      BY <1>2 DEF FinalizeResult, Result
    <2>. HIDE DEF r
    <2>. QED  BY <2>1 DEF Decided, r
  <1>. QED  BY <1>1, <1>2

(***************************************************************************)
(* The steps of a comparison, as changes of its record.                    *)
(***************************************************************************)
LEMMA NothingDecided ==
  ASSUME NEW h, NEW st, NEW p, NEW t, NEW budget
  PROVE  Decided(h, st, p, t, NoResult, budget)
  <1>1. NoResult.status = "NONE"
    BY DEF NoResult
  <1>. HIDE DEF NoResult
  <1>. QED  BY <1>1 DEF Decided

(* A session that has settled nothing, and searches nothing.               *)
LEMMA NoneExact ==
  ASSUME NEW h, NEW st, NEW w, AllNone(w.results), NEW budget,
         ~w.glitched => w.missing = AllRead, w.stage \notin OnFork \/ w.purpose # "branch"
  PROVE  Exact(h, st, w, budget)
  <1>1. \A t \in Strategies : Decided(h, st, w.policy, t, w.results[t], budget)
    BY NothingDecided DEF AllNone
  <1>2. Searching(h, st, w, budget)
    BY DEF Searching
  <1>. QED  BY <1>1, <1>2 DEF Exact

(* From w to u nothing is decided, and the search is the same.             *)
Onward(u, w) ==
    /\ u.results = w.results /\ u.policy = w.policy /\ u.missing = w.missing
    /\ w.glitched => u.glitched
    /\ u.task = "compare" /\ u.stage \in OnFork /\ u.purpose = "branch" =>
          /\ w.task = "compare" /\ w.stage \in OnFork /\ w.purpose = "branch"
          /\ u.strategy = w.strategy /\ u.search = w.search

LEMMA OnwardExact ==
  ASSUME NEW h, NEW st, NEW u, NEW w, Onward(u, w), NEW budget, Exact(h, st, w, budget)
  PROVE  Exact(h, st, u, budget)
  <1>. SUFFICES ASSUME ~u.glitched PROVE Exact(h, st, u, budget)
    BY DEF Exact
  <1>1. /\ u.results = w.results /\ u.policy = w.policy /\ u.missing = w.missing
        /\ w.missing = AllRead /\ Searching(h, st, w, budget)
        /\ \A t \in Strategies : Decided(h, st, w.policy, t, w.results[t], budget)
    BY DEF Onward, Exact
  <1>2. Searching(h, st, u, budget)
    <2>1. SUFFICES ASSUME u.task = "compare", u.stage \in OnFork, u.purpose = "branch"
                   PROVE  Searching(h, st, u, budget)
      BY DEF Searching
    <2>2. /\ w.task = "compare" /\ w.stage \in OnFork /\ w.purpose = "branch"
          /\ u.strategy = w.strategy /\ u.search = w.search
      BY <2>1 DEF Onward
    <2>3. TargetOf(h, st, u) = TargetOf(h, st, w) /\ BoundFor(h, st, u) = BoundFor(h, st, w)
      BY <1>1, <2>2, SameAim
    <2>. QED  BY <1>1, <2>2, <2>3 DEF Searching
  <1>. QED  BY <1>1, <1>2 DEF Exact

LEMMA SettledExact ==
  ASSUME NEW h, NEW st, NEW w, WorkTyped(w), NEW r, NEW u, NEW budget, Exact(h, st, w, budget),
         Agree(u, w, {"results", "strategy", "stage", "outcome", "search", "verified"}),
         u.results = [w.results EXCEPT ![w.strategy] = r], u.stage \in {"assess", "close"},
         ~w.glitched => Decided(h, st, w.policy, w.strategy, r, budget)
  PROVE  Exact(h, st, u, budget)
  <1>1. u.policy = w.policy /\ u.missing = w.missing /\ u.glitched = w.glitched
    BY DEF Agree, WorkFields
  <1>2. DOMAIN w.results = Strategies
    BY DEF WorkTyped
  <1>. SUFFICES ASSUME ~w.glitched PROVE Exact(h, st, u, budget)
    BY <1>1 DEF Exact
  <1>3. ASSUME NEW t \in Strategies PROVE Decided(h, st, u.policy, t, u.results[t], budget)
    <2>1. u.results[t] = IF t = w.strategy THEN r ELSE w.results[t]
      BY <1>2
    <2>2. Decided(h, st, w.policy, t, w.results[t], budget)
      BY DEF Exact
    <2>. QED  BY <1>1, <2>1, <2>2
  <1>4. Searching(h, st, u, budget)
    BY DEF Searching, OnFork
  <1>. QED  BY <1>1, <1>3, <1>4 DEF Exact

(* A lost call leaves nothing to say.                                      *)
LEMMA MarkedExact ==
  ASSUME NEW h, NEW st, NEW x, DOMAIN x = WorkFields, x.glitched \in BOOLEAN,
         NEW failed \in BOOLEAN, NEW budget, ~failed => Exact(h, st, x, budget)
  PROVE  Exact(h, st, Marking(x, failed), budget)
  <1>1. CASE failed
    <2>1. Marking(x, failed).glitched
      BY <1>1, MarkingFields
    <2>. HIDE DEF Marking
    <2>. QED  BY <2>1 DEF Exact
  <1>2. CASE ~failed
    <2>1. Marking(x, failed) = x
      BY <1>2, MarkingFields
    <2>. QED  BY <1>2, <2>1
  <1>. QED  BY <1>1, <1>2

(* When no call was lost, a measurement is judged as the wallet deserves.  *)
LEMMA JudgedRightly ==
  ASSUME NEW h \in Holdings, NEW st \in Statics, NEW w, Sound(h, st, w), w.task = "compare",
         w.stage = "judge", Honest(w), ~w.glitched, NEW n, Expected(h, st, w, n)
  PROVE  LET passed == BranchPasses(w, ReadRisk(n.holdings, st, AllRead))
         IN  /\ w.purpose # "branch" => (passed <=> ChangePasses(h, st, w.policy))
             /\ w.purpose = "branch" =>
                   (passed <=> PassesAt(h, st, w.policy, w.strategy, TargetOf(h, st, w),
                                        AmountOf(h, st, w)))
  <1>1. w.ok
    BY DEF Honest, Sound, WorkTyped
  <1>2. PICK v \in Holdings : n.holdings = ApplyChange(v, st) /\ MovedAsPlanned(h, st, w, v)
    BY <1>1 DEF Expected
  <1>3. CASE w.purpose # "branch"
    <2>1. v = h
      BY <1>2, <1>3 DEF MovedAsPlanned
    <2>. QED  BY <1>1, <1>2, <1>3, <2>1 DEF BranchPasses, ChangePasses
  <1>4. CASE w.purpose = "branch"
    <2>. DEFINE m == TargetOf(h, st, w)
                a == AmountOf(h, st, w)
                t == w.strategy
    <2>1. HasMoved(h, v, t, m, a, MovedFrom(h, t, m, a).entered)
      BY <1>2, <1>4 DEF MovedAsPlanned
    <2>2. Feasible(h, st, w.policy, w.strategy, w.missing) # {} /\ a \in Nat
      BY <1>4, AmountFacts DEF OnFork
    <2>3. m \in Markets /\ t \in Strategies
      BY <2>2, TargetFacts DEF Sound, WorkTyped
    <2>. HIDE DEF m, a, t
    <2>4. ReadRisk(ApplyChange(v, st), st, AllRead) = ReadRisk(ApplyChange(MovedFrom(h, t, m, a), st), st, AllRead)
      BY <2>1, <2>2, <2>3, BranchRisk
    <2>. QED  BY <1>1, <1>2, <1>4, <2>4 DEF BranchPasses, PassesAt, m, a, t
  <1>. QED  BY <1>3, <1>4

LEMMA MeasureExact ==
  ASSUME Base, SessionsOK, NEW s \in Sessions, work[s].task = "compare", work[s].stage = "judge",
         work[s].purpose = "measure", NEW passed \in BOOLEAN, NEW failed \in BOOLEAN, NEW buffer,
         NEW budget, Exact(Pinned, Static, work[s], budget)
  PROVE  Exact(Pinned, Static, Marking(AfterMeasure(s, work[s], passed, buffer), failed), budget)
  <1>. DEFINE w == work[s]
              x == AfterMeasure(s, w, passed, buffer)
              p == IF s \in RaisesBuffer /\ passed THEN RaisedPolicy(w.policy, buffer) ELSE w.policy
  <1>1. DOMAIN w = WorkFields /\ w.glitched \in BOOLEAN /\ AllNone(w.results)
    BY SessionWork DEF Sound, Ordered, OnFork
  <1>2. x = [w EXCEPT !.stage = "assess", !.policy = p]
    BY DEF AfterMeasure
  <1>. HIDE DEF p, x
  <1>3. /\ DOMAIN x = WorkFields /\ x.glitched = w.glitched /\ x.results = w.results
        /\ x.stage = "assess" /\ x.missing = w.missing
    BY <1>1, <1>2 DEF WorkFields
  <1>4. ~w.glitched => w.missing = AllRead
    BY DEF Exact
  <1>. HIDE DEF w
  <1>5. Exact(Pinned, Static, x, budget)
    BY <1>1, <1>3, <1>4, NoneExact DEF OnFork
  <1>6. Exact(Pinned, Static, Marking(x, failed), budget)
    BY <1>1, <1>3, <1>5, MarkedExact
  <1>. QED  BY <1>6 DEF x, w

LEMMA ConfirmExact ==
  ASSUME Base, SessionsOK, NEW s \in Sessions, work[s].task = "compare", work[s].stage = "judge",
         work[s].purpose = "confirm", NEW passed \in BOOLEAN, NEW failed \in BOOLEAN,
         Exact(Pinned, Static, work[s], MaxProbes[s]),
         ~failed /\ ~work[s].glitched => (passed <=> ChangePasses(Pinned, Static, work[s].policy))
  PROVE  Exact(Pinned, Static, Marking(AfterConfirm(s, work[s], passed), failed), MaxProbes[s])
  <1>. DEFINE w == work[s]
              b == TargetBound(s)
              r == Result("NOT_REQUIRED", 0, b)
              budget == MaxProbes[s]
              x == AfterConfirm(s, w, passed)
  <1>1. /\ Sound(Pinned, Static, w) /\ DOMAIN w = WorkFields /\ w.glitched \in BOOLEAN
        /\ WorkTyped(w)
    BY SessionWork DEF Sound
  <1>2. Feasible(Pinned, Static, w.policy, w.strategy, w.missing) # {}
    BY <1>1 DEF Sound, Aimed, OnFork
  <1>3. b \in Nat /\ 1 <= b /\ b = BoundFor(Pinned, Static, w)
    BY <1>1, <1>2, TargetFacts, OwnTarget, SettingFacts DEF Base
  <1>4. budget \in Nat \ {0}
    BY SearchAssumption
  <1>5. CASE passed
    <2>1. x = Settle(w, r)
      BY <1>5 DEF AfterConfirm
    <2>2. r.status = "NOT_REQUIRED"
      BY DEF Result
    <2>. HIDE DEF r, x
    <2>3. /\ Agree(x, w, {"results", "strategy", "stage", "outcome"})
          /\ x.results = [w.results EXCEPT ![w.strategy] = r]
          /\ x.stage \in {"assess", "close"}
      BY <1>1, <2>1, SettleFields
    <2>4. Agree(x, w, {"results", "strategy", "stage", "outcome", "search", "verified"})
      BY <2>3, AgreeWidens
    <2>5. ~failed /\ ~w.glitched => Decided(Pinned, Static, w.policy, w.strategy, r, budget)
      BY <1>5, <2>2 DEF Decided
    <2>6. DOMAIN x = WorkFields /\ x.glitched = w.glitched
      BY <2>3 DEF Agree, WorkFields
    <2>. HIDE DEF w, budget
    <2>7. ~failed => Exact(Pinned, Static, x, budget)
      BY <1>1, <2>3, <2>4, <2>5, SettledExact DEF w, budget
    <2>8. Exact(Pinned, Static, Marking(x, failed), budget)
      BY <1>1, <2>6, <2>7, MarkedExact
    <2>. QED  BY <2>8 DEF x, w, budget
  <1>6. CASE ~passed
    <2>1. x = [w EXCEPT !.stage = "snapshot", !.purpose = "branch", !.verified = {},
                        !.search = StartSearch(1, b, MaxProbes[s])]
      BY <1>6 DEF AfterConfirm
    <2>. DEFINE q == StartSearch(1, b, MaxProbes[s])
    <2>2. q.low = 1 /\ q.high = b /\ q.found = NoAmount /\ q.probes = 0 /\ q.max = budget
      BY DEF StartSearch
    <2>. HIDE DEF q, x
    <2>3. /\ Agree(x, w, {"stage", "purpose", "verified", "search"}) /\ x.stage = "snapshot"
          /\ x.purpose = "branch" /\ x.search = q
      BY <1>1, <2>1 DEF Agree, WorkFields, q
    <2>4. /\ DOMAIN x = WorkFields /\ x.glitched = w.glitched /\ x.results = w.results
          /\ x.policy = w.policy /\ x.missing = w.missing /\ x.strategy = w.strategy
      BY <2>3 DEF Agree, WorkFields
    <2>5. TargetOf(Pinned, Static, x) = TargetOf(Pinned, Static, w)
          /\ BoundFor(Pinned, Static, x) = BoundFor(Pinned, Static, w)
      BY <2>4, SameAim
    <2>6. Narrowed(Pinned, Static, w.policy, w.strategy, TargetOf(Pinned, Static, w), q, b)
      <3>1. (q.high - q.low + 1) * 2 ^ q.probes = b
        <4>1. q.high - q.low + 1 = b /\ 2 ^ q.probes = 1
          BY <1>3, <2>2, PowerZero
        <4>2. b * 1 = b
          BY <1>3
        <4>. QED  BY <4>1, <4>2
      <3>2. 1..(q.low - 1) = {}
        BY <2>2
      <3>3. b <= b
        BY <1>3
      <3>. QED  BY <2>2, <3>1, <3>2, <3>3 DEF Narrowed
    <2>7. 0 \in Nat /\ 0 < budget
      BY <1>4
    <2>. HIDE DEF b, w, budget
    <2>8. ASSUME ~failed PROVE Exact(Pinned, Static, x, budget)
      <3>1. SUFFICES ASSUME ~w.glitched PROVE Exact(Pinned, Static, x, budget)
        BY <2>4 DEF Exact
      <3>2. ~ChangePasses(Pinned, Static, w.policy)
        BY <1>6, <2>8, <3>1 DEF w
      <3>3. w.missing = AllRead /\ \A t \in Strategies : Decided(Pinned, Static, w.policy, t, w.results[t], budget)
        BY <3>1 DEF Exact, w, budget
      <3>4. Searching(Pinned, Static, x, budget)
        BY <1>3, <2>2, <2>3, <2>4, <2>5, <2>6, <2>7, <3>2 DEF Searching
      <3>. QED  BY <2>4, <3>3, <3>4 DEF Exact
    <2>9. Exact(Pinned, Static, Marking(x, failed), budget)
      BY <1>1, <2>4, <2>8, MarkedExact
    <2>. QED  BY <2>9 DEF x, w, budget
  <1>. QED  BY <1>5, <1>6

LEMMA BranchExact ==
  ASSUME Base, SessionsOK, NEW s \in Sessions, work[s].task = "compare", work[s].stage = "judge",
         work[s].purpose = "branch", NEW passed \in BOOLEAN, NEW failed \in BOOLEAN,
         Exact(Pinned, Static, work[s], MaxProbes[s]),
         ~failed /\ ~work[s].glitched =>
            (passed <=> PassesAt(Pinned, Static, work[s].policy, work[s].strategy,
                                 TargetOf(Pinned, Static, work[s]),
                                 AmountOf(Pinned, Static, work[s])))
  PROVE  Exact(Pinned, Static, Marking(AfterBranch(s, work[s], passed), failed), MaxProbes[s])
  <1>. DEFINE w == work[s]
              a == Amount(s)
              b == TargetBound(s)
              budget == MaxProbes[s]
              verified == IF passed THEN w.verified \cup {a} ELSE w.verified
              search == Probe(w.search, passed)
              tested == [w EXCEPT !.verified = verified, !.search = search]
              atBound == FinalizeResult(tested, IF passed THEN a ELSE NoAmount, TRUE, b)
              found == FinalizeResult(tested, search.found, Complete(search), b)
              x == AfterBranch(s, w, passed)
              p == w.policy
              t == w.strategy
              m == TargetOf(Pinned, Static, w)
  <1>1. /\ Sound(Pinned, Static, w) /\ DOMAIN w = WorkFields /\ w.glitched \in BOOLEAN
        /\ WorkTyped(w) /\ p \in RiskPolicySet /\ t \in Strategies /\ DOMAIN w.results = Strategies
    BY SessionWork DEF Sound, WorkTyped
  <1>2. /\ Agree(tested, w, {"verified", "search"}) /\ tested.verified = verified
        /\ tested.search = search
    BY <1>1 DEF Agree, WorkFields
  <1>3. /\ DOMAIN tested = WorkFields /\ WorkTyped(tested)
        /\ tested.glitched = w.glitched /\ tested.results = w.results
        /\ tested.policy = p /\ tested.strategy = t /\ tested.missing = w.missing
        /\ tested.task = w.task
    <2>1. /\ DOMAIN tested = WorkFields
          /\ \A f \in WorkFields \ {"verified", "search"} : tested[f] = w[f]
      BY <1>2 DEF Agree
    <2>. HIDE DEF tested
    <2>. QED  BY <1>1, <2>1 DEF WorkTyped, WorkFields
  <1>4. /\ a = AmountOf(Pinned, Static, w) /\ b = BoundFor(Pinned, Static, w)
        /\ TestsBoundOnly(s) <=> p.goal = "MAX_SAFETY"
    BY OwnTarget
  <1>5. /\ TestsBoundOnly(s) => x = Settle(tested, atBound)
        /\ ~TestsBoundOnly(s) /\ Ended(search) => x = Settle(tested, found)
        /\ ~TestsBoundOnly(s) /\ ~Ended(search) => x = [tested EXCEPT !.stage = "snapshot"]
    BY DEF AfterBranch
  <1>6. Pinned \in Holdings /\ Static \in Statics /\ budget \in Nat \ {0}
    BY SettingFacts, SearchAssumption DEF Base
  <1>7. /\ Feasible(Pinned, Static, p, t, w.missing) # {}
        /\ w.search.low \in Nat /\ w.search.high \in Nat
        /\ 1 <= w.search.low /\ w.search.low <= w.search.high /\ w.search.high <= b
        /\ w.search.found \in w.verified \cup {NoAmount} /\ w.verified \subseteq Nat
    BY <1>1, <1>4 DEF Sound, Aimed, OnFork
  <1>8. b \in Nat /\ \A c \in 1..b : Doable(Pinned, Static, t, m, c)
    BY <1>1, <1>4, <1>6, <1>7, TargetFacts
  <1>9. w.task = "compare" /\ w.stage \in OnFork /\ w.purpose = "branch"
    BY DEF OnFork
  <1>10. \/ \E r : x = Settle(tested, r)
         \/ x = [tested EXCEPT !.stage = "snapshot"]
    BY <1>5
  <1>. HIDE DEF tested, search, x, a, b, budget, verified
  <1>11. DOMAIN x = WorkFields /\ x.glitched = w.glitched
    <2>1. ASSUME NEW r, x = Settle(tested, r) PROVE DOMAIN x = WorkFields /\ x.glitched = w.glitched
      <3>1. Agree(x, tested, {"results", "strategy", "stage", "outcome"})
        BY <1>3, <2>1, SettleFields
      <3>. QED  BY <1>3, <3>1 DEF Agree, WorkFields
    <2>2. CASE x = [tested EXCEPT !.stage = "snapshot"]
      BY <1>3, <2>2 DEF WorkFields
    <2>. HIDE DEF w
    <2>. QED  BY <1>10, <2>1, <2>2
  <1>12. ASSUME ~failed, ~w.glitched PROVE Exact(Pinned, Static, x, budget)
    <2>1. /\ w.missing = AllRead /\ ~ChangePasses(Pinned, Static, p)
          /\ w.search.max = budget /\ w.search.probes \in Nat /\ w.search.probes < budget
          /\ Narrowed(Pinned, Static, p, t, m, w.search, b)
          /\ \A v \in Strategies : Decided(Pinned, Static, p, v, w.results[v], budget)
      BY <1>4, <1>9, <1>12 DEF Exact, Searching, budget
    <2>2. m = Best(Pinned, Static, p, t, AllRead) /\ Feasible(Pinned, Static, p, t, AllRead) # {}
      BY <1>7, <2>1 DEF TargetOf
    <2>3. passed <=> PassesAt(Pinned, Static, p, t, m, a)
      BY <1>4, <1>12
    <2>. HIDE DEF w, p, t, m
    <2>4. ASSUME NEW r, x = Settle(tested, r), Decided(Pinned, Static, p, t, r, budget)
          PROVE  Exact(Pinned, Static, x, budget)
      <3>1. /\ Agree(x, tested, {"results", "strategy", "stage", "outcome"})
            /\ x.results = [tested.results EXCEPT ![tested.strategy] = r]
            /\ x.stage \in {"assess", "close"}
        BY <1>3, <2>4, SettleFields
      <3>2. x.results = [w.results EXCEPT ![t] = r] /\ x.policy = p /\ x.missing = AllRead
        BY <1>3, <2>1, <3>1 DEF Agree, WorkFields
      <3>3. ASSUME NEW v \in Strategies PROVE Decided(Pinned, Static, p, v, x.results[v], budget)
        <4>1. x.results[v] = IF v = t THEN r ELSE w.results[v]
          BY <1>1, <3>2
        <4>. QED  BY <2>1, <2>4, <4>1
      <3>4. Searching(Pinned, Static, x, budget)
        BY <3>1 DEF Searching, OnFork
      <3>. QED  BY <3>2, <3>3, <3>4 DEF Exact
    <2>5. CASE TestsBoundOnly(s)
      <3>1. p.goal = "MAX_SAFETY" /\ a = b
        BY <1>4, <2>5 DEF AmountOf, p
      <3>. DEFINE r == FinalizeResult(tested, IF passed THEN b ELSE NoAmount, TRUE, b)
      <3>2. x = Settle(tested, r)
        BY <1>5, <2>5, <3>1
      <3>3. passed => b \in tested.verified
        BY <1>2, <3>1 DEF verified
      <3>4. passed => PassesAt(Pinned, Static, p, t, Best(Pinned, Static, p, t, AllRead), b)
        BY <2>2, <2>3, <3>1
      <3>5. Decided(Pinned, Static, p, t, r, budget)
        BY <1>8, <2>1, <2>2, <3>1, <3>3, <3>4, BoundDecides
      <3>. HIDE DEF r
      <3>. QED  BY <2>4, <3>2, <3>5
    <2>6. CASE ~TestsBoundOnly(s)
      <3>1. a = Mid(w.search)
        BY <1>4, <2>6 DEF AmountOf, p
      <3>2. passed <=> PassesAt(Pinned, Static, p, t, m, Mid(w.search))
        BY <2>3, <3>1
      <3>3. /\ Narrowed(Pinned, Static, p, t, m, search, b)
            /\ search.probes = w.search.probes + 1 /\ search.max = w.search.max
            /\ search.low \in Nat /\ search.high \in Int /\ search.high <= b
            /\ search.found \in Nat \cup {w.search.found}
        <4>. DEFINE q == w.search
        <4>1. /\ q.low \in Nat /\ q.high \in Nat /\ 1 <= q.low /\ q.low <= q.high /\ q.high <= b
              /\ q.probes \in Nat /\ b \in Nat /\ Narrowed(Pinned, Static, p, t, m, q, b)
              /\ \A c \in 1..b : Doable(Pinned, Static, t, m, c)
          BY <1>7, <1>8, <2>1
        <4>2. passed <=> PassesAt(Pinned, Static, p, t, m, Mid(q))
          BY <3>2
        <4>3. search = Probe(q, passed)
          BY DEF search
        <4>. HIDE DEF q
        <4>4. p \in RiskPolicySet /\ t \in Strategies
          BY <1>1 DEF p, t
        <4>. QED  BY <1>6, <4>1, <4>2, <4>3, <4>4, ProbeNarrows DEF q
      <3>4. /\ search.probes \in Nat /\ search.probes <= budget /\ search.max = budget
            /\ search.found \in Nat \cup {NoAmount}
        BY <1>6, <1>7, <2>1, <3>3
      <3>5. search.found \in tested.verified \cup {NoAmount}
        <4>1. search.found = IF passed THEN Mid(w.search) ELSE w.search.found
          BY DEF search, Probe
        <4>2. tested.verified = IF passed THEN w.verified \cup {a} ELSE w.verified
          BY <1>2 DEF verified
        <4>. QED  BY <1>7, <3>1, <4>1, <4>2
      <3>6. CASE Ended(search)
        <4>. DEFINE r == FinalizeResult(tested, search.found, Complete(search), b)
        <4>1. x = Settle(tested, r)
          BY <1>5, <2>6, <3>6
        <4>2. Narrowed(Pinned, Static, p, t, Best(Pinned, Static, p, t, AllRead), search, b)
          BY <2>2, <3>3
        <4>3. Decided(Pinned, Static, p, t, r, budget)
          BY <1>1, <1>6, <1>8, <2>1, <2>2, <3>3, <3>4, <3>5, <3>6, <4>2, SearchDecides
        <4>. HIDE DEF r
        <4>. QED  BY <2>4, <4>1, <4>3
      <3>7. CASE ~Ended(search)
        <4>1. x = [tested EXCEPT !.stage = "snapshot"]
          BY <1>5, <2>6, <3>7
        <4>2. /\ x.results = tested.results /\ x.policy = tested.policy /\ x.missing = tested.missing
              /\ x.strategy = tested.strategy /\ x.search = tested.search
          BY <1>3, <4>1 DEF WorkFields
        <4>3. /\ x.results = w.results /\ x.policy = p /\ x.missing = w.missing /\ x.strategy = t
              /\ x.search = search
          BY <1>2, <1>3, <4>2
        <4>4. TargetOf(Pinned, Static, x) = m /\ BoundFor(Pinned, Static, x) = b
          BY <1>4, <4>3, SameAim DEF m, p, t
        <4>5. search.probes < budget
          BY <1>6, <3>4, <3>7 DEF Ended
        <4>6. Searching(Pinned, Static, x, budget)
          BY <2>1, <3>3, <3>4, <4>3, <4>4, <4>5 DEF Searching
        <4>. QED  BY <2>1, <4>3, <4>6 DEF Exact
      <3>. QED  BY <3>6, <3>7
    <2>. QED  BY <2>5, <2>6
  <1>13. ~failed => Exact(Pinned, Static, x, budget)
    BY <1>11, <1>12 DEF Exact
  <1>. HIDE DEF w
  <1>14. Exact(Pinned, Static, Marking(x, failed), budget)
    BY <1>1, <1>11, <1>13, MarkedExact
  <1>. QED  BY <1>14 DEF x, w, budget

(***************************************************************************)
(* Sessions that nobody else has worked with: what they decided is right,  *)
(* and their receipt tells what the change does to the wallet.             *)
(***************************************************************************)
ReceiptFields == {"known", "mixed", "complete", "body"}
Shaped(r) == r = NoReceipt \/ DOMAIN r = ReceiptFields

Body(h, st, env, e) == ReceiptBody(RawRisk(h, st), RawRisk(ApplyChange(h, st), st), e, env)

(* It tells of the markets that the replay read, which are all of them     *)
(* when it is complete.                                                    *)
TellsOf(h, st, env, r, missing) ==
    /\ r.complete => missing = AllRead
    /\ r.body = Body(h, st, env, Exposed(h, st, missing))

Telling(h, st, env, r) == r # NoReceipt => \E missing : TellsOf(h, st, env, r, missing)

Right(h, st, env, w, budget) == Exact(h, st, w, budget) /\ Telling(h, st, env, w.receipt)

SessionsRight ==
    \A s \in Sessions :
        /\ Shaped(work[s].receipt)
        /\ s \notin mixed => Right(Pinned, Static, setting.env, work[s], MaxProbes[s])

LEMMA OneRight ==
  ASSUME Base, SessionsRight, setting' = setting, mixed \subseteq mixed', NEW s \in Sessions,
         NEW u, work' = [work EXCEPT ![s] = u], Shaped(u.receipt),
         s \notin mixed' => \/ ~Right(Pinned, Static, setting.env, work[s], MaxProbes[s])
                            \/ Right(Pinned, Static, setting.env, u, MaxProbes[s])
  PROVE  SessionsRight'
  <1>1. Pinned' = Pinned /\ Static' = Static
    BY DEF Pinned, Static
  <1>2. work'[s] = u /\ \A t \in Sessions : t # s => work'[t] = work[t]
    BY DEF Base
  <1>. SUFFICES ASSUME NEW t \in Sessions
                PROVE  /\ Shaped(work'[t].receipt)
                       /\ t \notin mixed' =>
                             Right(Pinned, Static, setting.env, work'[t], MaxProbes[t])
    BY <1>1 DEF SessionsRight
  <1>3. CASE t = s
    BY <1>2, <1>3 DEF SessionsRight
  <1>4. CASE t # s
    BY <1>2, <1>4 DEF SessionsRight
  <1>. QED  BY <1>3, <1>4

(* Steps that decide nothing.                                              *)
Going(u, w) == Onward(u, w) /\ u.receipt = w.receipt

LEMMA MarkedGoing ==
  ASSUME NEW w, NEW x, DOMAIN x = WorkFields, x.glitched \in BOOLEAN, NEW failed \in BOOLEAN,
         Going(x, w)
  PROVE  Going(Marking(x, failed), w)
  <1>. DEFINE u == Marking(x, failed)
  <1>1. Agree(u, x, {"glitched"}) /\ (x.glitched => u.glitched)
    BY MarkingFields
  <1>. HIDE DEF u
  <1>2. /\ u.results = x.results /\ u.policy = x.policy /\ u.missing = x.missing
        /\ u.task = x.task /\ u.stage = x.stage /\ u.purpose = x.purpose
        /\ u.strategy = x.strategy /\ u.search = x.search /\ u.receipt = x.receipt
    BY <1>1 DEF Agree, WorkFields
  <1>. QED  BY <1>1, <1>2 DEF Going, Onward, u

LEMMA GoingRight ==
  ASSUME Base, SessionsRight, setting' = setting, mixed \subseteq mixed', NEW s \in Sessions,
         NEW u, work' = [work EXCEPT ![s] = u], Going(u, work[s])
  PROVE  SessionsRight'
  <1>1. u.receipt = work[s].receipt /\ Onward(u, work[s])
    BY DEF Going
  <1>2. Shaped(u.receipt)
    BY <1>1 DEF SessionsRight
  <1>3. \/ ~Right(Pinned, Static, setting.env, work[s], MaxProbes[s])
        \/ Right(Pinned, Static, setting.env, u, MaxProbes[s])
    BY <1>1, OnwardExact DEF Right
  <1>. QED  BY <1>2, <1>3, OneRight

LEMMA StepWidens ==
  ASSUME NEW s \in Sessions, NEW c \in Children, StepOn(s, c)
  PROVE  setting' = setting /\ mixed \subseteq mixed'
  BY DEF StepOn

(* A session that works on its own Anvil finds there what it expects.      *)
LEMMA OwnAnvil ==
  ASSUME SessionsOK, NEW s \in Sessions, NEW c \in Children, StepOn(s, c), s \notin mixed'
  PROVE  /\ s \notin mixed /\ Honest(work[s]) /\ Expected(Pinned, Static, work[s], node[c])
  <1>1. s \notin mixed /\ fork[s].child = c
    BY DEF StepOn
  <1>2. anvil[c].st = "serving"
    BY DEF StepOn, Answers, Serves
  <1>. QED  BY <1>1, <1>2 DEF SessionsOK, SessionOK

LEMMA BeginRight ==
  ASSUME Base, SessionsOK, SessionsRight, NEW s \in Sessions, Begin(s)
  PROVE  SessionsRight'
  <1>. DEFINE w == work[s]
  <1>1. PICK missing, stage : work' = [work EXCEPT ![s] =
             [w EXCEPT !.missing = missing, !.glitched = missing # AllRead, !.stage = stage]]
    BY DEF Begin, Base
  <1>2. setting' = setting /\ mixed' = mixed /\ w.stage = "open"
    BY DEF Begin
  <1>. DEFINE g == missing # AllRead
              u == [w EXCEPT !.missing = missing, !.glitched = g, !.stage = stage]
  <1>3. DOMAIN w = WorkFields /\ w.purpose = "measure" /\ AllNone(w.results)
    BY <1>2, SessionWork DEF Sound, Ordered
  <1>4. g \in BOOLEAN /\ (~g => missing = AllRead)
    OBVIOUS
  <1>. HIDE DEF g
  <1>5. /\ u.missing = missing /\ u.glitched = g /\ u.purpose = w.purpose
        /\ u.results = w.results /\ u.receipt = w.receipt
    BY <1>3 DEF WorkFields
  <1>6. work' = [work EXCEPT ![s] = u]
    BY <1>1 DEF g
  <1>. HIDE DEF u
  <1>7. Exact(Pinned, Static, u, MaxProbes[s])
    BY <1>3, <1>4, <1>5, NoneExact
  <1>8. \/ ~Right(Pinned, Static, setting.env, work[s], MaxProbes[s])
        \/ Right(Pinned, Static, setting.env, u, MaxProbes[s])
    BY <1>5, <1>7 DEF Right
  <1>9. Shaped(u.receipt)
    BY <1>5 DEF SessionsRight
  <1>. QED  BY <1>2, <1>6, <1>8, <1>9, OneRight

LEMMA TakeSnapshotRight ==
  ASSUME Base, SessionsOK, SessionsRight, NEW s \in Sessions, TakeSnapshot(s)
  PROVE  SessionsRight'
  <1>. DEFINE w == work[s]
              calls == IF w.purpose = "branch" THEN BranchPlan(s) ELSE <<>>
              stage == IF w.purpose = "branch" THEN "calls" ELSE "change"
  <1>1. PICK c \in Children :
          /\ StepOn(s, c)
          /\ work' = [work EXCEPT ![s] =
                        [@ EXCEPT !.snapshot = Len(node[c].snapshots) + 1, !.ok = TRUE,
                                  !.calls = calls, !.stage = stage]]
    BY DEF TakeSnapshot
  <1>. DEFINE n == Len(node[c].snapshots) + 1
              u == [w EXCEPT !.snapshot = n, !.ok = TRUE, !.calls = calls, !.stage = stage]
  <1>2. work' = [work EXCEPT ![s] = u]
    BY <1>1 DEF Base
  <1>3. DOMAIN w = WorkFields /\ w.stage \in OnFork
    BY SessionWork DEF TakeSnapshot, At, OnFork
  <1>. HIDE DEF calls, stage, n
  <1>4. /\ u.results = w.results /\ u.policy = w.policy /\ u.missing = w.missing
        /\ u.task = w.task /\ u.purpose = w.purpose /\ u.glitched = w.glitched
        /\ u.strategy = w.strategy /\ u.search = w.search /\ u.receipt = w.receipt
    BY <1>3 DEF WorkFields
  <1>. HIDE DEF u, w
  <1>5. Going(u, w)
    BY <1>3, <1>4 DEF Going, Onward
  <1>. QED  BY <1>1, <1>2, <1>5, StepWidens, GoingRight DEF w

LEMMA PlanCallRight ==
  ASSUME Base, SessionsOK, SessionsRight, NEW s \in Sessions, PlanCall(s)
  PROVE  SessionsRight'
  <1>. DEFINE w == work[s]
              dry == w.task = "dryrun"
              rest == Tail(w.calls)
              made == [w EXCEPT !.calls = rest,
                             !.stage = IF rest # <<>> THEN "calls"
                                       ELSE IF dry THEN "close" ELSE "change",
                             !.outcome = IF rest = <<>> /\ dry THEN "ok" ELSE @]
              not == [w EXCEPT !.ok = FALSE,
                             !.stage = IF dry THEN "close" ELSE "judge",
                             !.outcome = IF dry THEN "rejected" ELSE @]
  <1>1. PICK c \in Children, lost \in BOOLEAN :
                StepOn(s, c) /\ (MayFail(s, lost, made) \/ MayFail(s, lost, not))
    BY DEF PlanCall
  <1>2. DOMAIN w = WorkFields /\ w.glitched \in BOOLEAN /\ w.stage \in OnFork
    BY SessionWork DEF PlanCall, At, OnFork
  <1>. HIDE DEF rest
  <1>3. /\ DOMAIN made = WorkFields
        /\ made.results = w.results /\ made.policy = w.policy /\ made.missing = w.missing
        /\ made.task = w.task /\ made.purpose = w.purpose /\ made.glitched = w.glitched
        /\ made.strategy = w.strategy /\ made.search = w.search /\ made.receipt = w.receipt
    BY <1>2 DEF WorkFields
  <1>4. /\ DOMAIN not = WorkFields
        /\ not.results = w.results /\ not.policy = w.policy /\ not.missing = w.missing
        /\ not.task = w.task /\ not.purpose = w.purpose /\ not.glitched = w.glitched
        /\ not.strategy = w.strategy /\ not.search = w.search /\ not.receipt = w.receipt
    BY <1>2 DEF WorkFields
  <1>. HIDE DEF made, not, w
  <1>5. Going(made, w) /\ Going(not, w)
    BY <1>2, <1>3, <1>4 DEF Going, Onward
  <1>6. Going(Marking(made, lost), w) /\ Going(Marking(not, lost), w)
    BY <1>2, <1>3, <1>4, <1>5, MarkedGoing
  <1>7. work' = [work EXCEPT ![s] = Marking(made, lost)]
           \/ work' = [work EXCEPT ![s] = Marking(not, lost)]
    BY <1>1, Marks
  <1>. QED  BY <1>1, <1>6, <1>7, StepWidens, GoingRight DEF w

LEMMA ReplayChangeRight ==
  ASSUME Base, SessionsOK, SessionsRight, NEW s \in Sessions, ReplayChange(s)
  PROVE  SessionsRight'
  <1>. DEFINE w == work[s]
              x(lost) == [w EXCEPT
                            !.ok = ~lost,
                            !.stage = IF lost /\ w.task = "replay" THEN "close" ELSE "judge",
                            !.outcome = IF lost /\ w.task = "replay" THEN "error" ELSE @]
  <1>1. PICK c \in Children, lost \in BOOLEAN : StepOn(s, c) /\ MayFail(s, lost, x(lost))
    BY DEF ReplayChange
  <1>2. DOMAIN w = WorkFields /\ w.glitched \in BOOLEAN /\ w.stage \in OnFork
    BY SessionWork DEF ReplayChange, At, OnFork
  <1>. DEFINE u == x(lost)
  <1>3. /\ DOMAIN u = WorkFields
        /\ u.results = w.results /\ u.policy = w.policy /\ u.missing = w.missing
        /\ u.task = w.task /\ u.purpose = w.purpose /\ u.glitched = w.glitched
        /\ u.strategy = w.strategy /\ u.search = w.search /\ u.receipt = w.receipt
    BY <1>2 DEF WorkFields
  <1>4. work' = [work EXCEPT ![s] = Marking(u, lost)]
    BY <1>1, Marks
  <1>. HIDE DEF u, w
  <1>5. Going(u, w)
    BY <1>2, <1>3 DEF Going, Onward
  <1>6. Going(Marking(u, lost), w)
    BY <1>2, <1>3, <1>5, MarkedGoing
  <1>. QED  BY <1>1, <1>4, <1>6, StepWidens, GoingRight DEF w

LEMMA EndRight ==
  ASSUME Base, SessionsOK, SessionsRight, NEW s \in Sessions,
         Close(s) \/ OpenFails(s) \/ Throw(s)
  PROVE  SessionsRight'
  <1>. DEFINE w == work[s]
              ended == [w EXCEPT !.stage = "closed"]
  <1>1. \/ \E stage \in {"close", "closed"} :
              work' = [work EXCEPT ![s] = [w EXCEPT !.stage = stage, !.outcome = "error"]]
        \/ work' = [work EXCEPT ![s] = ended]
    BY DEF Close, OpenFails, Throw, Finished, Base
  <1>2. DOMAIN w = WorkFields
    BY SessionWork
  <1>3. setting' = setting /\ mixed \subseteq mixed'
    <2>1. CASE Close(s) \/ OpenFails(s)
      BY <2>1 DEF Close, OpenFails
    <2>2. CASE Throw(s)
      <3>1. (setting' = setting /\ mixed' = mixed) \/ \E c \in Children : StepOn(s, c)
        BY <2>2 DEF Throw
      <3>. QED  BY <3>1, StepWidens
    <2>. QED  BY <2>1, <2>2
  <1>4. ASSUME NEW stage \in {"close", "closed"}
        PROVE  Going([w EXCEPT !.stage = stage, !.outcome = "error"], w)
    <2>. DEFINE u == [w EXCEPT !.stage = stage, !.outcome = "error"]
    <2>1. /\ u.results = w.results /\ u.policy = w.policy /\ u.missing = w.missing
          /\ u.glitched = w.glitched /\ u.receipt = w.receipt /\ u.stage = stage
      BY <1>2 DEF WorkFields
    <2>2. stage \notin OnFork
      BY DEF OnFork
    <2>. HIDE DEF u, w
    <2>3. Going(u, w)
      BY <2>1, <2>2 DEF Going, Onward
    <2>. QED  BY <2>3 DEF u
  <1>5. Going(ended, w)
    <2>1. /\ ended.results = w.results /\ ended.policy = w.policy /\ ended.missing = w.missing
          /\ ended.glitched = w.glitched /\ ended.receipt = w.receipt /\ ended.stage = "closed"
      BY <1>2 DEF WorkFields
    <2>. HIDE DEF ended, w
    <2>. QED  BY <2>1 DEF Going, Onward, OnFork
  <1>. HIDE DEF ended, w
  <1>. QED  BY <1>1, <1>3, <1>4, <1>5, GoingRight DEF w

(* The market is not feasible, or a branch is begun.                       *)
LEMMA AssessRight ==
  ASSUME Base, SessionsOK, SessionsRight, NEW s \in Sessions, Assess(s)
  PROVE  SessionsRight'
  <1>. DEFINE w == work[s]
              r == Result("INFEASIBLE", NoAmount, 0)
              next == [w EXCEPT !.stage = "snapshot", !.purpose = "confirm"]
              none == Feasible(Pinned, Static, w.policy, w.strategy, w.missing) = {}
  <1>1. /\ none => work' = [work EXCEPT ![s] = Settle(w, r)]
        /\ ~none => work' = [work EXCEPT ![s] = next]
        /\ setting' = setting /\ mixed' = mixed
    BY DEF Assess
  <1>2. DOMAIN w = WorkFields /\ WorkTyped(w) /\ w.glitched \in BOOLEAN
    BY SessionWork DEF Sound
  <1>3. CASE none
    <2>. DEFINE u == Settle(w, r)
    <2>1. r.status = "INFEASIBLE" /\ r.bound = 0
      BY DEF Result
    <2>. HIDE DEF r
    <2>2. /\ Agree(u, w, {"results", "strategy", "stage", "outcome"})
          /\ u.results = [w.results EXCEPT ![w.strategy] = r] /\ u.stage \in {"assess", "close"}
      BY <1>2, SettleFields
    <2>. HIDE DEF u
    <2>3. Agree(u, w, {"results", "strategy", "stage", "outcome", "search", "verified"})
          /\ u.receipt = w.receipt
      BY <2>2 DEF Agree, WorkFields
    <2>4. ASSUME Exact(Pinned, Static, w, MaxProbes[s]) PROVE Exact(Pinned, Static, u, MaxProbes[s])
      <3>1. ASSUME ~w.glitched
            PROVE  Decided(Pinned, Static, w.policy, w.strategy, r, MaxProbes[s])
        <4>1. w.missing = AllRead
          BY <2>4, <3>1 DEF Exact
        <4>. QED  BY <1>3, <2>1, <4>1 DEF Decided
      <3>. HIDE DEF w
      <3>. QED  BY <1>2, <2>2, <2>3, <2>4, <3>1, SettledExact
    <2>5. Shaped(u.receipt)
      BY <2>3 DEF SessionsRight
    <2>6. \/ ~Right(Pinned, Static, setting.env, work[s], MaxProbes[s])
          \/ Right(Pinned, Static, setting.env, u, MaxProbes[s])
      BY <2>3, <2>4 DEF Right
    <2>7. work' = [work EXCEPT ![s] = u]
      BY <1>1, <1>3 DEF u
    <2>. QED  BY <1>1, <2>5, <2>6, <2>7, OneRight
  <1>4. CASE ~none
    <2>1. /\ next.results = w.results /\ next.policy = w.policy /\ next.missing = w.missing
          /\ next.glitched = w.glitched /\ next.receipt = w.receipt /\ next.purpose = "confirm"
      BY <1>2 DEF WorkFields
    <2>2. work' = [work EXCEPT ![s] = next]
      BY <1>1, <1>4
    <2>. HIDE DEF next, w
    <2>3. Going(next, w)
      BY <2>1 DEF Going, Onward
    <2>. QED  BY <1>1, <2>2, <2>3, GoingRight DEF w
  <1>. QED  BY <1>3, <1>4

LEMMA JudgeRight ==
  ASSUME Base, SessionsOK, SessionsRight, NEW s \in Sessions, Judge(s)
  PROVE  SessionsRight'
  <1>. DEFINE w == work[s]
  <1>1. PICK c \in Children, missing \in PositionsUnread :
          /\ StepOn(s, c)
          /\ LET risk   == ReadRisk(node[c].holdings, Static, missing)
                 passed == BranchPasses(w, risk)
             IN  MayFail(s, missing # AllRead,
                   CASE w.purpose = "measure" -> AfterMeasure(s, w, passed, risk.buffer)
                     [] w.purpose = "confirm" -> AfterConfirm(s, w, passed)
                     [] w.purpose = "branch"  -> AfterBranch(s, w, passed))
    BY DEF Judge
  <1>. DEFINE n == node[c]
              risk == ReadRisk(n.holdings, Static, missing)
              passed == BranchPasses(w, risk)
              failed == missing # AllRead
              x == CASE w.purpose = "measure" -> AfterMeasure(s, w, passed, risk.buffer)
                     [] w.purpose = "confirm" -> AfterConfirm(s, w, passed)
                     [] w.purpose = "branch"  -> AfterBranch(s, w, passed)
              u == Marking(x, failed)
  <1>2. /\ Sound(Pinned, Static, w) /\ DOMAIN w = WorkFields /\ w.stage = "judge"
        /\ w.task = "compare" /\ w.purpose \in Purposes /\ w.ok \in BOOLEAN
    BY SessionWork DEF Judge, At, Sound, WorkTyped
  <1>3. Pinned \in Holdings /\ Static \in Statics
    BY SettingFacts DEF Base
  <1>4. passed \in BOOLEAN /\ failed \in BOOLEAN
    BY <1>2 DEF BranchPasses, PolicyPasses
  <1>5. work' = [work EXCEPT ![s] = u]
    <2>1. MayFail(s, failed, x)
      BY <1>1
    <2>. HIDE DEF x, failed
    <2>. QED  BY <1>4, <2>1, Marks
  <1>6. ASSUME ~failed, s \notin mixed', ~w.glitched
        PROVE  /\ w.purpose # "branch" => (passed <=> ChangePasses(Pinned, Static, w.policy))
               /\ w.purpose = "branch" =>
                     (passed <=> PassesAt(Pinned, Static, w.policy, w.strategy,
                                          TargetOf(Pinned, Static, w), AmountOf(Pinned, Static, w)))
    <2>1. Honest(w) /\ Expected(Pinned, Static, w, n)
      BY <1>1, <1>6, OwnAnvil
    <2>2. passed = BranchPasses(w, ReadRisk(n.holdings, Static, AllRead))
      BY <1>6
    <2>. HIDE DEF w, n, passed
    <2>. QED  BY <1>2, <1>3, <1>6, <2>1, <2>2, JudgedRightly
  <1>7. x \in {AfterMeasure(s, w, passed, risk.buffer), AfterConfirm(s, w, passed),
               AfterBranch(s, w, passed)}
    BY <1>2 DEF Purposes
  <1>8. u.receipt = w.receipt
    <2>. HIDE DEF risk, passed, failed, x, w
    <2>1. Comparing(x, w)
      BY <1>2, <1>4, <1>7, MeasureCompares, ConfirmCompares, BranchCompares
    <2>2. Marking(x, failed).receipt = x.receipt
      BY <2>1 DEF Comparing, Marking, WorkFields
    <2>. HIDE DEF u
    <2>. QED  BY <2>1, <2>2 DEF Comparing, u
  <1>9. ASSUME s \notin mixed', Exact(Pinned, Static, w, MaxProbes[s])
        PROVE  Exact(Pinned, Static, u, MaxProbes[s])
    <2>1. CASE w.purpose = "measure"
      <3>1. x = AfterMeasure(s, w, passed, risk.buffer)
        BY <2>1
      <3>. HIDE DEF risk, passed, failed, x
      <3>. QED  BY <1>2, <1>4, <1>9, <2>1, <3>1, MeasureExact
    <2>2. CASE w.purpose = "confirm"
      <3>1. x = AfterConfirm(s, w, passed)
        BY <2>2
      <3>2. ~failed /\ ~w.glitched => (passed <=> ChangePasses(Pinned, Static, w.policy))
        BY <1>6, <1>9, <2>2
      <3>. HIDE DEF risk, passed, failed, x
      <3>. QED  BY <1>2, <1>4, <1>9, <2>2, <3>1, <3>2, ConfirmExact
    <2>3. CASE w.purpose = "branch"
      <3>1. x = AfterBranch(s, w, passed)
        BY <2>3
      <3>2. ~failed /\ ~w.glitched =>
               (passed <=> PassesAt(Pinned, Static, w.policy, w.strategy,
                                    TargetOf(Pinned, Static, w), AmountOf(Pinned, Static, w)))
        BY <1>6, <1>9, <2>3
      <3>. HIDE DEF risk, passed, failed, x
      <3>. QED  BY <1>2, <1>4, <1>9, <2>3, <3>1, <3>2, BranchExact
    <2>. QED  BY <1>2, <2>1, <2>2, <2>3 DEF Purposes
  <1>10. setting' = setting /\ mixed \subseteq mixed'
    BY <1>1, StepWidens
  <1>. HIDE DEF u
  <1>11. Shaped(u.receipt)
    BY <1>8 DEF SessionsRight
  <1>12. s \notin mixed' => \/ ~Right(Pinned, Static, setting.env, work[s], MaxProbes[s])
                            \/ Right(Pinned, Static, setting.env, u, MaxProbes[s])
    BY <1>8, <1>9 DEF Right
  <1>. QED  BY <1>5, <1>10, <1>11, <1>12, OneRight

LEMMA ReceiptRight ==
  ASSUME Base, SessionsOK, SessionsRight, NEW s \in Sessions, Receipt(s)
  PROVE  SessionsRight'
  <1>. DEFINE w == work[s]
              e == Exposed(Pinned, Static, w.missing)
              body(c) == ReceiptBody(RawRisk(Pinned, Static), RawRisk(node[c].holdings, Static),
                                     e, setting.env)
  <1>1. PICK c \in Children :
          /\ StepOn(s, c)
          /\ work' = [work EXCEPT ![s] =
                        [@ EXCEPT !.stage = "close", !.outcome = "ok",
                           !.receipt = [known |-> TRUE, mixed |-> FALSE,
                                        complete |-> w.missing = AllRead, body |-> body(c)]]]
    BY DEF Receipt
  <1>. DEFINE all == w.missing = AllRead
              r == [known |-> TRUE, mixed |-> FALSE, complete |-> all, body |-> body(c)]
              u == [w EXCEPT !.stage = "close", !.outcome = "ok", !.receipt = r]
  <1>2. /\ Sound(Pinned, Static, w) /\ DOMAIN w = WorkFields /\ w.stage = "judge"
        /\ w.task = "replay"
    BY SessionWork DEF Receipt, At
  <1>3. DOMAIN r = ReceiptFields /\ r.body = body(c) /\ r.complete = all
    BY DEF ReceiptFields
  <1>4. work' = [work EXCEPT ![s] = u]
    BY <1>1 DEF Base
  <1>5. s \notin mixed' => node[c].holdings = ApplyChange(Pinned, Static)
    BY <1>1, <1>2, OwnAnvil DEF Expected
  <1>6. s \notin mixed' => TellsOf(Pinned, Static, setting.env, r, w.missing)
    BY <1>3, <1>5 DEF Body, TellsOf
  <1>. HIDE DEF r, e
  <1>7. /\ u.results = w.results /\ u.policy = w.policy /\ u.missing = w.missing
        /\ u.glitched = w.glitched /\ u.receipt = r /\ u.stage = "close"
    BY <1>2 DEF WorkFields
  <1>. HIDE DEF u
  <1>8. Onward(u, w)
    BY <1>7 DEF Onward, OnFork
  <1>9. Shaped(u.receipt)
    BY <1>3, <1>7 DEF Shaped
  <1>10. s \notin mixed' => Telling(Pinned, Static, setting.env, u.receipt)
    BY <1>6, <1>7 DEF Telling
  <1>11. s \notin mixed' => \/ ~Right(Pinned, Static, setting.env, work[s], MaxProbes[s])
                            \/ Right(Pinned, Static, setting.env, u, MaxProbes[s])
    BY <1>8, <1>10, OnwardExact DEF Right
  <1>12. setting' = setting /\ mixed \subseteq mixed'
    BY <1>1, StepWidens
  <1>. QED  BY <1>4, <1>9, <1>11, <1>12, OneRight

LEMMA WorkingRight ==
  ASSUME Base, SessionsOK, SessionsRight, NEW s \in Sessions, Working(s) \/ OpenFails(s)
  PROVE  SessionsRight'
  BY BeginRight, TakeSnapshotRight, PlanCallRight, ReplayChangeRight, AssessRight, JudgeRight,
     ReceiptRight, EndRight DEF Working

(***************************************************************************)
(* Sessions that start anew, and those that stay.                          *)
(***************************************************************************)
LEMMA BlankRight ==
  ASSUME NEW w, NEW p, NEW task, NEW stage \in {"idle", "open"}, NEW calls,
         Blank(w, p, task, stage, calls), w.missing = AllRead
  PROVE  /\ Shaped(w.receipt)
         /\ \A h, st, env, budget : Right(h, st, env, w, budget)
  <1>1. AllNone(w.results) /\ w.receipt = NoReceipt /\ w.stage \notin OnFork
    BY DEF Blank, OnFork
  <1>2. \A h, st, budget : Exact(h, st, w, budget)
    BY <1>1, NoneExact
  <1>. QED  BY <1>1, <1>2 DEF Right, Telling, Shaped

LEMMA NewRight ==
  ASSUME Base, SessionsRight, setting' = setting, NEW s \in Sessions, NEW task,
         NEW stage \in {"idle", "open"}, NEW calls, NEW u,
         Blank(u, setting.policy[s], task, stage, calls), u.missing = AllRead,
         work' = [work EXCEPT ![s] = u], \A t \in Sessions : t # s /\ t \in mixed => t \in mixed'
  PROVE  SessionsRight'
  <1>1. Pinned' = Pinned /\ Static' = Static
    BY DEF Pinned, Static
  <1>2. work'[s] = u /\ \A t \in Sessions : t # s => work'[t] = work[t]
    BY DEF Base
  <1>. SUFFICES ASSUME NEW t \in Sessions
                PROVE  /\ Shaped(work'[t].receipt)
                       /\ t \notin mixed' =>
                             Right(Pinned, Static, setting.env, work'[t], MaxProbes[t])
    BY <1>1 DEF SessionsRight
  <1>3. CASE t = s
    BY <1>2, <1>3, BlankRight
  <1>4. CASE t # s
    BY <1>2, <1>4 DEF SessionsRight
  <1>. QED  BY <1>3, <1>4

LEMMA NoWorkReadsAll ==
  ASSUME NEW s
  PROVE  NoWork(s).missing = AllRead
  BY DEF NoWork

LEMMA OpenRight ==
  ASSUME Base, SessionsRight, NEW s \in Sessions, NEW task, NEW pin, NEW calls,
         Open(s, task, pin, calls)
  PROVE  SessionsRight'
  <1>. DEFINE x == NoWork(s)
              u == [x EXCEPT !.task = task, !.stage = "open", !.calls = calls]
  <1>1. Blank(x, setting.policy[s], "none", "idle", <<>>) /\ x.missing = AllRead
    BY NoWorkIsBlank, NoWorkReadsAll
  <1>2. /\ work' = [work EXCEPT ![s] = u] /\ setting' = setting
        /\ \A t \in Sessions : t # s /\ t \in mixed => t \in mixed'
    BY DEF Open
  <1>. HIDE DEF x
  <1>3. Blank(u, setting.policy[s], task, "open", calls)
    BY <1>1, OpenIsBlank
  <1>4. u.missing = AllRead
    BY <1>1 DEF Blank, WorkFields
  <1>. HIDE DEF u
  <1>. QED  BY <1>2, <1>3, <1>4, NewRight

LEMMA ForgetRight ==
  ASSUME Base, SessionsRight, NEW s \in Sessions, work' = [work EXCEPT ![s] = NoWork(s)],
         setting' = setting, mixed' = mixed
  PROVE  SessionsRight'
  <1>1. Blank(NoWork(s), setting.policy[s], "none", "idle", <<>>) /\ NoWork(s).missing = AllRead
    BY NoWorkIsBlank, NoWorkReadsAll
  <1>. HIDE DEF NoWork
  <1>. QED  BY <1>1, NewRight

LEMMA StillRight ==
  ASSUME SessionsRight, UNCHANGED <<work, mixed, setting>>
  PROVE  SessionsRight'
  BY DEF SessionsRight, Pinned, Static

LEMMA RightKept ==
  ASSUME Base, SessionsOK, SessionsRight, [Next]_vars
  PROVE  SessionsRight'
  <1>0. Job \in Sessions /\ Api \in Sessions /\ Agent \in Sessions
    BY Callers, DeskAssumption
  <1>1. ASSUME NEW s \in Sessions, ForkSteps(s) PROVE SessionsRight'
    BY <1>1, WorkingRight, StillRight DEF ForkSteps, Still
  <1>2. ASSUME SimulatorSteps PROVE SessionsRight'
    <2>1. CASE JobStarts \/ JobCompares
      <3>1. \E task, pin, calls : Open(Job, task, pin, calls)
        BY <2>1 DEF JobStarts, JobCompares
      <3>. QED  BY <1>0, <3>1, OpenRight
    <2>2. CASE JobReplayed
      BY <1>0, <2>2, ForgetRight DEF JobReplayed
    <2>3. CASE JobEnds
      BY <2>3, StillRight DEF JobEnds, agentVars, searchVars, workVars
    <2>4. CASE ForkCall
      <3>1. \E task, pin, calls : Open(Agent, task, pin, calls)
        BY <2>4 DEF ForkCall
      <3>. QED  BY <1>0, <3>1, OpenRight
    <2>5. CASE ForkReturns
      <3>1. work' = [work EXCEPT ![Agent] = NoWork(Agent)] /\ setting' = setting /\ mixed' = mixed
        BY <2>5 DEF ForkReturns
      <3>. QED  BY <1>0, <3>1, ForgetRight
    <2>6. CASE AskModel \/ ModelFails \/ AgentTimeout \/ TraceFails \/ PlainCall \/ ForkRefused
      <3>1. UNCHANGED <<work, mixed, setting>>
        BY <2>6 DEF AskModel, Answered, ModelFails, AgentTimeout, TraceFails, PlainCall,
                    ForkRefused, NoPortLeft, workVars
      <3>. QED  BY <3>1, StillRight
    <2>. QED  BY <1>2, <2>1, <2>2, <2>3, <2>4, <2>5, <2>6 DEF SimulatorSteps, AgentNext
  <1>3. ASSUME Shutdown \/ SignalReceived \/ Prepare PROVE SessionsRight'
    BY <1>3, StillRight DEF Shutdown, SignalReceived, Prepare, Still
  <1>4. ASSUME ApiDryRun PROVE SessionsRight'
    <2>1. \E task, pin, calls : Open(Api, task, pin, calls)
      BY <1>4 DEF ApiDryRun
    <2>. QED  BY <1>0, <2>1, OpenRight
  <1>5. ASSUME ApiReturns PROVE SessionsRight'
    BY <1>0, <1>5, ForgetRight DEF ApiReturns
  <1>6. ASSUME NEW s \in {Job, Api}, FindsNoPort(s) PROVE SessionsRight'
    BY <1>6, StillRight DEF FindsNoPort, NoPortLeft, workVars
  <1>7. ASSUME NEW c \in Children, ChildSteps(c) \/ ChildCrashes(c) PROVE SessionsRight'
    BY <1>7, StillRight DEF ChildSteps, ChildCrashes, BindFresh, Still
  <1>8. ASSUME UNCHANGED vars PROVE SessionsRight'
    BY <1>8, StillRight DEF vars, agentVars, searchVars, workVars
  <1>. QED
    BY <1>1, <1>2, <1>3, <1>4, <1>5, <1>6, <1>7, <1>8 DEF Next, ProcessSteps, OffspringSteps

-----------------------------------------------------------------------------
(***************************************************************************)
(* What the job and the agent keep of them.                                *)
(***************************************************************************)
ComparisonRight(c) ==
    ~c.mixed /\ ~c.glitched =>
        \A t \in Strategies : Decided(Pinned, Static, c.policy, t, c.results[t], MaxProbes[Agent])

ReceiptTells(r) ==
    Shaped(r) /\ (r # NoReceipt /\ ~r.mixed => Telling(Pinned, Static, setting.env, r))

FindingsRight ==
    ComparisonRight(agent.comparison) /\ ReceiptTells(agent.impact) /\ ReceiptTells(desk.receipt)

LEMMA CachedTells ==
  ASSUME NEW r, Shaped(r), NEW m, ~m => Telling(Pinned, Static, setting.env, r)
  PROVE  ReceiptTells(Cachable(r, m))
  <1>. DEFINE q == Cachable(r, m)
  <1>1. CASE r = NoReceipt
    <2>1. q = NoReceipt
      BY <1>1 DEF Cachable, NoReceipt
    <2>. HIDE DEF q
    <2>2. ReceiptTells(q)
      BY <2>1 DEF ReceiptTells, Shaped
    <2>. QED  BY <2>2 DEF q
  <1>2. CASE DOMAIN r = ReceiptFields
    <2>1. /\ DOMAIN q = ReceiptFields /\ q.body = r.body /\ q.complete = r.complete
          /\ q.mixed = m
      BY <1>2 DEF Cachable, ReceiptFields
    <2>2. DOMAIN NoReceipt = {"known"}
      BY DEF NoReceipt
    <2>3. r # NoReceipt
      BY <1>2, <2>2 DEF ReceiptFields
    <2>. HIDE DEF q
    <2>4. q.mixed \/ Telling(Pinned, Static, setting.env, q)
      BY <2>1, <2>3 DEF Telling, TellsOf
    <2>5. ReceiptTells(q)
      BY <2>1, <2>4 DEF ReceiptTells, Shaped
    <2>. QED  BY <2>5 DEF q
  <1>. QED  BY <1>1, <1>2 DEF Shaped

LEMMA ReturnedGlitch ==
  ASSUME NEW a, DOMAIN a = AgentFields, NEW w, NEW m, w.task # "replay"
  PROVE  Returned(a, w, m).comparison.glitched = w.glitched
  <1>. DEFINE i == IF w.task = "replay" THEN Cachable(w.receipt, m) ELSE a.impact
              n == [known |-> TRUE, results |-> w.results, policy |-> w.policy, mixed |-> m,
                    glitched |-> w.glitched]
  <1>1. n.glitched = w.glitched
    OBVIOUS
  <1>2. Returned(a, w, m) = [a EXCEPT !.impact = i, !.comparison = n]
    BY DEF Returned, AgentFields
  <1>. HIDE DEF i, n
  <1>3. [a EXCEPT !.impact = i, !.comparison = n].comparison = n
    BY DEF AgentFields
  <1>. QED  BY <1>1, <1>2, <1>3

(* Nothing is found by the other steps.                                    *)
LEMMA AgentStays ==
  ASSUME DOMAIN agent = AgentFields, [Next]_vars, ~ForkReturns
  PROVE  agent'.comparison = agent.comparison /\ agent'.impact = agent.impact
  <1>1. CASE AskModel
    <2>1. PICK reply, n : Answered(reply, n)
      BY <1>1 DEF AskModel
    <2>. QED  BY <2>1 DEF Answered, AgentFields
  <1>2. CASE ModelFails \/ AgentTimeout \/ TraceFails \/ ForkRefused
    <2>1. KeepsFindings(agent', agent)
      BY <1>2, FailsKeeps, RejectedKeeps DEF ModelFails, AgentTimeout, TraceFails, ForkRefused
    <2>. QED  BY <2>1 DEF KeepsFindings
  <1>3. CASE PlainCall
    <2>1. agent' = Rejected(agent) \/ Heard(agent', agent)
      BY <1>3, Tells DEF PlainCall, ForbiddenCall, ReadCall, CachedCall
    <2>. QED  BY <2>1, RejectedKeeps, HeardKeeps DEF KeepsFindings
  <1>4. CASE ForkCall \/ JobReplayed
    <2>1. \/ agent' = agent
          \/ agent' = [agent EXCEPT !.pc = "wait", !.forks = agent.forks + 1]
          \/ agent' = [agent EXCEPT !.pc = "ask"]
      BY <1>4 DEF ForkCall, JobReplayed, AgentFields
    <2>. QED  BY <2>1 DEF AgentFields
  <1>5. AgentNext \/ JobReplayed \/ agent' = agent
    <2>1. SimulatorSteps => AgentNext \/ JobReplayed \/ agent' = agent
      BY DEF SimulatorSteps, JobStarts, JobCompares, JobEnds, agentVars
    <2>2. ASSUME NEW s \in Sessions, ForkSteps(s) PROVE agent' = agent
      BY <2>2 DEF ForkSteps, Quiet
    <2>3. ASSUME NEW c \in Children, ChildSteps(c) \/ ChildCrashes(c) PROVE agent' = agent
      BY <2>3 DEF ChildSteps, ChildCrashes, Quiet
    <2>4. Shutdown \/ SignalReceived \/ Prepare \/ ApiDryRun \/ ApiReturns \/ UNCHANGED vars
             => agent' = agent
      BY DEF Shutdown, SignalReceived, Prepare, ApiDryRun, ApiReturns, vars, agentVars, Quiet
    <2>5. ASSUME NEW s \in {Job, Api}, FindsNoPort(s) PROVE agent' = agent
      BY <2>5 DEF FindsNoPort
    <2>. QED  BY <2>1, <2>2, <2>3, <2>4, <2>5 DEF Next, ProcessSteps, OffspringSteps
  <1>. QED  BY <1>1, <1>2, <1>3, <1>4, <1>5 DEF AgentNext

LEMMA ReceiptStays ==
  ASSUME DOMAIN desk = DeskFields, [Next]_vars, ~JobReplayed
  PROVE  desk'.receipt = desk.receipt
  <1>1. SimulatorSteps => desk' = desk \/ \E job : desk' = [desk EXCEPT !.job = job]
    BY DEF SimulatorSteps, JobStarts, JobCompares, JobEnds
  <1>2. ASSUME NEW s \in Sessions, ForkSteps(s) PROVE desk' = desk
    BY <1>2 DEF ForkSteps, Quiet
  <1>3. ASSUME NEW c \in Children, ChildSteps(c) \/ ChildCrashes(c) PROVE desk' = desk
    BY <1>3 DEF ChildSteps, ChildCrashes, Quiet
  <1>4. Shutdown \/ SignalReceived \/ UNCHANGED vars => desk' = desk
    BY DEF Shutdown, SignalReceived, vars, agentVars, Quiet
  <1>5. Prepare \/ ApiDryRun \/ ApiReturns =>
           \/ \E api : desk' = [desk EXCEPT !.api = api]
           \/ \E api, plan : desk' = [desk EXCEPT !.api = api, !.plan = plan]
    BY DEF Prepare, ApiDryRun, ApiReturns
  <1>6. ASSUME NEW s \in {Job, Api}, FindsNoPort(s)
        PROVE  \/ \E api : desk' = [desk EXCEPT !.api = api]
               \/ \E job : desk' = [desk EXCEPT !.job = job]
    BY <1>6 DEF FindsNoPort
  <1>7. \/ desk' = desk \/ \E job : desk' = [desk EXCEPT !.job = job]
        \/ \E api : desk' = [desk EXCEPT !.api = api]
        \/ \E api, plan : desk' = [desk EXCEPT !.api = api, !.plan = plan]
    BY <1>1, <1>2, <1>3, <1>4, <1>5, <1>6 DEF Next, ProcessSteps, OffspringSteps
  <1>. QED  BY <1>7 DEF DeskFields

LEMMA FindingsKept ==
  ASSUME DeskInv, SessionsRight, FindingsRight, [Next]_vars, setting' = setting
  PROVE  FindingsRight'
  <1>0. Job \in Sessions /\ Agent \in Sessions
    BY Callers, DeskAssumption
  <1>1. Pinned' = Pinned /\ Static' = Static
    BY DEF Pinned, Static
  <1>2. ComparisonRight(agent'.comparison) /\ ReceiptTells(agent'.impact)
    <2>. DEFINE w == work[Agent]
                m == Agent \in mixed
                full == Returned(agent, w, m)
    <2>1. CASE ForkReturns /\ Heard(agent', full)
      <3>1. AddsFinding(full, agent, w, m)
        BY ReturnedFields DEF DeskInv
      <3>2. w.task # "replay" => full.comparison.glitched = w.glitched
        BY ReturnedGlitch DEF DeskInv
      <3>3. Shaped(w.receipt) /\ (~m => Right(Pinned, Static, setting.env, w, MaxProbes[Agent]))
        BY <1>0 DEF SessionsRight
      <3>4. Heard(agent', full)
        BY <2>1
      <3>. HIDE DEF full, w, m
      <3>6. agent'.comparison = full.comparison /\ agent'.impact = full.impact
        BY <3>1, <3>4, HeardKeeps DEF AddsFinding
      <3>7. CASE w.task = "replay"
        <4>1. full.comparison = agent.comparison /\ full.impact = Cachable(w.receipt, m)
          BY <3>1, <3>7 DEF AddsFinding
        <4>2. ReceiptTells(Cachable(w.receipt, m))
          BY <3>3, CachedTells DEF Right
        <4>. QED  BY <3>6, <4>1, <4>2 DEF FindingsRight
      <3>8. CASE w.task # "replay"
        <4>1. /\ full.impact = agent.impact /\ full.comparison.results = w.results
              /\ full.comparison.policy = w.policy /\ full.comparison.mixed = m
              /\ full.comparison.glitched = w.glitched
          BY <3>1, <3>2, <3>8 DEF AddsFinding
        <4>2. ~m /\ ~w.glitched => \A t \in Strategies :
                 Decided(Pinned, Static, w.policy, t, w.results[t], MaxProbes[Agent])
          BY <3>3 DEF Right, Exact
        <4>3. ComparisonRight(full.comparison)
          BY <4>1, <4>2 DEF ComparisonRight
        <4>. QED  BY <3>6, <4>1, <4>3 DEF FindingsRight
      <3>. QED  BY <3>7, <3>8
    <2>2. CASE ForkReturns /\ agent' = Rejected(agent)
      <3>1. KeepsFindings(agent', agent)
        BY <2>2, RejectedKeeps DEF DeskInv
      <3>. QED  BY <3>1 DEF KeepsFindings, FindingsRight
    <2>3. CASE ~ForkReturns
      BY <2>3, AgentStays DEF DeskInv, FindingsRight
    <2>4. ForkReturns => Heard(agent', full) \/ agent' = Rejected(agent)
      BY Returns
    <2>. QED  BY <2>1, <2>2, <2>3, <2>4
  <1>3. ReceiptTells(desk'.receipt)
    <2>1. CASE JobReplayed /\ desk' = [desk EXCEPT !.job = "strategies", !.receipt = JobReceipt]
      <3>. DEFINE m == Job \in mixed
      <3>1. JobReceipt = Cachable(work[Job].receipt, m)
        BY DEF JobReceipt, Cachable
      <3>2. Shaped(work[Job].receipt)
            /\ (~m => Telling(Pinned, Static, setting.env, work[Job].receipt))
        BY <1>0 DEF SessionsRight, Right
      <3>. HIDE DEF m
      <3>3. ReceiptTells(JobReceipt)
        BY <3>1, <3>2, CachedTells
      <3>4. desk'.receipt = JobReceipt
        BY <2>1 DEF DeskInv, DeskFields
      <3>. QED  BY <3>3, <3>4
    <2>2. CASE JobReplayed /\ desk' = [desk EXCEPT !.job = "failed"]
      <3>1. desk'.receipt = desk.receipt
        BY <2>2 DEF DeskInv, DeskFields
      <3>. QED  BY <3>1 DEF FindingsRight
    <2>3. CASE ~JobReplayed
      BY <2>3, ReceiptStays DEF DeskInv, FindingsRight
    <2>. QED  BY <2>1, <2>2, <2>3 DEF JobReplayed
  <1>4. \A r : ReceiptTells(r) => ReceiptTells(r)'
    BY <1>1 DEF ReceiptTells
  <1>. QED  BY <1>1, <1>2, <1>3 DEF FindingsRight, ReceiptTells, ComparisonRight

LEMMA VerdictsStart ==
  ASSUME Init
  PROVE  SessionsRight /\ FindingsRight
  <1>1. \A s \in Sessions : work[s] = NoWork(s)
    BY DEF Init, WorkInit
  <1>2. SessionsRight
    <2>. SUFFICES ASSUME NEW s \in Sessions
                  PROVE  /\ Shaped(work[s].receipt)
                         /\ Right(Pinned, Static, setting.env, work[s], MaxProbes[s])
      BY DEF SessionsRight
    <2>1. Blank(NoWork(s), setting.policy[s], "none", "idle", <<>>) /\ NoWork(s).missing = AllRead
      BY NoWorkIsBlank, NoWorkReadsAll
    <2>. HIDE DEF NoWork
    <2>. QED  BY <1>1, <2>1, BlankRight
  <1>3. agent = NewAgent /\ desk.receipt = NoReceipt
    BY DEF Init, AgentInit
  <1>4. agent.comparison = NoComparison /\ agent.impact = NoReceipt
    BY <1>3 DEF NewAgent
  <1>5. \A t \in Strategies : agent.comparison.results[t] = NoResult
    BY <1>4 DEF NoComparison
  <1>6. ComparisonRight(agent.comparison)
    BY <1>5, NothingDecided DEF ComparisonRight
  <1>. QED  BY <1>2, <1>3, <1>4, <1>6 DEF FindingsRight, ReceiptTells, Shaped

(***************************************************************************)
(* What follows of the comparisons that somebody may use.                  *)
(***************************************************************************)
VerdictsInv == RescueInv /\ SessionsRight /\ FindingsRight

LEMMA ComparisonDecided ==
  ASSUME SessionsRight, FindingsRight, NEW x \in Comparisons, NEW t \in Strategies,
         ~x.mixed, ~x.glitched
  PROVE  Decided(Pinned, Static, x.policy, t, x.results[t], x.budget)
  <1>1. ASSUME NEW s \in Sessions,
               x = [results |-> work[s].results, policy |-> work[s].policy,
                    missing |-> work[s].missing, mixed |-> s \in mixed,
                    glitched |-> work[s].glitched, budget |-> MaxProbes[s]]
        PROVE  Decided(Pinned, Static, x.policy, t, x.results[t], x.budget)
    <2>1. /\ x.results = work[s].results /\ x.policy = work[s].policy
          /\ s \notin mixed /\ ~work[s].glitched /\ x.budget = MaxProbes[s]
      BY <1>1
    <2>. QED  BY <2>1 DEF SessionsRight, Right, Exact
  <1>2. ASSUME x = [results |-> agent.comparison.results, policy |-> agent.comparison.policy,
                    missing |-> AllRead, mixed |-> agent.comparison.mixed,
                    glitched |-> agent.comparison.glitched, budget |-> MaxProbes[Agent]]
        PROVE  Decided(Pinned, Static, x.policy, t, x.results[t], x.budget)
    <2>1. /\ x.results = agent.comparison.results /\ x.policy = agent.comparison.policy
          /\ ~agent.comparison.mixed /\ ~agent.comparison.glitched
          /\ x.budget = MaxProbes[Agent]
      BY <1>2
    <2>. QED  BY <2>1 DEF FindingsRight, ComparisonRight
  <1>. QED  BY <1>1, <1>2 DEF Comparisons

LEMMA RescuesAgrees ==
  ASSUME NEW t, NEW a, NEW p
  PROVE  Rescues(t, a, p, AllRead) <=> PassesAt(Pinned, Static, p, t, Best(Pinned, Static, p, t, AllRead), a)
  <1>1. Rescued(t, Best(Pinned, Static, p, t, AllRead), a)
          = ApplyChange(MovedFrom(Pinned, t, Best(Pinned, Static, p, t, AllRead), a), Static)
    BY MovedAgrees DEF Rescued
  <1>. QED  BY <1>1 DEF Rescues, PassesAt

LEMMA DecidedIsLeast ==
  ASSUME SessionsRight, FindingsRight
  PROVE  VerifiedIsLeast
  <1>. SUFFICES ASSUME NEW x \in Comparisons, NEW t \in Strategies,
                       x.results[t].status = "VERIFIED", ~x.mixed, ~x.glitched
                PROVE  LET r == x.results[t]
                       IN  /\ Rescues(t, r.amount, x.policy, AllRead)
                           /\ \/ x.policy.goal = "MAX_SAFETY" /\ r.amount = r.bound
                              \/ \A a \in 1..(r.amount - 1) : ~Rescues(t, a, x.policy, AllRead)
    BY DEF VerifiedIsLeast
  <1>1. Decided(Pinned, Static, x.policy, t, x.results[t], x.budget)
    BY ComparisonDecided
  <1>. QED  BY <1>1, RescuesAgrees DEF Decided, Least

LEMMA DecidedIsTrue ==
  ASSUME SessionsRight, FindingsRight
  PROVE  OtherVerdictsAreTrue
  <1>. SUFFICES ASSUME NEW x \in Comparisons, NEW t \in Strategies, ~x.mixed, ~x.glitched
                PROVE  LET r == x.results[t]
                       IN  /\ r.status = "NOT_REQUIRED" =>
                                 PolicyPasses(ReadRisk(ApplyChange(Pinned, Static), Static, AllRead), x.policy)
                           /\ r.status = "INFEASIBLE" =>
                                 IF Feasible(Pinned, Static, x.policy, t, AllRead) = {} THEN r.bound = 0
                                 ELSE x.policy.goal # "MAX_SAFETY" =>
                                         \A a \in 1..r.bound : ~Rescues(t, a, x.policy, AllRead)
                           /\ r.status = "INCOMPLETE" => ~r.planned /\ r.bound >= 2 ^ x.budget
                           /\ r.status # "REJECTED"
    BY DEF OtherVerdictsAreTrue
  <1>1. Decided(Pinned, Static, x.policy, t, x.results[t], x.budget)
    BY ComparisonDecided
  <1>. QED  BY <1>1, RescuesAgrees DEF Decided, ChangePasses

(* A change of a factor prices nothing.                                    *)
LEMMA UnknownBefore ==
  ASSUME NEW h \in Holdings, NEW st \in Statics,
         RawRisk(ApplyChange(h, st), st).status = "UNKNOWN"
  PROVE  RawRisk(h, st).liquidity = 0 /\ RawRisk(ApplyChange(h, st), st).liquidity = 0
  <1>. DEFINE v == ApplyChange(h, st)
  <1>1. v.borrowed = h.borrowed /\ v.entered = h.entered
    BY ChangeFields
  <1>. HIDE DEF v
  <1>2. Unpriced(v, st)
    BY DEF RawRisk, Classify, v
  <1>3. Unpriced(h, st)
    BY <1>1, <1>2 DEF Unpriced
  <1>4. Liquidity(v, st) = 0 /\ Liquidity(h, st) = 0
    BY <1>2, <1>3 DEF Liquidity
  <1>. QED  BY <1>4 DEF RawRisk, v

LEMMA ZeroOnly == Max({0, 0}) = 0 /\ Max({0, -0}) = 0
  BY DEF Max

LEMMA ImprovedFrom ==
  ASSUME NEW before, NEW after, MaterialRisk(before, after).classification = "IMPROVED",
         after.status = "UNKNOWN" => before.liquidity = 0 /\ after.liquidity = 0,
         after.status \in {"SHORTFALL", "UNKNOWN"}
  PROVE  before.status = "SHORTFALL"
  <1>1. CASE after.status = "SHORTFALL"
    BY <1>1 DEF MaterialRisk
  <1>2. CASE after.status = "UNKNOWN"
    <2>1. Shortfall(after) = 0 /\ Shortfall(before) = 0 /\ Surplus(after) = 0 /\ Surplus(before) = 0
      BY <1>2, ZeroOnly DEF Shortfall, Surplus
    <2>. QED  BY <2>1 DEF MaterialRisk
  <1>. QED  BY <1>1, <1>2

LEMMA SamePassing ==
  ASSUME NEW h, NEW st, NEW p, p.minBuffer = 0,
         RawRisk(ApplyChange(h, st), st).status \notin {"SHORTFALL", "UNKNOWN"}
  PROVE  ChangePasses(h, st, p)
  <1>. DEFINE v == ApplyChange(h, st)
  <1>1. ReadRisk(v, st, AllRead).status = RawRisk(v, st).status
    BY DEF ReadRisk, WithBuffer, RawRisk
  <1>. QED  BY <1>1 DEF ChangePasses, PolicyPasses

LEMMA BodyFields ==
  ASSUME NEW h, NEW st, NEW env, NEW e
  PROVE  LET body   == Body(h, st, env, e)
             before == RawRisk(h, st)
             after  == RawRisk(ApplyChange(h, st), st)
         IN  /\ body.before = before /\ body.after = after
             /\ body.material = MaterialRisk(before, after)
             /\ body.passed = PolicyPasses(after, env) /\ body.exposed = e
  <1>. DEFINE before == RawRisk(h, st)
              after  == RawRisk(ApplyChange(h, st), st)
              passed == PolicyPasses(after, env)
              material == MaterialRisk(before, after)
  <1>1. Body(h, st, env, e) = [before |-> before, after |-> after, exposed |-> e,
           material |-> material, minBuffer |-> env.minBuffer, passed |-> passed]
    BY DEF Body, ReceiptBody
  <1>. HIDE DEF before, after, passed, material
  <1>2. Body(h, st, env, e).before = before /\ Body(h, st, env, e).after = after
        /\ Body(h, st, env, e).material = material /\ Body(h, st, env, e).passed = passed
        /\ Body(h, st, env, e).exposed = e
    BY <1>1
  <1>. HIDE DEF Body
  <1>. QED  BY <1>2 DEF before, after, passed, material

LEMMA AgreesBut ==
  ASSUME NEW b, NEW c, NEW D, DOMAIN b = D, DOMAIN c = D, NEW f, NEW v,
         \A x \in D \ {f} : b[x] = c[x]
  PROVE  [b EXCEPT ![f] = v] = [c EXCEPT ![f] = v]
  <1>. DEFINE y == [b EXCEPT ![f] = v]
              z == [c EXCEPT ![f] = v]
  <1>1. y = [x \in D |-> IF x = f THEN v ELSE b[x]] /\ z = [x \in D |-> IF x = f THEN v ELSE c[x]]
    OBVIOUS
  <1>. QED  BY <1>1

LEMMA SameBut ==
  ASSUME NEW h, NEW st, NEW env, NEW e, NEW f
  PROVE  [Body(h, st, env, e) EXCEPT !.exposed = FALSE] = [Body(h, st, env, f) EXCEPT !.exposed = FALSE]
  <1>. DEFINE before == RawRisk(h, st)
              after  == RawRisk(ApplyChange(h, st), st)
              passed == PolicyPasses(after, env)
              material == MaterialRisk(before, after)
              D == {"before", "after", "exposed", "material", "minBuffer", "passed"}
  <1>1. \A g : Body(h, st, env, g) = [before |-> before, after |-> after, exposed |-> g,
           material |-> material, minBuffer |-> env.minBuffer, passed |-> passed]
    BY DEF Body, ReceiptBody
  <1>. HIDE DEF before, after, passed, material
  <1>2. \A g : /\ DOMAIN Body(h, st, env, g) = D
               /\ Body(h, st, env, g).before = before /\ Body(h, st, env, g).after = after
               /\ Body(h, st, env, g).material = material
               /\ Body(h, st, env, g).minBuffer = env.minBuffer
               /\ Body(h, st, env, g).passed = passed
    BY <1>1
  <1>. DEFINE b == Body(h, st, env, e)
              c == Body(h, st, env, f)
  <1>3. \A x \in D \ {"exposed"} : b[x] = c[x]
    BY <1>2
  <1>4. DOMAIN b = D /\ DOMAIN c = D
    BY <1>2
  <1>. HIDE DEF b, c, D
  <1>5. [b EXCEPT !["exposed"] = FALSE] = [c EXCEPT !["exposed"] = FALSE]
    BY <1>3, <1>4, AgreesBut
  <1>. QED  BY <1>5 DEF b, c

(* A market that was not read hides exposure and never makes any up.       *)
LEMMA ReadMoreExposed ==
  ASSUME NEW h, NEW st, NEW missing, Exposed(h, st, missing)
  PROVE  Exposed(h, st, AllRead)
  <1>1. AllRead.positions = {}
    BY DEF AllRead
  <1>2. Positions(h, st, missing) \subseteq Positions(h, st, AllRead)
    BY <1>1 DEF Positions, ListMarkets
  <1>. QED  BY <1>2 DEF Exposed

LEMMA TellingSame ==
  ASSUME NEW h, NEW st, NEW env, NEW r1, NEW r2, r1 # NoReceipt, r2 # NoReceipt,
         Telling(h, st, env, r1), Telling(h, st, env, r2)
  PROVE  SameProof(r1, r2)
  <1>. DEFINE x(missing) == Exposed(h, st, missing)
  <1>1. PICK missing : TellsOf(h, st, env, r1, missing)
    BY DEF Telling
  <1>2. PICK other : TellsOf(h, st, env, r2, other)
    BY DEF Telling
  <1>3. /\ r1.body = Body(h, st, env, x(missing)) /\ r1.body.exposed = x(missing)
        /\ r2.body = Body(h, st, env, x(other)) /\ r2.body.exposed = x(other)
    BY <1>1, <1>2, BodyFields DEF TellsOf
  <1>4. [r1.body EXCEPT !.exposed = FALSE] = [r2.body EXCEPT !.exposed = FALSE]
    BY <1>3, SameBut
  <1>5. (x(missing) => x(AllRead)) /\ (x(other) => x(AllRead))
    BY ReadMoreExposed
  <1>6. (r1.complete => missing = AllRead) /\ (r2.complete => other = AllRead)
    BY <1>1, <1>2 DEF TellsOf
  <1>. HIDE DEF x
  <1>. QED  BY <1>3, <1>4, <1>5, <1>6 DEF SameProof

LEMMA TellingAgrees ==
  ASSUME DeskInv, SessionsRight, FindingsRight
  PROVE  ReceiptsAgree
  <1>. DEFINE h == Pinned
              st == Static
              env == setting.env
              before == RawRisk(h, st)
              after  == RawRisk(ApplyChange(h, st), st)
              p == work[Job].policy
  <1>1. h \in Holdings /\ st \in Statics /\ Job \in Sessions
    BY SettingFacts, DeskAssumption DEF DeskInv, Base
  <1>2. p.minBuffer \in Nat
    BY <1>1, SessionWork, PolicyFields DEF DeskInv, Sound, WorkTyped
  <1>3. ASSUME desk.receipt.known, ~desk.receipt.mixed
        PROVE  Telling(h, st, env, desk.receipt) /\ desk.receipt # NoReceipt
    <2>1. desk.receipt # NoReceipt
      BY <1>3 DEF NoReceipt
    <2>. QED  BY <1>3, <2>1 DEF FindingsRight, ReceiptTells
  <1>4. ASSUME agent.impact.known, ~agent.impact.mixed
        PROVE  Telling(h, st, env, agent.impact) /\ agent.impact # NoReceipt
    <2>1. agent.impact # NoReceipt
      BY <1>4 DEF NoReceipt
    <2>. QED  BY <1>4, <2>1 DEF FindingsRight, ReceiptTells
  <1>5. ASSUME NEW t \in Strategies, desk.receipt.known, ~desk.receipt.mixed, Job \notin mixed,
               ~work[Job].glitched
        PROVE  LET r      == work[Job].results[t]
                   body   == desk.receipt.body
               IN  /\ r.status = "NOT_REQUIRED" =>
                          body.after.status \notin {"SHORTFALL", "UNKNOWN"}
                   /\ r.status = "VERIFIED" /\ body.material.classification = "IMPROVED" =>
                          body.before.status = "SHORTFALL" \/ p.minBuffer > 0
                   /\ body.passed /\ p.minBuffer = 0 /\ r.status # "NONE" =>
                          r.status = "NOT_REQUIRED" \/ r.bound = 0
    <2>. DEFINE r == work[Job].results[t]
                body == desk.receipt.body
    <2>1. PICK missing : body = Body(h, st, env, Exposed(h, st, missing))
      BY <1>3, <1>5 DEF Telling, TellsOf
    <2>2. /\ body.before = before /\ body.after = after
          /\ body.material = MaterialRisk(before, after)
          /\ body.passed = PolicyPasses(after, env)
      BY <2>1, BodyFields
    <2>3. Decided(h, st, p, t, r, MaxProbes[Job])
      BY <1>1, <1>5 DEF SessionsRight, Right, Exact
    <2>4. Proved(h, st, p, t, r)
      BY <1>1, <1>5 DEF DeskInv, SessionsOK, SessionOK, Solvent
    <2>. HIDE DEF r, body, p, h, st, env
    <2>5. ChangePasses(h, st, p) => after.status \notin {"SHORTFALL", "UNKNOWN"}
      BY PassesIsSolvent DEF ChangePasses
    <2>6. p.minBuffer = 0 /\ after.status \notin {"SHORTFALL", "UNKNOWN"} => ChangePasses(h, st, p)
      BY SamePassing
    <2>7. after.status = "UNKNOWN" => before.liquidity = 0 /\ after.liquidity = 0
      BY <1>1, UnknownBefore
    <2>. HIDE DEF before, after
    <2>8. r.status = "NOT_REQUIRED" => after.status \notin {"SHORTFALL", "UNKNOWN"}
      BY <2>3, <2>5 DEF Decided
    <2>9. ASSUME r.status = "VERIFIED", body.material.classification = "IMPROVED", p.minBuffer = 0
          PROVE  before.status = "SHORTFALL"
      <3>1. r.amount \in 1..r.bound
        BY <2>4, <2>9 DEF Proved
      <3>2. r.bound # 0
        BY <3>1
      <3>3. ~ChangePasses(h, st, p)
        BY <2>3, <2>9, <3>2 DEF Decided
      <3>4. after.status \in {"SHORTFALL", "UNKNOWN"}
        BY <2>6, <2>9, <3>3
      <3>. QED  BY <2>2, <2>7, <2>9, <3>4, ImprovedFrom
    <2>10. ASSUME body.passed, p.minBuffer = 0, r.status # "NONE"
           PROVE  r.status = "NOT_REQUIRED" \/ r.bound = 0
      <3>1. after.status \notin {"SHORTFALL", "UNKNOWN"}
        BY <2>2, <2>10 DEF PolicyPasses
      <3>2. ChangePasses(h, st, p)
        BY <2>6, <2>10, <3>1
      <3>. QED  BY <2>3, <2>10, <3>2 DEF Decided
    <2>. HIDE DEF before, after
    <2>. QED  BY <1>2, <2>2, <2>8, <2>9, <2>10 DEF r, body, p
  <1>6. ASSUME desk.receipt.known, agent.impact.known, ~desk.receipt.mixed, ~agent.impact.mixed
        PROVE  SameProof(desk.receipt, agent.impact)
    BY <1>3, <1>4, <1>6, TellingSame
  <1>. HIDE DEF p
  <1>7. ASSUME desk.receipt.known, NEW t \in Strategies
        PROVE  LET r      == work[Job].results[t]
                   body   == desk.receipt.body
                   buffer == work[Job].policy.minBuffer
               IN  ~desk.receipt.mixed /\ Job \notin mixed /\ ~work[Job].glitched =>
                    /\ r.status = "NOT_REQUIRED" =>
                          body.after.status \notin {"SHORTFALL", "UNKNOWN"}
                    /\ r.status = "VERIFIED" /\ body.material.classification = "IMPROVED" =>
                          body.before.status = "SHORTFALL" \/ buffer > 0
                    /\ body.passed /\ buffer = 0 /\ r.status # "NONE" =>
                          r.status = "NOT_REQUIRED" \/ r.bound = 0
    BY <1>5, <1>7 DEF p
  <1>. QED  BY <1>6, <1>7 DEF ReceiptsAgree

-----------------------------------------------------------------------------
(***************************************************************************)
(* The theorems.                                                           *)
(***************************************************************************)

(* What was decided from calls that were not lost, on a fork nobody else   *)
(* worked on, is right at every moment of the search, and receipts tell    *)
(* what the change does.                                                   *)
THEOREM VerdictsInvariant == Spec => []VerdictsInv
  <1>1. Init => VerdictsInv
    BY DeskStarts, AgentStarts, VerdictsStart DEF VerdictsInv, RescueInv
  <1>2. ASSUME VerdictsInv, [Next]_vars PROVE VerdictsInv'
    <2>1. DeskInv /\ Base /\ SessionsOK /\ Reports /\ AgentInv
      BY <1>2 DEF VerdictsInv, RescueInv, DeskInv
    <2>2. RescueInv'
      BY <1>2, <2>1, DeskKeeps, ReportsKept, AgentKeeps DEF RescueInv, DeskInv
    <2>3. setting' = setting
      BY <1>2, <2>1, DeskGoesOn DEF GoesOn
    <2>. QED  BY <1>2, <2>1, <2>2, <2>3, RightKept, FindingsKept DEF VerdictsInv
  <1>. QED  BY <1>1, <1>2, PTL DEF Spec

(* The amount that the search reports is the least that satisfies the      *)
(* policy, unless the policy asks for the greatest                         *)
(* (docs/PRD.md:213, strategy-engine/search.ts:14-42).                     *)
THEOREM VerifiedIsAlwaysLeast == Spec => []VerifiedIsLeast
  <1>1. VerdictsInv => VerifiedIsLeast
    BY DecidedIsLeast DEF VerdictsInv
  <1>. QED  BY <1>1, VerdictsInvariant, PTL

(* The other verdicts are true too (search.ts:167-195, 318-350).           *)
THEOREM OtherVerdictsAreAlwaysTrue == Spec => []OtherVerdictsAreTrue
  <1>1. VerdictsInv => OtherVerdictsAreTrue
    BY DecidedIsTrue DEF VerdictsInv
  <1>. QED  BY <1>1, VerdictsInvariant, PTL

(* A job's receipt and its strategies tell one story, and the receipts of  *)
(* the job and of the agent agree on all that their hash covers; what a    *)
(* market that was not read takes away is the exposure and nothing else    *)
(* (receipt.ts:92-154, replay.ts:54-97, search.ts:172-195).                *)
THEOREM ReceiptsAlwaysAgree == Spec => []ReceiptsAgree
  <1>1. VerdictsInv => ReceiptsAgree
    BY TellingAgrees DEF VerdictsInv, RescueInv
  <1>. QED  BY <1>1, VerdictsInvariant, PTL
=============================================================================
