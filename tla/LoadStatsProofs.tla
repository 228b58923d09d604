-------------------------- MODULE LoadStatsProofs --------------------------
(***************************************************************************)
(* What average and percentile say about the loads they are made of, for   *)
(* any number of loads.                                                    *)
(***************************************************************************)
EXTENDS LoadStats, FiniteSetTheorems, TLAPS

-----------------------------------------------------------------------------
(* Induction. *)

\* A set of natural numbers has a least element.
LEMMA LeastElement ==
    ASSUME NEW T \in SUBSET Nat, T # {}
    PROVE  \E m \in T : \A k \in T : m <= k
<1>1. PICK m \in T : \A k \in T : ~(<<k, m>> \in OpToRel(<, Nat))
    BY NatLessThanWellFounded, WFMin, Zenon
<1>2. \A k \in T : ~(k < m)
    BY <1>1 DEF OpToRel
<1>3. QED
    BY <1>2

\* One that contains 0, and with each number the next, contains all up to n.
LEMMA UpTo ==
    ASSUME NEW n \in Nat, NEW T, 0 \in T,
           \A i \in 0 .. n : i \in T /\ i < n => i + 1 \in T
    PROVE  \A i \in 0 .. n : i \in T
<1> DEFINE Missing == {i \in 0 .. n : i \notin T}
<1> SUFFICES ASSUME Missing # {} PROVE FALSE
    OBVIOUS
<1>1. Missing \in SUBSET Nat
    OBVIOUS
<1>2. PICK m \in Missing : \A k \in Missing : m <= k
  <2> HIDE DEF Missing
  <2> QED
    BY <1>1, LeastElement
<1>3. m - 1 \in 0 .. n /\ m - 1 \notin Missing
    BY <1>2
<1>4. QED
    BY <1>3

-----------------------------------------------------------------------------
(* Totals. *)

\* f has the sums of the first values, up to m of them.
Sums(f, values, m) ==
    /\ f \in [0 .. m -> Int]
    /\ f[0] = 0
    /\ \A i \in 1 .. m : f[i] = f[i - 1] + values[i]

LEMMA SumsExist ==
    ASSUME NEW values \in Seq(Int)
    PROVE  \E f : Sums(f, values, Len(values))
<1> DEFINE n == Len(values)
           T == {m \in 0 .. n : \E f : Sums(f, values, m)}
<1>1. 0 \in T
  <2>1. Sums([i \in 0 .. 0 |-> 0], values, 0)
    BY DEF Sums
  <2>2. QED
    BY <2>1
<1>2. ASSUME NEW m \in 0 .. n, m \in T, m < n
      PROVE  m + 1 \in T
  <2>1. PICK f : Sums(f, values, m)
    BY <1>2
  <2>2. values[m + 1] \in Int /\ m \in Nat
    BY <1>2
  <2> DEFINE g == [i \in 0 .. (m + 1) |->
                      IF i = m + 1 THEN f[m] + values[m + 1] ELSE f[i]]
  <2>3. g \in [0 .. (m + 1) -> Int]
    BY <2>1, <2>2 DEF Sums
  <2>4. g[0] = 0
    BY <2>1, <2>2 DEF Sums
  <2>5. ASSUME NEW i \in 1 .. (m + 1) PROVE g[i] = g[i - 1] + values[i]
    <3>1. i - 1 \in 0 .. (m + 1) /\ i - 1 # m + 1 /\ i \in 0 .. (m + 1)
      BY <2>2
    <3>2. g[i - 1] = f[i - 1]
      BY <3>1
    <3>3. CASE i = m + 1
      BY <3>1, <3>2, <3>3, <2>2
    <3>4. CASE i # m + 1
      BY <3>1, <3>2, <3>4, <2>1, <2>2 DEF Sums
    <3>5. QED
      BY <3>3, <3>4
  <2>6. Sums(g, values, m + 1)
    BY <2>3, <2>4, <2>5 DEF Sums
  <2>7. QED
    BY <2>6, <1>2
<1>3. n \in Nat
    OBVIOUS
<1>4. \A m \in 0 .. n : m \in T
  <2> HIDE DEF T, n
  <2> QED
    BY <1>1, <1>2, <1>3, UpTo
<1>5. n \in T
    BY <1>3, <1>4
<1>6. QED
    BY <1>5

\* Totals is what its recursive definition says.
LEMMA TotalsFunction ==
    ASSUME NEW values \in Seq(Int)
    PROVE  Sums(Totals(values), values, Len(values))
<1> DEFINE n == Len(values)
           F(h) == [i \in 0 .. Len(values) |->
                      IF i = 0 THEN 0 ELSE h[i - 1] + values[i]]
           S == Totals(values)
<1>1. PICK f : Sums(f, values, n)
    BY SumsExist
<1>2. n \in Nat
    OBVIOUS
<1>3. f = F(f)
  <2>1. \A i \in 0 .. n : i # 0 => i \in 1 .. n
    BY <1>2
  <2>2. QED
    BY <1>1, <2>1 DEF Sums
<1>4. S = F(S)
    BY <1>3, Zenon DEF Totals
<1>5. S[0] = 0 /\ \A i \in 1 .. n : S[i] = S[i - 1] + values[i]
  <2> HIDE DEF S
  <2>1. \A i \in 0 .. n : S[i] = F(S)[i]
    BY <1>4
  <2>2. QED
    BY <2>1, <1>2
<1>6. DOMAIN S = 0 .. n /\ S = [i \in 0 .. n |-> S[i]]
  <2> HIDE DEF S
  <2> QED
    BY <1>4
<1>7. \A i \in 0 .. n : S[i] \in Int
  <2> DEFINE T == {i \in 0 .. n : S[i] \in Int}
  <2> HIDE DEF S
  <2>1. 0 \in T
    BY <1>2, <1>5
  <2>2. ASSUME NEW i \in 0 .. n, i \in T, i < n PROVE i + 1 \in T
    <3>1. i + 1 \in 1 .. n /\ (i + 1) - 1 = i
      BY <2>2, <1>2
    <3>2. values[i + 1] \in Int
      BY <3>1
    <3>3. S[i + 1] = S[i] + values[i + 1]
      BY <1>5, <3>1
    <3>4. QED
      BY <2>2, <3>1, <3>2, <3>3
  <2>3. \A i \in 0 .. n : i \in T
    <3> HIDE DEF T, n
    <3> QED
      BY <2>1, <2>2, <1>2, UpTo
  <2>4. QED
    BY <2>3
<1>8. QED
  <2> HIDE DEF S
  <2>1. Sums(S, values, n)
    BY <1>5, <1>6, <1>7 DEF Sums
  <2>2. QED
    BY <2>1 DEF S

\* Of two functions on 0 .. n, f starts no higher and never climbs more.
ClimbsLess(f, g, n) ==
    /\ f \in [0 .. n -> Int]
    /\ g \in [0 .. n -> Int]
    /\ f[0] <= g[0]
    /\ \A i \in 1 .. n : f[i] - f[i - 1] <= g[i] - g[i - 1]

\* Then it ends no higher.
LEMMA Climb ==
    ASSUME NEW n \in Nat, NEW f, NEW g, ClimbsLess(f, g, n)
    PROVE  f[n] <= g[n]
<1> USE DEF ClimbsLess
<1> DEFINE T == {i \in 0 .. n : f[i] <= g[i]}
<1>1. 0 \in T
    OBVIOUS
<1>2. ASSUME NEW i \in 0 .. n, i \in T, i < n PROVE i + 1 \in T
  <2>1. i + 1 \in 1 .. n /\ (i + 1) - 1 = i /\ i + 1 \in 0 .. n
    BY <1>2
  <2>2. f[i + 1] - f[i] <= g[i + 1] - g[i]
    BY <2>1
  <2>3. f[i] <= g[i] /\ {f[i], g[i], f[i + 1], g[i + 1]} \subseteq Int
    BY <1>2, <2>1
  <2>4. QED
    BY <2>1, <2>2, <2>3
<1>3. \A i \in 0 .. n : i \in T
  <2> HIDE DEF T
  <2> QED
    BY <1>1, <1>2, UpTo
<1>4. QED
    BY <1>3

\* t for each of the first i values
Constant(t, n) == [i \in 0 .. n |-> t * i]

LEMMA ConstantClimb ==
    ASSUME NEW t \in Int, NEW n \in Nat
    PROVE  /\ Constant(t, n) \in [0 .. n -> Int]
           /\ Constant(t, n)[0] = 0
           /\ \A i \in 1 .. n : Constant(t, n)[i] - Constant(t, n)[i - 1] = t
<1>1. ASSUME NEW i \in Int PROVE t * i \in Int /\ t * i - t * (i - 1) = t
    OBVIOUS
<1>2. t * 0 = 0
    OBVIOUS
<1>3. \A i \in 1 .. n : i \in 0 .. n /\ i - 1 \in 0 .. n
    OBVIOUS
<1>4. QED
    BY <1>1, <1>2, <1>3 DEF Constant

\* The sum of values that all reach t, of values that all stay below t, and of
\* two sequences of which one is below the other everywhere
LEMMA TotalBounds ==
    ASSUME NEW values \in Seq(Int), NEW t \in Int
    PROVE  LET n == Len(values)
           IN  /\ Totals(values)[n] \in Int
               /\ (\A i \in 1 .. n : values[i] >= t) => t * n <= Totals(values)[n]
               /\ n > 0 /\ (\A i \in 1 .. n : values[i] < t) => Totals(values)[n] < t * n
<1> DEFINE n == Len(values)
           S == Totals(values)
<1>1. n \in Nat
    OBVIOUS
<1>2. Sums(S, values, n)
    BY TotalsFunction
<1> HIDE DEF S
<1>3. S \in [0 .. n -> Int] /\ S[0] = 0 /\ n \in 0 .. n
    BY <1>1, <1>2 DEF Sums
<1>4. ASSUME NEW i \in 1 .. n PROVE values[i] \in Int /\ S[i] - S[i - 1] = values[i]
  <2>1. values[i] \in Int
    OBVIOUS
  <2>2. S[i] = S[i - 1] + values[i] /\ S[i - 1] \in Int
    BY <1>1, <1>2, <1>3 DEF Sums
  <2>3. QED
    BY <2>1, <2>2
<1>5. ASSUME \A i \in 1 .. n : values[i] >= t PROVE t * n <= S[n]
  <2>1. \A i \in 1 .. n : Constant(t, n)[i] - Constant(t, n)[i - 1] <= S[i] - S[i - 1]
    BY <1>1, <1>4, <1>5, ConstantClimb
  <2>2. ClimbsLess(Constant(t, n), S, n)
    <3>1. Constant(t, n) \in [0 .. n -> Int] /\ Constant(t, n)[0] = 0
      BY <1>1, ConstantClimb, Zenon
    <3>2. Constant(t, n)[0] <= S[0]
      BY <1>3, <3>1
    <3>3. QED
      BY <1>3, <2>1, <3>1, <3>2, Zenon DEF ClimbsLess
  <2>3. Constant(t, n)[n] <= S[n]
    BY <1>1, <2>2, Climb, Zenon
  <2>4. QED
    BY <1>3, <2>3 DEF Constant
<1>6. ASSUME n > 0, \A i \in 1 .. n : values[i] < t PROVE S[n] < t * n
  <2> DEFINE u == t - 1
  <2>1. u \in Int /\ \A i \in 1 .. n : values[i] <= u
    BY <1>4, <1>6
  <2>2. u * n = t * n - n
    BY <1>1
  <2> HIDE DEF u
  <2>3. \A i \in 1 .. n : S[i] - S[i - 1] <= Constant(u, n)[i] - Constant(u, n)[i - 1]
    BY <1>1, <1>4, <2>1, ConstantClimb
  <2>4. ClimbsLess(S, Constant(u, n), n)
    <3>1. Constant(u, n) \in [0 .. n -> Int] /\ Constant(u, n)[0] = 0
      BY <1>1, <2>1, ConstantClimb, Zenon
    <3>2. S[0] <= Constant(u, n)[0]
      BY <1>3, <3>1
    <3>3. QED
      BY <1>3, <2>3, <3>1, <3>2, Zenon DEF ClimbsLess
  <2>5. S[n] <= Constant(u, n)[n]
    BY <1>1, <2>4, Climb, Zenon
  <2>6. S[n] <= u * n
    BY <1>3, <2>5 DEF Constant
  <2>7. QED
    BY <1>1, <1>3, <1>6, <2>2, <2>6
<1>7. QED
    BY <1>3, <1>5, <1>6 DEF S

\* Values that are higher everywhere have a higher sum.
LEMMA TotalsMonotone ==
    ASSUME NEW values \in Seq(Int), NEW others \in Seq(Int),
           Len(others) = Len(values),
           \A i \in 1 .. Len(values) : values[i] <= others[i]
    PROVE  Totals(values)[Len(values)] <= Totals(others)[Len(others)]
<1> DEFINE n == Len(values)
           S == Totals(values)
           R == Totals(others)
<1>1. n \in Nat /\ \A i \in 1 .. n : values[i] \in Int /\ others[i] \in Int
    OBVIOUS
<1>2. Sums(S, values, n) /\ Sums(R, others, n)
    BY TotalsFunction
<1> HIDE DEF S, R
<1>3. \A i \in 1 .. n : S[i] - S[i - 1] <= R[i] - R[i - 1]
  <2> SUFFICES ASSUME NEW i \in 1 .. n PROVE S[i] - S[i - 1] <= R[i] - R[i - 1]
    OBVIOUS
  <2>1. S[i] = S[i - 1] + values[i] /\ R[i] = R[i - 1] + others[i]
    BY <1>2 DEF Sums
  <2>2. S[i - 1] \in Int /\ R[i - 1] \in Int
    <3>1. i - 1 \in 0 .. n
      BY <1>1
    <3>2. QED
      BY <1>2, <3>1 DEF Sums
  <2>3. QED
    BY <1>1, <2>1, <2>2
<1>4. ClimbsLess(S, R, n)
    BY <1>2, <1>3 DEF ClimbsLess, Sums
<1>5. S[n] <= R[n]
    BY <1>1, <1>4, Climb, Zenon
<1>6. QED
    BY <1>5 DEF S, R

\* What an exchange of two values leaves as it is
LEMMA ExchangedValues ==
    ASSUME NEW values \in Seq(Int), NEW i \in DOMAIN values, NEW j \in DOMAIN values
    PROVE  /\ Exchanged(values, i, j) \in Seq(Int)
           /\ values \in Seq(Nat) => Exchanged(values, i, j) \in Seq(Nat)
           /\ Len(Exchanged(values, i, j)) = Len(values)
           /\ \A k \in 1 .. Len(values) :
                 Exchanged(values, i, j)[k] =
                    IF k = j THEN values[i] ELSE IF k = i THEN values[j] ELSE values[k]
BY DEF Exchanged

\* The order of the values does not matter to their sum.
LEMMA TotalsExchange ==
    ASSUME NEW values \in Seq(Int), NEW i \in DOMAIN values, NEW j \in DOMAIN values
    PROVE  Totals(values)[Len(values)] <= Totals(Exchanged(values, i, j))[Len(values)]
<1> DEFINE n == Len(values)
           exch == Exchanged(values, i, j)
           S == Totals(values)
           R == Totals(exch)
           gain == values[j] - values[i]
           gains == [k \in 0 .. n |-> (IF i <= k THEN gain ELSE 0)
                                         - (IF j <= k THEN gain ELSE 0)]
           G == [k \in 0 .. n |-> S[k] + gains[k]]
<1>1. n \in Nat /\ i \in 1 .. n /\ j \in 1 .. n /\ gain \in Int
      /\ \A k \in 1 .. n : values[k] \in Int
    OBVIOUS
<1>2. /\ exch \in Seq(Int)
      /\ Len(exch) = n
      /\ \A k \in 1 .. n : exch[k] = IF k = j THEN values[i]
                                     ELSE IF k = i THEN values[j] ELSE values[k]
    BY ExchangedValues
<1>3. Sums(S, values, n) /\ Sums(R, exch, n)
    BY <1>2, TotalsFunction
<1> HIDE DEF S, R, exch
<1>4. S \in [0 .. n -> Int] /\ R \in [0 .. n -> Int] /\ S[0] = 0 /\ R[0] = 0
    BY <1>3 DEF Sums
<1>5. /\ gains \in [0 .. n -> Int] /\ gains[0] = 0 /\ gains[n] = 0
      /\ \A k \in 1 .. n :
            exch[k] = values[k] + (gains[k] - gains[k - 1])
  <2>1. gains \in [0 .. n -> Int] /\ gains[0] = 0 /\ gains[n] = 0
    BY <1>1
  <2>2. ASSUME NEW k \in 1 .. n
        PROVE  gains[k] - gains[k - 1] = (IF k = i THEN gain ELSE 0)
                                            - (IF k = j THEN gain ELSE 0)
    <3>1. k \in 0 .. n /\ k - 1 \in 0 .. n
      BY <1>1
    <3>2. QED
      BY <1>1, <3>1
  <2>3. ASSUME NEW k \in 1 .. n
        PROVE  exch[k] = values[k] + ((IF k = i THEN gain ELSE 0)
                                         - (IF k = j THEN gain ELSE 0))
    BY <1>1, <1>2
  <2>4. QED
    BY <2>1, <2>2, <2>3
<1> HIDE DEF gain, gains
<1>6. G \in [0 .. n -> Int] /\ G[0] = 0 /\ G[n] = S[n]
  <2>1. n \in 0 .. n /\ 0 \in 0 .. n
    BY <1>1
  <2>2. \A k \in 0 .. n : S[k] \in Int /\ gains[k] \in Int
    BY <1>4, <1>5
  <2> HIDE DEF n
  <2>3. QED
    BY <1>4, <1>5, <2>1, <2>2
<1>7. \A k \in 1 .. n : G[k] - G[k - 1] <= R[k] - R[k - 1]
  <2> SUFFICES ASSUME NEW k \in 1 .. n PROVE G[k] - G[k - 1] <= R[k] - R[k - 1]
    OBVIOUS
  <2>1. R[k] = R[k - 1] + exch[k] /\ S[k] = S[k - 1] + values[k]
    BY <1>3 DEF Sums
  <2>2. k \in 0 .. n /\ k - 1 \in 0 .. n
    BY <1>1
  <2>3. /\ S[k - 1] \in Int /\ R[k - 1] \in Int /\ values[k] \in Int
        /\ gains[k] \in Int /\ gains[k - 1] \in Int
    BY <1>1, <1>4, <1>5, <2>2
  <2>4. G[k] = S[k] + gains[k] /\ G[k - 1] = S[k - 1] + gains[k - 1]
    BY <2>2
  <2>5. exch[k] = values[k] + (gains[k] - gains[k - 1])
    BY <1>5
  <2> HIDE DEF G, n
  <2>6. exch[k] \in Int
    BY <2>3, <2>5
  <2>7. R[k] - R[k - 1] = exch[k]
    BY <2>1, <2>3, <2>6
  <2>8. G[k] - G[k - 1] = exch[k]
    BY <2>1, <2>3, <2>4, <2>5
  <2>9. QED
    BY <2>6, <2>7, <2>8
<1>8. ClimbsLess(G, R, n)
  <2> HIDE DEF G, n
  <2> QED
    BY <1>4, <1>6, <1>7 DEF ClimbsLess
<1>9. G[n] <= R[n]
  <2> HIDE DEF G, n
  <2> QED
    BY <1>1, <1>8, Climb, Zenon
<1>10. QED
    BY <1>6, <1>9 DEF S, R, exch

-----------------------------------------------------------------------------
(* Counting. *)

LEMMA UpToCount ==
    ASSUME NEW n \in Nat
    PROVE  IsFiniteSet(1 .. n) /\ Cardinality(1 .. n) = n
<1>1. IsFiniteSet(1 .. n) /\ Cardinality(1 .. n) = IF 1 > n THEN 0 ELSE n - 1 + 1
    BY FS_Interval, 1 \in Int, n \in Int, Zenon
<1>2. QED
    BY <1>1

\* A set of places in a sequence is finite; the others are the rest.
LEMMA Places ==
    ASSUME NEW values \in Seq(Nat), NEW I \in SUBSET DOMAIN values
    PROVE  /\ Cardinality(I) \in 0 .. Len(values)
           /\ Cardinality(DOMAIN values \ I) = Len(values) - Cardinality(I)
           /\ \A J \in SUBSET I : Cardinality(J) <= Cardinality(I)
<1>1. DOMAIN values = 1 .. Len(values) /\ Len(values) \in Nat
    OBVIOUS
<1>2. IsFiniteSet(DOMAIN values) /\ Cardinality(DOMAIN values) = Len(values)
    BY <1>1, UpToCount, Zenon
<1>3. IsFiniteSet(I) /\ Cardinality(I) <= Len(values)
    BY <1>2, FS_Subset
<1>4. Cardinality(I) \in Nat
    BY <1>3, FS_CardinalityType
<1>5. Cardinality(DOMAIN values \ I)
        = Cardinality(DOMAIN values) - Cardinality(DOMAIN values \cap I)
    BY <1>2, FS_Difference
<1>6. DOMAIN values \cap I = I
    OBVIOUS
<1>7. \A J \in SUBSET I : Cardinality(J) <= Cardinality(I)
    BY <1>3, FS_Subset
<1>8. Cardinality(I) \in 0 .. Len(values)
    BY <1>1, <1>3, <1>4
<1>9. QED
    BY <1>2, <1>5, <1>6, <1>7, <1>8, Zenon

\* Some place has a greatest value.
LEMMA GreatestValue ==
    ASSUME NEW values \in Seq(Nat), NEW I \in SUBSET DOMAIN values, I # {}
    PROVE  \E j \in I : \A i \in I : values[i] <= values[j]
<1> DEFINE n == Len(values)
           Seen(m) == {i \in I : i <= m}
           T == {m \in 0 .. n : \/ Seen(m) = {}
                                \/ \E j \in Seen(m) : \A i \in Seen(m) :
                                       values[i] <= values[j]}
<1>1. n \in Nat /\ \A i \in I : i \in 1 .. n /\ values[i] \in Nat
    OBVIOUS
<1>2. 0 \in T
    BY <1>1
<1>3. ASSUME NEW m \in 0 .. n, m \in T, m < n PROVE m + 1 \in T
  <2>1. Seen(m + 1) = IF m + 1 \in I THEN Seen(m) \cup {m + 1} ELSE Seen(m)
    BY <1>1, <1>3
  <2>2. m + 1 \in 0 .. n
    BY <1>1, <1>3
  <2>3. CASE m + 1 \notin I
    BY <1>3, <2>1, <2>2, <2>3
  <2>4. CASE m + 1 \in I /\ Seen(m) = {}
    <3>1. Seen(m + 1) = {m + 1}
      BY <2>1, <2>4
    <3>2. \A i \in Seen(m + 1) : values[i] <= values[m + 1]
      BY <1>1, <2>4, <3>1
    <3>3. QED
      BY <2>2, <3>1, <3>2
  <2>5. CASE m + 1 \in I /\ Seen(m) # {}
    <3>1. PICK j \in Seen(m) : \A i \in Seen(m) : values[i] <= values[j]
      BY <1>3, <2>5
    <3>2. Seen(m + 1) = Seen(m) \cup {m + 1}
      BY <2>1, <2>5
    <3>3. /\ values[m + 1] \in Nat
          /\ \A i \in Seen(m) : values[i] \in Nat
      BY <1>1, <2>5
    <3> HIDE DEF Seen
    <3>4. CASE values[m + 1] <= values[j]
      <4>1. j \in Seen(m + 1) /\ \A i \in Seen(m + 1) : values[i] <= values[j]
        BY <3>1, <3>2, <3>4
      <4>2. QED
        BY <2>2, <4>1
    <3>5. CASE values[j] <= values[m + 1]
      <4>1. m + 1 \in Seen(m + 1) /\ \A i \in Seen(m + 1) : values[i] <= values[m + 1]
        BY <3>1, <3>2, <3>3, <3>5
      <4>2. QED
        BY <2>2, <4>1
    <3>6. QED
      BY <3>1, <3>3, <3>4, <3>5
  <2>6. QED
    BY <2>3, <2>4, <2>5
<1>4. \A m \in 0 .. n : m \in T
  <2> HIDE DEF T, n
  <2> QED
    BY <1>1, <1>2, <1>3, UpTo
<1>5. Seen(n) = I /\ n \in 0 .. n
    BY <1>1
<1>6. QED
    BY <1>4, <1>5

\* v is the value at place k of the sorted values.
Ranked(values, k, v) ==
    /\ v \in Range(values)
    /\ Cardinality(Below(values, v)) < k
    /\ k <= Cardinality(AtOrBelow(values, v))

\* There is one for each place: the least value that enough values do not exceed.
LEMMA RankedExists ==
    ASSUME NEW values \in Seq(Nat), NEW k \in DOMAIN values
    PROVE  \E v : Ranked(values, k, v)
<1> DEFINE Enough == {v \in Range(values) : k <= Cardinality(AtOrBelow(values, v))}
<1>1. /\ k \in 1 .. Len(values) /\ k \in Nat /\ k >= 1
      /\ DOMAIN values # {}
      /\ Range(values) \in SUBSET Nat
    BY DEF Range
<1>2. Enough # {}
  <2>1. PICK j \in DOMAIN values : \A i \in DOMAIN values : values[i] <= values[j]
    BY <1>1, GreatestValue
  <2>2. AtOrBelow(values, values[j]) = DOMAIN values
    BY <2>1 DEF AtOrBelow
  <2>3. Cardinality(DOMAIN values) = Len(values)
    <3>1. DOMAIN values = 1 .. Len(values) /\ Len(values) \in Nat
      OBVIOUS
    <3>2. QED
      BY <3>1, UpToCount, Zenon
  <2>4. values[j] \in Enough
    BY <1>1, <2>2, <2>3 DEF Range
  <2>5. QED
    BY <2>4
<1>3. PICK v \in Enough : \A w \in Enough : v <= w
  <2>1. Enough \in SUBSET Nat
    BY <1>1
  <2> HIDE DEF Enough
  <2>2. QED
    BY <1>2, <2>1, LeastElement
<1>4. Cardinality(Below(values, v)) < k
  <2> SUFFICES ASSUME ~(Cardinality(Below(values, v)) < k) PROVE FALSE
    OBVIOUS
  <2>1. Below(values, v) \in SUBSET DOMAIN values
    BY DEF Below
  <2>2. Cardinality(Below(values, v)) \in Nat
    <3>1. Cardinality(Below(values, v)) \in 0 .. Len(values)
      BY <2>1, Places, Zenon
    <3>2. QED
      BY <3>1
  <2>3. Below(values, v) # {}
    <3>1. SUFFICES ASSUME Below(values, v) = {} PROVE FALSE
      OBVIOUS
    <3>2. Cardinality(Below(values, v)) = 0
      BY <3>1, FS_EmptySet
    <3>3. QED
      BY <1>1, <3>2
  <2>4. PICK j \in Below(values, v) :
            \A i \in Below(values, v) : values[i] <= values[j]
    BY <2>1, <2>3, GreatestValue
  <2>5. /\ j \in DOMAIN values /\ values[j] < v /\ values[j] \in Nat /\ v \in Nat
        /\ \A i \in DOMAIN values : values[i] \in Nat
    BY <1>1, <1>3, <2>4 DEF Below
  <2>6. AtOrBelow(values, values[j]) = Below(values, v)
    BY <2>4, <2>5 DEF AtOrBelow, Below
  <2>7. values[j] \in Enough
    BY <1>1, <2>2, <2>5, <2>6 DEF Range
  <2>8. QED
    BY <1>3, <2>5, <2>7
<1>5. QED
    BY <1>3, <1>4 DEF Ranked

LEMMA AscendingRanked ==
    ASSUME NEW values \in Seq(Nat)
    PROVE  /\ Ascending(values) \in Seq(Nat)
           /\ Len(Ascending(values)) = Len(values)
           /\ \A k \in DOMAIN values : /\ Ascending(values)[k] \in Nat
                                       /\ Ranked(values, k, Ascending(values)[k])
<1>1. ASSUME NEW k \in DOMAIN values
      PROVE  Ranked(values, k, Ascending(values)[k])
  <2>1. PICK v : Ranked(values, k, v)
    BY RankedExists
  <2>2. Ranked(values, k, CHOOSE w \in Range(values) :
                             /\ Cardinality(Below(values, w)) < k
                             /\ k <= Cardinality(AtOrBelow(values, w)))
    BY <2>1, Zenon DEF Ranked
  <2>3. QED
    BY <2>2 DEF Ascending
<1>2. Range(values) \subseteq Nat
    BY DEF Range
<1>3. \A k \in DOMAIN values : Ascending(values)[k] \in Nat
    BY <1>1, <1>2 DEF Ranked
<1>4. DOMAIN Ascending(values) = 1 .. Len(values) /\ Len(values) \in Nat
    BY DEF Ascending
<1>5. Ascending(values) \in [1 .. Len(values) -> Nat]
  <2>1. Ascending(values) = [k \in DOMAIN values |-> Ascending(values)[k]]
    BY DEF Ascending
  <2>2. QED
    BY <1>3, <2>1
<1>6. QED
    BY <1>1, <1>3, <1>4, <1>5

\* Of two sequences of the same length, the one that has no more values up to
\* any bound has the higher value at every place, once they are sorted.
LEMMA AscendingMonotone ==
    ASSUME NEW values \in Seq(Nat), NEW others \in Seq(Nat),
           Len(others) = Len(values),
           \A v \in Nat : Cardinality(AtOrBelow(others, v))
                            <= Cardinality(AtOrBelow(values, v)),
           NEW k \in DOMAIN values
    PROVE  Ascending(values)[k] <= Ascending(others)[k]
<1> DEFINE v == Ascending(values)[k]
           w == Ascending(others)[k]
<1>1. /\ v \in Nat /\ Ranked(values, k, v)
      /\ w \in Nat /\ Ranked(others, k, w)
    BY AscendingRanked
<1> HIDE DEF v, w
<1>2. SUFFICES ASSUME w < v PROVE FALSE
    BY <1>1 DEF v, w
<1>3. /\ AtOrBelow(values, w) \in SUBSET Below(values, v)
      /\ Below(values, v) \in SUBSET DOMAIN values
      /\ AtOrBelow(values, w) \in SUBSET DOMAIN values
      /\ AtOrBelow(others, w) \in SUBSET DOMAIN others
  <2>1. \A i \in DOMAIN values : values[i] \in Nat
    OBVIOUS
  <2>2. QED
    BY <1>1, <1>2, <2>1 DEF AtOrBelow, Below
<1>4. /\ Cardinality(AtOrBelow(values, w)) <= Cardinality(Below(values, v))
      /\ Cardinality(Below(values, v)) \in 0 .. Len(values)
      /\ Cardinality(AtOrBelow(values, w)) \in 0 .. Len(values)
      /\ Cardinality(AtOrBelow(others, w)) \in 0 .. Len(values)
    BY <1>3, Places, Zenon
<1>5. k \in Int /\ Len(values) \in Nat
    OBVIOUS
<1>6. Cardinality(AtOrBelow(others, w)) <= Cardinality(AtOrBelow(values, w))
    BY <1>1
<1>7. Cardinality(Below(values, v)) < k /\ k <= Cardinality(AtOrBelow(others, w))
    BY <1>1 DEF Ranked
<1>8. QED
    BY <1>4, <1>5, <1>6, <1>7

\* Ascending sorts.
LEMMA AscendingSorted ==
    ASSUME NEW values \in Seq(Nat), NEW k \in DOMAIN values, NEW l \in DOMAIN values,
           k <= l
    PROVE  Ascending(values)[k] <= Ascending(values)[l]
<1> DEFINE v == Ascending(values)[k]
           w == Ascending(values)[l]
<1>1. /\ v \in Nat /\ Ranked(values, k, v)
      /\ w \in Nat /\ Ranked(values, l, w)
    BY AscendingRanked
<1> HIDE DEF v, w
<1>2. SUFFICES ASSUME w < v PROVE FALSE
    BY <1>1 DEF v, w
<1>3. /\ AtOrBelow(values, w) \in SUBSET Below(values, v)
      /\ Below(values, v) \in SUBSET DOMAIN values
      /\ AtOrBelow(values, w) \in SUBSET DOMAIN values
  <2>1. \A i \in DOMAIN values : values[i] \in Nat
    OBVIOUS
  <2>2. QED
    BY <1>1, <1>2, <2>1 DEF AtOrBelow, Below
<1>4. /\ Cardinality(AtOrBelow(values, w)) <= Cardinality(Below(values, v))
      /\ Cardinality(Below(values, v)) \in 0 .. Len(values)
      /\ Cardinality(AtOrBelow(values, w)) \in 0 .. Len(values)
    BY <1>3, Places, Zenon
<1>5. k \in Int /\ l \in Int /\ Len(values) \in Nat
    OBVIOUS
<1>6. Cardinality(Below(values, v)) < k /\ l <= Cardinality(AtOrBelow(values, w))
    BY <1>1 DEF Ranked
<1>7. QED
    BY <1>4, <1>5, <1>6

-----------------------------------------------------------------------------
(* Percentiles. *)

\* The position between the loads: its whole part and its percents
LEMMA Position ==
    ASSUME NEW n \in Nat, n > 0, NEW p \in 0 .. 100
    PROVE  LET pos   == p * (n - 1)
               lower == pos \div 100
               weight == pos % 100
           IN  /\ pos \in Nat /\ lower \in Nat /\ weight \in 0 .. 99
               /\ lower + 1 <= n
               /\ weight > 0 => lower + 2 <= n
               /\ (pos + 99) \div 100 = IF weight = 0 THEN lower ELSE lower + 1
<1> DEFINE pos == p * (n - 1)
<1>1. pos \in Nat /\ pos <= 100 * (n - 1)
  <2>1. n - 1 \in Nat
    OBVIOUS
  <2>2. ASSUME NEW m \in Nat PROVE p * m \in Nat /\ p * m <= 100 * m
    OBVIOUS
  <2>3. QED
    BY <2>1, <2>2
<1> HIDE DEF pos
<1> DEFINE lower == pos \div 100
           weight == pos % 100
<1>2. lower = pos \div 100 /\ weight = pos % 100
    OBVIOUS
<1>3. (pos + 99) \div 100 = IF weight = 0 THEN lower ELSE lower + 1
    BY <1>1
<1> HIDE DEF lower, weight
<1>4. lower \in Nat /\ weight \in 0 .. 99 /\ pos = 100 * lower + weight
    BY <1>1, <1>2
<1>5. lower + 1 <= n /\ (weight > 0 => lower + 2 <= n)
    BY <1>1, <1>4
<1>6. QED
    BY <1>1, <1>3, <1>4, <1>5 DEF pos, lower, weight

\* The mean of two numbers, one of them not below the other, lies between them
\* and grows with both.
LEMMA Between ==
    ASSUME NEW a \in Nat, NEW b \in Nat, a <= b, NEW w \in 0 .. 99
    PROVE  /\ a * (100 - w) + b * w \in Nat
           /\ a * 100 <= a * (100 - w) + b * w
           /\ a * (100 - w) + b * w <= b * 100
           /\ w = 0 => a * (100 - w) + b * w = a * 100
           /\ \A c, d \in Nat : a <= c /\ b <= d =>
                 a * (100 - w) + b * w <= c * (100 - w) + d * w
<1>1. a * w <= b * w /\ a * (100 - w) <= b * (100 - w)
    OBVIOUS
<1>2. /\ a * 100 = a * (100 - w) + a * w /\ b * 100 = b * (100 - w) + b * w
      /\ a * (100 - w) \in Nat /\ b * w \in Nat /\ a * w \in Nat /\ b * (100 - w) \in Nat
    OBVIOUS
<1>3. w = 0 => a * (100 - w) = a * 100 /\ b * w = 0
    OBVIOUS
<1>4. ASSUME NEW c \in Nat, NEW d \in Nat, a <= c, b <= d
      PROVE  a * (100 - w) + b * w <= c * (100 - w) + d * w
  <2>1. a * (100 - w) <= c * (100 - w) /\ b * w <= d * w
    BY <1>4
  <2>2. {a * (100 - w), c * (100 - w), b * w, d * w} \subseteq Nat
    OBVIOUS
  <2>3. QED
    BY <2>1, <2>2
<1>5. QED
    BY <1>1, <1>2, <1>3, <1>4

\* The percentile against the sorted loads next to its position
LEMMA PercentileValue ==
    ASSUME NEW values \in Seq(Nat), values # <<>>, NEW p \in 0 .. 100
    PROVE  LET n      == Len(values)
               sorted == Ascending(values)
               lower  == (p * (n - 1)) \div 100
               upper  == (p * (n - 1) + 99) \div 100
               result == Percentile(values, p)
           IN  /\ lower + 1 \in DOMAIN values /\ upper + 1 \in DOMAIN values
               /\ result.num \in Nat /\ result.den \in {1, 100}
               /\ sorted[lower + 1] * result.den <= result.num
               /\ result.num <= sorted[upper + 1] * result.den
<1> DEFINE n == Len(values)
           sorted == Ascending(values)
           pos == p * (n - 1)
           lower == pos \div 100
           upper == (pos + 99) \div 100
           weight == pos % 100
           a == sorted[lower + 1]
           b == sorted[lower + 2]
           result == Percentile(values, p)
<1>1. n \in Nat /\ n > 0 /\ DOMAIN values = 1 .. n
    OBVIOUS
<1>2. /\ pos \in Nat /\ lower \in Nat /\ weight \in 0 .. 99
      /\ lower + 1 <= n
      /\ weight > 0 => lower + 2 <= n
      /\ upper = IF weight = 0 THEN lower ELSE lower + 1
    BY <1>1, Position
<1>3. Len(sorted) = n /\ \A k \in DOMAIN values : sorted[k] \in Nat
    BY AscendingRanked
<1>4. result = IF lower + 1 >= n THEN [num |-> a, den |-> 1]
               ELSE [num |-> a * (100 - weight) + b * weight, den |-> 100]
    BY <1>3 DEF Percentile
<1> HIDE DEF pos, lower, upper, weight, result
<1>5. lower + 1 \in DOMAIN values /\ upper + 1 \in DOMAIN values
    BY <1>1, <1>2
<1>6. a \in Nat
    BY <1>3, <1>5
<1>7. CASE lower + 1 >= n
  <2>1. upper = lower
    BY <1>1, <1>2, <1>7
  <2>2. result.num = a /\ result.den = 1
    BY <1>4, <1>7
  <2>3. QED
    BY <1>5, <1>6, <2>1, <2>2 DEF lower, upper, result, pos
<1>8. CASE ~(lower + 1 >= n)
  <2>1. lower + 2 \in DOMAIN values
    BY <1>1, <1>2, <1>8
  <2>2. b \in Nat /\ a <= b
    <3>1. lower + 1 <= lower + 2
      BY <1>2
    <3>2. QED
      BY <1>3, <1>5, <2>1, <3>1, AscendingSorted
  <2>3. result.num = a * (100 - weight) + b * weight /\ result.den = 100
    BY <1>4, <1>8
  <2>4. sorted[upper + 1] = IF weight = 0 THEN a ELSE b
    BY <1>2
  <2> HIDE DEF a, b, sorted
  <2>5. /\ result.num \in Nat
        /\ a * 100 <= result.num /\ result.num <= b * 100
        /\ weight = 0 => result.num = a * 100
    BY <1>2, <1>6, <2>2, <2>3, Between
  <2>6. result.num <= sorted[upper + 1] * 100
    BY <1>2, <1>6, <2>4, <2>5
  <2>7. QED
    BY <1>5, <2>3, <2>5, <2>6 DEF a, sorted, lower, upper, result, pos
<1>9. QED
    BY <1>7, <1>8 DEF lower, upper, result, pos

\* A threshold above the value at place k is reached by no more than the places
\* after it.
LEMMA FewReach ==
    ASSUME NEW values \in Seq(Nat), NEW k \in DOMAIN values, NEW t \in Nat,
           Ascending(values)[k] < t
    PROVE  Reaching(values, t) <= Len(values) - k
<1> DEFINE v == Ascending(values)[k]
           Reached == {i \in DOMAIN values : values[i] >= t}
<1>1. v \in Nat /\ Ranked(values, k, v)
    BY AscendingRanked
<1>2. \A i \in DOMAIN values : values[i] \in Nat
    OBVIOUS
<1> HIDE DEF v
<1>3. v < t
    BY DEF v
<1>4. /\ AtOrBelow(values, v) \in SUBSET (DOMAIN values \ Reached)
      /\ DOMAIN values \ Reached \in SUBSET DOMAIN values
      /\ Reached \in SUBSET DOMAIN values
    BY <1>1, <1>2, <1>3 DEF AtOrBelow
<1> HIDE DEF Reached
<1>5. /\ Cardinality(AtOrBelow(values, v)) <= Cardinality(DOMAIN values \ Reached)
      /\ Cardinality(AtOrBelow(values, v)) \in 0 .. Len(values)
      /\ Cardinality(DOMAIN values \ Reached) = Len(values) - Cardinality(Reached)
      /\ Cardinality(Reached) \in 0 .. Len(values)
  <2>1. AtOrBelow(values, v) \in SUBSET DOMAIN values
    BY <1>4
  <2>2. QED
    BY <1>4, <2>1, Places, Zenon
<1>6. k <= Cardinality(AtOrBelow(values, v))
    BY <1>1 DEF Ranked
<1>7. k \in Int /\ Len(values) \in Nat
    OBVIOUS
<1>8. Cardinality(Reached) <= Len(values) - k
    BY <1>5, <1>6, <1>7
<1>9. QED
    BY <1>8 DEF Reaching, Reached

\* One that the value at place k reaches is reached by at least that place and
\* those after it.
LEMMA ManyReach ==
    ASSUME NEW values \in Seq(Nat), NEW k \in DOMAIN values, NEW t \in Nat,
           Ascending(values)[k] >= t
    PROVE  Reaching(values, t) >= Len(values) - k + 1
<1> DEFINE v == Ascending(values)[k]
           Reached == {i \in DOMAIN values : values[i] >= t}
<1>1. v \in Nat /\ Ranked(values, k, v)
    BY AscendingRanked
<1>2. \A i \in DOMAIN values : values[i] \in Nat
    OBVIOUS
<1> HIDE DEF v
<1>3. v >= t
    BY DEF v
<1>4. /\ DOMAIN values \ Below(values, v) \in SUBSET Reached
      /\ Below(values, v) \in SUBSET DOMAIN values
      /\ Reached \in SUBSET DOMAIN values
    BY <1>1, <1>2, <1>3 DEF Below
<1> HIDE DEF Reached
<1>5. /\ Cardinality(DOMAIN values \ Below(values, v)) <= Cardinality(Reached)
      /\ Cardinality(DOMAIN values \ Below(values, v))
            = Len(values) - Cardinality(Below(values, v))
      /\ Cardinality(Below(values, v)) \in 0 .. Len(values)
      /\ Cardinality(Reached) \in 0 .. Len(values)
    BY <1>4, Places, Zenon
<1>6. Cardinality(Below(values, v)) < k
    BY <1>1 DEF Ranked
<1>7. k \in Int /\ Len(values) \in Nat
    OBVIOUS
<1>8. Cardinality(Reached) >= Len(values) - k + 1
    BY <1>5, <1>6, <1>7
<1>9. QED
    BY <1>8 DEF Reaching, Reached

-----------------------------------------------------------------------------
(* Aggregates. *)

LEMMA PercentOfMode ==
    ASSUME NEW mode \in Modes, mode # "average"
    PROVE  Percent[mode] \in 0 .. 100
BY DEF Percent, Modes

LEMMA NaturalSequences ==
    ASSUME NEW values \in Seq(Nat)
    PROVE  values \in Seq(Int) /\ \A i \in DOMAIN values : values[i] \in Nat
OBVIOUS

\* What the two kinds of aggregates compare
LEMMA AverageReaches ==
    ASSUME NEW values \in Seq(Nat), NEW t \in Int, values # <<>>
    PROVE  AtLeast(EvaluateAggregate(values, "average"), t)
             <=> Totals(values)[Len(values)] >= t * Len(values)
BY DEF AtLeast, EvaluateAggregate, Average

LEMMA PercentileReaches ==
    ASSUME NEW values \in Seq(Nat), NEW mode \in Modes, mode # "average", NEW t
    PROVE  AtLeast(EvaluateAggregate(values, mode), t)
             <=> Percentile(values, Percent[mode]).num
                    >= t * Percentile(values, Percent[mode]).den
BY DEF AtLeast, EvaluateAggregate

\* An aggregate is a fraction: comparing it is exact, and a higher threshold is
\* harder to reach.
LEMMA AtLeastAntitone ==
    ASSUME NEW values \in Seq(Nat), NEW mode \in Modes,
           NEW t \in Nat, NEW u \in Nat, t <= u,
           AtLeast(EvaluateAggregate(values, mode), u)
    PROVE  AtLeast(EvaluateAggregate(values, mode), t)
<1> DEFINE num == EvaluateAggregate(values, mode).num
           den == EvaluateAggregate(values, mode).den
<1>1. num \in Int /\ den \in Nat
  <2>1. CASE values = <<>>
    BY <2>1 DEF EvaluateAggregate, Average, Percentile
  <2>2. CASE values # <<>> /\ mode = "average"
    <3>1. Totals(values)[Len(values)] \in Int
      BY NaturalSequences, TotalBounds
    <3>2. QED
      BY <2>2, <3>1 DEF EvaluateAggregate, Average
  <2>3. CASE values # <<>> /\ mode # "average"
    <3> DEFINE result == Percentile(values, Percent[mode])
    <3>1. result.num \in Nat /\ result.den \in {1, 100}
      BY <2>3, PercentOfMode, PercentileValue
    <3>2. EvaluateAggregate(values, mode) = result
      BY <2>3 DEF EvaluateAggregate
    <3> HIDE DEF result
    <3>3. QED
      BY <3>1, <3>2
  <2>4. QED
    BY <2>1, <2>2, <2>3
<1>2. num >= u * den
    BY DEF AtLeast
<1> HIDE DEF num, den
<1>3. t * den <= u * den /\ t * den \in Int /\ u * den \in Int
    BY <1>1
<1>4. num >= t * den
    BY <1>1, <1>2, <1>3
<1>5. QED
    BY <1>4 DEF AtLeast, num, den

\* Few loads reach a threshold that the aggregate does not reach: with an average
\* not all of them, with a percentile no more than it leaves above.
LEMMA LowAggregate ==
    ASSUME NEW values \in Seq(Nat), values # <<>>, NEW mode \in Modes, NEW t \in Nat,
           ~AtLeast(EvaluateAggregate(values, mode), t)
    PROVE  Reaching(values, t) <= MayReach(values, mode)
<1> DEFINE n == Len(values)
<1>1. n \in Nat /\ n > 0 /\ DOMAIN values = 1 .. n /\ t \in Int
    OBVIOUS
<1>2. CASE mode = "average"
  <2> DEFINE Reached == {i \in DOMAIN values : values[i] >= t}
  <2>1. ~(Totals(values)[n] >= t * n)
    BY <1>1, <1>2, AverageReaches
  <2>2. ~(\A i \in 1 .. n : values[i] >= t)
    <3>1. Totals(values)[n] \in Int /\ t * n \in Int
      BY <1>1, NaturalSequences, TotalBounds
    <3>2. (\A i \in 1 .. n : values[i] >= t) => t * n <= Totals(values)[n]
      BY <1>1, NaturalSequences, TotalBounds, Zenon
    <3>3. QED
      BY <2>1, <3>1, <3>2
  <2>3. PICK i \in DOMAIN values : i \notin Reached
    BY <1>1, <2>2
  <2>4. Reached \in SUBSET DOMAIN values /\ {i} \in SUBSET (DOMAIN values \ Reached)
    BY <2>3
  <2> HIDE DEF Reached
  <2>5. /\ Cardinality({i}) <= Cardinality(DOMAIN values \ Reached)
        /\ Cardinality(DOMAIN values \ Reached) = n - Cardinality(Reached)
        /\ Cardinality(Reached) \in 0 .. n
    <3>1. DOMAIN values \ Reached \in SUBSET DOMAIN values
      OBVIOUS
    <3>2. QED
      BY <2>4, <3>1, Places, Zenon
  <2>6. Cardinality({i}) = 1
    BY FS_Singleton
  <2>7. Cardinality(Reached) <= n - 1
    BY <1>1, <2>5, <2>6
  <2>8. QED
    BY <1>2, <2>7 DEF Reaching, MayReach, Reached
<1>3. CASE mode # "average"
  <2> DEFINE p == Percent[mode]
             lower == (p * (n - 1)) \div 100
             result == Percentile(values, p)
  <2>1. p \in 0 .. 100
    BY <1>3, PercentOfMode
  <2>2. /\ lower + 1 \in DOMAIN values
        /\ result.num \in Nat /\ result.den \in {1, 100}
        /\ Ascending(values)[lower + 1] * result.den <= result.num
    <3> HIDE DEF p
    <3> QED
      BY <2>1, PercentileValue
  <2>3. ~(result.num >= t * result.den)
    BY <1>3, PercentileReaches
  <2> HIDE DEF result
  <2>4. Ascending(values)[lower + 1] \in Nat
    BY <2>2, AscendingRanked
  <2>5. Ascending(values)[lower + 1] < t
    BY <2>2, <2>3, <2>4
  <2>6. Reaching(values, t) <= n - (lower + 1)
    BY <2>2, <2>5, FewReach
  <2>7. lower \in Int
    <3> HIDE DEF p
    <3> QED
      BY <1>1, <2>1, Position
  <2>8. MayReach(values, mode) = n - 1 - lower
    BY <1>3 DEF MayReach
  <2> HIDE DEF lower
  <2>9. n - 1 - lower = n - (lower + 1)
    BY <1>1, <2>7
  <2>10. QED
    BY <2>6, <2>8, <2>9
<1>4. QED
    BY <1>2, <1>3

\* Many loads reach a threshold that the aggregate reaches.
LEMMA HighAggregate ==
    ASSUME NEW values \in Seq(Nat), values # <<>>, NEW mode \in Modes, NEW t \in Nat,
           AtLeast(EvaluateAggregate(values, mode), t)
    PROVE  Reaching(values, t) >= MustReach(values, mode)
<1> DEFINE n == Len(values)
<1>1. n \in Nat /\ n > 0 /\ DOMAIN values = 1 .. n /\ t \in Int
    OBVIOUS
<1>2. CASE mode = "average"
  <2> DEFINE Reached == {i \in DOMAIN values : values[i] >= t}
  <2>1. Totals(values)[n] >= t * n
    BY <1>1, <1>2, AverageReaches
  <2>2. ~(\A i \in 1 .. n : values[i] < t)
    <3>1. Totals(values)[n] \in Int /\ t * n \in Int
      BY <1>1, NaturalSequences, TotalBounds
    <3>2. n > 0 /\ (\A i \in 1 .. n : values[i] < t) => Totals(values)[n] < t * n
      BY <1>1, NaturalSequences, TotalBounds, Zenon
    <3>3. QED
      BY <1>1, <2>1, <3>1, <3>2
  <2>3. PICK i \in DOMAIN values : i \in Reached
    BY <1>1, <2>2, NaturalSequences
  <2>4. Reached \in SUBSET DOMAIN values /\ {i} \in SUBSET Reached
    BY <2>3
  <2> HIDE DEF Reached
  <2>5. Cardinality({i}) <= Cardinality(Reached) /\ Cardinality(Reached) \in 0 .. n
    BY <2>4, Places, Zenon
  <2>6. Cardinality({i}) = 1
    BY FS_Singleton
  <2>7. Cardinality(Reached) >= 1
    BY <1>1, <2>5, <2>6
  <2>8. QED
    BY <1>2, <2>7 DEF Reaching, MustReach, Reached
<1>3. CASE mode # "average"
  <2> DEFINE p == Percent[mode]
             upper == (p * (n - 1) + 99) \div 100
             result == Percentile(values, p)
  <2>1. p \in 0 .. 100
    BY <1>3, PercentOfMode
  <2>2. /\ upper + 1 \in DOMAIN values
        /\ result.num \in Nat /\ result.den \in {1, 100}
        /\ result.num <= Ascending(values)[upper + 1] * result.den
    <3> DEFINE lower == (p * (n - 1)) \div 100
    <3> HIDE DEF p
    <3>1. /\ lower + 1 \in DOMAIN values /\ upper + 1 \in DOMAIN values
          /\ result.num \in Nat /\ result.den \in {1, 100}
          /\ Ascending(values)[lower + 1] * result.den <= result.num
          /\ result.num <= Ascending(values)[upper + 1] * result.den
      BY <2>1, PercentileValue
    <3>2. QED
      BY <3>1
  <2>3. result.num >= t * result.den
    BY <1>3, PercentileReaches
  <2> HIDE DEF result
  <2>4. Ascending(values)[upper + 1] \in Nat
    BY <2>2, AscendingRanked
  <2>5. Ascending(values)[upper + 1] >= t
    BY <2>2, <2>3, <2>4
  <2>6. Reaching(values, t) >= n - (upper + 1) + 1
    BY <2>2, <2>5, ManyReach
  <2>7. upper \in Int
    <3> DEFINE pos == p * (n - 1)
    <3>1. pos \in Nat
      <4> HIDE DEF p
      <4> QED
        BY <1>1, <2>1, Position
    <3> HIDE DEF pos
    <3>2. (pos + 99) \div 100 \in Int
      BY <3>1
    <3>3. QED
      BY <3>2 DEF pos
  <2>8. MustReach(values, mode) = n - upper
    BY <1>3 DEF MustReach
  <2> HIDE DEF upper
  <2>9. n - (upper + 1) + 1 = n - upper
    BY <1>1, <2>7
  <2>10. QED
    BY <2>6, <2>8, <2>9
<1>4. QED
    BY <1>2, <1>3

\* Loads of which no more stay up to any bound, and whose sum is no lower, reach
\* what the others reach.
LEMMA AggregateMonotone ==
    ASSUME NEW values \in Seq(Nat), NEW others \in Seq(Nat), values # <<>>,
           Len(others) = Len(values), NEW mode \in Modes, NEW t \in Nat,
           Totals(values)[Len(values)] <= Totals(others)[Len(others)],
           \A v \in Nat : Cardinality(AtOrBelow(others, v))
                            <= Cardinality(AtOrBelow(values, v)),
           AtLeast(EvaluateAggregate(values, mode), t)
    PROVE  AtLeast(EvaluateAggregate(others, mode), t)
<1> DEFINE n == Len(values)
<1>1. n \in Nat /\ n > 0 /\ DOMAIN values = 1 .. n /\ DOMAIN others = 1 .. n
      /\ others # <<>> /\ t \in Int
    OBVIOUS
<1>2. CASE mode = "average"
  <2>1. Totals(values)[n] >= t * n
    BY <1>1, <1>2, AverageReaches
  <2>2. {Totals(values)[n], Totals(others)[n], t * n} \subseteq Int
    <3>1. Totals(values)[n] \in Int
      BY <1>1, NaturalSequences, TotalBounds, Zenon
    <3>2. Totals(others)[n] \in Int
      BY <1>1, NaturalSequences, TotalBounds, Zenon
    <3>3. QED
      BY <1>1, <3>1, <3>2
  <2>3. Totals(others)[n] >= t * n
    BY <2>1, <2>2
  <2>4. QED
    BY <1>1, <1>2, <2>3, AverageReaches
<1>3. CASE mode # "average"
  <2> DEFINE p == Percent[mode]
             pos == p * (n - 1)
             lower == pos \div 100
             weight == pos % 100
             a == Ascending(values)[lower + 1]
             b == Ascending(values)[lower + 2]
             c == Ascending(others)[lower + 1]
             d == Ascending(others)[lower + 2]
  <2>1. p \in 0 .. 100
    BY <1>3, PercentOfMode
  <2>2. lower \in Nat /\ weight \in 0 .. 99 /\ lower + 1 <= n
    <3> HIDE DEF p
    <3> QED
      BY <1>1, <2>1, Position
  <2>3. Len(Ascending(values)) = n /\ Len(Ascending(others)) = n
    BY AscendingRanked
  <2>4. /\ Percentile(values, p) =
             IF lower + 1 >= n THEN [num |-> a, den |-> 1]
             ELSE [num |-> a * (100 - weight) + b * weight, den |-> 100]
        /\ Percentile(others, p) =
             IF lower + 1 >= n THEN [num |-> c, den |-> 1]
             ELSE [num |-> c * (100 - weight) + d * weight, den |-> 100]
    BY <1>1, <2>3 DEF Percentile
  <2>5. Percentile(values, p).num >= t * Percentile(values, p).den
    BY <1>3, PercentileReaches
  <2> HIDE DEF p, pos, lower, weight
  <2>6. ASSUME NEW k \in DOMAIN values
        PROVE  /\ Ascending(values)[k] \in Nat /\ Ascending(others)[k] \in Nat
               /\ Ascending(values)[k] <= Ascending(others)[k]
    <3>1. Ascending(values)[k] \in Nat /\ Ascending(others)[k] \in Nat
      BY <1>1, AscendingRanked
    <3>2. QED
      BY <3>1, AscendingMonotone
  <2>7. a \in Nat /\ c \in Nat /\ a <= c
    BY <1>1, <2>2, <2>6
  <2>8. Percentile(others, p).num >= t * Percentile(others, p).den
    <3>1. CASE lower + 1 >= n
      <4>1. a >= t * 1
        BY <2>4, <2>5, <3>1
      <4>2. c >= t * 1
        BY <2>7, <4>1
      <4>3. QED
        BY <2>4, <3>1, <4>2
    <3>2. CASE ~(lower + 1 >= n)
      <4>1. b \in Nat /\ d \in Nat /\ b <= d /\ a <= b
        <5>1. /\ lower + 2 \in DOMAIN values /\ lower + 1 \in DOMAIN values
              /\ lower + 1 <= lower + 2
          BY <1>1, <2>2, <3>2
        <5>2. QED
          BY <2>6, <5>1, AscendingSorted
      <4> DEFINE x == a * (100 - weight) + b * weight
                 y == c * (100 - weight) + d * weight
      <4>2. x \in Nat /\ y \in Nat /\ x <= y
        <5> HIDE DEF a, b, c, d
        <5>1. x \in Nat /\ x <= y
          BY <2>2, <2>7, <4>1, Between
        <5>2. y \in Nat
          BY <2>2, <2>7, <4>1
        <5>3. QED
          BY <5>1, <5>2
      <4>3. /\ Percentile(values, p) = [num |-> x, den |-> 100]
            /\ Percentile(others, p) = [num |-> y, den |-> 100]
        BY <2>4, <3>2
      <4> HIDE DEF x, y
      <4>4. x >= t * 100
        BY <2>5, <4>3
      <4>5. y >= t * 100
        BY <4>2, <4>4
      <4>6. QED
        BY <4>3, <4>5
    <3>3. QED
      BY <3>1, <3>2
  <2>9. QED
    BY <1>3, <2>8, PercentileReaches DEF p
<1>4. QED
    BY <1>2, <1>3

-----------------------------------------------------------------------------
(* Another order, and more load at one node. *)

\* Exchanging two loads changes no count.
LEMMA ExchangeReaches ==
    ASSUME NEW values \in Seq(Nat), NEW i \in DOMAIN values, NEW j \in DOMAIN values,
           NEW mode \in Modes, NEW t \in Nat,
           AtLeast(EvaluateAggregate(values, mode), t)
    PROVE  AtLeast(EvaluateAggregate(Exchanged(values, i, j), mode), t)
<1> DEFINE n == Len(values)
           exch == Exchanged(values, i, j)
           At(k) == IF k = i THEN j ELSE IF k = j THEN i ELSE k
<1>1. n \in Nat /\ n > 0 /\ DOMAIN values = 1 .. n /\ values # <<>>
    OBVIOUS
<1>2. /\ exch \in Seq(Nat) /\ Len(exch) = n
      /\ \A k \in 1 .. n : exch[k] = IF k = j THEN values[i]
                                     ELSE IF k = i THEN values[j] ELSE values[k]
    BY NaturalSequences, ExchangedValues
<1>3. Totals(values)[n] <= Totals(exch)[n]
    BY NaturalSequences, TotalsExchange
<1> HIDE DEF exch
<1>4. DOMAIN exch = 1 .. n
    BY <1>2
<1>5. ASSUME NEW v \in Nat
      PROVE  Cardinality(AtOrBelow(exch, v)) <= Cardinality(AtOrBelow(values, v))
  <2> DEFINE S == AtOrBelow(values, v)
             T == AtOrBelow(exch, v)
             f == [k \in S |-> At(k)]
  <2>1. S \in SUBSET (1 .. n) /\ T \in SUBSET (1 .. n)
    BY <1>1, <1>4 DEF AtOrBelow
  <2>2. \A k \in 1 .. n : /\ At(k) \in 1 .. n
                          /\ At(At(k)) = k
                          /\ k \in S <=> At(k) \in T
                          /\ k \in T <=> At(k) \in S
    BY <1>1, <1>2, <1>4 DEF AtOrBelow
  <2> HIDE DEF S, T, At
  <2>3. f \in Surjection(S, T)
    BY <2>1, <2>2 DEF Surjection
  <2>4. IsFiniteSet(S)
    BY <1>1, <2>1, UpToCount, FS_Subset
  <2>5. Cardinality(T) <= Cardinality(S)
    BY <2>3, <2>4, FS_Surjection DEF ExistsSurjection
  <2>6. QED
    BY <2>5 DEF S, T
<1>6. AtLeast(EvaluateAggregate(exch, mode), t)
    BY <1>1, <1>2, <1>3, <1>5, AggregateMonotone
<1>7. QED
    BY <1>6 DEF exch

\* One more unit of load at one node
LEMMA MoreLoadReaches ==
    ASSUME NEW values \in Seq(Nat), NEW i \in DOMAIN values, NEW mode \in Modes,
           NEW t \in Nat, AtLeast(EvaluateAggregate(values, mode), t)
    PROVE  AtLeast(EvaluateAggregate([values EXCEPT ![i] = @ + 1], mode), t)
<1> DEFINE n == Len(values)
           more == [values EXCEPT ![i] = @ + 1]
<1>1. /\ n \in Nat /\ DOMAIN values = 1 .. n /\ values # <<>>
      /\ \A j \in 1 .. n : values[j] \in Nat
    OBVIOUS
<1>2. more \in Seq(Nat) /\ Len(more) = n /\ DOMAIN more = 1 .. n
    OBVIOUS
<1>3. \A j \in 1 .. n : values[j] <= more[j] /\ more[j] \in Nat
    BY <1>1
<1> HIDE DEF more
<1>4. Totals(values)[n] <= Totals(more)[n]
    BY <1>2, <1>3, NaturalSequences, TotalsMonotone
<1>5. ASSUME NEW v \in Nat
      PROVE  Cardinality(AtOrBelow(more, v)) <= Cardinality(AtOrBelow(values, v))
  <2>1. /\ AtOrBelow(more, v) \in SUBSET AtOrBelow(values, v)
        /\ AtOrBelow(values, v) \in SUBSET DOMAIN values
    BY <1>1, <1>2, <1>3 DEF AtOrBelow
  <2>2. QED
    BY <2>1, Places, Zenon
<1>6. AtLeast(EvaluateAggregate(more, mode), t)
    BY <1>1, <1>2, <1>4, <1>5, AggregateMonotone
<1>7. QED
    BY <1>6 DEF more
=============================================================================
