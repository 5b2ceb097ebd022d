--------------------------- MODULE SuggestProofs ----------------------------
(***************************************************************************)
(* Theorems about Suggest, for every tree and all words: editDistance is   *)
(* the least number of edits between two words, and nearestCommand finds a *)
(* command that no other one is closer than.                               *)
(*                                                                         *)
(* Both are folds, and the rows of editDistance are recursive functions.   *)
(* What they compute is proved by induction in the form of a least         *)
(* counterexample: a set of naturals that is not empty has a least member. *)
(***************************************************************************)
EXTENDS Suggest, WellFoundedInduction, SequenceTheorems, FiniteSetTheorems, TLAPS

-----------------------------------------------------------------------------
(* Induction.                                                              *)

LEMMA LeastNatural ==
    ASSUME NEW T \in SUBSET Nat, T # {}
    PROVE  \E n \in T : \A m \in T : n <= m
<1> DEFINE R == OpToRel(<, Nat)
<1>1. IsWellFoundedOn(R, Nat)
  BY NatLessThanWellFounded
<1>2. \A m, n \in Nat : m < n => <<m, n>> \in R
  BY DEF OpToRel
<1> HIDE DEF R
<1>3. PICK n \in T : \A m \in T : ~ (<<m, n>> \in R)
  BY <1>1, WFMin
<1>4. \A m \in T : ~ (m < n)
  BY <1>2, <1>3, Zenon
<1>5. \A m \in T : n <= m
  BY <1>4
<1>6. QED BY <1>5

\* A set that holds 0, and n when it holds n - 1, holds every n up to N.
LEMMA Induction ==
    ASSUME NEW N \in Nat, NEW S, 0 \in S, \A n \in 1..N : n - 1 \in S => n \in S
    PROVE  \A n \in 0..N : n \in S
<1> DEFINE T == {n \in 0..N : n \notin S}
<1>1. SUFFICES ASSUME T # {} PROVE FALSE
  OBVIOUS
<1>2. T \in SUBSET Nat
  OBVIOUS
<1>3. PICK n \in T : \A m \in T : n <= m
  <2> HIDE DEF T
  <2> QED BY <1>1, <1>2, LeastNatural
<1>4. n \in 1..N /\ n - 1 \in 0..N /\ ~ (n <= n - 1)
  BY <1>3
<1>5. n - 1 \in S
  BY <1>3, <1>4
<1>6. QED BY <1>3, <1>4, <1>5

-----------------------------------------------------------------------------
(* Folds.  FoldLeft runs through the sets 1..n, taking off the largest.    *)

LEMMA MaxOfInterval ==
    ASSUME NEW n \in Nat, NEW s \in SUBSET (1..n), n \in s
    PROVE  Max(s) = n
<1>1. n \in s /\ \A y \in s : n >= y
  OBVIOUS
<1>2. \A x \in s : (\A y \in s : x >= y) => x = n
  OBVIOUS
<1>3. QED BY <1>1, <1>2 DEF Max

\* The table of a fold of n steps from base.
FoldTable(g, n, V, base, step) ==
    /\ g \in [SUBSET (1..n) -> V]
    /\ g[{}] = base
    /\ \A s \in SUBSET (1..n) :
          s # {} => /\ Max(s) \in s /\ g[s] = step[Max(s)][g[s \ {Max(s)}]]

LEMMA FoldExists ==
    ASSUME NEW n \in Nat, NEW V, NEW base \in V, NEW step \in [1..n -> [V -> V]]
    PROVE  \E g : FoldTable(g, n, V, base, step)
<1> DEFINE D(k) == SUBSET (1..k)
           Good(g, k) ==
              /\ g \in [D(k) -> V] /\ g[{}] = base
              /\ \A s \in D(k) : s # {} => /\ Max(s) \in s /\ g[s] = step[Max(s)][g[s \ {Max(s)}]]
           S == {k \in 0..n : \E g : Good(g, k)}
<1>1. D(0) = {{}} /\ \A k \in Nat : {} \in D(k)
  OBVIOUS
<1>2. ASSUME NEW k \in 1..n
      PROVE  /\ k \in Nat /\ D(k - 1) \subseteq D(k)
             /\ \A s \in D(k) : s \ {k} \in D(k - 1) /\ (s \notin D(k - 1) => k \in s)
             /\ \A s \in D(k - 1) : \A x \in s : s \ {x} \in D(k - 1)
  <2>1. k \in Nat /\ \A x \in 1..k : x \in 1..(k - 1) \/ x = k
    OBVIOUS
  <2>2. 1..(k - 1) \subseteq 1..k
    OBVIOUS
  <2>3. D(k - 1) \subseteq D(k)
    BY <2>2
  <2>4. ASSUME NEW s \in D(k) PROVE s \ {k} \in D(k - 1) /\ (s \notin D(k - 1) => k \in s)
    BY <2>1, <2>4
  <2>5. ASSUME NEW s \in D(k - 1), NEW x \in s PROVE s \ {x} \in D(k - 1)
    OBVIOUS
  <2> HIDE DEF D
  <2>6. QED BY <2>1, <2>3, <2>4, <2>5, Zenon
<1>3. \A k \in 1..n : \A s \in D(k) : k \in s => Max(s) = k
  BY MaxOfInterval
<1> HIDE DEF D
<1>4. 0 \in S
  <2> DEFINE g == [s \in D(0) |-> base]
  <2>1. g \in [D(0) -> V] /\ g[{}] = base /\ \A s \in D(0) : s = {}
    BY <1>1
  <2>2. Good(g, 0)
    BY <2>1, Zenon
  <2>3. 0 \in 0..n
    OBVIOUS
  <2>4. QED BY <2>2, <2>3, Zenon
<1>5. ASSUME NEW k \in 1..n, k - 1 \in S PROVE k \in S
  <2>1. PICK h : Good(h, k - 1)
    BY <1>5, Zenon
  <2> DEFINE g == [s \in D(k) |-> IF s \in D(k - 1) THEN h[s] ELSE step[k][h[s \ {k}]]]
  <2>2. g \in [D(k) -> V]
    <3>1. ASSUME NEW s \in D(k) PROVE step[k][h[s \ {k}]] \in V /\ (s \in D(k - 1) => h[s] \in V)
      <4>1. s \ {k} \in D(k - 1)
        BY <1>2
      <4>2. h[s \ {k}] \in V /\ step[k] \in [V -> V]
        BY <2>1, <4>1
      <4>3. QED BY <2>1, <4>2
    <3>2. QED BY <3>1
  <2>3. \A s \in D(k - 1) : g[s] = h[s]
    BY <1>2
  <2>4. g[{}] = base
    <3>1. k - 1 \in Nat
      OBVIOUS
    <3>2. QED BY <1>1, <2>1, <2>3, <3>1, Zenon
  <2>5. ASSUME NEW s \in D(k), s # {}
        PROVE  Max(s) \in s /\ g[s] = step[Max(s)][g[s \ {Max(s)}]]
    <3>1. CASE s \in D(k - 1)
      <4>1. Max(s) \in s /\ h[s] = step[Max(s)][h[s \ {Max(s)}]]
        BY <2>1, <2>5, <3>1, Zenon
      <4>2. s \ {Max(s)} \in D(k - 1)
        BY <1>2, <3>1, <4>1, Zenon
      <4>3. g[s] = h[s] /\ g[s \ {Max(s)}] = h[s \ {Max(s)}]
        BY <2>3, <3>1, <4>2, Zenon
      <4>4. QED BY <4>1, <4>3
    <3>2. CASE s \notin D(k - 1)
      <4>1. k \in s /\ s \ {k} \in D(k - 1)
        BY <1>2, <3>2, Zenon
      <4>2. Max(s) = k
        BY <1>3, <4>1, Zenon
      <4>3. g[s] = step[k][h[s \ {k}]] /\ g[s \ {k}] = h[s \ {k}]
        BY <2>3, <3>2, <4>1, Zenon
      <4>4. QED BY <4>1, <4>2, <4>3
    <3>3. QED BY <3>1, <3>2
  <2> HIDE DEF g
  <2>6. Good(g, k)
    BY <2>2, <2>4, <2>5
  <2>7. k \in 0..n
    OBVIOUS
  <2>8. QED BY <2>6, <2>7, Zenon
<1>6. n \in S
  <2> HIDE DEF S
  <2>1. \A m \in 1..n : m - 1 \in S => m \in S
    BY <1>5
  <2>2. n \in 0..n
    OBVIOUS
  <2>3. QED BY <1>4, <2>1, <2>2, Induction
<1>7. QED BY <1>6 DEF D, FoldTable

\* The table of a fold, read along the sets 1..k.
LEMMA FoldRuns ==
    ASSUME NEW n \in Nat, NEW k \in 1..n
    PROVE  /\ 1..k \in SUBSET (1..n) /\ 1..k # {} /\ Max(1..k) = k
           /\ (1..k) \ {k} = 1..(k - 1)
<1>1. k \in 1..k /\ k \in Nat
  OBVIOUS
<1>2. Max(1..k) = k
  BY <1>1, MaxOfInterval
<1>3. QED BY <1>1, <1>2

-----------------------------------------------------------------------------
(* The table of editDistance.                                              *)

Cost(x, y) == IF x = y THEN 0 ELSE 1

LEMMA LeastIsNatural ==
    ASSUME NEW x \in Nat, NEW y \in Nat, NEW z \in Nat PROVE Least(x, y, z) \in Nat
BY DEF Least

\* c is h with one more cell.
IsExtended(c, h, k, last) ==
    c \in [0..k -> Nat] /\ c[k] = last /\ \A j \in 0..(k - 1) : c[j] = h[j]

LEMMA RowExtended ==
    ASSUME NEW k \in Nat \ {0}, NEW h \in [0..(k - 1) -> Nat], NEW last \in Nat
    PROVE  \E c : IsExtended(c, h, k, last)
<1> DEFINE c == [j \in 0..k |-> IF j = k THEN last ELSE h[j]]
<1>1. c \in [0..k -> Nat]
  <2>1. ASSUME NEW j \in 0..k, j # k PROVE j \in 0..(k - 1)
    BY <2>1
  <2>2. ASSUME NEW j \in 0..k PROVE (IF j = k THEN last ELSE h[j]) \in Nat
    BY <2>1
  <2>3. QED BY <2>2
<1>2. k \in 0..k /\ \A j \in 0..(k - 1) : j \in 0..k /\ j # k
  OBVIOUS
<1>3. c[k] = last /\ \A j \in 0..(k - 1) : c[j] = h[j]
  BY <1>2
<1> HIDE DEF c
<1>4. QED BY <1>1, <1>3, Zenon DEF IsExtended

IsRow(c, m, i, row, cost) ==
    /\ c \in [0..m -> Nat] /\ c[0] = i
    /\ \A j \in 1..m : c[j] = Least(row[j] + 1, c[j - 1] + 1, row[j - 1] + cost[j])

LEMMA RowExists ==
    ASSUME NEW m \in Nat, NEW i \in Nat, NEW row \in [0..m -> Nat], NEW cost \in [1..m -> Nat]
    PROVE  \E c : IsRow(c, m, i, row, cost)
<1> DEFINE Good(c, k) ==
              /\ c \in [0..k -> Nat] /\ c[0] = i
              /\ \A j \in 1..k : c[j] = Least(row[j] + 1, c[j - 1] + 1, row[j - 1] + cost[j])
           S == {k \in 0..m : \E c : Good(c, k)}
<1>1. 0 \in S
  <2> DEFINE c == [j \in 0..0 |-> i]
  <2>1. Good(c, 0)
    OBVIOUS
  <2> HIDE DEF c
  <2>2. 0 \in 0..m
    OBVIOUS
  <2>3. QED BY <2>1, <2>2, Zenon
<1>2. ASSUME NEW k \in 1..m, k - 1 \in S PROVE k \in S
  <2>1. PICK h : Good(h, k - 1)
    BY <1>2, Zenon
  <2> DEFINE last == Least(row[k] + 1, h[k - 1] + 1, row[k - 1] + cost[k])
  <2>2. k \in 0..m /\ k - 1 \in 0..m /\ k - 1 \in 0..(k - 1) /\ 0 \in 0..(k - 1) /\ k \in Nat \ {0}
    OBVIOUS
  <2>3. last \in Nat
    <3>1. row[k] \in Nat /\ row[k - 1] \in Nat /\ cost[k] \in Nat /\ h[k - 1] \in Nat
      BY <2>1, <2>2
    <3>2. row[k] + 1 \in Nat /\ h[k - 1] + 1 \in Nat /\ row[k - 1] + cost[k] \in Nat
      BY <3>1
    <3>3. QED BY <3>2, LeastIsNatural, Zenon
  <2>4. h \in [0..(k - 1) -> Nat]
    BY <2>1, Zenon
  <2> HIDE DEF last
  <2>5. PICK c \in [0..k -> Nat] : c[k] = last /\ \A j \in 0..(k - 1) : c[j] = h[j]
    <3>1. \E c : IsExtended(c, h, k, last)
      BY <2>2, <2>3, <2>4, RowExtended, Zenon
    <3>2. QED BY <3>1, Zenon DEF IsExtended
  <2>6. c[0] = i /\ c[k - 1] = h[k - 1]
    BY <2>1, <2>2, <2>5, Zenon
  <2>7. \A j \in 1..(k - 1) : c[j] = h[j] /\ c[j - 1] = h[j - 1]
    <3>1. ASSUME NEW j \in 1..(k - 1) PROVE j \in 0..(k - 1) /\ j - 1 \in 0..(k - 1)
      OBVIOUS
    <3>2. QED BY <2>5, <3>1, Zenon
  <2>8. ASSUME NEW j \in 1..k
        PROVE  c[j] = Least(row[j] + 1, c[j - 1] + 1, row[j - 1] + cost[j])
    <3>1. CASE j = k
      BY <2>5, <2>6, <3>1, Zenon DEF last
    <3>2. CASE j # k
      <4>1. j \in 1..(k - 1)
        BY <3>2
      <4>2. c[j] = h[j] /\ c[j - 1] = h[j - 1]
        BY <2>7, <4>1, Zenon
      <4>3. h[j] = Least(row[j] + 1, h[j - 1] + 1, row[j - 1] + cost[j])
        BY <2>1, <4>1, Zenon
      <4>4. QED BY <4>2, <4>3, Zenon
    <3>3. QED BY <3>1, <3>2
  <2>9. Good(c, k) /\ k \in 0..m
    BY <2>2, <2>5, <2>6, <2>8, Zenon
  <2>10. QED BY <2>9, Zenon
<1>3. m \in S
  <2> HIDE DEF S
  <2>1. \A k \in 1..m : k - 1 \in S => k \in S
    BY <1>2
  <2>2. m \in 0..m
    OBVIOUS
  <2>3. QED BY <1>1, <2>1, <2>2, Induction
<1>4. QED BY <1>3, Zenon DEF IsRow

\* One row is computed from the one before.
LEMMA NextRowIsRow ==
    ASSUME NEW a \in Seq(STRING), NEW b \in Seq(STRING), NEW i \in 1..Len(a),
           NEW row \in [0..Len(b) -> Nat]
    PROVE  /\ NextRow(row, a, b, i) \in [0..Len(b) -> Nat]
           /\ NextRow(row, a, b, i)[0] = i
           /\ \A j \in 1..Len(b) : NextRow(row, a, b, i)[j] =
                 Least(row[j] + 1, NextRow(row, a, b, i)[j - 1] + 1,
                       row[j - 1] + Cost(a[i], b[j]))
<1> DEFINE m == Len(b)
           cost == [j \in 1..m |-> Cost(a[i], b[j])]
           cell[j \in 0..Len(b)] ==
              IF j = 0 THEN i
              ELSE Least(row[j] + 1, cell[j - 1] + 1,
                         row[j - 1] + (IF a[i] = b[j] THEN 0 ELSE 1))
           Row(c) == [j \in 0..Len(b) |->
              IF j = 0 THEN i
              ELSE Least(row[j] + 1, c[j - 1] + 1,
                         row[j - 1] + (IF a[i] = b[j] THEN 0 ELSE 1))]
<1>1. m \in Nat /\ i \in Nat /\ cost \in [1..m -> Nat]
  BY DEF Cost
<1>2. PICK c \in [0..m -> Nat] :
         /\ c[0] = i
         /\ \A j \in 1..m : c[j] = Least(row[j] + 1, c[j - 1] + 1, row[j - 1] + cost[j])
  <2>1. row \in [0..m -> Nat]
    OBVIOUS
  <2> HIDE DEF cost, m
  <2>2. \E c : IsRow(c, m, i, row, cost)
    BY <1>1, <2>1, RowExists, Zenon
  <2>3. QED BY <2>2, Zenon DEF IsRow
<1>3. c = Row(c)
  <2>1. ASSUME NEW j \in 0..m PROVE c[j] = Row(c)[j]
    <3>1. CASE j = 0
      BY <1>2, <3>1
    <3>2. CASE j # 0
      <4>1. j \in 1..m
        BY <1>1, <3>2
      <4>2. cost[j] = IF a[i] = b[j] THEN 0 ELSE 1
        BY <4>1 DEF Cost
      <4>3. QED BY <1>2, <3>2, <4>1, <4>2
    <3>3. QED BY <3>1, <3>2
  <2>2. QED BY <1>2, <2>1
<1>4. cell = Row(cell)
  <2>1. \E h : h = Row(h)
    BY <1>3
  <2>2. QED BY <2>1, Zenon
<1>5. NextRow(row, a, b, i) = cell
  <2>1. NextRow(row, a, b, i) = [j \in 0..Len(b) |-> cell[j]]
    BY Zenon DEF NextRow
  <2>2. cell = [j \in 0..Len(b) |-> cell[j]]
    <3> HIDE DEF cell
    <3> QED BY <1>4
  <2>3. QED BY <2>1, <2>2
<1> HIDE DEF cell
<1>6. cell[0] = i
  BY <1>1, <1>4
<1>7. ASSUME NEW j \in 1..m
      PROVE  cell[j] = Least(row[j] + 1, cell[j - 1] + 1, row[j - 1] + Cost(a[i], b[j]))
  <2>1. j \in 0..m /\ j # 0
    BY <1>1
  <2>2. QED BY <1>4, <2>1 DEF Cost
<1>8. \A j \in 0..m : cell[j] \in Nat
  <2> DEFINE S == {j \in 0..m : cell[j] \in Nat}
  <2>1. 0 \in S
    BY <1>1, <1>6
  <2>2. ASSUME NEW j \in 1..m, j - 1 \in S PROVE j \in S
    <3>1. j \in 0..m /\ j - 1 \in 0..m /\ cell[j - 1] \in Nat
      BY <1>1, <2>2
    <3>2. row[j] \in Nat /\ row[j - 1] \in Nat
      BY <3>1
    <3>3. Cost(a[i], b[j]) \in Nat
      BY DEF Cost
    <3>4. row[j - 1] + Cost(a[i], b[j]) \in Nat /\ row[j] + 1 \in Nat /\ cell[j - 1] + 1 \in Nat
      <4>1. \A x, y \in Nat : x + y \in Nat /\ x + 1 \in Nat
        OBVIOUS
      <4>2. QED BY <3>1, <3>2, <3>3, <4>1, Zenon
    <3>5. cell[j] \in Nat
      <4>1. Least(row[j] + 1, cell[j - 1] + 1, row[j - 1] + Cost(a[i], b[j])) \in Nat
        BY <3>4, LeastIsNatural
      <4>2. QED BY <1>7, <4>1, Zenon
    <3>6. QED BY <3>1, <3>5
  <2> HIDE DEF S
  <2>3. \A j \in 0..m : j \in S
    BY <1>1, <2>1, <2>2, Induction
  <2>4. QED BY <2>3 DEF S
<1>9. cell \in [0..m -> Nat]
  BY <1>4, <1>8
<1>10. QED BY <1>5, <1>6, <1>7, <1>9

\* The dynamic programming table between two words.
IsTable(d, a, b) ==
    /\ d \in [0..Len(a) -> [0..Len(b) -> Nat]]
    /\ \A j \in 0..Len(b) : d[0][j] = j
    /\ \A i \in 0..Len(a) : d[i][0] = i
    /\ \A i \in 1..Len(a) : \A j \in 1..Len(b) :
          d[i][j] = Least(d[i - 1][j] + 1, d[i][j - 1] + 1, d[i - 1][j - 1] + Cost(a[i], b[j]))

LEMMA EditTable ==
    ASSUME NEW a \in Seq(STRING), NEW b \in Seq(STRING)
    PROVE  \E d : IsTable(d, a, b) /\ editDistance(a, b) = d[Len(a)][Len(b)]
<1> DEFINE n == Len(a)
           m == Len(b)
           V == [0..Len(b) -> Nat]
           base == [j \in 0..Len(b) |-> j]
           indices == [i \in 1..Len(a) |-> i]
           iter[s \in SUBSET DOMAIN indices] ==
              IF s = {} THEN base
              ELSE NextRow(iter[s \ {Max(s)}], a, b, indices[Max(s)])
           Rows(h) == [s \in SUBSET DOMAIN indices |->
              IF s = {} THEN base
              ELSE NextRow(h[s \ {Max(s)}], a, b, indices[Max(s)])]
           step == [i \in 1..n |-> [row \in V |-> NextRow(row, a, b, i)]]
<1>1. n \in Nat /\ m \in Nat /\ base \in V /\ DOMAIN indices = 1..n
  OBVIOUS
<1>2. editDistance(a, b) = iter[DOMAIN indices][Len(b)]
  BY Zenon DEF editDistance, FoldLeft, MapThenFoldSet
<1>3. \A i \in 1..n : \A row \in V : NextRow(row, a, b, i) \in V
  BY NextRowIsRow
<1>4. step \in [1..n -> [V -> V]]
  <2> HIDE DEF V
  <2> QED BY <1>3
<1>5. PICK g : FoldTable(g, n, V, base, step)
  <2>1. n \in Nat /\ base \in V
    BY <1>1
  <2> HIDE DEF V, base, step, n, iter, indices, Rows, m
  <2>2. QED BY <2>1, <1>4, FoldExists
<1>6. g = Rows(g)
  <2>1. ASSUME NEW s \in SUBSET (1..n), s # {}
        PROVE  g[s] = NextRow(g[s \ {Max(s)}], a, b, indices[Max(s)])
    <3>1. Max(s) \in 1..n /\ g[s \ {Max(s)}] \in V
      <4>1. s \ {Max(s)} \in SUBSET (1..n) /\ Max(s) \in s
        BY <1>5, <2>1 DEF FoldTable
      <4>2. QED BY <1>5, <4>1 DEF FoldTable
    <3>2. indices[Max(s)] = Max(s)
      BY <3>1
    <3>3. step[Max(s)][g[s \ {Max(s)}]] = NextRow(g[s \ {Max(s)}], a, b, Max(s))
      <4> HIDE DEF V
      <4> QED BY <3>1
    <3>4. QED BY <1>5, <2>1, <3>2, <3>3 DEF FoldTable
  <2> HIDE DEF base, indices, V
  <2>2. \A s \in SUBSET DOMAIN indices : g[s] = Rows(g)[s]
    BY <1>1, <1>5, <2>1 DEF FoldTable
  <2>3. QED BY <1>1, <1>5, <2>2 DEF FoldTable
<1>7. iter = Rows(iter)
  <2>1. \E h : h = Rows(h)
    BY <1>6, Zenon
  <2>2. QED BY <2>1, Zenon
<1> HIDE DEF iter
<1> DEFINE d == [i \in 0..n |-> iter[1..i]]
<1>8. d[0] = base
  <2>1. {} \in SUBSET DOMAIN indices /\ 1..0 = {} /\ 0 \in 0..n
    BY <1>1
  <2>2. iter[{}] = base
    BY <1>7, <2>1, Zenon
  <2>3. QED BY <2>1, <2>2
<1>9. ASSUME NEW i \in 1..n PROVE d[i] = NextRow(d[i - 1], a, b, i)
  <2>1. /\ 1..i \in SUBSET DOMAIN indices /\ 1..i # {} /\ Max(1..i) = i
        /\ (1..i) \ {i} = 1..(i - 1) /\ indices[i] = i
    BY <1>1, FoldRuns
  <2>2. iter[1..i] = NextRow(iter[(1..i) \ {Max(1..i)}], a, b, indices[Max(1..i)])
    BY <1>7, <2>1, Zenon
  <2>3. iter[1..i] = NextRow(iter[1..(i - 1)], a, b, i)
    BY <2>1, <2>2
  <2>4. i \in 0..n /\ i - 1 \in 0..n
    BY <1>1
  <2>5. QED BY <2>3, <2>4
<1>10. editDistance(a, b) = d[n][m]
  BY <1>1, <1>2
<1> HIDE DEF d
<1>11. \A i \in 0..n : d[i] \in V
  <2> DEFINE S == {i \in 0..n : d[i] \in V}
  <2>1. 0 \in S
    <3>1. 0 \in 0..n
      BY <1>1
    <3>2. QED BY <1>1, <1>8, <3>1, Zenon
  <2>2. ASSUME NEW i \in 1..n, i - 1 \in S PROVE i \in S
    <3>1. d[i] \in V
      <4>1. d[i - 1] \in V
        BY <2>2
      <4> HIDE DEF V
      <4>2. QED BY <1>3, <1>9, <4>1
    <3>2. i \in 0..n
      BY <1>1
    <3>3. QED BY <3>1, <3>2, Zenon
  <2> HIDE DEF S
  <2>3. \A i \in 0..n : i \in S
    BY <1>1, <2>1, <2>2, Induction
  <2>4. QED BY <2>3 DEF S
<1>12. d \in [0..n -> V]
  BY <1>11 DEF d
<1>13. \A j \in 0..m : d[0][j] = j
  BY <1>1, <1>8
<1>14. ASSUME NEW i \in 1..n
       PROVE  /\ d[i][0] = i
              /\ \A j \in 1..m : d[i][j] =
                    Least(d[i - 1][j] + 1, d[i][j - 1] + 1, d[i - 1][j - 1] + Cost(a[i], b[j]))
  <2>1. i - 1 \in 0..n
    BY <1>1
  <2>2. d[i - 1] \in [0..Len(b) -> Nat]
    BY <1>11, <2>1
  <2>3. /\ NextRow(d[i - 1], a, b, i)[0] = i
        /\ \A j \in 1..Len(b) : NextRow(d[i - 1], a, b, i)[j] =
              Least(d[i - 1][j] + 1, NextRow(d[i - 1], a, b, i)[j - 1] + 1,
                    d[i - 1][j - 1] + Cost(a[i], b[j]))
    BY <2>2, NextRowIsRow
  <2>4. QED BY <1>9, <2>3
<1>15. \A i \in 0..n : d[i][0] = i
  <2>1. ASSUME NEW i \in 0..n, i # 0 PROVE i \in 1..n
    BY <1>1, <2>1
  <2>2. d[0][0] = 0
    BY <1>1, <1>13
  <2>3. QED BY <1>14, <2>1, <2>2
<1>16. IsTable(d, a, b)
  BY <1>12, <1>13, <1>14, <1>15 DEF IsTable
<1>17. QED BY <1>10, <1>16

-----------------------------------------------------------------------------
(* How the cells of a table relate.                                        *)

\* A cell is at most one more than its neighbours, and comes from one of
\* them.
LEMMA TableCells ==
    ASSUME NEW a \in Seq(STRING), NEW b \in Seq(STRING), NEW d, IsTable(d, a, b)
    PROVE  /\ \A i \in 0..Len(a) : \A j \in 0..Len(b) : d[i][j] \in Nat
           /\ \A i \in 1..Len(a) : \A j \in 0..Len(b) : d[i][j] <= d[i - 1][j] + 1
           /\ \A i \in 0..Len(a) : \A j \in 1..Len(b) : d[i][j] <= d[i][j - 1] + 1
           /\ \A i \in 1..Len(a) : \A j \in 1..Len(b) :
                 /\ d[i][j] <= d[i - 1][j - 1] + Cost(a[i], b[j])
                 /\ \/ d[i][j] = d[i - 1][j] + 1
                    \/ d[i][j] = d[i][j - 1] + 1
                    \/ d[i][j] = d[i - 1][j - 1] + Cost(a[i], b[j])
<1>1. Len(a) \in Nat /\ Len(b) \in Nat
  OBVIOUS
<1>2. ASSUME NEW i \in 0..Len(a), NEW j \in 0..Len(b) PROVE d[i][j] \in Nat
  BY DEF IsTable
<1>3. ASSUME NEW i \in 1..Len(a), NEW j \in 1..Len(b)
      PROVE  /\ d[i][j] <= d[i - 1][j] + 1
             /\ d[i][j] <= d[i][j - 1] + 1
             /\ d[i][j] <= d[i - 1][j - 1] + Cost(a[i], b[j])
             /\ \/ d[i][j] = d[i - 1][j] + 1
                \/ d[i][j] = d[i][j - 1] + 1
                \/ d[i][j] = d[i - 1][j - 1] + Cost(a[i], b[j])
  <2> DEFINE x == d[i - 1][j] + 1
             y == d[i][j - 1] + 1
             z == d[i - 1][j - 1] + Cost(a[i], b[j])
  <2>1. i \in 0..Len(a) /\ i - 1 \in 0..Len(a) /\ j \in 0..Len(b) /\ j - 1 \in 0..Len(b)
    BY <1>1
  <2>2. Cost(a[i], b[j]) \in Nat
    BY DEF Cost
  <2>3. x \in Nat /\ y \in Nat /\ z \in Nat
    <3>1. d[i - 1][j] \in Nat /\ d[i][j - 1] \in Nat /\ d[i - 1][j - 1] \in Nat
      BY <1>2, <2>1
    <3>2. \A v, w \in Nat : v + w \in Nat
      OBVIOUS
    <3>3. QED BY <2>2, <3>1, <3>2, Zenon
  <2>4. d[i][j] = Least(x, y, z)
    BY DEF IsTable
  <2> HIDE DEF x, y, z
  <2>5. /\ d[i][j] <= x /\ d[i][j] <= y /\ d[i][j] <= z
        /\ d[i][j] = x \/ d[i][j] = y \/ d[i][j] = z
    BY <2>3, <2>4 DEF Least
  <2>6. QED BY <2>5 DEF x, y, z
<1>4. ASSUME NEW i \in 1..Len(a) PROVE d[i][0] <= d[i - 1][0] + 1
  <2>1. d[i][0] = i /\ d[i - 1][0] = i - 1
    BY <1>1 DEF IsTable
  <2>2. QED BY <2>1
<1>5. ASSUME NEW j \in 1..Len(b) PROVE d[0][j] <= d[0][j - 1] + 1
  <2>1. d[0][j] = j /\ d[0][j - 1] = j - 1
    BY <1>1 DEF IsTable
  <2>2. QED BY <2>1
<1>6. ASSUME NEW i \in 1..Len(a), NEW j \in 0..Len(b) PROVE d[i][j] <= d[i - 1][j] + 1
  BY <1>1, <1>3, <1>4
<1>7. ASSUME NEW i \in 0..Len(a), NEW j \in 1..Len(b) PROVE d[i][j] <= d[i][j - 1] + 1
  BY <1>1, <1>3, <1>5
<1>8. QED BY <1>2, <1>3, <1>6, <1>7

\* The cell to the left is at most one more.
LEMMA TableLeft ==
    ASSUME NEW a \in Seq(STRING), NEW b \in Seq(STRING), NEW d, IsTable(d, a, b)
    PROVE  \A i \in 0..Len(a) : \A j \in 1..Len(b) : d[i][j - 1] <= d[i][j] + 1
<1> DEFINE S == {i \in 0..Len(a) : \A j \in 1..Len(b) : d[i][j - 1] <= d[i][j] + 1}
<1>1. Len(a) \in Nat /\ Len(b) \in Nat
  OBVIOUS
<1>2. 0 \in S
  <2>1. ASSUME NEW j \in 1..Len(b) PROVE d[0][j - 1] = j - 1 /\ d[0][j] = j
    BY <1>1 DEF IsTable
  <2>2. ASSUME NEW j \in 1..Len(b) PROVE d[0][j - 1] <= d[0][j] + 1
    BY <2>1
  <2>3. QED BY <1>1, <2>2
<1>3. ASSUME NEW i \in 1..Len(a), i - 1 \in S PROVE i \in S
  <2>1. i \in 0..Len(a) /\ i - 1 \in 0..Len(a)
    BY <1>1
  <2>2. ASSUME NEW j \in 1..Len(b) PROVE d[i][j - 1] <= d[i][j] + 1
    <3>1. j \in 0..Len(b) /\ j - 1 \in 0..Len(b)
      BY <1>1
    <3>2. /\ d[i][j] \in Nat /\ d[i - 1][j] \in Nat
          /\ d[i][j - 1] \in Nat /\ d[i - 1][j - 1] \in Nat
      BY <2>1, <3>1, TableCells
    <3>3. d[i - 1][j - 1] <= d[i - 1][j] + 1
      BY <1>3
    <3>4. d[i][j - 1] <= d[i - 1][j - 1] + 1
      BY <3>1, TableCells
    <3>5. \/ d[i][j] = d[i - 1][j] + 1
          \/ d[i][j] = d[i][j - 1] + 1
          \/ d[i][j] = d[i - 1][j - 1] + Cost(a[i], b[j])
      BY TableCells
    <3>6. Cost(a[i], b[j]) \in Nat
      BY DEF Cost
    <3> DEFINE x == d[i][j]  y == d[i - 1][j]  z == d[i - 1][j - 1]  l == d[i][j - 1]
               cost == Cost(a[i], b[j])
    <3>7. /\ x \in Nat /\ y \in Nat /\ z \in Nat /\ l \in Nat /\ cost \in Nat
          /\ z <= y + 1 /\ l <= z + 1
          /\ x = y + 1 \/ x = l + 1 \/ x = z + cost
      BY <3>2, <3>3, <3>4, <3>5, <3>6, Zenon
    <3>8. l <= x + 1
      <4> HIDE DEF x, y, z, l, cost
      <4>1. QED BY <3>7
    <3>9. QED BY <3>8
  <2>3. QED BY <2>1, <2>2
<1>4. QED
  <2> HIDE DEF S
  <2>1. \A i \in 1..Len(a) : i - 1 \in S => i \in S
    BY <1>3
  <2>2. \A i \in 0..Len(a) : i \in S
    BY <1>1, <1>2, <2>1, Induction
  <2>3. QED BY <2>2 DEF S

\* A cell stays within k of another when those that they come from do.
LEMMA CellsApart ==
    ASSUME NEW x \in Nat, NEW y \in Nat, NEW w \in Nat, NEW v \in Nat, NEW k \in Int, NEW t \in Nat,
           x = y + t, v <= y + k, w <= v + t
    PROVE  w <= x + k
OBVIOUS

\* Where c has the letters of b moved by s, from column q on to column u, its
\* table stays within k of that of b when it does so in column q.
LEMMA TablesCompared ==
    ASSUME NEW a \in Seq(STRING), NEW b \in Seq(STRING), NEW c \in Seq(STRING),
           NEW d, IsTable(d, a, b), NEW e, IsTable(e, a, c),
           NEW q \in Nat, NEW u \in Nat, NEW s \in Int, NEW k \in Int,
           q <= u, u <= Len(b), q + s >= 0, u + s <= Len(c), s <= k,
           \A j \in (q + 1)..u : c[j + s] = b[j],
           \A i \in 0..Len(a) : e[i][q + s] <= d[i][q] + k
    PROVE  \A i \in 0..Len(a) : \A j \in q..u : e[i][j + s] <= d[i][j] + k
<1> DEFINE S == {i \in 0..Len(a) : \A j \in q..u : e[i][j + s] <= d[i][j] + k}
<1>1. Len(a) \in Nat /\ Len(b) \in Nat /\ Len(c) \in Nat
  OBVIOUS
<1>2. \A j \in q..u : j \in 0..Len(b) /\ j + s \in 0..Len(c)
  BY <1>1
<1>3. 0 \in S
  <2>1. ASSUME NEW j \in q..u PROVE e[0][j + s] = j + s /\ d[0][j] = j
    BY <1>2 DEF IsTable
  <2>2. ASSUME NEW j \in q..u PROVE e[0][j + s] <= d[0][j] + k
    BY <2>1
  <2>3. QED BY <1>1, <2>2
<1>5. /\ \A i \in 1..Len(a) : \A j \in 0..Len(c) : e[i][j] <= e[i - 1][j] + 1
      /\ \A i \in 0..Len(a) : \A j \in 1..Len(c) : e[i][j] <= e[i][j - 1] + 1
      /\ \A i \in 1..Len(a) : \A j \in 1..Len(c) :
            e[i][j] <= e[i - 1][j - 1] + Cost(a[i], c[j])
  BY TableCells, Zenon
<1>4. ASSUME NEW i \in 1..Len(a), i - 1 \in S PROVE i \in S
  <2> DEFINE T == {t \in 0..(u - q) : e[i][q + t + s] <= d[i][q + t] + k}
  <2>1. i \in 0..Len(a) /\ i - 1 \in 0..Len(a) /\ u - q \in Nat
    BY <1>1
  <2>2. 0 \in T
    BY <2>1
  <2>3. ASSUME NEW t \in 1..(u - q), t - 1 \in T PROVE t \in T
    <3> DEFINE j == q + t
    <3>1. /\ j \in (q + 1)..u /\ j \in q..u /\ j - 1 \in q..u /\ q + (t - 1) = j - 1
          /\ t \in 0..(u - q)
      OBVIOUS
    <3>2. e[i][(j - 1) + s] <= d[i][j - 1] + k
      BY <2>3, <3>1
    <3> HIDE DEF j
    <3>3. j \in 1..Len(b) /\ j + s \in 1..Len(c) /\ (j + s) - 1 = (j - 1) + s /\ j \in Int
      <4>1. j \in Int /\ j > q /\ j <= u
        BY <3>1
      <4>2. j + s > q + s /\ j + s <= u + s
        BY <4>1
      <4>3. j \in 1..Len(b) /\ j + s \in 1..Len(c)
        BY <1>1, <4>1, <4>2
      <4>4. (j + s) - 1 = (j - 1) + s
        BY <4>1
      <4>5. QED BY <4>1, <4>3, <4>4
    <3>4. /\ e[i - 1][j + s] <= d[i - 1][j] + k
          /\ e[i - 1][(j - 1) + s] <= d[i - 1][j - 1] + k
      BY <1>4, <3>1
    <3>5. Cost(a[i], c[j + s]) = Cost(a[i], b[j]) /\ Cost(a[i], b[j]) \in Nat
      <4>1. c[j + s] = b[j]
        BY <3>1
      <4>2. QED BY <4>1 DEF Cost
    <3>6. /\ d[i][j] \in Nat /\ d[i - 1][j] \in Nat
          /\ d[i][j - 1] \in Nat /\ d[i - 1][j - 1] \in Nat
      BY <1>2, <2>1, <3>1, TableCells
    <3>7. /\ e[i][j + s] \in Nat /\ e[i - 1][j + s] \in Nat
          /\ e[i][(j - 1) + s] \in Nat /\ e[i - 1][(j - 1) + s] \in Nat
      BY <1>2, <2>1, <3>1, TableCells
    <3>8. \/ d[i][j] = d[i - 1][j] + 1
          \/ d[i][j] = d[i][j - 1] + 1
          \/ d[i][j] = d[i - 1][j - 1] + Cost(a[i], b[j])
      <4>1. d[i][j] = Least(d[i - 1][j] + 1, d[i][j - 1] + 1,
                            d[i - 1][j - 1] + Cost(a[i], b[j]))
        BY <3>3, Zenon DEF IsTable
      <4>2. QED BY <4>1, Zenon DEF Least
    <3>9. /\ e[i][j + s] <= e[i - 1][j + s] + 1
          /\ e[i][j + s] <= e[i][(j - 1) + s] + 1
          /\ e[i][j + s] <= e[i - 1][(j - 1) + s] + Cost(a[i], b[j])
      <4>1. j + s \in 0..Len(c)
        BY <1>2, <3>1
      <4>2. /\ e[i][j + s] <= e[i - 1][j + s] + 1
            /\ e[i][j + s] <= e[i][(j + s) - 1] + 1
            /\ e[i][j + s] <= e[i - 1][(j + s) - 1] + Cost(a[i], c[j + s])
        BY <1>5, <2>1, <3>3, <4>1, Zenon
      <4>3. QED BY <3>3, <3>5, <4>2
    <3>10. e[i][j + s] <= d[i][j] + k
      <4> DEFINE x == d[i][j]      y == d[i - 1][j]      z == d[i - 1][j - 1]  l == d[i][j - 1]
                 w == e[i][j + s]  v == e[i - 1][j + s]  n == e[i - 1][(j - 1) + s]
                 m == e[i][(j - 1) + s]  cost == Cost(a[i], b[j])
      <4>1. /\ x \in Nat /\ y \in Nat /\ z \in Nat /\ l \in Nat /\ cost \in Nat
            /\ w \in Nat /\ v \in Nat /\ n \in Nat /\ m \in Nat
        BY <3>5, <3>6, <3>7, Zenon
      <4>2. x = y + 1 \/ x = l + 1 \/ x = z + cost
        BY <3>8, Zenon
      <4>3. v <= y + k /\ w <= v + 1
        BY <3>4, <3>9, Zenon
      <4>4. m <= l + k /\ w <= m + 1
        BY <3>2, <3>9, Zenon
      <4>5. n <= z + k /\ w <= n + cost
        BY <3>4, <3>9, Zenon
      <4>6. w <= x + k
        <5> HIDE DEF x, y, z, l, w, v, n, m, cost
        <5>1. CASE x = y + 1
          BY <4>1, <4>3, <5>1
        <5>2. CASE x = l + 1
          BY <4>1, <4>4, <5>2
        <5>3. CASE x = z + cost
          BY <4>1, <4>5, <5>3, CellsApart, Zenon
        <5>4. QED BY <4>2, <5>1, <5>2, <5>3, Zenon
      <4>7. QED BY <4>6
    <3>11. QED BY <3>1, <3>10 DEF j
  <2>4. \A t \in 0..(u - q) : t \in T
    <3> HIDE DEF T
    <3>1. \A t \in 1..(u - q) : t - 1 \in T => t \in T
      BY <2>3
    <3>2. QED BY <2>1, <2>2, <3>1, Induction
  <2>5. ASSUME NEW j \in q..u PROVE e[i][j + s] <= d[i][j] + k
    <3>1. j - q \in 0..(u - q) /\ q + (j - q) = j
      OBVIOUS
    <3>2. e[i][q + (j - q) + s] <= d[i][q + (j - q)] + k
      BY <2>4, <3>1
    <3>3. QED BY <3>1, <3>2
  <2>6. QED BY <2>1, <2>5
<1>6. QED
  <2> HIDE DEF S
  <2>1. \A i \in 1..Len(a) : i - 1 \in S => i \in S
    BY <1>4
  <2>2. \A i \in 0..Len(a) : i \in S
    BY <1>1, <1>3, <2>1, Induction
  <2>3. QED BY <2>2 DEF S

-----------------------------------------------------------------------------
(* One edit changes the distance by at most one.                           *)

\* c is b with one letter deleted, inserted or replaced: the first p letters
\* stay, and those after the q-th move by s.
IsEdit(b, c, p, q, s) ==
    /\ p \in Nat /\ q \in 0..Len(b) /\ s \in Int
    /\ \/ s = 0 /\ q = p + 1
       \/ s = -1 /\ q = p + 1
       \/ s = 1 /\ q = p
    /\ Len(c) = Len(b) + s
    /\ \A k \in 1..p : c[k] = b[k]
    /\ \A k \in (q + 1)..Len(b) : c[k + s] = b[k]

LEMMA OneLetter ==
    ASSUME NEW S, NEW l \in S
    PROVE  <<l>> \in Seq(S) /\ Len(<<l>>) = 1 /\ <<l>>[1] = l
<1>1. QED OBVIOUS

LEMMA JoinedWords ==
    ASSUME NEW S, NEW x \in Seq(S), NEW y \in Seq(S), NEW z, z = x \o y
    PROVE  /\ z \in Seq(S) /\ Len(z) = Len(x) + Len(y)
           /\ \A k \in 1..Len(x) : z[k] = x[k]
           /\ \A k \in 1..Len(y) : z[k + Len(x)] = y[k]
<1>1. z \in Seq(S) /\ Len(z) = Len(x) + Len(y)
  OBVIOUS
<1>2. ASSUME NEW k \in 1..Len(x) PROVE z[k] = x[k]
  OBVIOUS
<1>3. ASSUME NEW k \in 1..Len(y) PROVE z[k + Len(x)] = y[k]
  OBVIOUS
<1>4. QED BY <1>1, <1>2, <1>3

LEMMA Removed ==
    ASSUME NEW S, NEW b \in Seq(S), NEW i \in 1..Len(b)
    PROVE  /\ RemoveAt(b, i) \in Seq(S) /\ Len(RemoveAt(b, i)) = Len(b) - 1
           /\ \A k \in 1..(i - 1) : RemoveAt(b, i)[k] = b[k]
           /\ \A k \in i..(Len(b) - 1) : RemoveAt(b, i)[k] = b[k + 1]
<1> DEFINE x == SubSeq(b, 1, i - 1)
           y == SubSeq(b, i + 1, Len(b))
<1>1. Len(b) \in Nat
  OBVIOUS
<1>2. /\ x \in Seq(S) /\ Len(x) = i - 1 /\ \A k \in 1..(i - 1) : x[k] = b[k]
      /\ y \in Seq(S) /\ Len(y) = Len(b) - i
      /\ \A k \in 1..(Len(b) - i) : y[k] = b[k + i]
  BY <1>1
<1> DEFINE z == RemoveAt(b, i)
<1>3. z = x \o y
  BY Zenon DEF RemoveAt
<1> HIDE DEF x, y, z
<1>4. /\ z \in Seq(S) /\ Len(z) = Len(x) + Len(y)
      /\ \A k \in 1..Len(x) : z[k] = x[k]
      /\ \A k \in 1..Len(y) : z[k + Len(x)] = y[k]
  <2>1. x \in Seq(S) /\ y \in Seq(S)
    BY <1>2
  <2>2. QED BY <1>3, <2>1, JoinedWords
<1>5. Len(z) = Len(b) - 1 /\ \A k \in 1..(i - 1) : z[k] = b[k]
  BY <1>1, <1>2, <1>4
<1>6. ASSUME NEW k \in i..(Len(b) - 1) PROVE z[k] = b[k + 1]
  <2> DEFINE n == k - (i - 1)
  <2>1. n \in 1..Len(y) /\ n + i = k + 1 /\ n + Len(x) = k
    BY <1>1, <1>2
  <2>2. z[n + Len(x)] = y[n] /\ y[n] = b[n + i]
    BY <1>2, <1>4, <2>1
  <2> HIDE DEF n
  <2>3. QED BY <2>1, <2>2
<1>7. QED BY <1>4, <1>5, <1>6 DEF z

\* c is b with one more letter.
IsInserted(c, b, i, l, S) ==
    /\ c \in Seq(S) /\ Len(c) = Len(b) + 1
    /\ \A k \in 1..(i - 1) : c[k] = b[k]
    /\ c[i] = l
    /\ \A k \in i..Len(b) : c[k + 1] = b[k]

LEMMA Inserted ==
    ASSUME NEW S, NEW b \in Seq(S), NEW i \in 1..(Len(b) + 1), NEW l \in S
    PROVE  IsInserted(InsertAt(b, i, l), b, i, l, S)
<1> DEFINE x == SubSeq(b, 1, i - 1)
           one == <<l>>
           y == SubSeq(b, i, Len(b))
           z == x \o one
<1>1. Len(b) \in Nat
  OBVIOUS
<1>2. /\ x \in Seq(S) /\ Len(x) = i - 1 /\ \A k \in 1..(i - 1) : x[k] = b[k]
      /\ y \in Seq(S) /\ Len(y) = Len(b) - (i - 1)
      /\ \A k \in 1..(Len(b) - (i - 1)) : y[k] = b[k + (i - 1)]
  BY <1>1
<1>3. one \in Seq(S) /\ Len(one) = 1 /\ one[1] = l
  BY OneLetter
<1> DEFINE w == InsertAt(b, i, l)
<1>4. w = z \o y
  BY Zenon DEF InsertAt
<1> HIDE DEF x, y, one, w
<1>5. /\ z \in Seq(S) /\ Len(z) = Len(x) + Len(one)
      /\ \A k \in 1..Len(x) : z[k] = x[k]
      /\ \A k \in 1..Len(one) : z[k + Len(x)] = one[k]
  <2>1. x \in Seq(S) /\ one \in Seq(S)
    BY <1>2, <1>3
  <2>2. QED BY <2>1, JoinedWords DEF z
<1> HIDE DEF z
<1>6. Len(z) = i /\ z[i] = l /\ \A k \in 1..(i - 1) : z[k] = b[k]
  <2>1. z[1 + Len(x)] = one[1] /\ 1 + Len(x) = i
    BY <1>2, <1>3, <1>5
  <2>2. QED BY <1>1, <1>2, <1>3, <1>5, <2>1
<1>7. /\ w \in Seq(S) /\ Len(w) = Len(z) + Len(y)
      /\ \A k \in 1..Len(z) : w[k] = z[k]
      /\ \A k \in 1..Len(y) : w[k + Len(z)] = y[k]
  <2>1. z \in Seq(S) /\ y \in Seq(S)
    BY <1>2, <1>5
  <2>2. QED BY <1>4, <2>1, JoinedWords
<1>8. /\ Len(w) = Len(b) + 1 /\ w[i] = l
      /\ \A k \in 1..(i - 1) : w[k] = b[k]
  BY <1>1, <1>2, <1>6, <1>7
<1>9. ASSUME NEW k \in i..Len(b) PROVE w[k + 1] = b[k]
  <2> DEFINE n == k - (i - 1)
  <2>1. n \in 1..Len(y) /\ n + (i - 1) = k /\ n + Len(z) = k + 1
    BY <1>1, <1>2, <1>6
  <2>2. w[n + Len(z)] = y[n] /\ y[n] = b[n + (i - 1)]
    BY <1>2, <1>7, <2>1
  <2> HIDE DEF n
  <2>3. QED BY <2>1, <2>2
<1>10. QED BY <1>7, <1>8, <1>9, Zenon DEF w, IsInserted

LEMMA EditKinds ==
    ASSUME NEW S, NEW b \in Seq(S), NEW letters \in SUBSET S, NEW c \in OneEdit(b, letters)
    PROVE  c \in Seq(S) /\ \E p, q, s : IsEdit(b, c, p, q, s)
<1>1. Len(b) \in Nat /\ DOMAIN b = 1..Len(b)
  OBVIOUS
<1>2. CASE \E i \in DOMAIN b : c = RemoveAt(b, i)
  <2>1. PICK i \in 1..Len(b) : c = RemoveAt(b, i)
    BY <1>1, <1>2
  <2>2. /\ c \in Seq(S) /\ Len(c) = Len(b) - 1
        /\ \A k \in 1..(i - 1) : c[k] = b[k]
        /\ \A k \in i..(Len(b) - 1) : c[k] = b[k + 1]
    BY <2>1, Removed
  <2>3. \A k \in (i + 1)..Len(b) : c[k + (-1)] = b[k]
    BY <1>1, <2>2
  <2>4. IsEdit(b, c, i - 1, i, -1)
    BY <1>1, <2>2, <2>3 DEF IsEdit
  <2>5. QED BY <2>2, <2>4
<1>3. CASE \E i \in 1..(Len(b) + 1), l \in letters : c = InsertAt(b, i, l)
  <2>1. PICK i \in 1..(Len(b) + 1), l \in letters : c = InsertAt(b, i, l)
    BY <1>3
  <2>2. /\ c \in Seq(S) /\ Len(c) = Len(b) + 1
        /\ \A k \in 1..(i - 1) : c[k] = b[k]
        /\ \A k \in i..Len(b) : c[k + 1] = b[k]
    <3>1. l \in S
      OBVIOUS
    <3>2. IsInserted(c, b, i, l, S)
      BY <2>1, <3>1, Inserted, Zenon
    <3>3. QED BY <3>2, Zenon DEF IsInserted
  <2>3. IsEdit(b, c, i - 1, i - 1, 1)
    BY <1>1, <2>2 DEF IsEdit
  <2>4. QED BY <2>2, <2>3
<1>4. CASE \E i \in DOMAIN b, l \in letters : c = ReplaceAt(b, i, l)
  <2>1. PICK i \in 1..Len(b), l \in letters : c = ReplaceAt(b, i, l)
    BY <1>1, <1>4
  <2>2. /\ c \in Seq(S) /\ Len(c) = Len(b)
        /\ \A k \in 1..Len(b) : k # i => c[k] = b[k]
    <3>1. l \in S
      OBVIOUS
    <3>2. c = [b EXCEPT ![i] = l]
      BY <2>1, Zenon DEF ReplaceAt
    <3>3. QED BY <1>1, <3>1, <3>2
  <2>3. ASSUME NEW k \in 1..(i - 1) PROVE c[k] = b[k]
    BY <1>1, <2>2
  <2>4. ASSUME NEW k \in (i + 1)..Len(b) PROVE c[k + 0] = b[k]
    BY <1>1, <2>2
  <2>5. IsEdit(b, c, i - 1, i, 0)
    BY <1>1, <2>2, <2>3, <2>4 DEF IsEdit
  <2>6. QED BY <2>2, <2>5
<1>5. QED BY <1>2, <1>3, <1>4 DEF OneEdit

LEMMA EditChangesByOne ==
    ASSUME NEW a \in Seq(STRING), NEW b \in Seq(STRING), NEW c \in Seq(STRING),
           NEW p, NEW q, NEW s, IsEdit(b, c, p, q, s)
    PROVE  editDistance(a, c) <= editDistance(a, b) + 1
<1>1. PICK d : IsTable(d, a, b) /\ editDistance(a, b) = d[Len(a)][Len(b)]
  BY EditTable
<1>2. PICK e : IsTable(e, a, c) /\ editDistance(a, c) = e[Len(a)][Len(c)]
  BY EditTable
<1>3. /\ Len(a) \in Nat /\ Len(b) \in Nat /\ Len(c) \in Nat
      /\ p \in Nat /\ q \in Nat /\ s \in Int /\ p <= q /\ q <= Len(b) /\ p <= Len(b)
      /\ Len(c) = Len(b) + s /\ p <= Len(c) /\ q + s >= 0 /\ s <= 1
  BY DEF IsEdit
<1>4. \A i \in 0..Len(a) : \A j \in 0..p : e[i][j] <= d[i][j]
  <2> DEFINE o == 0
  <2>1. \A i \in 0..Len(a) : e[i][o + o] <= d[i][o] + o
    <3>1. \A i \in 0..Len(a) : e[i][0] = i /\ d[i][0] = i
      BY <1>1, <1>2 DEF IsTable
    <3>2. QED BY <1>3, <3>1
  <2>2. \A j \in (o + 1)..p : c[j + o] = b[j]
    BY DEF IsEdit
  <2>3. o <= p /\ p + o <= Len(c) /\ o + o >= 0 /\ o \in Nat /\ o \in Int /\ o <= o
    BY <1>3
  <2>4. \A i \in 0..Len(a) : \A j \in o..p : e[i][j + o] <= d[i][j] + o
    <3> HIDE DEF o
    <3>1. QED BY <1>1, <1>2, <1>3, <2>1, <2>2, <2>3, TablesCompared
  <2>5. ASSUME NEW i \in 0..Len(a), NEW j \in 0..p PROVE e[i][j] <= d[i][j]
    <3>1. j \in 0..Len(b) /\ j + 0 = j
      BY <1>3
    <3>2. d[i][j] \in Nat
      BY <1>1, <3>1, TableCells
    <3>3. e[i][j] <= d[i][j] + 0
      BY <2>4, <3>1
    <3>4. QED BY <3>2, <3>3
  <2>6. QED BY <2>5
<1>5. \A i \in 0..Len(a) : e[i][q + s] <= d[i][q] + 1
  <2>1. CASE s = 0 /\ q = p + 1
    <3> DEFINE T == {i \in 0..Len(a) : e[i][q] <= d[i][q] + 1}
    <3>1. q \in 1..Len(b) /\ q \in 1..Len(c) /\ q - 1 = p
      BY <1>3, <2>1
    <3>2. 0 \in T
      <4>1. e[0][q] = q /\ d[0][q] = q
        BY <1>1, <1>2, <1>3, <3>1 DEF IsTable
      <4>2. QED BY <1>3, <4>1
    <3>3. ASSUME NEW i \in 1..Len(a), i - 1 \in T PROVE i \in T
      <4> DEFINE x == d[i][q]  y == d[i - 1][q]  z == d[i - 1][p]  l == d[i][p]
                 w == e[i][q]  v == e[i - 1][q]  n == e[i - 1][p]  m == e[i][p]
                 cost == Cost(a[i], b[q])  newCost == Cost(a[i], c[q])
      <4>1. i \in 0..Len(a) /\ i - 1 \in 0..Len(a) /\ p \in 0..p
        BY <1>3
      <4>2. /\ q \in 0..Len(b) /\ p \in 0..Len(b)
            /\ q \in 0..Len(c) /\ p \in 0..Len(c)
        BY <1>3, <3>1
      <4>3. x \in Nat /\ y \in Nat /\ z \in Nat /\ l \in Nat
        BY <1>1, <4>1, <4>2, TableCells
      <4>4. w \in Nat /\ v \in Nat /\ n \in Nat /\ m \in Nat
        BY <1>2, <4>1, <4>2, TableCells
      <4>5. cost \in Nat /\ newCost \in Nat /\ newCost <= 1
        BY DEF Cost
      <4>6. v <= y + 1 /\ n <= z /\ m <= l
        BY <1>4, <3>3, <4>1
      <4>7. x = y + 1 \/ x = l + 1 \/ x = z + cost
        BY <1>1, <3>1, TableCells
      <4>8. w <= v + 1 /\ w <= m + 1 /\ w <= n + newCost
        BY <1>2, <3>1, <4>1, <4>2, TableCells
      <4>9. w <= x + 1
        <5> HIDE DEF x, y, z, l, w, v, n, m, cost, newCost
        <5>1. QED BY <4>3, <4>4, <4>5, <4>6, <4>7, <4>8
      <4>10. QED BY <4>1, <4>9
    <3>4. \A i \in 0..Len(a) : i \in T
      <4> HIDE DEF T
      <4>1. \A i \in 1..Len(a) : i - 1 \in T => i \in T
        BY <3>3
      <4>2. QED BY <1>3, <3>2, <4>1, Induction
    <3>5. q + s = q
      BY <1>3, <2>1
    <3>6. QED BY <3>4, <3>5
  <2>2. CASE s = -1 /\ q = p + 1
    <3>1. q \in 1..Len(b) /\ q - 1 = p /\ q + s = p /\ p \in 0..p /\ p \in 0..Len(c)
          /\ q \in 0..Len(b) /\ p \in 0..Len(b)
      BY <1>3, <2>2
    <3>2. ASSUME NEW i \in 0..Len(a) PROVE e[i][q + s] <= d[i][q] + 1
      <4> DEFINE x == d[i][q]  y == d[i][p]  w == e[i][p]
      <4>1. x \in Nat /\ y \in Nat /\ w \in Nat
        BY <1>1, <1>2, <3>1, TableCells
      <4>2. w <= y /\ y <= x + 1
        BY <1>1, <1>4, <3>1, TableLeft
      <4>3. w <= x + 1
        <5> HIDE DEF x, y, w
        <5>1. QED BY <4>1, <4>2
      <4>4. QED BY <3>1, <4>3
    <3>3. QED BY <3>2
  <2>3. CASE s = 1 /\ q = p
    <3>1. q \in 0..Len(b) /\ q + s \in 1..Len(c) /\ (q + s) - 1 = q /\ q \in 0..p
          /\ q \in 0..Len(c) /\ q + s \in 0..Len(c)
      BY <1>3, <2>3
    <3>2. ASSUME NEW i \in 0..Len(a) PROVE e[i][q + s] <= d[i][q] + 1
      <4> DEFINE x == d[i][q]  y == e[i][q]  w == e[i][q + s]
      <4>1. x \in Nat /\ y \in Nat /\ w \in Nat
        BY <1>1, <1>2, <3>1, TableCells
      <4>2. w <= e[i][(q + s) - 1] + 1
        BY <1>2, <3>1, TableCells
      <4>3. w <= y + 1 /\ y <= x
        BY <1>4, <3>1, <4>2
      <4>4. w <= x + 1
        <5> HIDE DEF x, y, w
        <5>1. QED BY <4>1, <4>3
      <4>5. QED BY <4>4
    <3>3. QED BY <3>2
  <2>4. QED BY <2>1, <2>2, <2>3 DEF IsEdit
<1>6. \A j \in (q + 1)..Len(b) : c[j + s] = b[j]
  BY DEF IsEdit
<1>7. \A i \in 0..Len(a) : \A j \in q..Len(b) : e[i][j + s] <= d[i][j] + 1
  <2> DEFINE u == Len(b)  one == 1
  <2>1. u \in Nat /\ u <= Len(b) /\ q <= u /\ u + s <= Len(c) /\ one \in Int /\ s <= one
    BY <1>3
  <2> HIDE DEF u, one
  <2>2. \A j \in (q + 1)..u : c[j + s] = b[j]
    BY <1>6 DEF u
  <2>3. \A i \in 0..Len(a) : e[i][q + s] <= d[i][q] + one
    BY <1>5 DEF one
  <2>4. q \in Nat /\ s \in Int /\ q + s >= 0
    BY <1>3
  <2>5. \A i \in 0..Len(a) : \A j \in q..u : e[i][j + s] <= d[i][j] + one
    BY <1>1, <1>2, <2>1, <2>2, <2>3, <2>4, TablesCompared
  <2>6. QED BY <2>5 DEF u, one
<1>8. Len(a) \in 0..Len(a) /\ Len(b) \in q..Len(b) /\ Len(b) + s = Len(c)
  BY <1>3
<1>9. e[Len(a)][Len(b) + s] <= d[Len(a)][Len(b)] + 1
  BY <1>7, <1>8
<1>10. QED BY <1>1, <1>2, <1>8, <1>9

LEMMA EditNone ==
    ASSUME NEW a \in Seq(STRING)
    PROVE  editDistance(a, a) = 0
<1>1. PICK d : IsTable(d, a, a) /\ editDistance(a, a) = d[Len(a)][Len(a)]
  BY EditTable
<1> DEFINE T == {i \in 0..Len(a) : d[i][i] = 0}
<1>2. Len(a) \in Nat
  OBVIOUS
<1>3. 0 \in T
  BY <1>1, <1>2 DEF IsTable
<1>4. ASSUME NEW i \in 1..Len(a), i - 1 \in T PROVE i \in T
  <2> DEFINE x == d[i][i]  z == d[i - 1][i - 1]  cost == Cost(a[i], a[i])
  <2>1. i \in 0..Len(a)
    BY <1>2
  <2>2. x \in Nat /\ x <= z + cost
    BY <1>1, <2>1, TableCells
  <2>3. z = 0 /\ cost = 0
    BY <1>4 DEF Cost
  <2>4. x = 0
    <3> HIDE DEF x, z, cost
    <3>1. QED BY <2>2, <2>3
  <2>5. QED BY <2>1, <2>4
<1>5. QED
  <2> HIDE DEF T
  <2>1. \A i \in 1..Len(a) : i - 1 \in T => i \in T
    BY <1>4
  <2>2. \A i \in 0..Len(a) : i \in T
    BY <1>2, <1>3, <2>1, Induction
  <2>3. d[Len(a)][Len(a)] = 0
    BY <1>2, <2>2 DEF T
  <2>4. QED BY <1>1, <2>3

LEMMA EditNatural ==
    ASSUME NEW a \in Seq(STRING), NEW b \in Seq(STRING)
    PROVE  editDistance(a, b) \in Nat
<1>1. PICK d : IsTable(d, a, b) /\ editDistance(a, b) = d[Len(a)][Len(b)]
  BY EditTable
<1>2. Len(a) \in 0..Len(a) /\ Len(b) \in 0..Len(b)
  OBVIOUS
<1>3. d[Len(a)][Len(b)] \in Nat
  BY <1>1, <1>2, TableCells
<1>4. QED BY <1>1, <1>3

-----------------------------------------------------------------------------
(* The words that n edits make of a word, and their distance from it.      *)

\* W[k] has the words that up to k edits make of a.
IsRounds(W, a, letters) ==
    /\ W[0] = {a}
    /\ \A k \in Nat \ {0} :
          W[k] = W[k - 1] \cup UNION {OneEdit(w, letters) : w \in W[k - 1]}

LEMMA RoundsGrow ==
    ASSUME NEW W, NEW a, NEW letters, IsRounds(W, a, letters), NEW k \in Nat
    PROVE  /\ W[0] = {a}
           /\ W[k] \subseteq W[k + 1]
           /\ \A w \in W[k] : OneEdit(w, letters) \subseteq W[k + 1]
           /\ \A c \in W[k + 1] : c \in W[k] \/ \E w \in W[k] : c \in OneEdit(w, letters)
<1>1. k + 1 \in Nat \ {0} /\ (k + 1) - 1 = k
  OBVIOUS
<1>2. W[k + 1] = W[k] \cup UNION {OneEdit(w, letters) : w \in W[k]}
  BY <1>1 DEF IsRounds
<1>3. W[0] = {a}
  BY DEF IsRounds
<1>4. QED BY <1>2, <1>3

\* A word made by n edits is no further than n away.
LEMMA RoundsAreNear ==
    ASSUME NEW a \in Seq(STRING), NEW letters \in SUBSET STRING,
           NEW W, IsRounds(W, a, letters), NEW n \in Nat
    PROVE  \A w \in W[n] : w \in Seq(STRING) /\ editDistance(a, w) <= n
<1> DEFINE T == {k \in 0..n : \A w \in W[k] : w \in Seq(STRING) /\ editDistance(a, w) <= k}
<1>1. 0 \in T
  <2>1. \A w \in W[0] : w = a
    BY DEF IsRounds
  <2>2. \A w \in W[0] : w \in Seq(STRING) /\ editDistance(a, w) <= 0
    BY <2>1, EditNone
  <2>3. 0 \in 0..n
    OBVIOUS
  <2>4. QED BY <2>2, <2>3
<1>2. ASSUME NEW k \in 1..n, k - 1 \in T PROVE k \in T
  <2>1. k - 1 \in Nat /\ (k - 1) + 1 = k /\ k \in 0..n
    OBVIOUS
  <2>2. \A w \in W[k - 1] : w \in Seq(STRING) /\ editDistance(a, w) <= k - 1
    BY <1>2
  <2>3. ASSUME NEW c \in W[k] PROVE c \in Seq(STRING) /\ editDistance(a, c) <= k
    <3>1. c \in W[k - 1] \/ \E w \in W[k - 1] : c \in OneEdit(w, letters)
      BY <2>1, RoundsGrow
    <3>2. CASE c \in W[k - 1]
      <4>1. c \in Seq(STRING) /\ editDistance(a, c) <= k - 1
        BY <2>2, <3>2
      <4>2. QED BY <4>1, EditNatural
    <3>3. CASE \E w \in W[k - 1] : c \in OneEdit(w, letters)
      <4>1. PICK w \in W[k - 1] : c \in OneEdit(w, letters)
        BY <3>3
      <4>2. w \in Seq(STRING) /\ editDistance(a, w) <= k - 1
        BY <2>2
      <4>3. c \in Seq(STRING) /\ \E p, q, s : IsEdit(w, c, p, q, s)
        BY <4>1, <4>2, EditKinds
      <4>4. editDistance(a, c) <= editDistance(a, w) + 1
        BY <4>2, <4>3, EditChangesByOne
      <4>5. editDistance(a, c) \in Nat /\ editDistance(a, w) \in Nat
        BY <4>2, <4>3, EditNatural
      <4>6. QED BY <4>2, <4>3, <4>4, <4>5
    <3>4. QED BY <3>1, <3>2, <3>3
  <2>4. QED BY <2>1, <2>3
<1>3. QED
  <2> HIDE DEF T
  <2>1. \A k \in 1..n : k - 1 \in T => k \in T
    BY <1>2
  <2>2. \A k \in 0..n : k \in T
    BY <1>1, <2>1, Induction
  <2>3. n \in 0..n
    OBVIOUS
  <2>4. QED BY <2>2, <2>3 DEF T

\* Part of the way from a to b: the first j letters of b, then what a has
\* after its first i.
Between(a, b, i, j) ==
    [k \in 1..(j + Len(a) - i) |-> IF k <= j THEN b[k] ELSE a[(k - j) + i]]

LEMMA SameWord ==
    ASSUME NEW S, NEW x \in Seq(S), NEW y \in Seq(S), Len(x) = Len(y),
           \A k \in 1..Len(x) : x[k] = y[k]
    PROVE  x = y
<1>1. QED OBVIOUS

IsBetween(z, a, b, i, j, S) ==
    /\ z \in Seq(S) /\ Len(z) = j + Len(a) - i
    /\ \A k \in 1..j : z[k] = b[k]
    /\ \A k \in (j + 1)..(j + Len(a) - i) : z[k] = a[(k - j) + i]

LEMMA BetweenLetters ==
    ASSUME NEW S, NEW a \in Seq(S), NEW b \in Seq(S), NEW i \in 0..Len(a), NEW j \in 0..Len(b)
    PROVE  IsBetween(Between(a, b, i, j), a, b, i, j, S)
<1>0. Len(a) \in Nat /\ Len(b) \in Nat
  OBVIOUS
<1>1. j + Len(a) - i \in Nat
  BY <1>0
<1>2. ASSUME NEW k \in 1..(j + Len(a) - i)
      PROVE  (IF k <= j THEN b[k] ELSE a[(k - j) + i]) \in S
  <2>1. k <= j => k \in 1..Len(b)
    BY <1>0
  <2>2. ~ (k <= j) => (k - j) + i \in 1..Len(a)
    BY <1>0
  <2>3. QED BY <1>0, <2>1, <2>2
<1> DEFINE z == Between(a, b, i, j)
           n == j + Len(a) - i
<1>3. z = [k \in 1..n |-> IF k <= j THEN b[k] ELSE a[(k - j) + i]]
  BY DEF Between
<1>4. z \in Seq(S) /\ Len(z) = n
  <2> HIDE DEF z, n
  <2>1. n \in Nat
    BY <1>1 DEF n
  <2>2. \A k \in 1..n : (IF k <= j THEN b[k] ELSE a[(k - j) + i]) \in S
    BY <1>2 DEF n
  <2>3. QED BY <1>3, <2>1, <2>2
<1>5. ASSUME NEW k \in 1..j PROVE z[k] = b[k]
  <2>1. k \in 1..n /\ k <= j
    BY <1>0
  <2> HIDE DEF z, n
  <2>2. QED BY <1>3, <2>1
<1>6. ASSUME NEW k \in (j + 1)..(j + Len(a) - i) PROVE z[k] = a[(k - j) + i]
  <2>1. k \in 1..n /\ ~ (k <= j)
    BY <1>0
  <2> HIDE DEF z, n
  <2>2. QED BY <1>3, <2>1
<1>7. QED BY <1>4, <1>5, <1>6 DEF IsBetween

LEMMA BetweenEnds ==
    ASSUME NEW S, NEW a \in Seq(S), NEW b \in Seq(S)
    PROVE  Between(a, b, 0, 0) = a /\ Between(a, b, Len(a), Len(b)) = b
<1>1. Len(a) \in Nat /\ Len(b) \in Nat
  OBVIOUS
<1>2. ASSUME NEW u \in 0..Len(a), NEW v \in 0..Len(b)
      PROVE  IsBetween(Between(a, b, u, v), a, b, u, v, S)
  BY BetweenLetters
<1>3. Between(a, b, 0, 0) = a
  <2>1. 0 \in 0..Len(a) /\ 0 \in 0..Len(b)
    BY <1>1
  <2> DEFINE z == Between(a, b, 0, 0)
  <2>2. z \in Seq(S) /\ Len(z) = 0 + Len(a) - 0
        /\ \A k \in (0 + 1)..(0 + Len(a) - 0) : z[k] = a[(k - 0) + 0]
    BY <1>2, <2>1 DEF IsBetween
  <2> HIDE DEF z
  <2>3. Len(z) = Len(a) /\ \A k \in 1..Len(z) : z[k] = a[k]
    BY <1>1, <2>2
  <2>4. z = a
    BY <2>2, <2>3, SameWord
  <2>5. QED BY <2>4 DEF z
<1>4. Between(a, b, Len(a), Len(b)) = b
  <2>1. Len(a) \in 0..Len(a) /\ Len(b) \in 0..Len(b)
    BY <1>1
  <2> DEFINE z == Between(a, b, Len(a), Len(b))
  <2>2. z \in Seq(S) /\ Len(z) = Len(b) + Len(a) - Len(a) /\ \A k \in 1..Len(b) : z[k] = b[k]
    BY <1>2, <2>1 DEF IsBetween
  <2> HIDE DEF z
  <2>3. Len(z) = Len(b) /\ \A k \in 1..Len(z) : z[k] = b[k]
    BY <1>1, <2>2
  <2>4. z = b
    BY <1>1, <2>2, <2>3, SameWord
  <2>5. QED BY <2>4 DEF z
<1>5. QED BY <1>3, <1>4

LEMMA BetweenRemoved ==
    ASSUME NEW S, NEW a \in Seq(S), NEW b \in Seq(S), NEW i \in 0..Len(a), NEW j \in 0..Len(b), NEW letters
    PROVE  i > 0 => Between(a, b, i, j) \in OneEdit(Between(a, b, i - 1, j), letters)
<1>1. Len(a) \in Nat /\ Len(b) \in Nat
  OBVIOUS
<1>2. ASSUME NEW u \in 0..Len(a), NEW v \in 0..Len(b)
      PROVE  IsBetween(Between(a, b, u, v), a, b, u, v, S)
  BY BetweenLetters
<1> DEFINE z == Between(a, b, i, j)
<1>5. /\ z \in Seq(S) /\ Len(z) = j + Len(a) - i
      /\ \A k \in 1..j : z[k] = b[k]
      /\ \A k \in (j + 1)..(j + Len(a) - i) : z[k] = a[(k - j) + i]
  BY <1>2 DEF IsBetween
<1>6. ASSUME i > 0 PROVE z \in OneEdit(Between(a, b, i - 1, j), letters)
  <2> DEFINE w == Between(a, b, i - 1, j)
             c == RemoveAt(w, j + 1)
  <2>1. i - 1 \in 0..Len(a)
    BY <1>1, <1>6
  <2>2. /\ w \in Seq(S) /\ Len(w) = j + Len(a) - (i - 1)
        /\ \A k \in 1..j : w[k] = b[k]
        /\ \A k \in (j + 1)..(j + Len(a) - (i - 1)) : w[k] = a[(k - j) + (i - 1)]
    BY <1>2, <2>1 DEF IsBetween
  <2> HIDE DEF z, w
  <2>3. j + 1 \in 1..Len(w)
    BY <1>1, <2>2
  <2>4. /\ c \in Seq(S) /\ Len(c) = Len(w) - 1
        /\ \A k \in 1..((j + 1) - 1) : c[k] = w[k]
        /\ \A k \in (j + 1)..(Len(w) - 1) : c[k] = w[k + 1]
    BY <2>2, <2>3, Removed
  <2>5. c \in OneEdit(w, letters)
    BY <2>2, <2>3 DEF OneEdit
  <2> HIDE DEF c
  <2>6. Len(c) = Len(z)
    <3>1. Len(z) = j + Len(a) - i /\ Len(w) = j + Len(a) - (i - 1) /\ Len(c) = Len(w) - 1
      BY <1>5, <2>2, <2>4, Zenon
    <3>2. QED BY <1>1, <3>1
  <2>7. ASSUME NEW k \in 1..Len(c) PROVE c[k] = z[k]
    <3>1. CASE k <= j
      <4>1. k \in 1..j /\ k \in 1..((j + 1) - 1)
        BY <1>1, <3>1
      <4>2. QED BY <1>5, <2>2, <2>4, <4>1
    <3>2. CASE ~ (k <= j)
      <4>1. /\ k \in (j + 1)..(Len(w) - 1)
            /\ k + 1 \in (j + 1)..(j + Len(a) - (i - 1))
            /\ k \in (j + 1)..(j + Len(a) - i)
            /\ ((k + 1) - j) + (i - 1) = (k - j) + i
        BY <1>1, <2>2, <2>4, <3>2
      <4>2. c[k] = w[k + 1] /\ w[k + 1] = a[((k + 1) - j) + (i - 1)] /\ z[k] = a[(k - j) + i]
        BY <1>5, <2>2, <2>4, <4>1
      <4>3. QED BY <4>1, <4>2
    <3>3. QED BY <3>1, <3>2
  <2>8. c = z
    BY <1>5, <2>4, <2>6, <2>7, SameWord
  <2>9. QED BY <2>5, <2>8 DEF w
<1>7. QED BY <1>6

LEMMA BetweenInserted ==
    ASSUME NEW S, NEW a \in Seq(S), NEW b \in Seq(S), NEW i \in 0..Len(a), NEW j \in 0..Len(b),
           NEW letters, j > 0 => b[j] \in letters
    PROVE  j > 0 => Between(a, b, i, j) \in OneEdit(Between(a, b, i, j - 1), letters)
<1>1. Len(a) \in Nat /\ Len(b) \in Nat
  OBVIOUS
<1>2. ASSUME NEW u \in 0..Len(a), NEW v \in 0..Len(b)
      PROVE  IsBetween(Between(a, b, u, v), a, b, u, v, S)
  BY BetweenLetters
<1> DEFINE z == Between(a, b, i, j)
<1>5. /\ z \in Seq(S) /\ Len(z) = j + Len(a) - i
      /\ \A k \in 1..j : z[k] = b[k]
      /\ \A k \in (j + 1)..(j + Len(a) - i) : z[k] = a[(k - j) + i]
  BY <1>2 DEF IsBetween
<1>7. ASSUME j > 0 PROVE z \in OneEdit(Between(a, b, i, j - 1), letters)
  <2> DEFINE w == Between(a, b, i, j - 1)
             c == InsertAt(w, j, b[j])
  <2>1. j - 1 \in 0..Len(b) /\ j \in 1..Len(b) /\ b[j] \in letters /\ b[j] \in S
    BY <1>1, <1>7
  <2>2. /\ w \in Seq(S) /\ Len(w) = (j - 1) + Len(a) - i
        /\ \A k \in 1..(j - 1) : w[k] = b[k]
        /\ \A k \in ((j - 1) + 1)..((j - 1) + Len(a) - i) : w[k] = a[(k - (j - 1)) + i]
    BY <1>2, <2>1 DEF IsBetween
  <2> HIDE DEF z, w
  <2>3. j \in 1..(Len(w) + 1)
    BY <1>1, <2>1, <2>2
  <2>4. /\ c \in Seq(S) /\ Len(c) = Len(w) + 1
        /\ \A k \in 1..(j - 1) : c[k] = w[k]
        /\ c[j] = b[j]
        /\ \A k \in j..Len(w) : c[k + 1] = w[k]
    <3> DEFINE l == b[j]
    <3>1. w \in Seq(S) /\ l \in S
      BY <2>1, <2>2
    <3>2. c = InsertAt(w, j, l)
      OBVIOUS
    <3> HIDE DEF l, c
    <3>3. IsInserted(c, w, j, l, S)
      BY <2>3, <3>1, <3>2, Inserted, Zenon
    <3>4. QED BY <3>3, Zenon DEF IsInserted, l
  <2>5. c \in OneEdit(w, letters)
    BY <2>1, <2>2, <2>3 DEF OneEdit
  <2> HIDE DEF c
  <2>6. Len(c) = Len(z)
    <3>1. Len(z) = j + Len(a) - i /\ Len(w) = (j - 1) + Len(a) - i /\ Len(c) = Len(w) + 1
      BY <1>5, <2>2, <2>4, Zenon
    <3>2. QED BY <1>1, <3>1
  <2>7. ASSUME NEW k \in 1..Len(c) PROVE c[k] = z[k]
    <3>1. CASE k < j
      <4>1. k \in 1..j /\ k \in 1..(j - 1)
        BY <1>1, <3>1
      <4>2. QED BY <1>5, <2>2, <2>4, <4>1
    <3>2. CASE k = j
      <4>1. k \in 1..j
        BY <1>1, <3>2
      <4>2. QED BY <1>5, <2>4, <3>2, <4>1
    <3>3. CASE k > j
      <4>1. /\ k - 1 \in j..Len(w) /\ (k - 1) + 1 = k
            /\ k - 1 \in ((j - 1) + 1)..((j - 1) + Len(a) - i)
            /\ k \in (j + 1)..(j + Len(a) - i)
            /\ ((k - 1) - (j - 1)) + i = (k - j) + i
        BY <1>1, <2>1, <2>2, <2>4, <3>3
      <4>2. c[(k - 1) + 1] = w[k - 1]
        BY <2>4, <4>1
      <4>3. w[k - 1] = a[((k - 1) - (j - 1)) + i] /\ z[k] = a[(k - j) + i]
        BY <1>5, <2>2, <4>1
      <4>4. QED BY <4>1, <4>2, <4>3
    <3>4. QED BY <1>1, <2>4, <3>1, <3>2, <3>3
  <2>8. c = z
    BY <1>5, <2>4, <2>6, <2>7, SameWord
  <2>9. QED BY <2>5, <2>8 DEF w
<1>8. QED BY <1>7

LEMMA BetweenReplaced ==
    ASSUME NEW S, NEW a \in Seq(S), NEW b \in Seq(S), NEW i \in 0..Len(a), NEW j \in 0..Len(b),
           NEW letters, j > 0 => b[j] \in letters
    PROVE  i > 0 /\ j > 0 =>
              /\ Between(a, b, i, j) \in OneEdit(Between(a, b, i - 1, j - 1), letters)
              /\ a[i] = b[j] => Between(a, b, i, j) = Between(a, b, i - 1, j - 1)
<1>1. Len(a) \in Nat /\ Len(b) \in Nat
  OBVIOUS
<1>2. ASSUME NEW u \in 0..Len(a), NEW v \in 0..Len(b)
      PROVE  IsBetween(Between(a, b, u, v), a, b, u, v, S)
  BY BetweenLetters
<1> DEFINE z == Between(a, b, i, j)
<1>5. /\ z \in Seq(S) /\ Len(z) = j + Len(a) - i
      /\ \A k \in 1..j : z[k] = b[k]
      /\ \A k \in (j + 1)..(j + Len(a) - i) : z[k] = a[(k - j) + i]
  BY <1>2 DEF IsBetween
<1>8. ASSUME i > 0, j > 0
      PROVE  /\ z \in OneEdit(Between(a, b, i - 1, j - 1), letters)
             /\ a[i] = b[j] => z = Between(a, b, i - 1, j - 1)
  <2> DEFINE w == Between(a, b, i - 1, j - 1)
             c == [w EXCEPT ![j] = b[j]]
  <2>1. i - 1 \in 0..Len(a) /\ j - 1 \in 0..Len(b) /\ j \in 1..Len(b) /\ b[j] \in letters
        /\ b[j] \in S
    BY <1>1, <1>8
  <2>2. /\ w \in Seq(S) /\ Len(w) = (j - 1) + Len(a) - (i - 1)
        /\ \A k \in 1..(j - 1) : w[k] = b[k]
        /\ \A k \in ((j - 1) + 1)..((j - 1) + Len(a) - (i - 1)) :
              w[k] = a[(k - (j - 1)) + (i - 1)]
    BY <1>2, <2>1 DEF IsBetween
  <2> HIDE DEF z, w
  <2>3. j \in 1..Len(w) /\ j \in DOMAIN w /\ Len(w) = j + Len(a) - i
    <3>1. Len(w) = (j - 1) + Len(a) - (i - 1) /\ w \in Seq(S)
      BY <2>2, Zenon
    <3>2. j \in 1..Len(w) /\ Len(w) = j + Len(a) - i
      BY <1>1, <1>8, <2>1, <3>1
    <3>3. DOMAIN w = 1..Len(w)
      BY <3>1
    <3>4. QED BY <3>2, <3>3
  <2>4. c \in Seq(S) /\ Len(c) = Len(w) /\ c[j] = b[j]
        /\ \A k \in 1..Len(w) : k # j => c[k] = w[k]
    BY <2>1, <2>2, <2>3
  <2>5. c \in OneEdit(w, letters)
    <3>1. c = ReplaceAt(w, j, b[j])
      BY DEF ReplaceAt
    <3> HIDE DEF c
    <3>2. QED BY <2>1, <2>3, <3>1 DEF OneEdit
  <2> HIDE DEF c
  <2>6. ASSUME NEW k \in 1..Len(w), k # j PROVE w[k] = z[k]
    <3>1. CASE k < j
      <4>1. k \in 1..j /\ k \in 1..(j - 1)
        BY <1>1, <3>1
      <4>2. QED BY <1>5, <2>2, <4>1
    <3>2. CASE k > j
      <4>1. /\ k \in ((j - 1) + 1)..((j - 1) + Len(a) - (i - 1))
            /\ k \in (j + 1)..(j + Len(a) - i)
            /\ (k - (j - 1)) + (i - 1) = (k - j) + i
        BY <1>1, <2>1, <2>2, <3>2
      <4>2. w[k] = a[(k - (j - 1)) + (i - 1)] /\ z[k] = a[(k - j) + i]
        BY <1>5, <2>2, <4>1
      <4>3. QED BY <4>1, <4>2
    <3>3. QED BY <1>1, <2>1, <2>6, <3>1, <3>2
  <2>7. Len(z) = Len(w) /\ z[j] = b[j]
    <3>1. j \in 1..j
      BY <2>1
    <3>2. QED BY <1>5, <2>3, <3>1
  <2>8. c = z
    <3>1. \A k \in 1..Len(c) : c[k] = z[k]
      BY <2>4, <2>6, <2>7
    <3>2. QED BY <1>5, <2>4, <2>7, <3>1, SameWord
  <2>9. ASSUME a[i] = b[j] PROVE z = w
    <3>1. /\ j \in ((j - 1) + 1)..((j - 1) + Len(a) - (i - 1))
          /\ (j - (j - 1)) + (i - 1) = i
      BY <1>1, <1>8, <2>1
    <3>2. w[j] = a[(j - (j - 1)) + (i - 1)]
      BY <2>2, <3>1
    <3>3. w[j] = z[j]
      BY <2>7, <2>9, <3>1, <3>2
    <3>4. \A k \in 1..Len(w) : w[k] = z[k]
      BY <2>6, <3>3
    <3>5. w = z
      BY <1>5, <2>2, <2>7, <3>4, SameWord
    <3>6. QED BY <3>5
  <2>10. QED BY <2>5, <2>8, <2>9 DEF w
<1>9. QED BY <1>8

\* A word is among those that its distance in edits makes.
LEMMA RoundsReach ==
    ASSUME NEW a \in Seq(STRING), NEW b \in Seq(STRING),
           NEW letters, \A k \in 1..Len(b) : b[k] \in letters,
           NEW W, IsRounds(W, a, letters)
    PROVE  b \in W[editDistance(a, b)]
<1>1. Len(a) \in Nat /\ Len(b) \in Nat
  OBVIOUS
<1>2. PICK d : IsTable(d, a, b) /\ editDistance(a, b) = d[Len(a)][Len(b)]
  BY <1>1, EditTable
<1> DEFINE P(i, j) == Between(a, b, i, j) \in W[d[i][j]]
<1>3. \A i \in 0..Len(a) : \A j \in 0..Len(b) : d[i][j] \in Nat
  BY <1>1, <1>2, TableCells
<1>4. \A n \in Nat : /\ W[n] \subseteq W[n + 1]
                     /\ \A w \in W[n] : OneEdit(w, letters) \subseteq W[n + 1]
  BY RoundsGrow
<1>5. ASSUME NEW i \in 1..Len(a), NEW j \in 0..Len(b), P(i - 1, j), d[i][j] = d[i - 1][j] + 1
      PROVE  P(i, j)
  <2>1. i \in 0..Len(a) /\ i - 1 \in 0..Len(a) /\ i > 0
    BY <1>1
  <2>2. Between(a, b, i, j) \in OneEdit(Between(a, b, i - 1, j), letters)
    BY <2>1, BetweenRemoved
  <2>3. d[i - 1][j] \in Nat
    BY <1>3, <2>1
  <2>4. QED BY <1>4, <1>5, <2>2, <2>3
<1>6. ASSUME NEW i \in 0..Len(a), NEW j \in 1..Len(b), P(i, j - 1), d[i][j] = d[i][j - 1] + 1
      PROVE  P(i, j)
  <2>1. j \in 0..Len(b) /\ j - 1 \in 0..Len(b) /\ j > 0
    BY <1>1
  <2>2. Between(a, b, i, j) \in OneEdit(Between(a, b, i, j - 1), letters)
    BY <2>1, BetweenInserted
  <2>3. d[i][j - 1] \in Nat
    BY <1>3, <2>1
  <2>4. QED BY <1>4, <1>6, <2>2, <2>3
<1>7. ASSUME NEW i \in 1..Len(a), NEW j \in 1..Len(b), P(i - 1, j - 1),
             d[i][j] = d[i - 1][j - 1] + Cost(a[i], b[j])
      PROVE  P(i, j)
  <2>1. /\ i \in 0..Len(a) /\ i - 1 \in 0..Len(a) /\ i > 0
        /\ j \in 0..Len(b) /\ j - 1 \in 0..Len(b) /\ j > 0
    BY <1>1
  <2>2. /\ Between(a, b, i, j) \in OneEdit(Between(a, b, i - 1, j - 1), letters)
        /\ a[i] = b[j] => Between(a, b, i, j) = Between(a, b, i - 1, j - 1)
    BY <2>1, BetweenReplaced
  <2>3. d[i - 1][j - 1] \in Nat
    BY <1>3, <2>1
  <2>4. CASE a[i] = b[j]
    <3>1. d[i][j] = d[i - 1][j - 1]
      <4> DEFINE z == d[i - 1][j - 1]
      <4>1. z + 0 = z
        <5>1. z \in Nat
          BY <2>3
        <5> HIDE DEF z
        <5>2. QED BY <5>1
      <4>2. Cost(a[i], b[j]) = 0
        BY <2>4 DEF Cost
      <4>3. QED BY <1>7, <4>1, <4>2
    <3>2. QED BY <1>7, <2>2, <2>4, <3>1
  <2>5. CASE a[i] # b[j]
    <3>1. d[i][j] = d[i - 1][j - 1] + 1
      BY <1>7, <2>5 DEF Cost
    <3>2. QED BY <1>4, <1>7, <2>2, <2>3, <3>1
  <2>6. QED BY <2>4, <2>5
<1> HIDE DEF P
<1> DEFINE S == {i \in 0..Len(a) : \A j \in 0..Len(b) : P(i, j)}
<1>8. ASSUME NEW i \in 0..Len(a), P(i, 0), i > 0 => i - 1 \in S PROVE i \in S
  <2> DEFINE T == {j \in 0..Len(b) : P(i, j)}
  <2>1. 0 \in T
    BY <1>1, <1>8
  <2>2. ASSUME NEW j \in 1..Len(b), j - 1 \in T PROVE j \in T
    <3>1. j \in 0..Len(b) /\ j - 1 \in 0..Len(b) /\ P(i, j - 1)
      BY <1>1, <2>2
    <3>2. CASE i = 0
      <4>1. d[0][j] = j /\ d[0][j - 1] = j - 1
        BY <1>2, <3>1 DEF IsTable
      <4>2. d[i][j] = d[i][j - 1] + 1
        BY <3>2, <4>1
      <4>3. QED BY <1>6, <3>1, <4>2
    <3>3. CASE i # 0
      <4>1. i \in 1..Len(a) /\ P(i - 1, j) /\ P(i - 1, j - 1)
        BY <1>1, <1>8, <3>1, <3>3
      <4>2. \/ d[i][j] = d[i - 1][j] + 1
            \/ d[i][j] = d[i][j - 1] + 1
            \/ d[i][j] = d[i - 1][j - 1] + Cost(a[i], b[j])
        BY <1>1, <1>2, <4>1, TableCells
      <4>3. P(i, j)
        BY <1>5, <1>6, <1>7, <3>1, <4>1, <4>2
      <4>4. QED BY <3>1, <4>3
    <3>4. QED BY <3>2, <3>3
  <2>3. \A j \in 0..Len(b) : j \in T
    <3> HIDE DEF T
    <3>1. \A j \in 1..Len(b) : j - 1 \in T => j \in T
      BY <2>2
    <3>2. QED BY <1>1, <2>1, <3>1, Induction
  <2>4. QED BY <2>3
<1>9. 0 \in S
  <2>1. Between(a, b, 0, 0) = a /\ 0 \in 0..Len(a) /\ 0 \in 0..Len(b)
    BY <1>1, BetweenEnds
  <2>2. d[0][0] = 0 /\ W[0] = {a}
    BY <1>2, <2>1 DEF IsTable, IsRounds
  <2>3. P(0, 0)
    BY <2>1, <2>2 DEF P
  <2>4. QED BY <1>8, <2>1, <2>3
<1>10. ASSUME NEW i \in 1..Len(a), i - 1 \in S PROVE i \in S
  <2>1. i \in 0..Len(a) /\ i - 1 \in 0..Len(a) /\ 0 \in 0..Len(b)
    BY <1>1
  <2>2. d[i][0] = i /\ d[i - 1][0] = i - 1
    BY <1>2, <2>1 DEF IsTable
  <2>3. d[i][0] = d[i - 1][0] + 1 /\ P(i - 1, 0)
    BY <1>10, <2>1, <2>2
  <2>4. P(i, 0)
    BY <1>5, <2>1, <2>3
  <2>5. QED BY <1>8, <1>10, <2>1, <2>4
<1>11. P(Len(a), Len(b))
  <2> HIDE DEF S
  <2>1. \A i \in 1..Len(a) : i - 1 \in S => i \in S
    BY <1>10
  <2>2. \A i \in 0..Len(a) : i \in S
    BY <1>1, <1>9, <2>1, Induction
  <2>3. QED BY <1>1, <2>2 DEF S
<1>12. Between(a, b, Len(a), Len(b)) = b
  BY BetweenEnds
<1>13. QED BY <1>2, <1>11, <1>12 DEF P

LEMMA RoundsMonotone ==
    ASSUME NEW W, NEW a, NEW letters, IsRounds(W, a, letters), NEW n \in Nat, NEW k \in 0..n
    PROVE  W[k] \subseteq W[n]
<1> DEFINE T == {i \in 0..(n - k) : W[k] \subseteq W[k + i]}
<1>1. n - k \in Nat /\ 0 \in T /\ k \in Nat
  OBVIOUS
<1>2. ASSUME NEW i \in 1..(n - k), i - 1 \in T PROVE i \in T
  <2>1. k + (i - 1) \in Nat /\ (k + (i - 1)) + 1 = k + i /\ i \in 0..(n - k)
    OBVIOUS
  <2>2. W[k + (i - 1)] \subseteq W[k + i]
    BY <2>1, RoundsGrow
  <2>3. QED BY <1>2, <2>1, <2>2
<1>3. \A i \in 0..(n - k) : i \in T
  <2> HIDE DEF T
  <2>1. \A i \in 1..(n - k) : i - 1 \in T => i \in T
    BY <1>2
  <2>2. QED BY <1>1, <2>1, Induction
<1>4. n - k \in 0..(n - k) /\ k + (n - k) = n
  OBVIOUS
<1>5. QED BY <1>3, <1>4

\* editDistance is the least number of edits that make b of a.
THEOREM EditDistanceIsLeast ==
    ASSUME NEW a \in Seq(STRING), NEW b \in Seq(STRING),
           NEW letters \in SUBSET STRING, \A k \in 1..Len(b) : b[k] \in letters,
           NEW W, IsRounds(W, a, letters), NEW n \in Nat
    PROVE  b \in W[n] <=> editDistance(a, b) <= n
<1>1. ASSUME b \in W[n] PROVE editDistance(a, b) <= n
  BY <1>1, RoundsAreNear
<1>2. ASSUME editDistance(a, b) <= n PROVE b \in W[n]
  <2>1. editDistance(a, b) \in Nat
    BY EditNatural
  <2>2. editDistance(a, b) \in 0..n
    BY <1>2, <2>1
  <2>3. W[editDistance(a, b)] \subseteq W[n]
    BY <2>2, RoundsMonotone
  <2>4. QED BY <2>3, RoundsReach
<1>3. QED BY <1>1, <1>2

-----------------------------------------------------------------------------
(* WithinEdits: its rounds exist, and stop at the largest limit.           *)

LEMMA RoundsExist ==
    ASSUME NEW a \in Seq(STRING), NEW letters \in SUBSET STRING
    PROVE  \E W : /\ IsRounds(W, a, letters)
                  /\ W = [k \in Nat |->
                             IF k = 0 THEN {a}
                             ELSE W[k - 1] \cup UNION {OneEdit(w, letters) : w \in W[k - 1]}]
<1> DEFINE Words == Seq(STRING)
           Chain(f, k) == /\ f \in [0..k -> Words] /\ f[0] = a
                          /\ \A i \in 1..k : f[i] = f[i - 1] \/ f[i] \in OneEdit(f[i - 1], letters)
           W == [k \in Nat |-> {w \in Words : \E f : Chain(f, k) /\ f[k] = w}]
<1>1. \A w \in Words : \A c \in OneEdit(w, letters) : c \in Words
  BY EditKinds
<1>2. W[0] = {a}
  <2>1. ASSUME NEW w \in W[0] PROVE w = a
    BY <2>1
  <2>2. Chain([i \in 0..0 |-> a], 0)
    OBVIOUS
  <2>3. [i \in 0..0 |-> a][0] = a /\ a \in Words
    OBVIOUS
  <2>4. a \in W[0]
    BY <2>2, <2>3
  <2>5. QED BY <2>1, <2>4
<1>3. ASSUME NEW k \in Nat \ {0}, NEW w \in W[k]
      PROVE  w \in W[k - 1] \cup UNION {OneEdit(v, letters) : v \in W[k - 1]}
  <2>1. PICK f : Chain(f, k) /\ f[k] = w
    BY <1>3
  <2> DEFINE g == [i \in 0..(k - 1) |-> f[i]]
  <2>2. k - 1 \in Nat /\ k \in 1..k /\ k - 1 \in 0..(k - 1) /\ k - 1 \in 0..k
    OBVIOUS
  <2>3. Chain(g, k - 1)
    <3>1. g \in [0..(k - 1) -> Words] /\ g[0] = a
      BY <2>1
    <3>2. ASSUME NEW i \in 1..(k - 1) PROVE g[i] = g[i - 1] \/ g[i] \in OneEdit(g[i - 1], letters)
      <4>1. g[i] = f[i] /\ g[i - 1] = f[i - 1] /\ i \in 1..k
        OBVIOUS
      <4>2. QED BY <2>1, <4>1
    <3>3. QED BY <3>1, <3>2
  <2>4. g[k - 1] = f[k - 1] /\ f[k - 1] \in Words
    BY <2>1, <2>2
  <2> HIDE DEF g, Words
  <2>5. f[k - 1] \in W[k - 1]
    BY <2>2, <2>3, <2>4
  <2>6. w = f[k - 1] \/ w \in OneEdit(f[k - 1], letters)
    BY <2>1, <2>2
  <2> HIDE DEF W
  <2>7. QED BY <2>5, <2>6
<1>4. ASSUME NEW k \in Nat \ {0}, NEW v \in W[k - 1], NEW w, w = v \/ w \in OneEdit(v, letters)
      PROVE  w \in W[k]
  <2>1. k - 1 \in Nat /\ k - 1 \in 0..(k - 1)
    OBVIOUS
  <2>2. PICK f : Chain(f, k - 1) /\ f[k - 1] = v
    BY <1>4, <2>1
  <2>3. v \in Words /\ w \in Words
    <3>1. v \in Words
      BY <2>1
    <3> HIDE DEF Words, W
    <3>2. QED BY <1>1, <1>4, <3>1
  <2> DEFINE g == [i \in 0..k |-> IF i = k THEN w ELSE f[i]]
  <2> HIDE DEF Words
  <2>4. g \in [0..k -> Words] /\ g[0] = a /\ g[k] = w /\ g[k - 1] = v
        /\ \A i \in 0..(k - 1) : g[i] = f[i]
    BY <2>1, <2>2, <2>3
  <2>5. ASSUME NEW i \in 1..k PROVE g[i] = g[i - 1] \/ g[i] \in OneEdit(g[i - 1], letters)
    <3> HIDE DEF g, W
    <3>1. CASE i = k
      BY <1>4, <2>4, <3>1
    <3>2. CASE i # k
      <4>1. i \in 1..(k - 1) /\ i \in 0..(k - 1) /\ i - 1 \in 0..(k - 1)
        BY <3>2
      <4>2. QED BY <2>2, <2>4, <4>1
    <3>3. QED BY <3>1, <3>2
  <2>6. Chain(g, k)
    BY <2>4, <2>5
  <2> HIDE DEF g, Chain
  <2>7. QED BY <2>3, <2>4, <2>6
<1> HIDE DEF Chain, Words
<1>5. DOMAIN W = Nat /\ W = [k \in Nat |-> W[k]]
  OBVIOUS
<1> HIDE DEF W
<1>6. ASSUME NEW k \in Nat \ {0}
      PROVE  W[k] = W[k - 1] \cup UNION {OneEdit(w, letters) : w \in W[k - 1]}
  <2>1. \A w : w \in W[k - 1] => w \in W[k]
    BY <1>4
  <2>2. \A v \in W[k - 1] : \A w \in OneEdit(v, letters) : w \in W[k]
    BY <1>4
  <2>3. QED BY <1>3, <2>1, <2>2
<1>7. IsRounds(W, a, letters)
  BY <1>2, <1>6 DEF IsRounds
<1>8. W = [k \in Nat |-> IF k = 0 THEN {a}
                         ELSE W[k - 1] \cup UNION {OneEdit(w, letters) : w \in W[k - 1]}]
  BY <1>2, <1>5, <1>6
<1>9. QED BY <1>7, <1>8

LEMMA LargestLimit ==
    ASSUME NEW c \in Commands
    PROVE  /\ SuggestionLimit(c) \in Nat /\ SuggestionLimit(c) \in 0..Max(Limits)
           /\ Max(Limits) \in Nat
<1> DEFINE n == Len(Listing)
           L(k) == SuggestionLimit(Listing[k])
           S == {k \in 0..n : \E b \in Nat : \A i \in 1..k : L(i) <= b}
           T == {b \in Nat : \A d \in Commands : SuggestionLimit(d) <= b}
<1>1. /\ n \in Nat
      /\ \A d \in Commands : \E i \in 1..n : d = Listing[i]
      /\ \A i \in 1..n : Listing[i] \in Commands
  BY TreeAssumption DEF Range
<1>2. \A d \in Commands : SuggestionLimit(d) \in Nat
  <2>1. \A d \in Commands : Distances[d] \in Int
    BY TreeAssumption
  <2>2. QED BY <2>1 DEF SuggestionLimit, defaultSuggestionDistance
<1>3. \A i \in 1..n : L(i) \in Nat
  BY <1>1, <1>2
<1> HIDE DEF L, n
<1>4. 0 \in S
  <2>1. \A i \in 1..0 : L(i) <= 0
    OBVIOUS
  <2>2. 0 \in 0..n
    BY <1>1
  <2>3. QED BY <2>1, <2>2
<1>5. ASSUME NEW k \in 1..n, k - 1 \in S PROVE k \in S
  <2>1. PICK b \in Nat : \A i \in 1..(k - 1) : L(i) <= b
    BY <1>5
  <2>2. \A i \in 1..k : i \in 1..(k - 1) \/ i = k
    BY <1>1
  <2>3. L(k) \in Nat
    BY <1>3
  <2>4. PICK m \in Nat : b <= m /\ L(k) <= m
    BY <2>3
  <2>5. \A i \in 1..(k - 1) : L(i) \in Nat
    BY <1>1, <1>3
  <2>6. \A i \in 1..k : L(i) <= m
    BY <2>1, <2>2, <2>3, <2>4, <2>5
  <2>7. k \in 0..n
    BY <1>1
  <2>8. QED BY <2>6, <2>7
<1>6. T # {}
  <2> HIDE DEF S
  <2>1. \A k \in 1..n : k - 1 \in S => k \in S
    BY <1>5
  <2>2. n \in S
    <3>1. \A k \in 0..n : k \in S
      BY <1>1, <1>4, <2>1, Induction, Zenon
    <3>2. n \in 0..n
      BY <1>1
    <3>3. QED BY <3>1, <3>2
  <2>3. PICK b \in Nat : \A i \in 1..n : L(i) <= b
    BY <2>2 DEF S
  <2>4. \A d \in Commands : SuggestionLimit(d) <= b
    BY <1>1, <2>3 DEF L
  <2>5. QED BY <2>4
<1>7. PICK m \in T : \A b \in T : m <= b
  <2>1. T \in SUBSET Nat
    OBVIOUS
  <2> HIDE DEF T
  <2>2. QED BY <1>6, <2>1, LeastNatural
<1>8. \E d \in Commands : SuggestionLimit(d) = m
  <2>1. SUFFICES ASSUME \A d \in Commands : SuggestionLimit(d) # m PROVE FALSE
    BY Zenon
  <2>2. \A d \in Commands : SuggestionLimit(d) <= m - 1
    BY <1>2, <1>7, <2>1
  <2>3. m \in Nat /\ m - 1 \in Nat
    <3>1. SuggestionLimit(c) \in Nat /\ SuggestionLimit(c) <= m - 1
      BY <1>2, <2>2
    <3>2. QED BY <1>7, <3>1
  <2>4. m - 1 \in T
    BY <2>2, <2>3
  <2>5. QED BY <1>7, <2>3, <2>4
<1>9. m \in Limits /\ \A y \in Limits : m >= y
  BY <1>2, <1>7, <1>8 DEF Limits
<1>10. Max(Limits) \in Limits /\ \A y \in Limits : Max(Limits) >= y
  BY <1>9 DEF Max
<1>11. SuggestionLimit(c) \in Limits /\ \A y \in Limits : y \in Nat
  BY <1>2 DEF Limits
<1>12. QED BY <1>10, <1>11

LEMMA NamesHaveLetters ==
    /\ Letters \in SUBSET STRING
    /\ \A c \in Commands : Name[c] \in Seq(STRING) /\ \A k \in 1..Len(Name[c]) : Name[c][k] \in Letters
<1>1. ASSUME NEW c \in Commands
      PROVE  /\ Name[c] \in Seq(STRING)
             /\ Range(Name[c]) \in SUBSET STRING
             /\ \A k \in 1..Len(Name[c]) : Name[c][k] \in Range(Name[c])
  <2>1. Name[c] \in Seq(STRING)
    BY WordsAssumption
  <2>2. QED BY <2>1 DEF Range
<1>2. \A c \in Commands : Range(Name[c]) \subseteq Letters
  BY DEF Letters
<1>3. Letters \in SUBSET STRING
  BY <1>1 DEF Letters
<1>4. QED BY <1>1, <1>2, <1>3

\* The words within n edits of what was typed are those that editDistance
\* finds no further.
THEOREM WithinEditsIsDistance ==
    ASSUME NEW typed \in Typed, NEW c \in Commands, NEW n \in 0..Max(Limits)
    PROVE  Name[c] \in WithinEdits[typed][n] <=> editDistance(typed, Name[c]) <= n
<1> DEFINE within[k \in Nat] ==
              IF k = 0 THEN {typed}
              ELSE within[k - 1] \cup UNION {OneEdit(w, Letters) : w \in within[k - 1]}
           Rec(h) == [k \in Nat |->
              IF k = 0 THEN {typed}
              ELSE h[k - 1] \cup UNION {OneEdit(w, Letters) : w \in h[k - 1]}]
<1>1. typed \in Seq(STRING)
  BY WordsAssumption
<1>2. within = Rec(within)
  <2>1. Letters \in SUBSET STRING
    BY NamesHaveLetters
  <2>2. PICK W : W = [k \in Nat |->
                   IF k = 0 THEN {typed}
                   ELSE W[k - 1] \cup UNION {OneEdit(w, Letters) : w \in W[k - 1]}]
    <3>1. \E W : /\ IsRounds(W, typed, Letters)
                 /\ W = [k \in Nat |->
                       IF k = 0 THEN {typed}
                       ELSE W[k - 1] \cup UNION {OneEdit(w, Letters) : w \in W[k - 1]}]
      BY <1>1, <2>1, RoundsExist
    <3>2. QED BY <3>1, Zenon
  <2>3. \E h : h = Rec(h)
    BY <2>2, Zenon
  <2>4. QED BY <2>3, Zenon
<1>3. WithinEdits[typed] = [k \in 0..Max(Limits) |-> within[k]]
  BY Zenon DEF WithinEdits
<1> HIDE DEF within
<1>4. IsRounds(within, typed, Letters)
  <2>1. within[0] = {typed}
    BY <1>2
  <2>2. ASSUME NEW k \in Nat \ {0}
        PROVE  within[k] = within[k - 1] \cup UNION {OneEdit(w, Letters) : w \in within[k - 1]}
    BY <1>2
  <2>3. QED BY <2>1, <2>2 DEF IsRounds
<1>5. WithinEdits[typed][n] = within[n] /\ n \in Nat
  BY <1>3
<1>6. Name[c] \in within[n] <=> editDistance(typed, Name[c]) <= n
  BY <1>1, <1>4, <1>5, NamesHaveLetters, EditDistanceIsLeast
<1>7. QED BY <1>5, <1>6

-----------------------------------------------------------------------------
(* nearestCommand.                                                         *)

LEMMA DistanceNatural ==
    ASSUME NEW c \in Commands, NEW typed \in Typed
    PROVE  DistanceTo(c, typed) \in Nat
<1>1. typed \in Seq(STRING) /\ Name[c] \in Seq(STRING)
  BY WordsAssumption
<1>2. editDistance(typed, Name[c]) \in Nat
  BY <1>1, EditNatural
<1>3. QED BY <1>2 DEF DistanceTo

\* What the search has found: a candidate that no other one is closer than,
\* or none, all being beyond the limit.
IsBest(best, candidates, typed, limit) ==
    /\ best \in [command : Commands \cup {NoCommand}, distance : Nat]
    /\ \A c \in candidates : best.distance <= DistanceTo(c, typed)
    /\ \/ best.command = NoCommand /\ best.distance = limit + 1
       \/ /\ best.command \in candidates
          /\ best.distance = DistanceTo(best.command, typed) /\ best.distance <= limit

LEMMA NearestCommandFound ==
    ASSUME NEW parent \in Commands, NEW typed \in Typed,
           parent \notin Silent, typed # <<>>, ~ (Len(typed) > MaxTypedLength)
    PROVE  \E best : /\ IsBest(best, Subcommands(parent) \cap Available, typed, SuggestionLimit(parent))
                     /\ nearestCommand(parent, typed) = best.command
<1> DEFINE n == Len(Listing)
           candidates == Subcommands(parent) \cap Available
           limit == SuggestionLimit(parent)
           V == [command : Commands \cup {NoCommand}, distance : Nat]
           none == [command |-> NoCommand, distance |-> SuggestionLimit(parent) + 1]
           Closer(best, sub) ==
               IF /\ sub \in Subcommands(parent) \cap Available
                  /\ DistanceTo(sub, typed) < best.distance
               THEN [command |-> sub, distance |-> DistanceTo(sub, typed)] ELSE best
           iter[s \in SUBSET DOMAIN Listing] ==
              IF s = {} THEN none ELSE Closer(iter[s \ {Max(s)}], Listing[Max(s)])
           Rec(h) == [s \in SUBSET DOMAIN Listing |->
              IF s = {} THEN none ELSE Closer(h[s \ {Max(s)}], Listing[Max(s)])]
           step == [i \in 1..n |-> [best \in V |-> Closer(best, Listing[i])]]
<1>1. /\ n \in Nat /\ DOMAIN Listing = 1..n
      /\ \A i \in 1..n : Listing[i] \in Commands
      /\ \A c \in Commands : \E i \in 1..n : c = Listing[i]
      /\ candidates \subseteq Commands /\ NoCommand \notin Commands
  BY TreeAssumption DEF Range, Subcommands
<1>2. limit \in Nat /\ none \in V
  BY LargestLimit
<1>3. nearestCommand(parent, typed) = iter[DOMAIN Listing].command
  <2>1. ~ (parent \in Silent \/ typed = <<>> \/ Len(typed) > MaxTypedLength)
    OBVIOUS
  <2>2. QED BY <2>1, Zenon DEF nearestCommand, FoldLeft, MapThenFoldSet
<1>4. \A c \in Commands : DistanceTo(c, typed) \in Nat
  BY DistanceNatural
<1>5. ASSUME NEW best \in V, NEW c \in Commands PROVE Closer(best, c) \in V
  BY <1>4
<1>6. step \in [1..n -> [V -> V]]
  <2> HIDE DEF V, Closer
  <2> QED BY <1>1, <1>5
<1>7. PICK g : FoldTable(g, n, V, none, step)
  <2>1. n \in Nat /\ none \in V
    BY <1>1, <1>2
  <2> HIDE DEF V, none, step, n, iter, Rec
  <2>2. QED BY <2>1, <1>6, FoldExists
<1>8. g = Rec(g)
  <2>1. ASSUME NEW s \in SUBSET (1..n), s # {}
        PROVE  g[s] = Closer(g[s \ {Max(s)}], Listing[Max(s)])
    <3>1. Max(s) \in 1..n /\ g[s \ {Max(s)}] \in V
      <4>1. s \ {Max(s)} \in SUBSET (1..n) /\ Max(s) \in s
        BY <1>7, <2>1 DEF FoldTable
      <4> HIDE DEF V
      <4>2. QED BY <1>7, <4>1 DEF FoldTable
    <3>2. step[Max(s)][g[s \ {Max(s)}]] = Closer(g[s \ {Max(s)}], Listing[Max(s)])
      <4> HIDE DEF V, Closer
      <4> QED BY <3>1
    <3> HIDE DEF V, Closer, step
    <3>3. QED BY <1>7, <2>1, <3>2 DEF FoldTable
  <2> HIDE DEF none, V, Closer
  <2>2. \A s \in SUBSET DOMAIN Listing : g[s] = Rec(g)[s]
    BY <1>1, <1>7, <2>1 DEF FoldTable
  <2>3. QED BY <1>1, <1>7, <2>2 DEF FoldTable
<1>9. iter = Rec(iter)
  <2>1. \E h : h = Rec(h)
    BY <1>8, Zenon
  <2>2. QED BY <2>1, Zenon
<1> HIDE DEF iter
<1> DEFINE Seen(k) == {Listing[i] : i \in 1..k} \cap candidates
           S == {k \in 0..n : IsBest(iter[1..k], Seen(k), typed, limit)}
<1>10. 0 \in S
  <2>1. {} \in SUBSET DOMAIN Listing /\ 1..0 = {} /\ 0 \in 0..n /\ Seen(0) = {}
    BY <1>1
  <2>2. iter[1..0] = none
    BY <1>9, <2>1, Zenon
  <2>3. IsBest(none, {}, typed, limit)
    BY <1>2 DEF IsBest
  <2> HIDE DEF none, Seen, limit
  <2>4. QED BY <2>1, <2>2, <2>3
<1>11. ASSUME NEW k \in 1..n, k - 1 \in S PROVE k \in S
  <2> DEFINE best == iter[1..(k - 1)]
             sub == Listing[k]
  <2>1. /\ 1..k \in SUBSET DOMAIN Listing /\ 1..k # {} /\ Max(1..k) = k
        /\ (1..k) \ {k} = 1..(k - 1)
    BY <1>1, FoldRuns
  <2>2. iter[1..k] = Closer(iter[(1..k) \ {Max(1..k)}], Listing[Max(1..k)])
    <3> HIDE DEF Closer
    <3>1. QED BY <1>9, <2>1, Zenon
  <2>3. iter[1..k] = Closer(best, sub)
    <3> HIDE DEF Closer
    <3>1. QED BY <2>1, <2>2
  <2>4. IsBest(best, Seen(k - 1), typed, limit)
    BY <1>11
  <2>5. Seen(k) = Seen(k - 1) \cup ({sub} \cap candidates)
    <3>1. {Listing[i] : i \in 1..k} = {Listing[i] : i \in 1..(k - 1)} \cup {Listing[k]}
      <4>1. \A i \in 1..k : i \in 1..(k - 1) \/ i = k
        OBVIOUS
      <4>2. \A i \in 1..(k - 1) : i \in 1..k
        OBVIOUS
      <4>3. k \in 1..k
        OBVIOUS
      <4>4. QED BY <4>1, <4>2, <4>3
    <3>2. QED BY <3>1
  <2>6. sub \in Commands /\ Seen(k - 1) \subseteq Commands
    BY <1>1
  <2> HIDE DEF best, sub, Seen, S, n
  <2>7. DistanceTo(sub, typed) \in Nat /\ \A c \in Seen(k - 1) : DistanceTo(c, typed) \in Nat
    BY <1>4, <2>6
  <2>8. CASE sub \in candidates /\ DistanceTo(sub, typed) < best.distance
    <3> DEFINE new == [command |-> sub, distance |-> DistanceTo(sub, typed)]
    <3>1. iter[1..k] = new
      BY <2>3, <2>8
    <3>2. new \in V /\ new.command = sub /\ new.distance = DistanceTo(sub, typed)
      BY <2>6, <2>7
    <3>3. best.distance \in Nat /\ \A c \in Seen(k - 1) : best.distance <= DistanceTo(c, typed)
      BY <2>4 DEF IsBest
    <3>4. best.distance <= limit + 1
      BY <1>2, <2>4 DEF IsBest
    <3> HIDE DEF new, V, limit
    <3>5. \A c \in Seen(k) : new.distance <= DistanceTo(c, typed)
      BY <2>5, <2>7, <2>8, <3>2, <3>3
    <3>6. new.distance <= limit
      BY <1>2, <2>7, <2>8, <3>2, <3>3, <3>4
    <3>7. sub \in Seen(k)
      BY <2>5, <2>8
    <3>8. IsBest(new, Seen(k), typed, limit)
      BY <3>2, <3>5, <3>6, <3>7 DEF IsBest, V
    <3>9. QED BY <3>1, <3>8 DEF S, n
  <2>9. CASE ~ (sub \in candidates /\ DistanceTo(sub, typed) < best.distance)
    <3>1. iter[1..k] = best
      BY <2>3, <2>9
    <3>2. best.distance \in Nat /\ \A c \in Seen(k - 1) : best.distance <= DistanceTo(c, typed)
      BY <2>4 DEF IsBest
    <3> HIDE DEF candidates, limit
    <3>3. \A c \in Seen(k) : best.distance <= DistanceTo(c, typed)
      BY <2>5, <2>7, <2>9, <3>2
    <3>4. IsBest(best, Seen(k), typed, limit)
      BY <2>4, <2>5, <3>3 DEF IsBest
    <3>5. QED BY <3>1, <3>4 DEF S, n
  <2>10. QED BY <2>8, <2>9
<1>12. n \in S
  <2> HIDE DEF S
  <2>1. \A k \in 1..n : k - 1 \in S => k \in S
    BY <1>11
  <2>2. \A k \in 0..n : k \in S
    BY <1>1, <1>10, <2>1, Induction
  <2>3. QED BY <1>1, <2>2
<1>13. Seen(n) = candidates
  BY <1>1
<1>14. QED
  <2>1. IsBest(iter[1..n], Seen(n), typed, limit)
    BY <1>12
  <2> HIDE DEF Seen, iter
  <2>2. QED BY <1>1, <1>3, <1>13, <2>1

\* What nearestCommand suggests is a command that the fewest edits reach, and
\* it suggests none when the limit reaches none: for every tree and word.
THEOREM NearestCommandIsNearest ==
    ASSUME NEW parent \in Commands, NEW typed \in Typed
    PROVE  IsNearest(parent, typed, nearestCommand(parent, typed))
<1> DEFINE candidates == Subcommands(parent) \cap Available
           limit == SuggestionLimit(parent)
           suggestion == nearestCommand(parent, typed)
           inReach == parent \notin Silent /\ typed # <<>> /\ Len(typed) <= MaxTypedLength
<1>1. /\ candidates \subseteq Commands /\ NoCommand \notin Commands
      /\ Len(typed) \in Nat /\ MaxTypedLength \in Nat
  BY TreeAssumption, WordsAssumption DEF Subcommands
<1>2. limit \in Nat /\ limit \in 0..Max(Limits) /\ Max(Limits) \in Nat
  BY LargestLimit
<1>3. ASSUME NEW n \in 0..limit, NEW c \in candidates
      PROVE  c \in Reached(parent, typed, n) <=> DistanceTo(c, typed) <= n
  <2>1. c \in Commands /\ n \in 0..Max(Limits) /\ n \in Nat /\ 0 <= n
    BY <1>1, <1>2
  <2>2. Name[c] \in WithinEdits[typed][n] <=> editDistance(typed, Name[c]) <= n
    BY <2>1, WithinEditsIsDistance
  <2>3. CASE typed \in SuggestFor[c]
    BY <2>1, <2>3 DEF Reached, DistanceTo
  <2>4. CASE typed \notin SuggestFor[c]
    BY <2>2, <2>4 DEF Reached, DistanceTo
  <2>5. QED BY <2>3, <2>4
<1>4. \A n : Reached(parent, typed, n) \subseteq candidates
  BY DEF Reached
<1>5. CASE ~ inReach
  <2>1. parent \in Silent \/ typed = <<>> \/ Len(typed) > MaxTypedLength
    BY <1>1, <1>5
  <2>2. suggestion = NoCommand
    BY <2>1, Zenon DEF nearestCommand
  <2>3. QED BY <1>5, <2>2 DEF IsNearest
<1>6. CASE inReach
  <2>1. ~ (Len(typed) > MaxTypedLength)
    BY <1>1, <1>6
  <2>2. PICK best : IsBest(best, candidates, typed, limit) /\ suggestion = best.command
    BY <1>6, <2>1, NearestCommandFound
  <2>3. /\ best.distance \in Nat
        /\ \A c \in candidates : best.distance <= DistanceTo(c, typed) /\ DistanceTo(c, typed) \in Nat
    BY <1>1, <2>2, DistanceNatural DEF IsBest
  <2> HIDE DEF candidates, limit, suggestion, inReach
  <2>4. CASE best.command = NoCommand /\ best.distance = limit + 1
    <3>1. limit \in 0..limit
      BY <1>2
    <3>2. Reached(parent, typed, limit) = {}
      BY <1>2, <1>3, <1>4, <2>3, <2>4, <3>1
    <3>3. QED BY <2>2, <2>4, <3>2 DEF IsNearest, limit, suggestion
  <2>5. CASE best.command \in candidates /\ best.distance <= limit
             /\ best.distance = DistanceTo(best.command, typed)
    <3> DEFINE n == best.distance
    <3>1. n \in 0..limit /\ n \in Nat
      BY <1>2, <2>3, <2>5
    <3>2. suggestion # NoCommand /\ suggestion \in candidates
      BY <1>1, <2>2, <2>5
    <3>3. suggestion \in Reached(parent, typed, n)
      BY <1>3, <2>2, <2>5, <3>1, <3>2
    <3>4. ASSUME n > 0 PROVE Reached(parent, typed, n - 1) = {}
      <4>1. n - 1 \in 0..limit
        BY <1>2, <3>1, <3>4
      <4> HIDE DEF n
      <4>2. \A c \in candidates : ~ (DistanceTo(c, typed) <= n - 1)
        BY <2>3, <3>1 DEF n
      <4>3. QED BY <1>3, <1>4, <4>1, <4>2
    <3>5. n \in 0..SuggestionLimit(parent)
      BY <3>1 DEF limit
    <3>6. parent \notin Silent /\ typed # <<>> /\ Len(typed) <= MaxTypedLength
      BY <1>6 DEF inReach
    <3> HIDE DEF n
    <3>7. \E k \in 0..SuggestionLimit(parent) :
             /\ suggestion \in Reached(parent, typed, k)
             /\ k > 0 => Reached(parent, typed, k - 1) = {}
      BY <3>3, <3>4, <3>5
    <3>8. suggestion # NoCommand
      BY <3>2
    <3>9. IsNearest(parent, typed, suggestion)
      BY <3>6, <3>7, <3>8 DEF IsNearest
    <3>10. QED BY <3>9 DEF suggestion
  <2>6. QED BY <2>2, <2>4, <2>5 DEF IsBest
<1>7. QED BY <1>5, <1>6
=============================================================================
