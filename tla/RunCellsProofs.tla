--------------------------- MODULE RunCellsProofs ---------------------------
(***************************************************************************)
(* What RunCells gathers from its threads, for any number of cells and     *)
(* workers, any ranges, any order of the threads and any of them failing,  *)
(* and any failing transfer of a cell when the load is rebalanced.         *)
(* Induction over the workers is by the least counterexample.              *)
(***************************************************************************)
EXTENDS RunCells, SequenceTheorems, WellFoundedInduction, TLAPS

\* Induction by the least counterexample.
LEMMA LeastElement ==
  ASSUME NEW T, T \subseteq Nat, T # {}
  PROVE  \E x \in T : \A y \in T : x <= y
<1> DEFINE R == OpToRel(<, Nat)
<1>1. IsWellFoundedOn(R, Nat)  BY NatLessThanWellFounded
<1>2. \A x \in Nat, y \in Nat : y < x => <<y, x>> \in R  BY DEF OpToRel
<1> HIDE DEF R
<1>3. PICK x \in T : \A y \in T : ~ (<<y, x>> \in R)  BY <1>1, WFMin
<1>4. \A y \in T : ~ (y < x)  BY <1>2, <1>3
<1> QED  BY <1>4

----------------------------------------------------------------------------
(* Concatenation of the sequences of all workers.                          *)

\* The partial concatenations of a sequence of sequences.
Chain(s, g, k) ==
  /\ g[1] = s[1]
  /\ \A i \in 2 .. k : g[i] = g[i-1] \o s[i]

LEMMA ChainExists ==
  ASSUME NEW S, NEW n \in Nat \ {0}, NEW s \in [1 .. n -> Seq(S)]
  PROVE  \E g \in [1 .. n -> Seq(S)] : Chain(s, g, n)
<1> DEFINE Bad == {k \in 1 .. n : ~ \E g \in [1 .. k -> Seq(S)] : Chain(s, g, k)}
<1> SUFFICES ASSUME Bad # {} PROVE FALSE  OBVIOUS
<1>1. PICK k \in Bad : \A j \in Bad : k <= j
  <2>1. Bad \subseteq Nat  OBVIOUS
  <2> HIDE DEF Bad
  <2> QED  BY <2>1, LeastElement
<1>2. k # 1
  <2> DEFINE g == [i \in 1 .. 1 |-> s[1]]
  <2>1. g \in [1 .. 1 -> Seq(S)] /\ Chain(s, g, 1)  BY DEF Chain
  <2> QED  BY <1>1, <2>1
<1>3. k \in 1 .. n /\ k-1 \in 1 .. n  BY <1>1, <1>2
<1>4. PICK g \in [1 .. k-1 -> Seq(S)] : Chain(s, g, k-1)
  <2>1. k-1 \notin Bad
    <3>1. ~ (k <= k-1)  BY <1>3
    <3> HIDE DEF Bad
    <3> QED  BY <1>1, <3>1
  <2> QED  BY <1>3, <2>1
<1> DEFINE h == [i \in 1 .. k |-> IF i = k THEN g[k-1] \o s[k] ELSE g[i]]
<1>5. g[k-1] \o s[k] \in Seq(S)  BY <1>2, <1>3, ConcatProperties
<1>6. h \in [1 .. k -> Seq(S)]  BY <1>2, <1>3, <1>5
<1>7. Chain(s, h, k)
  <2>1. h[1] = s[1]  BY <1>2, <1>3, <1>4 DEF Chain
  <2>2. ASSUME NEW i \in 2 .. k PROVE h[i] = h[i-1] \o s[i]
    <3>1. i \in 1 .. k /\ i-1 \in 1 .. k /\ i-1 # k /\ h[i-1] = g[i-1]  BY <1>3
    <3>2. CASE i = k  BY <3>1, <3>2
    <3>3. CASE i # k
      <4>1. i \in 2 .. k-1 /\ h[i] = g[i]  BY <1>3, <3>1, <3>3
      <4> QED  BY <1>4, <3>1, <4>1 DEF Chain
    <3> QED  BY <3>2, <3>3
  <2> QED  BY <2>1, <2>2 DEF Chain
<1> QED  BY <1>1, <1>3, <1>6, <1>7

\* FlattenSeq is the last of the partial concatenations.
LEMMA FlattenIsChain ==
  ASSUME NEW S, NEW n \in Nat \ {0}, NEW s \in [1 .. n -> Seq(S)],
         NEW g \in [1 .. n -> Seq(S)], Chain(s, g, n)
  PROVE  FlattenSeq(s) = g[n]
<1>1. Len(s) = n /\ DOMAIN s = 1 .. n
  <2>1. s \in Seq(Seq(S))  BY SeqDef
  <2> QED  BY <2>1, LenProperties
<1> DEFINE F(f) == [i \in 1 .. Len(s) |-> IF i = 1 THEN s[i] ELSE f[i-1] \o s[i]]
           fl == CHOOSE f : f = F(f)
<1>2. g = F(g)
  <2>1. ASSUME NEW i \in 1 .. n PROVE g[i] = F(g)[i]
    <3>1. CASE i = 1  BY <1>1, <3>1 DEF Chain
    <3>2. CASE i # 1
      <4>1. i \in 2 .. n  BY <3>2
      <4>2. g[i] = g[i-1] \o s[i]  BY <4>1 DEF Chain
      <4>3. F(g)[i] = g[i-1] \o s[i]  BY <1>1, <3>2
      <4> QED  BY <4>2, <4>3
    <3> QED  BY <3>1, <3>2
  <2> QED  BY <1>1, <2>1
<1>3. fl = F(fl)  BY <1>2
<1>4. FlattenSeq(s) = fl[n]  BY <1>1 DEF FlattenSeq
<1> HIDE DEF fl
<1> DEFINE Bad == {k \in 1 .. n : fl[k] # g[k]}
<1>5. ASSUME Bad # {} PROVE FALSE
  <2>1. PICK k \in Bad : \A j \in Bad : k <= j
    <3>1. Bad \subseteq Nat  OBVIOUS
    <3> HIDE DEF Bad
    <3> QED  BY <1>5, <3>1, LeastElement
  <2>2. k # 1  BY <1>1, <1>3, <2>1 DEF Chain
  <2>3. k-1 \in 1 .. n /\ k-1 \notin Bad  BY <2>1, <2>2
  <2>4. fl[k] = fl[k-1] \o s[k]  BY <1>1, <1>3, <2>1, <2>2
  <2>5. k \in 2 .. n /\ fl[k] # g[k]  BY <2>1, <2>2
  <2>6. g[k] = g[k-1] \o s[k]  BY <2>5 DEF Chain
  <2> QED  BY <2>3, <2>4, <2>5, <2>6
<1>6. n \in 1 .. n  OBVIOUS
<1> QED  BY <1>4, <1>5, <1>6

----------------------------------------------------------------------------
(* Ranges, and what is gathered over all of them.                          *)

\* StartCell for any ends.
Start(e, n) == IF n = 0 THEN 0 ELSE e[n-1] + 1

LEMMA Sizes ==
  /\ Threads \in Nat \ {0} /\ Count \in Nat
  /\ \A n \in Task : n \in Nat /\ n < Threads
  /\ 0 \in Task /\ Threads-1 \in Task
  /\ \A c \in Cell : c \in Nat /\ c < Count
  /\ Cell \subseteq Int
  BY SizesAssumption DEF Task, Cell

LEMMA EndsFacts ==
  ASSUME NEW e \in Distributions
  PROVE  /\ e \in [Task -> Cell]
         /\ e[Threads-1] = Count - 1
         /\ \A n \in Task \ {0} : n-1 \in Task /\ e[n-1] < e[n]
<1>1. \A n \in Task \ {0} : n-1 \in Task /\ n \in 1 .. Threads-1
  BY SizesAssumption DEF Task
<1> QED  BY <1>1, DistributionsAssumption

\* The range of a worker is not empty and lies within the cells.
LEMMA RangeFacts ==
  ASSUME NEW e \in Distributions, NEW n \in Task
  PROVE  /\ e[n] \in Cell /\ Start(e, n) \in Cell
         /\ Start(e, n) <= e[n]
<1>1. e[n] \in Cell  BY EndsFacts
<1>2. CASE n = 0  BY <1>1, <1>2, Sizes DEF Start, Cell
<1>3. CASE n # 0
  <2>1. n-1 \in Task /\ e[n-1] \in Cell /\ e[n-1] < e[n]  BY <1>3, EndsFacts
  <2> QED  BY <1>1, <1>3, <2>1, SizesAssumption DEF Start, Cell
<1> QED  BY <1>2, <1>3

\* The ends of the workers increase.
LEMMA EndsIncrease ==
  ASSUME NEW e \in Distributions, NEW m \in Task, NEW n \in Task, m < n
  PROVE  e[m] < e[n]
<1> DEFINE Bad == {k \in Task : m < k /\ ~ (e[m] < e[k])}
<1> SUFFICES ASSUME Bad # {} PROVE FALSE  OBVIOUS
<1>1. PICK k \in Bad : \A j \in Bad : k <= j
  <2>1. Bad \subseteq Nat  BY Sizes
  <2> HIDE DEF Bad
  <2> QED  BY <2>1, LeastElement
<1>2. k \in Task \ {0} /\ m < k /\ ~ (e[m] < e[k])  BY Sizes
<1>3. k-1 \in Task /\ e[k-1] < e[k]  BY <1>2, EndsFacts
<1>4. k-1 \notin Bad
  <2>1. ~ (k <= k-1)  BY <1>2, Sizes
  <2> HIDE DEF Bad
  <2> QED  BY <1>1, <2>1
<1>5. m = k-1 \/ e[m] < e[k-1]  BY <1>2, <1>3, <1>4, Sizes
<1>6. {e[m], e[k-1], e[k]} \subseteq Int  BY <1>2, <1>3, EndsFacts, Sizes
<1> QED  BY <1>2, <1>3, <1>5, <1>6

\* No cell is in the ranges of two workers.
LEMMA RangesDisjoint ==
  ASSUME NEW e \in Distributions, NEW m \in Task, NEW n \in Task, m # n,
         NEW c \in Start(e, m) .. e[m]
  PROVE  c \notin Start(e, n) .. e[n]
<1>1. ASSUME NEW a \in Task, NEW b \in Task, a < b PROVE e[a] < Start(e, b)
  <2>1. b \in Task \ {0} /\ b-1 \in Task  BY <1>1, EndsFacts, Sizes
  <2>2. e[a] <= e[b-1]
    <3>1. CASE a = b-1
      <4>1. e[a] \in Int  BY RangeFacts, Sizes
      <4> QED  BY <3>1, <4>1
    <3>2. CASE a # b-1
      <4>1. a < b-1  BY <1>1, <3>2, Sizes
      <4>2. e[a] < e[b-1]  BY <2>1, <4>1, EndsIncrease
      <4>3. e[a] \in Int /\ e[b-1] \in Int  BY <2>1, RangeFacts, Sizes
      <4> QED  BY <4>2, <4>3
    <3> QED  BY <3>1, <3>2
  <2>3. e[a] \in Int /\ e[b-1] \in Int  BY <2>1, RangeFacts, Sizes
  <2> QED  BY <2>1, <2>2, <2>3 DEF Start
<1>2. {e[m], e[n], Start(e, m), Start(e, n)} \subseteq Int  BY RangeFacts, Sizes
<1>3. m < n \/ n < m  BY Sizes
<1> QED  BY <1>1, <1>2, <1>3

\* Every cell is in the range of a worker.
LEMMA CellHasWorker ==
  ASSUME NEW e \in Distributions, NEW c \in Cell
  PROVE  \E n \in Task : c \in Start(e, n) .. e[n]
<1> DEFINE Up == {k \in Task : c <= e[k]}
<1>1. Up \subseteq Nat  BY Sizes
<1>2. Threads-1 \in Up
  <2>1. c <= Count-1  BY Sizes
  <2> QED  BY <2>1, EndsFacts, Sizes
<1>3. PICK n \in Up : \A j \in Up : n <= j
  <2> HIDE DEF Up
  <2> QED  BY <1>1, <1>2, LeastElement
<1>4. n \in Task /\ c <= e[n] /\ e[n] \in Int /\ c \in Nat  BY RangeFacts, Sizes
<1>5. Start(e, n) <= c
  <2>1. CASE n = 0  BY <1>4, <2>1 DEF Start
  <2>2. CASE n # 0
    <3>1. n-1 \in Task  BY <1>4, <2>2, EndsFacts
    <3>2. ~ (n <= n-1)  BY <1>4, Sizes
    <3>3. ~ (c <= e[n-1])  BY <1>3, <3>1, <3>2
    <3>4. e[n-1] \in Int  BY <3>1, RangeFacts, Sizes
    <3> QED  BY <1>4, <2>2, <3>3, <3>4 DEF Start
  <2> QED  BY <2>1, <2>2
<1>6. Start(e, n) \in Int  BY <1>4, RangeFacts, Sizes
<1> QED  BY <1>4, <1>5, <1>6

\* InOrder is the last of the partial concatenations.
LEMMA InOrderChain ==
  ASSUME NEW S, NEW f \in [Task -> Seq(S)]
  PROVE  \E g \in [1 .. Threads -> Seq(S)] :
           /\ g[1] = f[0]
           /\ \A i \in 2 .. Threads : g[i] = g[i-1] \o f[i-1]
           /\ InOrder(f) = g[Threads]
<1> DEFINE s == [i \in 1 .. Threads |-> f[i-1]]
<1>1. s \in [1 .. Threads -> Seq(S)]  BY Sizes DEF Task
<1>2. PICK g \in [1 .. Threads -> Seq(S)] : Chain(s, g, Threads)
  <2> HIDE DEF s
  <2> QED  BY <1>1, Sizes, ChainExists
<1>3. FlattenSeq(s) = g[Threads]
  <2> HIDE DEF s
  <2> QED  BY <1>1, <1>2, Sizes, FlattenIsChain
<1>4. s[1] = f[0] /\ \A i \in 2 .. Threads : s[i] = f[i-1]  BY Sizes
<1>5. g[1] = f[0] /\ \A i \in 2 .. Threads : g[i] = g[i-1] \o f[i-1]
  <2> HIDE DEF s
  <2> QED  BY <1>2, <1>4 DEF Chain
<1> QED  BY <1>3, <1>5 DEF InOrder

\* A function of cells, as the sequence of its values over a range.
Over(F, a, b) == [i \in 1 .. b-a+1 |-> F[a+i-1]]

LEMMA OverConcat ==
  ASSUME NEW F \in [Cell -> Int], NEW a \in Cell, NEW b \in Cell, a <= b
  PROVE  /\ Over(F, a, b) \in Seq(Int) /\ Len(Over(F, a, b)) = b-a+1
         /\ a > 0 => Over(F, 0, a-1) \o Over(F, a, b) = Over(F, 0, b)
<1>1. ASSUME NEW x \in Cell, NEW y \in Cell, x <= y
      PROVE  Over(F, x, y) \in Seq(Int) /\ Len(Over(F, x, y)) = y-x+1
  <2>1. y-x+1 \in Nat  BY <1>1, Sizes
  <2>2. \A i \in 1 .. y-x+1 : x+i-1 \in Cell  BY <1>1, Sizes DEF Cell
  <2>3. Over(F, x, y) \in [1 .. y-x+1 -> Int]  BY <2>2 DEF Over
  <2>4. Over(F, x, y) \in Seq(Int)  BY <2>1, <2>3, SeqDef
  <2>5. DOMAIN Over(F, x, y) = 1 .. y-x+1  BY DEF Over
  <2> QED  BY <2>1, <2>4, <2>5, LenProperties
<1>2. ASSUME a > 0 PROVE Over(F, 0, a-1) \o Over(F, a, b) = Over(F, 0, b)
  <2>1. a-1 \in Cell /\ 0 \in Cell /\ 0 <= a-1 /\ 0 <= b  BY <1>2, Sizes DEF Cell
  <2> DEFINE s == Over(F, 0, a-1)
             t == Over(F, a, b)
             u == Over(F, 0, b)
  <2>2. s \in Seq(Int) /\ Len(s) = a  BY <1>1, <2>1, Sizes
  <2>3. t \in Seq(Int) /\ Len(t) = b-a+1  BY <1>1
  <2>4. u \in Seq(Int) /\ Len(u) = b+1  BY <1>1, <2>1, Sizes
  <2>5. /\ s \o t \in Seq(Int) /\ Len(s \o t) = b+1
        /\ \A i \in 1 .. b+1 : (s \o t)[i] = IF i <= a THEN s[i] ELSE t[i-a]
    <3> HIDE DEF s, t
    <3>1. Len(s) + Len(t) = b+1
      <4>1. a \in Int /\ b \in Int  BY Sizes
      <4> QED  BY <2>2, <2>3, <4>1
    <3>2. /\ s \o t \in Seq(Int) /\ Len(s \o t) = Len(s) + Len(t)
          /\ \A i \in 1 .. Len(s) + Len(t) :
               (s \o t)[i] = IF i <= Len(s) THEN s[i] ELSE t[i-Len(s)]
      BY <2>2, <2>3, ConcatProperties
    <3> QED  BY <2>2, <3>1, <3>2
  <2>6. ASSUME NEW i \in 1 .. b+1 PROVE (s \o t)[i] = u[i]
    <3>1. u[i] = F[i-1]  BY Sizes DEF Over
    <3>2. CASE i <= a
      <4>1. s[i] = F[i-1]  BY <2>1, <3>2, Sizes DEF Over
      <4> QED  BY <2>5, <3>1, <3>2, <4>1
    <3>3. CASE ~ (i <= a)
      <4>1. i-a \in 1 .. b-a+1 /\ a+(i-a)-1 = i-1  BY <3>3, Sizes
      <4>2. t[i-a] = F[i-1]  BY <4>1 DEF Over
      <4> QED  BY <2>5, <3>1, <3>3, <4>2
    <3> QED  BY <3>2, <3>3
  <2> HIDE DEF s, t, u
  <2>7. s \o t = u  BY <2>4, <2>5, <2>6, SeqEqual
  <2> QED  BY <2>7 DEF s, t, u
<1> QED  BY <1>1, <1>2

\* When each worker has the values of its range, all of them in order have the
\* values of all cells.
LEMMA InOrderOfRanges ==
  ASSUME NEW e \in Distributions, NEW F \in [Cell -> Int], NEW f,
         f = [n \in Task |-> Over(F, Start(e, n), e[n])]
  PROVE  InOrder(f) = Over(F, 0, Count-1)
<1>1. f \in [Task -> Seq(Int)]  BY RangeFacts, OverConcat
<1>2. PICK g \in [1 .. Threads -> Seq(Int)] :
        /\ g[1] = f[0]
        /\ \A i \in 2 .. Threads : g[i] = g[i-1] \o f[i-1]
        /\ InOrder(f) = g[Threads]
  BY <1>1, InOrderChain
<1> DEFINE Bad == {k \in 1 .. Threads : g[k] # Over(F, 0, e[k-1])}
<1>3. ASSUME Bad # {} PROVE FALSE
  <2>1. PICK k \in Bad : \A j \in Bad : k <= j
    <3>1. Bad \subseteq Nat  OBVIOUS
    <3> HIDE DEF Bad
    <3> QED  BY <1>3, <3>1, LeastElement
  <2>2. k \in 1 .. Threads /\ g[k] # Over(F, 0, e[k-1])  OBVIOUS
  <2>3. k # 1
    <3>1. f[0] = Over(F, 0, e[0])  BY Sizes DEF Start
    <3> QED  BY <1>2, <2>2, <3>1
  <2>4. k \in 2 .. Threads /\ k-1 \in 1 .. Threads /\ k-1 \in Task \ {0} /\ k-2 \in Task
    BY <2>2, <2>3, SizesAssumption DEF Task
  <2>5. k-1 \notin Bad
    <3>1. ~ (k <= k-1)  BY <2>4
    <3> HIDE DEF Bad
    <3> QED  BY <2>1, <3>1
  <2>6. g[k-1] = Over(F, 0, e[k-2])
    <3>1. (k-1)-1 = k-2  BY <2>4
    <3> QED  BY <2>4, <2>5, <3>1
  <2>7. f[k-1] = Over(F, e[k-2] + 1, e[k-1])
    <3>1. (k-1)-1 = k-2 /\ k-1 # 0  BY <2>4
    <3>2. Start(e, k-1) = e[k-2] + 1  BY <3>1 DEF Start
    <3> QED  BY <2>4, <3>2
  <2>8. e[k-2] + 1 \in Cell /\ e[k-1] \in Cell /\ e[k-2] + 1 <= e[k-1]
    <3>1. (k-1)-1 = k-2 /\ k-1 # 0  BY <2>4
    <3>2. Start(e, k-1) = e[k-2] + 1  BY <3>1 DEF Start
    <3> QED  BY <2>4, <3>2, RangeFacts
  <2>9. e[k-2] \in Nat  BY <2>4, RangeFacts, Sizes
  <2>10. e[k-2] + 1 > 0 /\ (e[k-2] + 1) - 1 = e[k-2]  BY <2>9
  <2>11. Over(F, 0, e[k-2]) \o Over(F, e[k-2] + 1, e[k-1]) = Over(F, 0, e[k-1])
    BY <2>8, <2>10, OverConcat
  <2> QED  BY <1>2, <2>2, <2>4, <2>6, <2>7, <2>11
<1>4. Threads \in 1 .. Threads  BY Sizes
<1> QED  BY <1>2, <1>3, <1>4, EndsFacts

\* A sequence of increasing cells from a to b.
Ascending(s, a, b) ==
  /\ s \in Seq(Int)
  /\ \A i \in 1 .. Len(s) : a <= s[i] /\ s[i] <= b
  /\ \A i, j \in 1 .. Len(s) : i < j => s[i] < s[j]

LEMMA AscendingConcat ==
  ASSUME NEW a \in Int, NEW b \in Int, NEW c \in Int, NEW d \in Int,
         a <= c, b < c, b <= d,
         NEW s, NEW t, Ascending(s, a, b), Ascending(t, c, d)
  PROVE  Ascending(s \o t, a, d)
<1>1. s \in Seq(Int) /\ t \in Seq(Int)  BY DEF Ascending
<1> DEFINE m == Len(s)
           n == Len(t)
           u == s \o t
<1>2. m \in Nat /\ n \in Nat  BY <1>1, LenProperties
<1>3. u \in Seq(Int) /\ Len(u) = m+n
  BY <1>1, ConcatProperties
<1>4. \A i \in 1 .. m+n : u[i] = IF i <= m THEN s[i] ELSE t[i-m]
  BY <1>1, ConcatProperties
<1>5. \A i \in 1 .. m : s[i] \in Int /\ a <= s[i] /\ s[i] <= b
  BY <1>1, ElementOfSeq DEF Ascending
<1>6. \A i \in 1 .. n : t[i] \in Int /\ c <= t[i] /\ t[i] <= d
  BY <1>1, ElementOfSeq DEF Ascending
<1>7. \A i, j \in 1 .. m : i < j => s[i] < s[j]  BY DEF Ascending
<1>8. \A i, j \in 1 .. n : i < j => t[i] < t[j]  BY DEF Ascending
<1> HIDE DEF m, n, u
<1>9. ASSUME NEW i \in 1 .. m+n PROVE a <= u[i] /\ u[i] <= d
  <2>1. CASE i <= m  BY <1>2, <1>4, <1>5, <2>1
  <2>2. CASE ~ (i <= m)
    <3>1. i-m \in 1 .. n  BY <1>2, <2>2
    <3> QED  BY <1>4, <1>6, <2>2, <3>1
  <2> QED  BY <2>1, <2>2
<1>10. ASSUME NEW i \in 1 .. m+n, NEW j \in 1 .. m+n, i < j PROVE u[i] < u[j]
  <2>1. CASE j <= m
    <3>1. i \in 1 .. m /\ j \in 1 .. m  BY <1>2, <1>10, <2>1
    <3> QED  BY <1>4, <1>7, <1>10, <3>1
  <2>2. CASE i <= m /\ ~ (j <= m)
    <3>1. i \in 1 .. m /\ j-m \in 1 .. n  BY <1>2, <2>2
    <3> QED  BY <1>4, <1>5, <1>6, <2>2, <3>1
  <2>3. CASE ~ (i <= m)
    <3>1. i-m \in 1 .. n /\ j-m \in 1 .. n /\ i-m < j-m /\ ~ (j <= m)  BY <1>2, <1>10, <2>3
    <3> QED  BY <1>4, <1>8, <2>3, <3>1
  <2> QED  BY <1>2, <2>1, <2>2, <2>3
<1>11. u \in Seq(Int) /\ Len(u) = m+n  BY <1>3 DEF u, m, n
<1> QED  BY <1>9, <1>10, <1>11 DEF Ascending, u

\* When each worker has increasing cells of its range, all of them in order increase.
LEMMA InOrderAscending ==
  ASSUME NEW e \in Distributions, NEW f \in [Task -> Seq(Int)],
         \A n \in Task : Ascending(f[n], Start(e, n), e[n])
  PROVE  Ascending(InOrder(f), 0, Count-1)
<1>1. PICK g \in [1 .. Threads -> Seq(Int)] :
        /\ g[1] = f[0]
        /\ \A i \in 2 .. Threads : g[i] = g[i-1] \o f[i-1]
        /\ InOrder(f) = g[Threads]
  BY InOrderChain
<1> DEFINE Bad == {k \in 1 .. Threads : ~ Ascending(g[k], 0, e[k-1])}
<1>2. ASSUME Bad # {} PROVE FALSE
  <2>1. PICK k \in Bad : \A j \in Bad : k <= j
    <3>1. Bad \subseteq Nat  OBVIOUS
    <3> HIDE DEF Bad
    <3> QED  BY <1>2, <3>1, LeastElement
  <2>2. k \in 1 .. Threads /\ ~ Ascending(g[k], 0, e[k-1])  OBVIOUS
  <2>3. k # 1
    <3>1. Ascending(f[0], 0, e[0])  BY Sizes DEF Start
    <3> QED  BY <1>1, <2>2, <3>1
  <2>4. k \in 2 .. Threads /\ k-1 \in 1 .. Threads /\ k-1 \in Task \ {0} /\ k-2 \in Task
        /\ (k-1)-1 = k-2 /\ ~ (k <= k-1)
    BY <2>2, <2>3, SizesAssumption DEF Task
  <2>5. k-1 \notin Bad
    <3> HIDE DEF Bad
    <3> QED  BY <2>1, <2>4
  <2>6. Ascending(g[k-1], 0, e[k-2])  BY <2>4, <2>5
  <2>7. Start(e, k-1) = e[k-2] + 1  BY <2>4 DEF Start
  <2>8. Ascending(f[k-1], e[k-2] + 1, e[k-1])  BY <2>4, <2>7
  <2>9. e[k-2] \in Nat /\ e[k-1] \in Nat /\ e[k-2] < e[k-1]
    BY <2>4, RangeFacts, EndsFacts, Sizes
  <2>10. Ascending(g[k-1] \o f[k-1], 0, e[k-1])
    BY <2>6, <2>8, <2>9, AscendingConcat
  <2> QED  BY <1>1, <2>2, <2>4, <2>10
<1>3. Threads \in 1 .. Threads  BY Sizes
<1> QED  BY <1>1, <1>2, <1>3, EndsFacts

----------------------------------------------------------------------------
(* The invariant.                                                          *)

\* Why the types need more than TypeOK: every worker has its tables.
Types ==
  /\ TypeOK
  /\ rows \in [Task -> Seq(Int)] /\ times \in [Task -> Seq(Int)]
  /\ stream \in [Task -> Seq(Int)]

\* The row that a cell gets, and the cell itself.
RowOfCell == [c \in Cell |-> IF c \in dry THEN Empty ELSE IF c \in defined THEN c ELSE Garbage]
CellItself == [c \in Cell |-> c]

StepsUpTo(n, c) ==
  \A x \in Start(endCell, n) .. endCell[n] :
    steps[x] = IF x < c /\ x \in defined \ dry THEN 1 ELSE 0

\* A thread that has not failed has done all cells of its range before c.
HasRun(n, c) ==
  LET a == Start(endCell, n) IN
  /\ a <= c /\ c <= endCell[n] + 1
  /\ times[n] = Over(CellItself, a, c-1)
  /\ stream[n] = IF printOn THEN Over(CellItself, a, c-1) ELSE <<>>
  /\ rows[n] = IF selectedOn THEN Over(RowOfCell, a, c-1) ELSE NoTable
  /\ StepsUpTo(n, c)

ThreadInv(n) ==
  /\ at[n] = "partition" => stream[n] = <<>> /\ StepsUpTo(n, 0)
  /\ at[n] \in {"cells", "done"} => HasRun(n, next[n])
  /\ at[n] = "done" => next[n] = endCell[n] + 1
  /\ at[n] = "failed" => Ascending(stream[n], Start(endCell, n), endCell[n])

\* Between two calls: what the last one has returned.
Returned ==
  /\ Ascending(output, 0, Count-1)
  /\ result = "ok" =>
       /\ printOn => Len(output) = Count
       /\ \/ rows = [n \in Task |-> NoTable]
          \/ /\ Len(InOrder(rows)) = Count
             /\ \A c \in Cell : HasRow(c) => InOrder(rows)[c+1] = RowOf(c)

Inv ==
  /\ Types
  /\ \A c \in Cell : steps[c] <= 1
  /\ phase = "running" => output = <<>> /\ result = "none" /\ \A n \in Task : ThreadInv(n)
  /\ phase = "idle" => Returned

LEMMA OverAppend ==
  ASSUME NEW F \in [Cell -> Int], NEW a \in Cell, NEW c \in Cell, a <= c
  PROVE  /\ Over(F, a, a-1) = <<>>
         /\ Over(F, a, c-1) \in Seq(Int)
         /\ Append(Over(F, a, c-1), F[c]) = Over(F, a, c)
<1>0. a \in Nat /\ c \in Nat /\ c < Count  BY Sizes
<1>1. Over(F, a, a-1) = <<>>
  <2>1. Over(F, a, a-1) = [i \in 1 .. 0 |-> F[a+i-1]]  BY <1>0 DEF Over
  <2> QED  BY <2>1
<1>2. Over(F, a, c-1) \in Seq(Int) /\ Len(Over(F, a, c-1)) = c-a
  <2>1. CASE a = c
    <3>1. Over(F, a, c-1) = <<>> /\ c-a = 0  BY <1>0, <1>1, <2>1
    <3> QED  BY <3>1, EmptySeq
  <2>2. CASE a # c
    <3>1. a < c  BY <1>0, <2>2
    <3>2. c-1 \in Cell  BY <1>0, <3>1, Sizes DEF Cell
    <3>3. a <= c-1 /\ (c-1)-a+1 = c-a  BY <1>0, <3>1
    <3> QED  BY <3>2, <3>3, OverConcat
  <2> QED  BY <2>1, <2>2
<1> DEFINE s == Over(F, a, c-1)
           u == Over(F, a, c)
<1>3. u \in Seq(Int) /\ Len(u) = c-a+1  BY OverConcat
<1>4. F[c] \in Int  OBVIOUS
<1>5. /\ Append(s, F[c]) \in Seq(Int) /\ Len(Append(s, F[c])) = (c-a)+1
      /\ \A i \in 1 .. c-a : Append(s, F[c])[i] = s[i]
      /\ Append(s, F[c])[(c-a)+1] = F[c]
  <2> HIDE DEF s
  <2>1. s \in Seq(Int) /\ Len(s) = c-a  BY <1>2 DEF s
  <2> QED  BY <1>4, <2>1, AppendProperties
<1>6. ASSUME NEW i \in 1 .. c-a+1 PROVE Append(s, F[c])[i] = u[i]
  <2>1. u[i] = F[a+i-1]  BY <1>0 DEF Over
  <2>2. CASE i = c-a+1
    <3>1. a+i-1 = c  BY <1>0, <2>2
    <3> QED  BY <1>5, <2>1, <2>2, <3>1
  <2>3. CASE i # c-a+1
    <3>1. i \in 1 .. c-a /\ i \in 1 .. (c-1)-a+1  BY <1>0, <2>3
    <3>2. s[i] = F[a+i-1]  BY <3>1 DEF Over
    <3> QED  BY <1>5, <2>1, <3>1, <3>2
  <2> QED  BY <2>2, <2>3
<1>7. Append(s, F[c]) = u
  <2> HIDE DEF s, u
  <2> QED  BY <1>3, <1>5, <1>6, SeqEqual
<1> QED  BY <1>1, <1>2, <1>7

LEMMA OverAscending ==
  ASSUME NEW a \in Cell, NEW b \in Cell, a <= b
  PROVE  /\ Ascending(Over(CellItself, a, b), a, b)
         /\ Len(Over(CellItself, a, b)) = b-a+1
<1>1. CellItself \in [Cell -> Int]  BY Sizes DEF CellItself
<1>2. Over(CellItself, a, b) \in Seq(Int) /\ Len(Over(CellItself, a, b)) = b-a+1
  BY <1>1, OverConcat
<1>3. \A i \in 1 .. b-a+1 : Over(CellItself, a, b)[i] = a+i-1
  <2>1. \A i \in 1 .. b-a+1 : a+i-1 \in Cell  BY Sizes DEF Cell
  <2> QED  BY <2>1 DEF Over, CellItself
<1>4. a \in Int /\ b \in Int  BY Sizes
<1> QED  BY <1>2, <1>3, <1>4 DEF Ascending

LEMMA AscendingEmpty == \A a, b : Ascending(<<>>, a, b)
  BY DEF Ascending

LEMMA AscendingOne ==
  ASSUME NEW a \in Int, NEW b \in Int, NEW c \in a .. b
  PROVE  Ascending(<<c>>, a, b)
  BY DEF Ascending

LEMMA AscendingWider ==
  ASSUME NEW a \in Int, NEW b \in Int, NEW c \in Int, b <= c, NEW s, Ascending(s, a, b)
  PROVE  Ascending(s, a, c)
<1>1. \A i \in 1 .. Len(s) : s[i] \in Int  BY ElementOfSeq DEF Ascending
<1> QED  BY <1>1 DEF Ascending

LEMMA AscendingCells ==
  ASSUME NEW s, Ascending(s, 0, Count-1)
  PROVE  s \in Seq(Cell)
<1>1. s \in Seq(Int) /\ Len(s) \in Nat /\ DOMAIN s = 1 .. Len(s)  BY LenProperties DEF Ascending
<1>2. \A i \in 1 .. Len(s) : s[i] \in Int  BY <1>1, ElementOfSeq
<1>3. \A i \in 1 .. Len(s) : s[i] \in Cell  BY <1>2, Sizes DEF Ascending, Cell
<1>4. s = [i \in 1 .. Len(s) |-> s[i]]  BY <1>1, LenProperties
<1>5. s \in [1 .. Len(s) -> Cell]  BY <1>3, <1>4
<1> QED  BY <1>1, <1>5, SeqDef

LEMMA FunctionsOfCells ==
  /\ CellItself \in [Cell -> Int] /\ \A c \in Cell : CellItself[c] = c
  /\ RowOfCell \in [Cell -> Int]
  BY Sizes DEF CellItself, RowOfCell, Empty, Garbage

\* What the step of one thread leaves as it was for another.
LEMMA ThreadUntouched ==
  ASSUME NEW n \in Task, ThreadInv(n),
         UNCHANGED <<endCell, defined, dry, selectedOn, printOn>>,
         UNCHANGED <<at[n], next[n], rows[n], times[n], stream[n]>>,
         \A x \in Start(endCell, n) .. endCell[n] : steps'[x] = steps[x]
  PROVE  ThreadInv(n)'
  BY DEF ThreadInv, HasRun, StepsUpTo, RowOfCell, CellItself, Start, Over

\* The output of a call is in order, and whole if no thread has failed.
LEMMA OutputInOrder ==
  ASSUME Inv, Joined
  PROVE  /\ Ascending(OutputWritten, 0, Count-1)
         /\ printOn /\ Failed = {} => Len(OutputWritten) = Count
<1> DEFINE a(n) == Start(endCell, n)
<1>1. endCell \in Distributions /\ stream \in [Task -> Seq(Int)] /\ printOn \in BOOLEAN
  BY DEF Inv, Types, TypeOK
<1>2. phase = "running" /\ output = <<>> /\ \A n \in Task : ThreadInv(n)  BY DEF Inv, Joined
<1>3. ASSUME NEW n \in Task, at[n] = "done", printOn
      PROVE  stream[n] = Over(CellItself, Start(endCell, n), endCell[n])
  <2>1. endCell[n] \in Cell  BY <1>1, RangeFacts
  <2>2. endCell[n] \in Int  BY <2>1, Sizes
  <2>3. (endCell[n] + 1) - 1 = endCell[n]  BY <2>2
  <2> QED  BY <1>2, <1>3, <2>3 DEF ThreadInv, HasRun
<1>4. CASE ~ printOn  BY <1>2, <1>4, AscendingEmpty DEF OutputWritten
<1>5. CASE printOn
  <2>1. ASSUME NEW n \in Task PROVE Ascending(stream[n], Start(endCell, n), endCell[n])
    <3>1. CASE at[n] = "done"
      BY <1>1, <1>3, <1>5, <3>1, RangeFacts, OverAscending
    <3>2. CASE at[n] = "failed"  BY <1>2, <3>2 DEF ThreadInv
    <3> QED  BY <3>1, <3>2 DEF Joined
  <2>2. Ascending(InOrder(stream), 0, Count-1)  BY <1>1, <2>1, InOrderAscending
  <2>3. ASSUME Failed = {} PROVE Len(InOrder(stream)) = Count
    <3>1. \A n \in Task : at[n] = "done"  BY <2>3 DEF Failed, Joined
    <3>2. stream = [n \in Task |-> Over(CellItself, Start(endCell, n), endCell[n])]
      BY <1>1, <1>3, <1>5, <3>1
    <3>3. InOrder(stream) = Over(CellItself, 0, Count-1)
      BY <1>1, <3>2, FunctionsOfCells, InOrderOfRanges
    <3>4. 0 \in Cell /\ Count-1 \in Cell /\ (Count-1)-0+1 = Count
      BY SizesAssumption DEF Cell
    <3>5. 0 <= Count-1  BY SizesAssumption
    <3> QED  BY <3>3, <3>4, <3>5, OverAscending
  <2> QED  BY <1>5, <2>2, <2>3 DEF OutputWritten
<1> QED  BY <1>1, <1>4, <1>5

----------------------------------------------------------------------------
(* Every step keeps the invariant.                                         *)

LEMMA InitInv == Init => Inv
<1> SUFFICES ASSUME Init PROVE Inv  OBVIOUS
<1>1. NoTable \in Seq(Int)  BY Sizes DEF NoTable
<1>2. 0 \in 0 .. Count /\ 0 \in 0 .. MaxCalls /\ <<>> \in Seq(Cell) /\ <<>> \in Seq(Int)
  BY SizesAssumption
<1>3. TypeOK  BY <1>2 DEF Init, TypeOK
<1>4. Types  BY <1>1, <1>2, <1>3 DEF Init, Types
<1>5. Returned  BY AscendingEmpty DEF Init, Returned
<1> QED  BY <1>4, <1>5 DEF Init, Inv

LEMMA ClientInv ==
  ASSUME Inv,
         \/ InitialPhreeqc2Module
         \/ \E tf \in BOOLEAN : SetSelectedOutputOn(tf)
         \/ RunCellsRefused
  PROVE  Inv'
<1>1. Types'
  <2>1. Types /\ TypeOK  BY DEF Inv, Types
  <2>2. CASE InitialPhreeqc2Module
    BY <2>1, <2>2 DEF Types, TypeOK, InitialPhreeqc2Module
  <2>3. ASSUME NEW tf \in BOOLEAN, SetSelectedOutputOn(tf) PROVE Types'
    BY <2>1, <2>3 DEF Types, TypeOK, SetSelectedOutputOn
  <2>4. CASE RunCellsRefused
    <3>1. calls' \in 0 .. MaxCalls  BY <2>1, <2>4, SizesAssumption DEF TypeOK, RunCellsRefused
    <3> QED  BY <2>1, <2>4, <3>1 DEF Types, TypeOK, RunCellsRefused
  <2> QED  BY <2>2, <2>3, <2>4
<1>2. phase = "idle" /\ phase' = "idle" /\ output' = output /\ rows' = rows /\ steps' = steps
      /\ dry' = dry /\ printOn' = printOn
  BY DEF InitialPhreeqc2Module, SetSelectedOutputOn, RunCellsRefused
<1>3. result' = "ok" => result = "ok"
  BY DEF InitialPhreeqc2Module, SetSelectedOutputOn, RunCellsRefused
<1>4. Ascending(output', 0, Count-1)  BY <1>2 DEF Inv, Returned
<1>5. Returned'
  BY <1>2, <1>3, <1>4 DEF Inv, Returned, InOrder, HasRow, RowOf
<1> QED  BY <1>1, <1>2, <1>5 DEF Inv

LEMMA StartInv == Inv /\ StartThreads => Inv'
<1> SUFFICES ASSUME Inv, StartThreads PROVE Inv'  OBVIOUS
<1>1. Types'
  <2>1. Types /\ TypeOK  BY DEF Inv, Types
  <2>2. calls' \in 0 .. MaxCalls  BY <2>1, SizesAssumption DEF TypeOK, StartThreads
  <2>3. <<>> \in Seq(Cell) /\ <<>> \in Seq(Int)  OBVIOUS
  <2>4. steps' \in [Cell -> Nat]  BY DEF StartThreads
  <2> QED  BY <2>1, <2>2, <2>3, <2>4 DEF Types, TypeOK, StartThreads
<1>2. \A n \in Task : ThreadInv(n)'
  <2>1. endCell \in Distributions  BY DEF Inv, Types, TypeOK
  <2>2. \A n \in Task : Start(endCell, n) \in Cell /\ endCell[n] \in Cell  BY <2>1, RangeFacts
  <2>3. ASSUME NEW n \in Task PROVE StepsUpTo(n, 0)'
    <3>1. \A x \in Start(endCell, n) .. endCell[n] : x \in Cell /\ ~ (x < 0)
      BY <2>2, Sizes DEF Cell
    <3> QED  BY <3>1 DEF StepsUpTo, StartThreads
  <2> QED  BY <2>3 DEF ThreadInv, StartThreads
<1> QED  BY <1>1, <1>2, Sizes DEF Inv, StartThreads

\* What the steps of the threads have in common.
LEMMA ThreadFacts ==
  ASSUME Inv, NEW n \in Task, phase = "running"
  PROVE  /\ endCell \in Distributions /\ ThreadInv(n)
         /\ Start(endCell, n) \in Cell /\ endCell[n] \in Cell
         /\ Start(endCell, n) <= endCell[n] /\ endCell[n] < Count
         /\ Start(endCell, n) = StartCell(n)
         /\ rows[n] \in Seq(Int) /\ times[n] \in Seq(Int) /\ stream[n] \in Seq(Int)
<1>1. endCell \in Distributions  BY DEF Inv, Types, TypeOK
<1>2. Start(endCell, n) \in Cell /\ endCell[n] \in Cell /\ Start(endCell, n) <= endCell[n]
  BY <1>1, RangeFacts
<1> QED  BY <1>1, <1>2, Sizes DEF Inv, Types, Start, StartCell

\* HasRun after a step that leaves ranges, cells and options alone.
LEMMA HasRunNext ==
  ASSUME NEW n \in Task, NEW c, UNCHANGED <<endCell, client>>, next'[n] = c,
         Start(endCell, n) <= c, c <= endCell[n] + 1,
         times'[n] = Over(CellItself, Start(endCell, n), c-1),
         stream'[n] = IF printOn THEN Over(CellItself, Start(endCell, n), c-1) ELSE <<>>,
         rows'[n] = IF selectedOn THEN Over(RowOfCell, Start(endCell, n), c-1) ELSE NoTable,
         \A x \in Start(endCell, n) .. endCell[n] :
           steps'[x] = IF x < c /\ x \in defined \ dry THEN 1 ELSE 0
  PROVE  HasRun(n, next[n])'
<1>1. endCell' = endCell /\ defined' = defined /\ dry' = dry
      /\ printOn' = printOn /\ selectedOn' = selectedOn
  BY DEF client
<1>2. RowOfCell' = RowOfCell  BY <1>1 DEF RowOfCell
<1>3. StepsUpTo(n, next[n])'  BY <1>1 DEF StepsUpTo, Start
<1> QED  BY <1>1, <1>2, <1>3 DEF HasRun, Start, Over, CellItself

\* A step of one thread keeps the invariant when it keeps this thread's part of it.
LEMMA ThreadStep ==
  ASSUME Inv, NEW n \in Task, phase = "running",
         UNCHANGED <<endCell, client, phase, output, result>>,
         Types', ThreadInv(n)',
         \A m \in Task \ {n} :
           UNCHANGED <<at[m], next[m], rows[m], times[m], stream[m]>>,
         \/ UNCHANGED steps
         \/ \E c \in Start(endCell, n) .. endCell[n] :
              /\ \A x \in Cell \ {c} : steps'[x] = steps[x]
              /\ steps'[c] <= 1
  PROVE  Inv'
<1>1. \A x \in Cell : steps'[x] <= 1  BY DEF Inv
<1>2. ASSUME NEW m \in Task \ {n} PROVE ThreadInv(m)'
  <2>1. /\ endCell \in Distributions /\ ThreadInv(m)
        /\ Start(endCell, m) \in Cell /\ endCell[m] \in Cell
    BY ThreadFacts
  <2>2. \A x \in Start(endCell, m) .. endCell[m] : x \in Cell  BY <2>1, Sizes DEF Cell
  <2>3. \A x \in Start(endCell, m) .. endCell[m] : steps'[x] = steps[x]
    BY <2>1, <2>2, RangesDisjoint
  <2> QED  BY <2>1, <2>3, ThreadUntouched DEF client
<1> QED  BY <1>1, <1>2 DEF Inv

LEMMA PartitionInv == \A n \in Task : Inv /\ Partition(n) => Inv'
<1> SUFFICES ASSUME NEW n \in Task, Inv, Partition(n) PROVE Inv'  OBVIOUS
<1>1. phase = "running" /\ at[n] = "partition"  BY DEF Partition
<1> DEFINE a == Start(endCell, n)
<1>2. /\ a \in Cell /\ endCell[n] \in Cell /\ a <= endCell[n] /\ a = StartCell(n)
      /\ ThreadInv(n)
  BY <1>1, ThreadFacts
<1>3. a \in Nat /\ a < Count /\ endCell[n] \in Nat  BY <1>2, Sizes
<1>4. Types'
  <2>1. NoTable \in Seq(Int) /\ <<>> \in Seq(Int)  BY Sizes DEF NoTable
  <2>2. a \in 0 .. Count  BY <1>3, Sizes
  <2> HIDE DEF a
  <2> QED  BY <1>2, <2>1, <2>2 DEF Inv, Types, TypeOK, Partition, client
<1>5. at'[n] = "cells" /\ next'[n] = a /\ times'[n] = <<>> /\ stream'[n] = <<>>
      /\ rows'[n] = IF selectedOn THEN <<>> ELSE NoTable
  BY <1>1, <1>2 DEF Inv, Types, TypeOK, Partition, ThreadInv
<1>6. Over(CellItself, a, a-1) = <<>> /\ Over(RowOfCell, a, a-1) = <<>>
  BY <1>2, <1>3, FunctionsOfCells, OverAppend
<1>7. \A x \in a .. endCell[n] : steps[x] = 0 /\ ~ (x < a)
  BY <1>1, <1>2, <1>3 DEF ThreadInv, StepsUpTo
<1>8. UNCHANGED <<endCell, client, phase, output, result, steps>>  BY DEF Partition
<1>9. HasRun(n, next[n])'
  <2>1. a <= a /\ a <= endCell[n] + 1  BY <1>2, <1>3
  <2>2. \A x \in a .. endCell[n] :
          steps'[x] = IF x < a /\ x \in defined \ dry THEN 1 ELSE 0
    BY <1>7, <1>8
  <2>3. UNCHANGED <<endCell, client>>  BY <1>8
  <2> QED  BY <1>5, <1>6, <2>1, <2>2, <2>3, HasRunNext
<1>10. ThreadInv(n)'  BY <1>5, <1>9 DEF ThreadInv
<1>11. \A m \in Task \ {n} : UNCHANGED <<at[m], next[m], rows[m], times[m], stream[m]>>
  BY DEF Inv, Types, TypeOK, Partition
<1> QED  BY <1>1, <1>4, <1>8, <1>10, <1>11, ThreadStep

\* The stream of a thread that has not failed.
LEMMA StreamAscends ==
  ASSUME Inv, NEW n \in Task, phase = "running", at[n] \in {"partition", "cells", "done"}
  PROVE  /\ Ascending(stream[n], Start(endCell, n), endCell[n])
         /\ at[n] = "cells" /\ next[n] <= endCell[n] =>
              Ascending(Append(stream[n], next[n]), Start(endCell, n), endCell[n])
<1> DEFINE a == Start(endCell, n)
           b == endCell[n]
           c == next[n]
<1>1. a \in Cell /\ b \in Cell /\ a <= b /\ ThreadInv(n)  BY ThreadFacts
<1>2. a \in Nat /\ b \in Nat /\ c \in Nat /\ b < Count
  <2>1. c \in 0 .. Count  BY DEF Inv, Types, TypeOK
  <2>2. c \in Nat  BY <2>1, Sizes
  <2> QED  BY <1>1, <2>2, Sizes
<1>3. CASE at[n] = "partition"
  BY <1>1, <1>3, AscendingEmpty DEF ThreadInv
<1>4. CASE at[n] \in {"cells", "done"}
  <2>1. /\ a <= c /\ c <= b + 1
        /\ stream[n] = IF printOn THEN Over(CellItself, a, c-1) ELSE <<>>
    BY <1>1, <1>4 DEF ThreadInv, HasRun
  <2>2. Ascending(stream[n], a, c-1)
    <3>1. CASE ~ printOn \/ c = a
      <4>1. c = a => Over(CellItself, a, c-1) = <<>>  BY <1>1, FunctionsOfCells, OverAppend
      <4> QED  BY <2>1, <3>1, <4>1, AscendingEmpty
    <3>2. CASE printOn /\ c # a
      <4>1. c-1 \in Cell /\ a <= c-1  BY <1>2, <2>1, <3>2, Sizes DEF Cell
      <4> QED  BY <1>1, <2>1, <3>2, <4>1, OverAscending
    <3> QED  BY <3>1, <3>2
  <2>3. c-1 \in Int /\ c-1 <= b  BY <1>2, <2>1
  <2>4. Ascending(stream[n], a, b)
    <3> HIDE DEF a, b, c
    <3> QED  BY <1>2, <2>2, <2>3, AscendingWider
  <2>5. ASSUME c <= b PROVE Ascending(Append(stream[n], c), a, b)
    <3>1. stream[n] \in Seq(Int)  BY ThreadFacts
    <3> HIDE DEF a, b, c
    <3>2. Append(stream[n], c) = stream[n] \o <<c>>
      <4>1. c \in Int  BY <1>2
      <4> QED  BY <3>1, <4>1, AppendIsConcat
    <3>3. Ascending(<<c>>, c, b)  BY <1>2, <2>5, AscendingOne
    <3>4. Ascending(stream[n] \o <<c>>, a, b)
      BY <1>2, <2>1, <2>2, <2>3, <2>5, <3>3, AscendingConcat
    <3> QED  BY <3>2, <3>4
  <2> QED  BY <2>4, <2>5
<1> QED  BY <1>3, <1>4

LEMMA HeadingsFailInv == \A n \in Task : Inv /\ HeadingsFail(n) => Inv'
<1> SUFFICES ASSUME NEW n \in Task, Inv, HeadingsFail(n) PROVE Inv'  OBVIOUS
<1>1. phase = "running" /\ at[n] = "partition"  BY DEF HeadingsFail
<1>2. Types'
  <2>1. NoTable \in Seq(Int) /\ <<>> \in Seq(Int)  BY Sizes DEF NoTable
  <2> QED  BY <2>1 DEF Inv, Types, TypeOK, HeadingsFail, client
<1>3. at'[n] = "failed" /\ stream' = stream  BY DEF Inv, Types, TypeOK, HeadingsFail
<1>4. UNCHANGED <<endCell, client, phase, output, result, steps>>  BY DEF HeadingsFail
<1>5. Ascending(stream[n], Start(endCell, n), endCell[n])  BY <1>1, StreamAscends
<1>6. ThreadInv(n)'  BY <1>3, <1>4, <1>5 DEF ThreadInv, Start, Ascending
<1>7. \A m \in Task \ {n} : UNCHANGED <<at[m], next[m], rows[m], times[m], stream[m]>>
  BY DEF Inv, Types, TypeOK, HeadingsFail
<1> QED  BY <1>1, <1>2, <1>4, <1>6, <1>7, ThreadStep

LEMMA RunCellFailsInv == \A n \in Task : Inv /\ RunCellFails(n) => Inv'
<1> SUFFICES ASSUME NEW n \in Task, Inv, RunCellFails(n) PROVE Inv'  OBVIOUS
<1>1. phase = "running" /\ at[n] = "cells" /\ next[n] <= endCell[n] /\ next[n] \in Cell
  BY DEF RunCellFails, Inv, Types, TypeOK
<1>2. Types'
  <2>1. /\ Append(times[n], next[n]) \in Seq(Cell) /\ Append(stream[n], next[n]) \in Seq(Cell)
        /\ Append(times[n], next[n]) \in Seq(Int) /\ Append(stream[n], next[n]) \in Seq(Int)
    BY <1>1, Sizes, AppendProperties DEF Inv, Types, TypeOK
  <2> QED  BY <2>1 DEF Inv, Types, TypeOK, RunCellFails, client
<1>3. at'[n] = "failed" /\ stream'[n] = Append(stream[n], next[n])
  BY DEF Inv, Types, TypeOK, RunCellFails
<1>4. UNCHANGED <<endCell, client, phase, output, result, steps>>  BY DEF RunCellFails
<1>5. Ascending(Append(stream[n], next[n]), Start(endCell, n), endCell[n])
  BY <1>1, StreamAscends
<1>6. ThreadInv(n)'  BY <1>3, <1>4, <1>5 DEF ThreadInv, Start, Ascending
<1>7. \A m \in Task \ {n} : UNCHANGED <<at[m], next[m], rows[m], times[m], stream[m]>>
  BY DEF Inv, Types, TypeOK, RunCellFails
<1> QED  BY <1>1, <1>2, <1>4, <1>6, <1>7, ThreadStep

LEMMA ThreadEndsInv == \A n \in Task : Inv /\ ThreadEnds(n) => Inv'
<1> SUFFICES ASSUME NEW n \in Task, Inv, ThreadEnds(n) PROVE Inv'  OBVIOUS
<1>1. phase = "running" /\ at[n] = "cells" /\ next[n] > endCell[n]  BY DEF ThreadEnds
<1>2. Types'  BY DEF Inv, Types, TypeOK, ThreadEnds, client
<1>3. at'[n] = "done"  BY DEF Inv, Types, TypeOK, ThreadEnds
<1>4. UNCHANGED <<endCell, client, phase, output, result, steps, next, rows, times, stream>>
  BY DEF ThreadEnds
<1>5. HasRun(n, next[n])  BY <1>1, ThreadFacts DEF ThreadInv
<1>6. next[n] = endCell[n] + 1
  <2>1. next[n] \in 0 .. Count /\ endCell[n] \in Cell
    BY <1>1, ThreadFacts DEF Inv, Types, TypeOK
  <2>2. next[n] \in Int  BY <2>1
  <2>3. endCell[n] \in Int  BY <2>1, Sizes
  <2> QED  BY <1>1, <1>5, <2>2, <2>3 DEF HasRun
<1>7. HasRun(n, next[n])'
  BY <1>4, <1>5 DEF HasRun, StepsUpTo, Start, Over, RowOfCell, CellItself, client
<1>8. ThreadInv(n)'  BY <1>3, <1>4, <1>6, <1>7 DEF ThreadInv
<1>9. \A m \in Task \ {n} : UNCHANGED <<at[m], next[m], rows[m], times[m], stream[m]>>
  BY DEF Inv, Types, TypeOK, ThreadEnds
<1> QED  BY <1>1, <1>2, <1>4, <1>8, <1>9, ThreadStep

LEMMA RunCellInv == \A n \in Task : Inv /\ RunCell(n) => Inv'
<1> SUFFICES ASSUME NEW n \in Task, Inv, RunCell(n) PROVE Inv'  OBVIOUS
<1> DEFINE a == Start(endCell, n)
           b == endCell[n]
           c == next[n]
<1>1. phase = "running" /\ at[n] = "cells" /\ c <= b  BY DEF RunCell
<1>2. a \in Cell /\ b \in Cell /\ ThreadInv(n)  BY <1>1, ThreadFacts
<1>3. HasRun(n, c)  BY <1>1, <1>2 DEF ThreadInv
<1>4. a <= c /\ c \in 0 .. Count  BY <1>3 DEF HasRun, Inv, Types, TypeOK
<1>5. a \in Nat /\ b \in Nat /\ c \in Nat /\ b < Count
  <2>1. c \in Nat  BY <1>4
  <2> QED  BY <1>2, <2>1, Sizes
<1>6. c \in Cell /\ c + 1 \in 0 .. Count  BY <1>1, <1>5, Sizes DEF Cell
<1>7. /\ Append(Over(CellItself, a, c-1), c) = Over(CellItself, a, c)
      /\ Append(Over(RowOfCell, a, c-1), RowOfCell[c]) = Over(RowOfCell, a, c)
  BY <1>2, <1>4, <1>6, FunctionsOfCells, OverAppend
<1>8. RowOfCell[c] = IF c \in dry THEN Empty ELSE IF c \in defined THEN c ELSE Garbage
  BY <1>6 DEF RowOfCell
<1>9. /\ next'[n] = c + 1 /\ at' = at
      /\ times'[n] = Append(times[n], c)
      /\ rows'[n] = RowsWith(n, c)
      /\ stream'[n] = IF printOn THEN Append(stream[n], c) ELSE stream[n]
      /\ \A x \in Cell \ {c} : steps'[x] = steps[x]
      /\ steps'[c] = IF c \in defined \ dry THEN steps[c] + 1 ELSE steps[c]
  BY <1>6 DEF RunCell, Inv, Types, TypeOK
<1>10. \A x \in a .. b : x \in Cell /\ x \in Int  BY <1>5, Sizes DEF Cell
<1>11. c \in a .. b  BY <1>1, <1>4, <1>5
<1>12. steps[c] = 0
  <2>1. ~ (c < c)  BY <1>5
  <2> QED  BY <1>3, <1>11, <2>1 DEF HasRun, StepsUpTo
<1>13. \A x \in a .. b : steps'[x] = IF x < c + 1 /\ x \in defined \ dry THEN 1 ELSE 0
  <2> SUFFICES ASSUME NEW x \in a .. b
               PROVE  steps'[x] = IF x < c + 1 /\ x \in defined \ dry THEN 1 ELSE 0
    OBVIOUS
  <2>1. CASE x = c
    <3>1. c < c + 1  BY <1>5
    <3> QED  BY <1>9, <1>12, <2>1, <3>1
  <2>2. CASE x # c
    <3>1. x < c + 1 <=> x < c  BY <1>5, <1>10, <2>2
    <3>2. steps'[x] = steps[x]  BY <1>9, <1>10, <2>2
    <3>3. steps[x] = IF x < c /\ x \in defined \ dry THEN 1 ELSE 0
      BY <1>3 DEF HasRun, StepsUpTo
    <3> QED  BY <3>1, <3>2, <3>3
  <2> QED  BY <2>1, <2>2
<1>14. (c + 1) - 1 = c /\ a <= c + 1 /\ c + 1 <= b + 1  BY <1>1, <1>4, <1>5
<1>15. UNCHANGED <<endCell, client, phase, output, result>>  BY DEF RunCell
<1>16. /\ times'[n] = Over(CellItself, a, (c+1)-1)
       /\ stream'[n] = IF printOn THEN Over(CellItself, a, (c+1)-1) ELSE <<>>
       /\ rows'[n] = IF selectedOn THEN Over(RowOfCell, a, (c+1)-1) ELSE NoTable
  BY <1>3, <1>7, <1>8, <1>9, <1>14 DEF HasRun, RowsWith
<1>17. HasRun(n, next[n])'
  <2>1. UNCHANGED <<endCell, client>> /\ next'[n] = c + 1  BY <1>9, <1>15
  <2> HIDE DEF c
  <2> QED  BY <1>13, <1>14, <1>16, <2>1, HasRunNext
<1>18. ThreadInv(n)'  BY <1>1, <1>9, <1>17 DEF ThreadInv
<1>19. Types'
  <2>1. Types /\ TypeOK  BY DEF Inv, Types
  <2>2. /\ Append(times[n], c) \in Seq(Cell) /\ Append(stream[n], c) \in Seq(Cell)
        /\ Append(times[n], c) \in Seq(Int) /\ Append(stream[n], c) \in Seq(Int)
    BY <1>6, <2>1, Sizes, AppendProperties DEF Types, TypeOK
  <2>3. /\ RowsWith(n, c) \in Seq(Int)
        /\ RowsWith(n, c) = NoTable \/ RowsWith(n, c) \in Seq(Cell \cup {Empty, Garbage})
    <3>1. CASE ~ selectedOn  BY <2>1, <3>1 DEF RowsWith, Types, TypeOK
    <3>2. CASE selectedOn
      <4> DEFINE S == Cell \cup {Empty, Garbage}
                 s == Over(RowOfCell, a, c-1)
      <4>1. RowOfCell[c] \in S /\ RowOfCell[c] \in Int
        BY <1>6, FunctionsOfCells DEF RowOfCell
      <4>2. RowsWith(n, c) = Append(s, RowOfCell[c])
        BY <1>3, <1>8, <3>2 DEF RowsWith, HasRun
      <4>3. s \in Seq(Int)  BY <1>2, <1>4, <1>6, FunctionsOfCells, OverAppend
      <4>4. Append(s, RowOfCell[c]) = Over(RowOfCell, a, c)  BY <1>7
      <4>5. Over(RowOfCell, a, c) \in Seq(S)
        <5>1. \A i \in 1 .. c-a+1 : a+i-1 \in Cell
          <6>1. c < Count /\ Count \in Nat  BY <1>6, Sizes
          <6> QED  BY <1>4, <1>5, <6>1 DEF Cell
        <5>2. \A x \in Cell : RowOfCell[x] \in S  BY DEF RowOfCell
        <5>3. Over(RowOfCell, a, c) \in [1 .. c-a+1 -> S]  BY <5>1, <5>2 DEF Over
        <5>4. c-a+1 \in Nat  BY <1>4, <1>5
        <5> QED  BY <5>3, <5>4, SeqDef
      <4>6. RowsWith(n, c) \in Seq(Int)
        <5> HIDE DEF s
        <5> QED  BY <4>1, <4>2, <4>3, AppendProperties
      <4> QED  BY <4>2, <4>4, <4>5, <4>6
    <3> QED  BY <3>1, <3>2
  <2>4. steps' \in [Cell -> Nat]
    <3>1. steps' = [steps EXCEPT ![c] = IF c \in defined \ dry THEN @ + 1 ELSE @]
      BY DEF RunCell
    <3>2. (IF c \in defined \ dry THEN steps[c] + 1 ELSE steps[c]) \in Nat  BY <1>12
    <3> QED  BY <2>1, <3>1, <3>2 DEF TypeOK
  <2>5. next' \in [Task -> 0 .. Count]  BY <1>6, <2>1 DEF TypeOK, RunCell
  <2>6. \A m \in Task :
          /\ times'[m] \in Seq(Cell) /\ stream'[m] \in Seq(Cell)
          /\ rows'[m] = NoTable \/ rows'[m] \in Seq(Cell \cup {Empty, Garbage})
    BY <2>1, <2>2, <2>3 DEF Types, TypeOK, RunCell
  <2>7. rows' \in [Task -> Seq(Int)] /\ times' \in [Task -> Seq(Int)]
        /\ stream' \in [Task -> Seq(Int)]
    BY <2>1, <2>2, <2>3 DEF Types, RunCell
  <2> HIDE DEF c
  <2>8. TypeOK'
    BY <2>1, <2>4, <2>5, <2>6 DEF TypeOK, RunCell, client
  <2> QED  BY <2>7, <2>8 DEF Types
<1>20. \A m \in Task \ {n} : UNCHANGED <<at[m], next[m], rows[m], times[m], stream[m]>>
  BY DEF Inv, Types, TypeOK, RunCell
<1>21. steps'[c] <= 1  BY <1>9, <1>12
<1> QED  BY <1>1, <1>9, <1>11, <1>15, <1>18, <1>19, <1>20, <1>21, ThreadStep

LEMMA JoinWithErrorsInv == Inv /\ JoinWithErrors => Inv'
<1> SUFFICES ASSUME Inv, JoinWithErrors PROVE Inv'  OBVIOUS
<1>1. Joined /\ phase' = "idle" /\ result' = "fail" /\ output' = OutputWritten
  BY DEF JoinWithErrors, Return
<1>2. Ascending(output', 0, Count-1)  BY <1>1, OutputInOrder
<1>3. Types'
  <2>1. output' \in Seq(Cell)  BY <1>2, AscendingCells
  <2>2. Types /\ TypeOK /\ <<>> \in Seq(Cell) /\ <<>> \in Seq(Int)  BY DEF Inv, Types
  <2>3. report' \subseteq Task \cup {Undefined}
    BY <2>2 DEF TypeOK, JoinWithErrors, Return, ReportOfWorkers, Failed
  <2> QED  BY <1>1, <2>1, <2>2, <2>3 DEF Types, TypeOK, JoinWithErrors, Return, Joined, client
<1>4. \A c \in Cell : steps'[c] <= 1  BY DEF Inv, JoinWithErrors
<1> QED  BY <1>1, <1>2, <1>3, <1>4 DEF Inv, Returned

\* What is known when all workers have finished their cells.
LEMMA AllDone ==
  ASSUME Inv, phase = "running", \A n \in Task : at[n] = "done"
  PROVE  /\ \A c \in Cell : steps[c] = IF c \in defined \ dry THEN 1 ELSE 0
         /\ \/ rows = [n \in Task |-> NoTable]
            \/ InOrder(rows) = Over(RowOfCell, 0, Count-1)
<1>1. endCell \in Distributions  BY DEF Inv, Types, TypeOK
<1>2. \A n \in Task : HasRun(n, endCell[n] + 1)  BY DEF Inv, ThreadInv
<1>3. \A n \in Task : (endCell[n] + 1) - 1 = endCell[n]
  <2>1. \A n \in Task : endCell[n] \in Cell  BY <1>1, RangeFacts
  <2>2. \A n \in Task : endCell[n] \in Int  BY <2>1, Sizes
  <2> QED  BY <2>2
<1>4. rows = [n \in Task |-> NoTable] \/ InOrder(rows) = Over(RowOfCell, 0, Count-1)
  <2>1. CASE ~ selectedOn  BY <1>2, <2>1 DEF HasRun, Inv, Types
  <2>2. CASE selectedOn
    <3>1. rows = [n \in Task |-> Over(RowOfCell, Start(endCell, n), endCell[n])]
      BY <1>2, <1>3, <2>2 DEF HasRun, Inv, Types
    <3> QED  BY <1>1, <3>1, FunctionsOfCells, InOrderOfRanges
  <2> QED  BY <2>1, <2>2
<1>5. ASSUME NEW c \in Cell PROVE steps[c] = IF c \in defined \ dry THEN 1 ELSE 0
  <2>1. PICK n \in Task : c \in Start(endCell, n) .. endCell[n]  BY <1>1, CellHasWorker
  <2>2. c < endCell[n] + 1
    <3>1. endCell[n] \in Cell  BY <1>1, RangeFacts
    <3>2. endCell[n] \in Int  BY <3>1, Sizes
    <3> QED  BY <2>1, <3>2
  <2> QED  BY <1>2, <2>1, <2>2 DEF HasRun, StepsUpTo
<1> QED  BY <1>4, <1>5

LEMMA JoinAndRebalanceInv == Inv /\ JoinAndRebalance => Inv'
<1> SUFFICES ASSUME Inv, JoinAndRebalance PROVE Inv'  OBVIOUS
<1>1. /\ Joined /\ Failed = {} /\ phase' = "idle" /\ result' = "ok"
      /\ output' = OutputWritten
      /\ UNCHANGED <<dry, printOn, rows, steps>>
  BY DEF JoinAndRebalance, Return
<1>2. Ascending(output', 0, Count-1) /\ (printOn' => Len(output') = Count)
  BY <1>1, OutputInOrder
<1>3. Types'
  <2>1. output' \in Seq(Cell)  BY <1>2, AscendingCells
  <2>2. Types /\ TypeOK /\ <<>> \in Seq(Cell) /\ <<>> \in Seq(Int)  BY DEF Inv, Types
  <2>3. report' \subseteq Task \cup {Undefined}
    BY <2>2 DEF TypeOK, JoinAndRebalance, Return, ReportOfWorkers, Failed
  <2>4. endCell' \in Distributions /\ defined' \subseteq Cell /\ left' \subseteq Cell \X Task
    BY <2>2 DEF TypeOK, JoinAndRebalance
  <2> QED  BY <1>1, <2>1, <2>2, <2>3, <2>4 DEF Types, TypeOK, JoinAndRebalance, Return, Joined
<1>4. \A n \in Task : at[n] = "done"  BY <1>1 DEF Joined, Failed
<1>5. phase = "running"  BY <1>1 DEF Joined
<1>6. ASSUME InOrder(rows) = Over(RowOfCell, 0, Count-1)
      PROVE  /\ Len(InOrder(rows)) = Count
             /\ \A c \in Cell : HasRow(c) => InOrder(rows)[c+1] = RowOf(c)
  <2>1. 0 \in Cell /\ Count-1 \in Cell /\ 0 <= Count-1 /\ (Count-1)-0+1 = Count
    BY SizesAssumption DEF Cell
  <2>2. Len(Over(RowOfCell, 0, Count-1)) = Count  BY <2>1, FunctionsOfCells, OverConcat
  <2>3. ASSUME NEW c \in Cell, HasRow(c) PROVE Over(RowOfCell, 0, Count-1)[c+1] = RowOf(c)
    <3>1. c+1 \in 1 .. (Count-1)-0+1 /\ 0+(c+1)-1 = c  BY <2>1, Sizes
    <3>2. Over(RowOfCell, 0, Count-1)[c+1] = RowOfCell[c]  BY <3>1 DEF Over
    <3>3. c \in dry \/ c \in defined  BY <1>4, <1>5, <2>3, AllDone DEF HasRow
    <3> QED  BY <3>2, <3>3 DEF RowOfCell, RowOf
  <2> QED  BY <1>6, <2>2, <2>3
<1>7. Returned'
  BY <1>1, <1>2, <1>4, <1>5, <1>6, AllDone DEF Returned, InOrder, HasRow, RowOf
<1>8. \A c \in Cell : steps'[c] <= 1  BY <1>1 DEF Inv
<1> QED  BY <1>1, <1>3, <1>7, <1>8 DEF Inv

\* Every cell has its worker.
LEMMA WorkerOfCell ==
  ASSUME NEW e \in Distributions, NEW c \in Cell
  PROVE  WorkerOf(e, c) \in Task
<1>1. PICK n \in Task : c \in Start(e, n) .. e[n]  BY CellHasWorker
<1>2. n # 0 => n-1 \in Task  BY EndsFacts
<1>3. e[n] \in Int /\ (n # 0 => e[n-1] \in Int) /\ c \in Int
  BY <1>2, RangeFacts, Sizes
<1>4. c <= e[n] /\ (n = 0 \/ e[n-1] < c)  BY <1>1, <1>3 DEF Start
<1> QED  BY <1>4 DEF WorkerOf

LEMMA RebalanceFailsInv == Inv /\ RebalanceFails => Inv'
<1> SUFFICES ASSUME Inv, RebalanceFails PROVE Inv'  OBVIOUS
<1>1. /\ Joined /\ phase' = "idle" /\ result' = "fail" /\ output' = OutputWritten
      /\ UNCHANGED <<endCell, steps>>
  BY DEF RebalanceFails, Return
<1>2. Ascending(output', 0, Count-1)  BY <1>1, OutputInOrder
<1>3. Types'
  <2>1. output' \in Seq(Cell)  BY <1>2, AscendingCells
  <2>2. Types /\ TypeOK /\ <<>> \in Seq(Cell) /\ <<>> \in Seq(Int)  BY DEF Inv, Types
  <2>3. /\ report' \subseteq Task \cup {Undefined}
        /\ defined' \subseteq Cell /\ left' \subseteq Cell \X Task
    <3>1. endCell \in Distributions /\ defined \subseteq Cell /\ left \subseteq Cell \X Task
          /\ report \subseteq Task \cup {Undefined}
      BY <2>2 DEF TypeOK
    <3>2. PICK e \in Distributions, k \in Cell :
            /\ Return("fail", {WorkerOf(endCell, k)})
            /\ defined' = {c \in defined : c >= k \/ WorkerOf(endCell, c) = WorkerOf(e, c)}
            /\ left' = left \cup Transferred(e, k) \cup ({k} \cap defined) \X {WorkerOf(e, k)}
      BY DEF RebalanceFails
    <3>3. WorkerOf(endCell, k) \in Task /\ WorkerOf(e, k) \in Task  BY <3>1, WorkerOfCell
    <3>4. Transferred(e, k) \subseteq Cell \X Task  BY <3>1, WorkerOfCell DEF Transferred
    <3>5. report' \subseteq Task \cup {Undefined}
      BY <3>1, <3>2, <3>3 DEF Return, ReportOfWorkers, Failed
    <3> QED  BY <3>1, <3>2, <3>3, <3>4, <3>5
  <2> QED  BY <1>1, <2>1, <2>2, <2>3 DEF Types, TypeOK, RebalanceFails, Return, Joined
<1>4. \A c \in Cell : steps'[c] <= 1  BY <1>1 DEF Inv
<1> QED  BY <1>1, <1>2, <1>3, <1>4 DEF Inv, Returned

LEMMA NextInv == Inv /\ [Next]_vars => Inv'
<1> SUFFICES ASSUME Inv, [Next]_vars PROVE Inv'  OBVIOUS
<1>1. CASE InitialPhreeqc2Module \/ (\E tf \in BOOLEAN : SetSelectedOutputOn(tf))
           \/ RunCellsRefused
  BY <1>1, ClientInv
<1>2. CASE StartThreads  BY <1>2, StartInv
<1>3. ASSUME NEW n \in Task, Thread(n) PROVE Inv'
  BY <1>3, PartitionInv, HeadingsFailInv, RunCellInv, RunCellFailsInv, ThreadEndsInv
     DEF Thread
<1>4. CASE JoinWithErrors  BY <1>4, JoinWithErrorsInv
<1>5. CASE JoinAndRebalance  BY <1>5, JoinAndRebalanceInv
<1>6. CASE RebalanceFails  BY <1>6, RebalanceFailsInv
<1>7. CASE UNCHANGED vars
  <2>1. Types'  BY <1>7 DEF vars, client, worker, Inv, Types, TypeOK
  <2>2. UNCHANGED <<endCell, defined, dry, selectedOn, printOn, at, next, rows, times,
                    stream, steps, phase, output, result>>
    BY <1>7 DEF vars, client, worker
  <2>3. ASSUME NEW n \in Task, ThreadInv(n) PROVE ThreadInv(n)'
    BY <2>2, <2>3, ThreadUntouched
  <2>4. Returned => Returned'  BY <2>2 DEF Returned, Ascending, InOrder, HasRow, RowOf
  <2> QED  BY <2>1, <2>2, <2>3, <2>4 DEF Inv
<1> QED  BY <1>1, <1>2, <1>3, <1>4, <1>5, <1>6, <1>7 DEF Next

LEMMA InvAlways == Spec => []Inv
  BY InitInv, NextInv, PTL DEF Spec

----------------------------------------------------------------------------
(* The theorems.                                                           *)

\* Types, for any number of cells and workers and any ranges.
THEOREM TypeCorrect == Spec => []TypeOK
<1>1. Inv => TypeOK  BY DEF Inv, Types
<1> QED  BY <1>1, InvAlways, PTL

\* What RunCells gathers from its threads belongs to the cells in order.
THEOREM GatheredAlways == Spec => []GatheredInCellOrder
<1>1. ASSUME Inv PROVE GatheredInCellOrder
  <2>1. ASSUME GetSelectedOutputSucceeds, result = "ok"
        PROVE  /\ Len(GetSelectedOutput) = Count
               /\ \A c \in Cell : HasRow(c) => GetSelectedOutput[c+1] = RowOf(c)
    <3>1. rows # [n \in Task |-> NoTable]
      BY <2>1, Sizes DEF GetSelectedOutputSucceeds
    <3> QED  BY <1>1, <2>1, <3>1 DEF GetSelectedOutputSucceeds, GetSelectedOutput, Inv, Returned
  <2>2. ASSUME phase = "idle"
        PROVE  /\ \A i, j \in DOMAIN output : i < j => output[i] < output[j]
               /\ printOn /\ result = "ok" => Len(output) = Count
    <3>1. Ascending(output, 0, Count-1) /\ (printOn /\ result = "ok" => Len(output) = Count)
      BY <1>1, <2>2 DEF Inv, Returned
    <3>2. DOMAIN output = 1 .. Len(output)  BY <3>1, LenProperties DEF Ascending
    <3> QED  BY <3>1, <3>2 DEF Ascending
  <2>3. ASSUME phase = "running", \A m \in Task : at[m] = "done", NEW n \in Task
        PROVE  Len(times[n]) = endCell[n] - StartCell(n) + 1
    <3>1. /\ ThreadInv(n) /\ Start(endCell, n) \in Cell /\ endCell[n] \in Cell
          /\ Start(endCell, n) <= endCell[n] /\ Start(endCell, n) = StartCell(n)
      BY <1>1, <2>3, ThreadFacts
    <3>2. endCell[n] \in Int  BY <3>1, Sizes
    <3>3. (endCell[n] + 1) - 1 = endCell[n]  BY <3>2
    <3>4. times[n] = Over(CellItself, Start(endCell, n), endCell[n])
      BY <2>3, <3>1, <3>3 DEF ThreadInv, HasRun
    <3> QED  BY <3>1, <3>4, OverAscending
  <2> QED  BY <2>1, <2>2, <2>3 DEF GatheredInCellOrder
<1> QED  BY <1>1, InvAlways, PTL

\* No call of RunCells makes two steps in a cell, and when all workers have finished one
\* was made in every cell that has a solution and water.
THEOREM OneStepAlways == Spec => []OneStepPerCell
<1>1. Inv => OneStepPerCell
  <2>1. ASSUME Inv, phase = "running", \A n \in Task : at[n] = "done"
        PROVE  \A c \in defined \ dry : steps[c] = 1
    <3>1. defined \subseteq Cell  BY <2>1 DEF Inv, Types, TypeOK
    <3> QED  BY <2>1, <3>1, AllDone
  <2> QED  BY <2>1 DEF Inv, OneStepPerCell
<1> QED  BY <1>1, InvAlways, PTL

\* RunCells succeeds only when every cell with a solution and water was run and stays with
\* a worker that runs it, and when it fails, for a cell, the headings or a transfer, the
\* messages of the workers concerned are there.
THEOREM FailuresReported == Spec => EveryFailureReported
<1>1. ASSUME Inv, [Next]_vars
      PROVE  [phase = "running" /\ phase' = "idle" =>
                /\ result' = "ok" => /\ \A c \in defined \ dry : steps[c] = 1
                                     /\ defined \subseteq defined'
                /\ result' = "fail" => report' \cap Task # {}
                /\ Failed \subseteq report']_vars
  <2>1. CASE JoinWithErrors
    <3>1. Failed # {} /\ Failed \subseteq Task /\ report' = report \cup Failed \cup {}
          /\ result' = "fail"
      BY <2>1 DEF JoinWithErrors, Return, ReportOfWorkers, Failed
    <3> QED  BY <3>1
  <2>2. CASE JoinAndRebalance
    <3>1. Joined /\ Failed = {} /\ result' = "ok" /\ defined \subseteq defined'
      BY <2>2 DEF JoinAndRebalance, Return
    <3>2. phase = "running" /\ \A n \in Task : at[n] = "done"  BY <3>1 DEF Joined, Failed
    <3>3. defined \subseteq Cell  BY <1>1 DEF Inv, Types, TypeOK
    <3>4. \A c \in defined \ dry : steps[c] = 1  BY <1>1, <3>2, <3>3, AllDone
    <3> QED  BY <3>1, <3>4
  <2>3. CASE RebalanceFails
    <3>1. endCell \in Distributions  BY <1>1 DEF Inv, Types, TypeOK
    <3>2. PICK k \in Cell : Return("fail", {WorkerOf(endCell, k)})
      BY <2>3 DEF RebalanceFails
    <3>3. WorkerOf(endCell, k) \in Task  BY <3>1, WorkerOfCell
    <3>4. WorkerOf(endCell, k) \in report' /\ Failed \subseteq report' /\ result' = "fail"
      BY <3>2 DEF Return, ReportOfWorkers
    <3> QED  BY <3>3, <3>4
  <2>4. CASE UNCHANGED vars  BY <2>4
  <2>5. CASE ~ JoinWithErrors /\ ~ JoinAndRebalance /\ ~ RebalanceFails /\ Next
    <3>1. phase = "idle" \/ phase' = phase \/ phase' = "running"
      BY <2>5 DEF Next, InitialPhreeqc2Module, SetSelectedOutputOn, RunCellsRefused,
         StartThreads, Thread, Partition, HeadingsFail, RunCell, RunCellFails, ThreadEnds
    <3> QED  BY <3>1
  <2> QED  BY <1>1, <2>1, <2>2, <2>3, <2>4, <2>5
<1> QED  BY <1>1, InvAlways, PTL DEF Spec, EveryFailureReported
=============================================================================
