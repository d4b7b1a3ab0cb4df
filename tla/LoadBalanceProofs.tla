-------------------------- MODULE LoadBalanceProofs --------------------------
(***************************************************************************)
(* Theorems about LoadBalance, for every number of cells and workers.      *)
(***************************************************************************)
EXTENDS LoadBalance, WellFoundedInduction, TLAPS

----------------------------------------------------------------------------
(* Types.                                                                  *)

\* The first cells that go with any ends are integers.
LEMMA StartsOfType ==
  ASSUME NEW e \in [Task -> Int]
  PROVE  StartsOf(e) \in [Task -> Int]
BY SizeAssumption DEF StartsOf, Task

\* A conversion to int gives an integer.
LEMMA TruncateType ==
  ASSUME NEW n \in Int, NEW d \in Nat \ {0}
  PROVE  Truncate(n, d) \in Int
BY DEF Truncate

\* SetEndCells makes one integer per worker.
LEMMA EvenEndsType == EvenEnds \in [Task -> Int]
<1>1. Count \div Threads \in Int /\ Count % Threads \in Int  BY SizeAssumption
<1> DEFINE n == Count \div Threads
           x == Count % Threads
<1>2. n \in Int /\ x \in Int  BY <1>1
<1> HIDE DEF n, x
<1>3. [i \in Task |-> n * (i + 1) - 1 + (IF i < x THEN i + 1 ELSE x)] \in [Task -> Int]
  BY <1>2 DEF Task
<1> QED  BY <1>3 DEF EvenEnds, n, x

\* Whatever the measured times, RebalanceLoad computes one integer per worker.
LEMMA NewEndsType ==
  ASSUME TypeOK, NEW e \in NewEnds
  PROVE  e \in [Task -> Int]
<1>0. /\ endCell \in [Task -> Int]
      /\ fraction.num \in Nat /\ fraction.den \in Nat \ {0}
      /\ Count \in Int
  BY FractionAssumption, SizeAssumption DEF TypeOK
<1>1. CASE byCell
  <2>1. PICK t \in CellTimes : e \in {EndsByCell(t, f) : f \in CellTargets[t]}
    BY <1>1 DEF NewEnds
  <2>2. PICK f \in CellTargets[t] : e = EndsByCell(t, f)  BY <2>1
  <2>3. f \in [Task -> Int]
    <3>1. f \in BalancedEnds(t)  BY <2>2 DEF CellTargets
    <3> QED  BY <3>1, SizeAssumption DEF BalancedEnds, Cell
  <2>4. ASSUME NEW i \in Task PROVE MoveByCell(f, i) \in Int
    <3>1. f[i] - endCell[i] \in Int /\ endCell[i] \in Int  BY <1>0, <2>3
    <3>2. (f[i] - endCell[i]) * fraction.num \in Int  BY <1>0, <3>1
    <3>3. Truncate((f[i] - endCell[i]) * fraction.num, fraction.den) \in Int
      BY <1>0, <3>2, TruncateType
    <3> QED  BY <3>1, <3>3 DEF MoveByCell
  <2> QED  BY <1>0, <2>2, <2>4 DEF EndsByCell
<1>2. CASE ~ byCell
  <2>1. PICK t \in ThreadTimes : e \in {EndsByTask(t, f) : f \in SharedEnds(t)}
    BY <1>2 DEF NewEnds
  <2>2. PICK f \in SharedEnds(t) : e = EndsByTask(t, f)  BY <2>1
  <2>3. f \in [Task -> Int]
    <3>1. f \in Ends  BY <2>2 DEF SharedEnds
    <3> QED  BY <3>1, SizeAssumption DEF Ends, Cell
  <2>4. ASSUME NEW i \in Task PROVE MoveByTask(f, i) \in Int
    <3>1. f[i] - endCell[i] \in Int /\ endCell[i] \in Int  BY <1>0, <2>3
    <3>2. (f[i] - endCell[i]) * fraction.num \in Int  BY <1>0, <3>1
    <3>3. Truncate((f[i] - endCell[i]) * fraction.num, fraction.den) \in Int
      BY <1>0, <3>2, TruncateType
    <3> QED  BY <3>1, <3>3 DEF MoveByTask
  <2> QED  BY <1>0, <2>2, <2>4 DEF EndsByTask
<1> QED  BY <1>1, <1>2

----------------------------------------------------------------------------
(* Arithmetic: part of a distance.                                         *)

\* What integer division gives, as inequalities.
LEMMA DivBounds ==
  ASSUME NEW a \in Nat, NEW d \in Nat \ {0}
  PROVE  /\ a \div d \in Nat
         /\ d * (a \div d) <= a
         /\ a < d * (a \div d) + d
<1>1. a = d * (a \div d) + (a % d) /\ a % d \in 0 .. d-1 /\ a \div d \in Int  BY SMT
<1> DEFINE q == a \div d
           r == a % d
<1>2. a = d * q + r /\ r \in 0 .. d-1 /\ q \in Int  BY <1>1
<1> HIDE DEF q, r
<1>3. q >= 0
  <2> SUFFICES ASSUME q <= -1 PROVE FALSE  BY <1>2
  <2>1. d * q <= -d  BY <1>2, SMT
  <2> QED  BY <1>2, <2>1
<1>4. q \in Nat /\ d * q <= a /\ a < d * q + d  BY <1>2, <1>3
<1> QED  BY <1>4 DEF q

\* The part n/d of a longer distance is not shorter, and by no more longer than
\* the distance is.
LEMMA PartOfNat ==
  ASSUME NEW n \in Nat, NEW d \in Nat \ {0}, n <= d,
         NEW x \in Nat, NEW y \in Nat, x <= y
  PROVE  /\ (x * n) \div d <= (y * n) \div d
         /\ (y * n) \div d <= (x * n) \div d + (y - x)
<1> DEFINE q == (x * n) \div d
           r == (y * n) \div d
<1>1. x * n \in Nat /\ y * n \in Nat  BY SMT
<1>2. q \in Nat /\ d * q <= x * n /\ x * n < d * q + d  BY <1>1, DivBounds
<1>3. r \in Nat /\ d * r <= y * n /\ y * n < d * r + d  BY <1>1, DivBounds
<1> HIDE DEF q, r
<1>4. x * n <= y * n  BY SMT
<1>5. q <= r
  <2> SUFFICES ASSUME r + 1 <= q PROVE FALSE  BY <1>2, <1>3
  <2>1. d * (r + 1) <= d * q  BY <1>2, <1>3, SMT
  <2>2. d * (r + 1) = d * r + d  BY <1>3, SMT
  <2> QED  BY <1>1, <1>2, <1>3, <1>4, <2>1, <2>2
<1>6. r <= q + (y - x)
  <2> SUFFICES ASSUME q + 1 + (y - x) <= r PROVE FALSE  BY <1>2, <1>3
  <2> DEFINE z == y - x
  <2>1. z \in Nat /\ y = x + z  OBVIOUS
  <2> HIDE DEF z
  <2>2. d * (q + 1 + z) <= d * r  BY <1>2, <1>3, <2>1, SMT DEF z
  <2>3. d * (q + 1 + z) = d * q + d + d * z  BY <1>2, <2>1, SMT
  <2>4. z * n <= d * z  BY <2>1, SMT
  <2>5. y * n = x * n + z * n  BY <2>1, SMT
  <2>6. d * q \in Int /\ d * z \in Int /\ d * r \in Int /\ z * n \in Int
    BY <1>2, <1>3, <2>1, SMT
  <2> QED  BY <1>1, <1>2, <1>3, <2>2, <2>3, <2>4, <2>5, <2>6
<1> QED  BY <1>5, <1>6 DEF q, r

\* Conversion to int keeps the order and shortens distances, on both sides of zero.
LEMMA PartOfInt ==
  ASSUME NEW n \in Nat, NEW d \in Nat \ {0}, n <= d,
         NEW x \in Int, NEW y \in Int, x <= y
  PROVE  /\ Truncate(x * n, d) <= Truncate(y * n, d)
         /\ Truncate(y * n, d) <= Truncate(x * n, d) + (y - x)
<1> DEFINE P(z) == Truncate(z * n, d)
           D(z) == (z * n) \div d
<1>1. ASSUME NEW z \in Nat
      PROVE  D(z) \in Nat /\ P(z) = D(z) /\ P(-z) = -D(z) /\ D(z) <= z
  <2>1. z * n \in Nat /\ D(z) \in Nat  BY DivBounds
  <2>2. P(z) = D(z)  BY <2>1 DEF Truncate
  <2>3. (-z) * n = -(z * n) /\ -((-z) * n) = z * n  BY SMT
  <2>4. P(-z) = -D(z)
    <3>1. CASE z * n = 0
      <4>1. (-z) * n = 0 /\ (z * n) \div d = 0 /\ 0 \div d = 0  BY <2>3, <3>1, SMT
      <4> QED  BY <4>1 DEF Truncate
    <3>2. CASE z * n # 0
      <4>1. ~ ((-z) * n >= 0)  BY <2>1, <2>3, <3>2
      <4> QED  BY <2>3, <4>1 DEF Truncate
    <3> QED  BY <3>1, <3>2
  <2>5. D(0) = 0  BY SMT
  <2>6. D(z) <= z
    <3>1. D(z) <= D(0) + (z - 0)  BY PartOfNat
    <3> QED  BY <2>5, <3>1
  <2> QED  BY <2>1, <2>2, <2>4, <2>6
<1> HIDE DEF P
<1>2. CASE x >= 0
  <2>1. x \in Nat /\ y \in Nat  BY <1>2
  <2>2. D(x) <= D(y) /\ D(y) <= D(x) + (y - x)  BY <2>1, PartOfNat
  <2>3. P(x) = D(x) /\ P(y) = D(y)  BY <1>1, <2>1
  <2>4. P(x) <= P(y) /\ P(y) <= P(x) + (y - x)  BY <2>2, <2>3
  <2> QED  BY <2>4 DEF P
<1>3. CASE y < 0
  <2>1. -x \in Nat /\ -y \in Nat /\ -y <= -x /\ x = -(-x) /\ y = -(-y)  BY <1>3
  <2>2. D(-y) <= D(-x) /\ D(-x) <= D(-y) + ((-x) - (-y))  BY <2>1, PartOfNat
  <2>3. P(x) = -D(-x) /\ P(y) = -D(-y)  BY <1>1, <2>1
  <2>4. D(-x) \in Nat /\ D(-y) \in Nat  BY <1>1, <2>1
  <2>5. P(x) <= P(y) /\ P(y) <= P(x) + (y - x)
    <3> HIDE DEF D
    <3> QED  BY <2>2, <2>3, <2>4
  <2> QED  BY <2>5 DEF P
<1>4. CASE x < 0 /\ y >= 0
  <2>1. -x \in Nat /\ y \in Nat /\ x = -(-x)  BY <1>4
  <2>2. P(x) = -D(-x) /\ D(-x) \in Nat /\ D(-x) <= -x  BY <1>1, <2>1
  <2>3. P(y) = D(y) /\ D(y) \in Nat /\ D(y) <= y  BY <1>1, <2>1
  <2>4. P(x) <= P(y) /\ P(y) <= P(x) + (y - x)
    <3> HIDE DEF D
    <3> QED  BY <2>2, <2>3
  <2> QED  BY <2>4 DEF P
<1> QED  BY <1>2, <1>3, <1>4

\* How far RebalanceLoadPerCell moves an end whose target is x cells away.
PartOrAll(x, n, d) ==
  IF Truncate(x * n, d) = 0 THEN x ELSE Truncate(x * n, d)

\* For a fraction of one half and more the rule "all of it when it rounds to
\* nothing" only concerns a distance of one, and does not break the order.
LEMMA PartOrAllOfInt ==
  ASSUME NEW n \in Nat, NEW d \in Nat \ {0}, n <= d, d <= 2 * n,
         NEW x \in Int, NEW y \in Int, x <= y
  PROVE  /\ PartOrAll(x, n, d) <= PartOrAll(y, n, d)
         /\ PartOrAll(y, n, d) <= PartOrAll(x, n, d) + (y - x)
<1> DEFINE P(z) == Truncate(z * n, d)
           Q(z) == PartOrAll(z, n, d)
<1>0. ASSUME NEW z \in Int PROVE P(z) \in Int /\ Q(z) = IF P(z) = 0 THEN z ELSE P(z)
  <2>1. z * n \in Int  BY SMT
  <2> QED  BY <2>1, TruncateType DEF PartOrAll
<1>1. ASSUME NEW u \in Int, NEW v \in Int, u <= v
      PROVE  P(u) <= P(v) /\ P(v) <= P(u) + (v - u)
  BY <1>1, PartOfInt
<1>2. P(0) = 0
  <2>1. 0 * n = 0 /\ 0 \div d = 0  BY SMT
  <2> QED  BY <2>1 DEF Truncate
<1>3. P(2) >= 1
  <2>1. 2 * n \in Nat /\ (2 * n) \div d \in Nat /\ 2 * n < d * ((2 * n) \div d) + d
    BY DivBounds
  <2>2. (2 * n) \div d # 0
    <3> SUFFICES ASSUME (2 * n) \div d = 0 PROVE FALSE  OBVIOUS
    <3>1. d * ((2 * n) \div d) = 0  BY SMT
    <3> QED  BY <2>1, <3>1
  <2>3. P(2) = (2 * n) \div d  BY <2>1 DEF Truncate
  <2> QED  BY <2>1, <2>2, <2>3
<1>4. P(-2) <= -1
  <2>1. (-2) * n = -(2 * n) /\ -((-2) * n) = 2 * n /\ ~ ((-2) * n >= 0)  BY SMT
  <2>2. 2 * n >= 0 /\ (2 * n) \div d \in Nat
    <3>1. 2 * n \in Nat  BY SMT
    <3> QED  BY <3>1, DivBounds
  <2>3. P(-2) = -((2 * n) \div d)  BY <2>1 DEF Truncate
  <2>4. P(2) = (2 * n) \div d  BY <2>2 DEF Truncate
  <2> QED  BY <1>3, <2>2, <2>3, <2>4
<1> HIDE DEF P, Q
<1>5. ASSUME NEW z \in Int
      PROVE  Q(z) = IF z \in {-1, 0, 1} THEN z ELSE P(z)
  <2>1. CASE z >= 2
    <3>1. P(2) <= P(z)  BY <1>1, <2>1
    <3> QED  BY <1>0, <1>3, <2>1, <3>1
  <2>2. CASE z <= -2
    <3>1. P(z) <= P(-2)  BY <1>1, <2>2
    <3> QED  BY <1>0, <1>4, <2>2, <3>1
  <2>3. CASE z = 0  BY <1>0, <1>2, <2>3
  <2>4. CASE z = 1
    <3>1. P(0) <= P(1) /\ P(1) <= P(0) + (1 - 0)  BY <1>1
    <3> QED  BY <1>0, <1>2, <2>4, <3>1
  <2>5. CASE z = -1
    <3>1. P(-1) <= P(0) /\ P(0) <= P(-1) + (0 - (-1))  BY <1>1
    <3> QED  BY <1>0, <1>2, <2>5, <3>1
  <2> QED  BY <2>1, <2>2, <2>3, <2>4, <2>5
<1>6. \A u, v \in Int : u <= v => P(u) <= P(v) /\ P(v) <= P(u) + (v - u)
  BY <1>1
<1>7. \A z \in Int : P(z) \in Int  BY <1>0
<1>8. \A z \in Int : Q(z) = IF z \in {-1, 0, 1} THEN z ELSE P(z)  BY <1>5
<1>9. ASSUME NEW z \in Int
      PROVE  /\ z >= 1 => 1 <= Q(z) /\ Q(z) <= z
             /\ z <= -1 => z <= Q(z) /\ Q(z) <= -1
             /\ z = 0 => Q(z) = 0
             /\ Q(z) \in Int
  <2>1. z >= 2 => P(2) <= P(z) /\ P(z) <= P(0) + (z - 0)  BY <1>6
  <2>2. z <= -2 => P(z) <= P(-2) /\ P(0) <= P(z) + (0 - z)  BY <1>6
  <2> QED  BY <1>2, <1>3, <1>4, <1>7, <1>8, <2>1, <2>2
<1>10. Q(x) <= Q(y) /\ Q(y) <= Q(x) + (y - x)
  <2>1. P(x) \in Int /\ P(y) \in Int /\ P(x) <= P(y) /\ P(y) <= P(x) + (y - x)
    BY <1>6, <1>7
  <2>2. CASE x >= 2  BY <1>8, <2>1, <2>2
  <2>3. CASE y <= -2  BY <1>8, <2>1, <2>3
  <2>4. CASE x <= 0 /\ y >= 0  BY <1>9, <2>4
  <2>5. CASE x = 1 /\ y >= 1
    <3>1. Q(x) = 1 /\ Q(y) >= 1 /\ Q(y) <= y /\ Q(y) \in Int  BY <1>8, <1>9, <2>5
    <3> QED  BY <2>5, <3>1
  <2>6. CASE x <= -1 /\ y = -1
    <3>1. Q(y) = -1 /\ Q(x) <= -1 /\ Q(x) >= x /\ Q(x) \in Int  BY <1>8, <1>9, <2>6
    <3> QED  BY <2>6, <3>1
  <2> QED  BY <2>2, <2>3, <2>4, <2>5, <2>6
<1> QED  BY <1>10 DEF Q

----------------------------------------------------------------------------
(* Ends that cut the cells into ranges.                                    *)

\* Induction by the least counterexample.
LEMMA LeastElement ==
  ASSUME NEW T, T \subseteq Nat, T # {}
  PROVE  \E x \in T : \A y \in T : x <= y
<1> DEFINE R == OpToRel(<, Nat)
<1>1. IsWellFoundedOn(R, Nat)  BY NatLessThanWellFounded
<1>2. \A x \in Nat, y \in Nat : y < x => <<y, x>> \in R  BY DEF OpToRel
<1> HIDE DEF R
<1>3. PICK x \in T : \A y \in T : ~ (<<y, x>> \in R)  BY <1>1, WFMin
<1>4. \A y \in T : ~ (y < x)  BY <1>2, <1>3
<1> QED  BY <1>4

\* What Partition says of the ends alone.
Increasing(e) ==
  /\ e \in [Task -> Int]
  /\ e[Threads-1] = Count - 1
  /\ e[0] >= 0
  /\ \A i \in Task \ {0} : e[i-1] < e[i]

\* Ends cut the cells into ranges exactly when they increase.
LEMMA PartitionIsIncreasing ==
  ASSUME NEW e \in [Task -> Int]
  PROVE  Partition(StartsOf(e), e) <=> Increasing(e)
<1>1. ASSUME Partition(StartsOf(e), e) PROVE Increasing(e)
  <2>1. \A i \in Task : StartsOf(e)[i] <= e[i]  BY <1>1 DEF Partition
  <2>2. 0 \in Task  BY SizeAssumption DEF Task
  <2>3. \A i \in Task \ {0} : i-1 \in Task /\ StartsOf(e)[i] = e[i-1] + 1
    BY SizeAssumption DEF StartsOf, Task
  <2>4. StartsOf(e)[0] = 0  BY <2>2 DEF StartsOf
  <2>5. ASSUME NEW i \in Task \ {0} PROVE e[i-1] < e[i]
    <3>1. e[i-1] \in Int /\ e[i] \in Int /\ e[i-1] + 1 <= e[i]  BY <2>1, <2>3
    <3> QED  BY <3>1
  <2> QED  BY <1>1, <2>1, <2>2, <2>4, <2>5 DEF Partition, Increasing
<1>2. ASSUME Increasing(e) PROVE Partition(StartsOf(e), e)
  <2>1. ASSUME NEW i \in Task PROVE StartsOf(e)[i] <= e[i]
    <3>1. CASE i = 0  BY <1>2, <3>1 DEF Increasing, StartsOf
    <3>2. CASE i # 0
      <4>1. i-1 \in Task  BY <3>2, SizeAssumption DEF Task
      <4>2. e[i-1] \in Int /\ e[i] \in Int /\ e[i-1] < e[i]
        BY <1>2, <3>2, <4>1 DEF Increasing
      <4>3. StartsOf(e)[i] = e[i-1] + 1  BY <3>2 DEF StartsOf
      <4> QED  BY <4>2, <4>3
    <3> QED  BY <3>1, <3>2
  <2> QED  BY <1>2, <2>1 DEF Increasing, Partition
<1> QED  BY <1>1, <1>2

\* SetEndCells gives every worker at least Count \div Threads cells, hence one.
LEMMA EvenEndsIncreasing == Increasing(EvenEnds)
<1> DEFINE n == Count \div Threads
           x == Count % Threads
<1>1. Count = Threads * n + x /\ x \in 0 .. Threads-1 /\ n \in Int
  BY SizeAssumption, SMT
<1> HIDE DEF n, x
<1>2. n >= 1
  <2> SUFFICES ASSUME n <= 0 PROVE FALSE  BY <1>1
  <2>1. Threads * n <= 0  BY <1>1, SizeAssumption, SMT
  <2> QED  BY <1>1, <2>1, SizeAssumption
<1>3. EvenEnds = [i \in Task |-> n * (i + 1) - 1 + (IF i < x THEN i + 1 ELSE x)]
  BY DEF EvenEnds, n, x
<1>4. \A i \in Task : n * (i + 1) \in Int /\ n * (i + 1) = n * i + n /\ n * i \in Int
  BY <1>1, SMT DEF Task
<1>5. \A i \in Task \ {0} : i-1 \in Task /\ n * ((i-1) + 1) = n * i
  BY SizeAssumption DEF Task
<1>6. ASSUME NEW i \in Task \ {0} PROVE EvenEnds[i-1] < EvenEnds[i]
  <2>1. EvenEnds[i] = n * i + n - 1 + (IF i < x THEN i + 1 ELSE x)
    <3>1. EvenEnds[i] = n * (i + 1) - 1 + (IF i < x THEN i + 1 ELSE x)  BY <1>3
    <3>2. n * (i + 1) = n * i + n /\ n * i \in Int /\ i \in Int /\ x \in Int /\ n \in Int
      BY <1>1, <1>4 DEF Task
    <3> QED  BY <3>1, <3>2
  <2>2. EvenEnds[i-1] = n * i - 1 + (IF i-1 < x THEN i ELSE x)
    BY <1>3, <1>5, <1>1, SizeAssumption DEF Task
  <2> QED  BY <1>1, <1>2, <1>4, <2>1, <2>2, SizeAssumption DEF Task
<1>7. EvenEnds[Threads-1] = Count - 1
  <2>1. Threads-1 \in Task /\ (Threads-1) + 1 = Threads  BY SizeAssumption DEF Task
  <2>2. n * ((Threads-1) + 1) = Threads * n  BY <1>1, <2>1, SizeAssumption, SMT
  <2>3. EvenEnds[Threads-1] = n * ((Threads-1) + 1) - 1 + x
    BY <1>1, <1>3, <2>1, SizeAssumption
  <2>4. Threads * n \in Int  BY <1>1, SizeAssumption, SMT
  <2> QED  BY <1>1, <2>2, <2>3, <2>4
<1>8. EvenEnds[0] >= 0
  <2>1. 0 \in Task /\ n * (0 + 1) = n  BY <1>1, SizeAssumption DEF Task
  <2> QED  BY <1>1, <1>2, <1>3, <2>1
<1> QED  BY <1>6, <1>7, <1>8, EvenEndsType DEF Increasing

\* The split loop of RebalanceLoadPerCell leaves every later worker a cell.
LEMMA BalancedEndsIncreasing ==
  ASSUME NEW t, NEW e \in BalancedEnds(t)
  PROVE  Increasing(e)
<1>1. /\ e \in [Task -> Int] /\ e[Threads-1] = Count - 1
      /\ \A i \in Task : e[i] >= 0
      /\ \A i \in 0 .. Threads-2 : StopsAt(t, i, StartsOf(e)[i], e[i])
  BY SizeAssumption DEF BalancedEnds, Cell, Task
<1>2. ASSUME NEW i \in 0 .. Threads-2
      PROVE  /\ StartsOf(e)[i] \in Int
             /\ StartsOf(e)[i] <= e[i]
             /\ e[i] = StartsOf(e)[i] \/ e[i] <= Count - Threads + i
  <2> DEFINE s == StartsOf(e)[i]
  <2>1. i \in Task /\ s \in Int
    BY <1>1, StartsOfType, SizeAssumption DEF Task
  <2>2. StopsAt(t, i, s, e[i])  BY <1>1
  <2> HIDE DEF s
  <2>3. PICK j \in s .. Count - 1 :
          /\ \A k \in s .. j-1 : GoesOn(t, i, s, k)
          /\ e[i] = IF j = s THEN j ELSE j - 1
    BY <2>2 DEF StopsAt
  <2>4. CASE j = s  BY <2>1, <2>3, <2>4 DEF s
  <2>5. CASE j # s
    <3>1. j-1 \in s .. j-1 /\ j \in Int  BY <2>1, <2>3, <2>5, SizeAssumption
    <3>2. Count - (j-1) > Threads - i  BY <2>3, <3>1 DEF GoesOn
    <3> QED  BY <2>1, <2>3, <2>5, <3>1, <3>2, SizeAssumption DEF s
  <2> QED  BY <2>4, <2>5
<1>3. \A i \in 0 .. Threads-2 : e[i] <= Count - Threads + i
  <2> DEFINE T == {i \in 0 .. Threads-2 : ~ (e[i] <= Count - Threads + i)}
  <2> SUFFICES ASSUME T # {} PROVE FALSE  OBVIOUS
  <2>1. PICK i \in T : \A k \in T : i <= k
    <3>1. T \subseteq Nat  BY SizeAssumption
    <3> QED  BY <3>1, LeastElement
  <2>2. e[i] = StartsOf(e)[i] /\ i \in 0 .. Threads-2  BY <1>2, <2>1
  <2>3. CASE i = 0
    <3>1. StartsOf(e)[0] = 0  BY <2>2, SizeAssumption DEF StartsOf, Task
    <3> QED  BY <2>1, <2>2, <2>3, <3>1, SizeAssumption
  <2>4. CASE i # 0
    <3>1. i-1 \in 0 .. Threads-2 /\ i \in Task  BY <2>2, <2>4, SizeAssumption DEF Task
    <3>2. i-1 \notin T  BY <2>1, <2>2, SizeAssumption
    <3>3. e[i-1] <= Count - Threads + (i-1) /\ e[i-1] \in Int
      BY <1>1, <3>1, <3>2, SizeAssumption DEF Task
    <3>4. StartsOf(e)[i] = e[i-1] + 1  BY <2>4, <3>1 DEF StartsOf
    <3> QED  BY <2>1, <2>2, <3>3, <3>4, SizeAssumption
  <2> QED  BY <2>3, <2>4
<1>4. ASSUME NEW i \in Task \ {0} PROVE e[i-1] < e[i]
  <2>1. i-1 \in 0 .. Threads-2 /\ i-1 \in Task /\ i \in Int
    BY SizeAssumption DEF Task
  <2>2. StartsOf(e)[i] = e[i-1] + 1 /\ e[i-1] \in Int /\ e[i] \in Int
    BY <1>1, <2>1 DEF StartsOf
  <2>3. CASE i = Threads - 1
    <3>1. e[i-1] <= Count - Threads + (i-1)  BY <1>3, <2>1
    <3> QED  BY <1>1, <2>2, <2>3, <3>1, SizeAssumption
  <2>4. CASE i # Threads - 1
    <3>1. i \in 0 .. Threads-2  BY <2>4, SizeAssumption DEF Task
    <3>2. StartsOf(e)[i] <= e[i]  BY <1>2, <3>1
    <3> QED  BY <2>2, <3>2
  <2> QED  BY <2>3, <2>4
<1>5. 0 \in Task  BY SizeAssumption DEF Task
<1> QED  BY <1>1, <1>4, <1>5 DEF Increasing

\* The ends computed for any thread times leave every worker a cell.
LEMMA SharedEndsIncreasing ==
  ASSUME NEW t, NEW e \in SharedEnds(t)
  PROVE  Increasing(e)
<1>1. e \in Ends  BY DEF SharedEnds
<1>2. /\ e \in [Task -> Int] /\ e[Threads-1] = Count - 1
      /\ \A i \in Task : e[i] >= 0 /\ Width(e, i) >= 1
  BY <1>1, SizeAssumption DEF Ends, Cell
<1>3. ASSUME NEW i \in Task \ {0} PROVE e[i-1] < e[i]
  <2>1. i-1 \in Task  BY SizeAssumption DEF Task
  <2>2. StartsOf(e)[i] = e[i-1] + 1 /\ e[i-1] \in Int /\ e[i] \in Int
    BY <1>2, <2>1 DEF StartsOf
  <2> QED  BY <1>2, <2>2 DEF Width
<1>4. 0 \in Task  BY SizeAssumption DEF Task
<1> QED  BY <1>2, <1>3, <1>4 DEF Increasing

\* A rule for how much of a distance to move that neither changes the order of
\* distances nor stretches what lies between them.
Gentle(part) ==
  /\ part \in [Int -> Int]
  /\ part[0] = 0
  /\ \A x, y \in Int : x <= y => part[x] <= part[y] /\ part[y] <= part[x] + (y - x)

\* The ends c, moved by that rule towards the ends f.
Moved(part, c, f) ==
  [i \in Task |-> IF i = Threads - 1 THEN Count - 1 ELSE c[i] + part[f[i] - c[i]]]

\* Ends moved gently towards increasing ends stay increasing.
LEMMA MovedIncreasing ==
  ASSUME NEW part, Gentle(part), NEW c, Increasing(c), NEW f, Increasing(f)
  PROVE  Increasing(Moved(part, c, f))
<1> DEFINE e == Moved(part, c, f)
<1>1. /\ c \in [Task -> Int] /\ f \in [Task -> Int]
      /\ c[Threads-1] = Count - 1 /\ f[Threads-1] = Count - 1
      /\ c[0] >= 0 /\ f[0] >= 0
      /\ 0 \in Task /\ Threads-1 \in Task /\ Count - 1 \in Int
  BY SizeAssumption DEF Increasing, Task
<1>2. ASSUME NEW i \in Task
      PROVE  e[i] = c[i] + part[f[i] - c[i]] /\ e[i] \in Int
  <2>1. c[i] \in Int /\ f[i] \in Int /\ f[i] - c[i] \in Int  BY <1>1
  <2>2. part[f[i] - c[i]] \in Int  BY <2>1 DEF Gentle
  <2>3. CASE i = Threads - 1
    <3>1. f[i] - c[i] = 0  BY <1>1, <2>3
    <3>2. e[i] = Count - 1  BY <2>3 DEF Moved
    <3> QED  BY <1>1, <2>3, <3>1, <3>2 DEF Gentle
  <2>4. CASE i # Threads - 1
    <3>1. e[i] = c[i] + part[f[i] - c[i]]  BY <2>4 DEF Moved
    <3> QED  BY <2>1, <2>2, <3>1
  <2> QED  BY <2>3, <2>4
<1>3. DOMAIN e = Task /\ e = [i \in Task |-> e[i]]  BY DEF Moved
<1> HIDE DEF e
<1>4. e \in [Task -> Int]  BY <1>2, <1>3
<1>5. e[Threads-1] = Count - 1
  <2>1. f[Threads-1] - c[Threads-1] = 0  BY <1>1
  <2>2. e[Threads-1] = c[Threads-1] + part[0]  BY <1>1, <1>2, <2>1
  <2> QED  BY <1>1, <2>2 DEF Gentle
<1>6. e[0] >= 0
  <2>1. PICK x \in Int : x = f[0] - c[0]  BY <1>1
  <2>2. c[0] \in Int /\ f[0] \in Int /\ f[0] = c[0] + x  BY <1>1, <2>1
  <2>3. e[0] = c[0] + part[x]  BY <1>1, <1>2, <2>1
  <2>4. part[x] \in Int  BY DEF Gentle
  <2>5. x >= 0 => part[x] >= 0  BY DEF Gentle
  <2>6. x < 0 => part[x] >= x
    <3>1. x < 0 => part[0] <= part[x] + (0 - x)  BY DEF Gentle
    <3>2. part[0] = 0  BY DEF Gentle
    <3> QED  BY <2>4, <3>1, <3>2
  <2> QED  BY <1>1, <2>2, <2>3, <2>4, <2>5, <2>6
<1>7. ASSUME NEW i \in Task \ {0} PROVE e[i-1] < e[i]
  <2>1. i-1 \in Task /\ i \in Task  BY SizeAssumption DEF Task
  <2>2. /\ c[i-1] \in Int /\ f[i-1] \in Int /\ c[i] \in Int /\ f[i] \in Int
        /\ c[i-1] < c[i] /\ f[i-1] < f[i]
    BY <1>1, <2>1 DEF Increasing
  <2>3. PICK x \in Int : x = f[i-1] - c[i-1]  BY <2>2
  <2>4. PICK y \in Int : y = f[i] - c[i]  BY <2>2
  <2>5. e[i-1] = c[i-1] + part[x] /\ e[i] = c[i] + part[y]
    BY <1>2, <2>1, <2>3, <2>4
  <2>6. part[x] \in Int /\ part[y] \in Int  BY DEF Gentle
  <2>7. x <= y => part[x] <= part[y]  BY DEF Gentle
  <2>8. y <= x => part[x] <= part[y] + (x - y)  BY DEF Gentle
  <2> QED  BY <2>2, <2>3, <2>4, <2>5, <2>6, <2>7, <2>8
<1>8. Increasing(e)  BY <1>4, <1>5, <1>6, <1>7 DEF Increasing
<1> QED  BY <1>8 DEF e

\* Ends that increase from each worker to the next increase between any two.
LEMMA IncreasingPairs ==
  ASSUME NEW e, Increasing(e), NEW i \in Task, NEW j \in Task, j < i
  PROVE  e[j] < e[i]
<1>1. e \in [Task -> Int]  BY DEF Increasing
<1> DEFINE T == {k \in Task : j < k /\ ~ (e[j] < e[k])}
<1> SUFFICES ASSUME T # {} PROVE FALSE  OBVIOUS
<1>2. PICK k \in T : \A m \in T : k <= m
  <2>1. T \subseteq Nat  BY DEF Task
  <2> QED  BY <2>1, LeastElement
<1>3. k-1 \in Task /\ k \in Task \ {0} /\ k-1 < k  BY <1>2, SizeAssumption DEF Task
<1>4. e[k-1] < e[k] /\ e[k-1] \in Int /\ e[k] \in Int /\ e[j] \in Int
  BY <1>1, <1>3 DEF Increasing
<1>5. j = k-1 \/ j < k-1  BY <1>2, <1>3 DEF Task
<1>6. k-1 \notin T  BY <1>2, <1>3 DEF Task
<1> QED  BY <1>2, <1>3, <1>4, <1>5, <1>6

\* Increasing ends are cells, and so are the starts; the range of a worker begins
\* beyond the ends of all workers before it.
LEMMA IncreasingRange ==
  ASSUME NEW e, Increasing(e), NEW i \in Task
  PROVE  /\ e[i] \in Cell
         /\ StartsOf(e)[i] \in Cell
         /\ \A j \in Task : j < i => e[j] < StartsOf(e)[i]
<1>1. /\ e \in [Task -> Int] /\ e[0] >= 0 /\ e[Threads-1] = Count - 1
      /\ 0 \in Task /\ Threads-1 \in Task
  BY SizeAssumption DEF Increasing, Task
<1>2. ASSUME NEW k \in Task PROVE e[k] \in Cell
  <2>1. k = 0 \/ 0 < k  BY DEF Task
  <2>2. k = Threads-1 \/ k < Threads-1  BY SizeAssumption DEF Task
  <2>3. e[k] >= 0 /\ e[k] <= Count - 1
    BY <1>1, <2>1, <2>2, IncreasingPairs, SizeAssumption
  <2> QED  BY <1>1, <2>3, SizeAssumption DEF Cell
<1>3. CASE i = 0
  <2>1. StartsOf(e)[i] = 0  BY <1>3 DEF StartsOf
  <2> QED  BY <1>2, <1>3, <2>1, SizeAssumption DEF Cell, Task
<1>4. CASE i # 0
  <2>1. i-1 \in Task  BY <1>4, SizeAssumption DEF Task
  <2>2. StartsOf(e)[i] = e[i-1] + 1  BY <1>4 DEF StartsOf
  <2>3. e[i-1] < e[i]  BY <2>1, IncreasingPairs DEF Task
  <2>4. \A j \in Task : j < i => j = i-1 \/ j < i-1  BY <2>1 DEF Task
  <2>5. \A j \in Task : j < i => e[j] <= e[i-1]
    BY <1>1, <2>1, <2>4, IncreasingPairs
  <2> QED  BY <1>1, <1>2, <2>1, <2>2, <2>3, <2>5, SizeAssumption DEF Cell
<1> QED  BY <1>2, <1>3, <1>4

----------------------------------------------------------------------------
(* Every reachable state has its types.                                    *)

\* The distribution the module starts with has its types.
LEMMA TypeInit == Init => TypeOK
<1> SUFFICES ASSUME Init PROVE TypeOK  OBVIOUS
<1>1. endCell \in [Task -> Int] /\ startCell \in [Task -> Int]
  BY EvenEndsType, StartsOfType DEF Init, InitWith
<1>2. bin \in [Task -> SUBSET Cell]
  <2>1. /\ startCell = StartsOf(EvenEnds) /\ endCell = EvenEnds
        /\ bin = [w \in Task |-> startCell[w] .. endCell[w]]
    BY DEF Init, InitWith
  <2>2. \A w \in Task : startCell[w] >= 0 /\ endCell[w] <= Count - 1
    BY <2>1, EvenEndsIncreasing, IncreasingRange, SizeAssumption DEF Cell
  <2>3. \A w \in Task : startCell[w] .. endCell[w] \subseteq Cell
    BY <1>1, <2>2, SizeAssumption DEF Cell
  <2> QED  BY <2>1, <2>3
<1>3. saved \in [StateIds -> SavedState \cup {Nothing}]  BY DEF Init, InitWith
<1> QED  BY <1>1, <1>2, <1>3 DEF Init, InitWith, TypeOK

\* Every call keeps the types.
LEMMA TypeStep == TypeOK /\ [Next]_vars => TypeOK'
<1> SUFFICES ASSUME TypeOK, [Next]_vars PROVE TypeOK'  OBVIOUS
<1>1. CASE RebalanceLoad
  <2>1. PICK e \in NewEnds : Redistribute(e)  BY <1>1 DEF RebalanceLoad
  <2>2. e \in [Task -> Int] /\ StartsOf(e) \in [Task -> Int]
    BY NewEndsType, StartsOfType
  <2>3. Transferred(e, Count) \in [Task -> SUBSET Cell]  BY DEF Transferred
  <2> QED
    BY <1>1, <2>1, <2>2, <2>3 DEF RebalanceLoad, Redistribute, TypeOK
<1>2. CASE RebalanceLoadFails
  <2>1. PICK e \in NewEnds, k \in Cell :
          bin' = [Transferred(e, k) EXCEPT ![WorkerOf(e, k)] =
                    @ \cup ({k} \cap bin[WorkerOf(endCell, k)])]
    BY <1>2 DEF RebalanceLoadFails
  <2>2. Transferred(e, k) \in [Task -> SUBSET Cell]  BY DEF Transferred
  <2>3. bin' \in [Task -> SUBSET Cell]  BY <2>1, <2>2
  <2> QED  BY <1>2, <2>3 DEF RebalanceLoadFails, TypeOK
<1>3. ASSUME NEW f \in Fractions, SetRebalanceFraction(f) PROVE TypeOK'
  BY <1>3 DEF SetRebalanceFraction, TypeOK
<1>4. ASSUME NEW b \in BOOLEAN, SetRebalanceByCell(b) PROVE TypeOK'
  BY <1>4 DEF SetRebalanceByCell, TypeOK
<1>5. ASSUME NEW s \in StateIds, StateSave(s) PROVE TypeOK'
  <2>1. [start |-> startCell, end |-> endCell, bin |-> bin, broken |-> broken]
          \in SavedState
    BY DEF TypeOK, SavedState
  <2> QED  BY <1>5, <2>1 DEF StateSave, TypeOK
<1>6. ASSUME NEW s \in StateIds, StateApply(s) PROVE TypeOK'
  <2>1. saved[s] \in SavedState  BY <1>6 DEF StateApply, TypeOK
  <2> QED  BY <1>6, <2>1 DEF StateApply, TypeOK, SavedState
<1>7. ASSUME NEW s \in StateIds, StateDelete(s) PROVE TypeOK'
  BY <1>7 DEF StateDelete, TypeOK
<1>8. CASE UNCHANGED vars  BY <1>8 DEF vars, TypeOK
<1> QED
  BY <1>1, <1>2, <1>3, <1>4, <1>5, <1>6, <1>7, <1>8 DEF Next

\* TypeOK holds in every state of every execution, whatever the fractions.
THEOREM TypeCorrect == Spec => []TypeOK
<1>1. Init => TypeOK  BY TypeInit
<1>2. TypeOK /\ [Next]_vars => TypeOK'  BY TypeStep
<1> QED  BY <1>1, <1>2, PTL DEF Spec

----------------------------------------------------------------------------
(* The ranges stay a partition.                                            *)

\* One rebalance, by cell or by thread, leads from increasing ends to increasing
\* ends when the fraction is one half or more.
LEMMA NewEndsIncreasing ==
  ASSUME HalfOrMore, TypeOK, Increasing(endCell), MayRebalance, NEW e \in NewEnds
  PROVE  Increasing(e)
<1> DEFINE n == fraction.num
           d == fraction.den
<1>1. n \in Nat /\ d \in Nat \ {0} /\ n <= d /\ d <= 2 * n
  BY FractionAssumption DEF TypeOK, HalfOrMore, MayRebalance
<1> DEFINE byCellPart == [x \in Int |-> PartOrAll(x, n, d)]
           byTaskPart == [x \in Int |-> Truncate(x * n, d)]
<1>2. \A x \in Int : Truncate(x * n, d) \in Int
  <2>1. \A x \in Int : x * n \in Int  BY <1>1, SMT
  <2> QED  BY <1>1, <2>1, TruncateType
<1>3. Gentle(byCellPart)
  <2>1. \A x \in Int : PartOrAll(x, n, d) \in Int  BY <1>2 DEF PartOrAll
  <2>2. PartOrAll(0, n, d) = 0
    <3>1. 0 * n = 0 /\ 0 \div d = 0  BY <1>1, SMT
    <3> QED  BY <3>1 DEF PartOrAll, Truncate
  <2>3. \A x, y \in Int : x <= y =>
          /\ PartOrAll(x, n, d) <= PartOrAll(y, n, d)
          /\ PartOrAll(y, n, d) <= PartOrAll(x, n, d) + (y - x)
    BY <1>1, PartOrAllOfInt
  <2> HIDE DEF n, d
  <2> QED  BY <2>1, <2>2, <2>3 DEF Gentle
<1>4. Gentle(byTaskPart)
  <2>1. Truncate(0 * n, d) = 0
    <3>1. 0 * n = 0 /\ 0 \div d = 0  BY <1>1, SMT
    <3> QED  BY <3>1 DEF Truncate
  <2>2. \A x, y \in Int : x <= y =>
          /\ Truncate(x * n, d) <= Truncate(y * n, d)
          /\ Truncate(y * n, d) <= Truncate(x * n, d) + (y - x)
    BY <1>1, PartOfInt
  <2> HIDE DEF n, d
  <2> QED  BY <1>2, <2>1, <2>2 DEF Gentle
<1>5. CASE byCell
  <2>1. PICK t \in CellTimes : e \in {EndsByCell(t, f) : f \in CellTargets[t]}
    BY <1>5 DEF NewEnds
  <2>2. PICK f \in CellTargets[t] : e = EndsByCell(t, f)  BY <2>1
  <2>3. Increasing(f)
    <3>1. f \in BalancedEnds(t)  BY <2>2 DEF CellTargets
    <3> QED  BY <3>1, BalancedEndsIncreasing
  <2>4. CASE Efficient(t)  BY <2>2, <2>4 DEF EndsByCell
  <2>5. CASE ~ Efficient(t)
    <3>1. \A i \in Task : f[i] - endCell[i] \in Int  BY <2>3 DEF Increasing, TypeOK
    <3>2. \A i \in Task : MoveByCell(f, i) = endCell[i] + byCellPart[f[i] - endCell[i]]
      BY <3>1 DEF MoveByCell, PartOrAll
    <3>3. e = Moved(byCellPart, endCell, f)
      BY <2>2, <2>5, <3>2, Zenon DEF EndsByCell, Moved
    <3> QED  BY <1>3, <2>3, <3>3, MovedIncreasing
  <2> QED  BY <2>4, <2>5
<1>6. CASE ~ byCell
  <2>1. PICK t \in ThreadTimes : e \in {EndsByTask(t, f) : f \in SharedEnds(t)}
    BY <1>6 DEF NewEnds
  <2>2. PICK f \in SharedEnds(t) : e = EndsByTask(t, f)  BY <2>1
  <2>3. Increasing(f)  BY <2>2, SharedEndsIncreasing
  <2>4. CASE LittleToGain(t, f)  BY <2>2, <2>4 DEF EndsByTask
  <2>5. CASE ~ LittleToGain(t, f)
    <3>1. \A i \in Task : f[i] - endCell[i] \in Int  BY <2>3 DEF Increasing, TypeOK
    <3>2. \A i \in Task : MoveByTask(f, i) = endCell[i] + byTaskPart[f[i] - endCell[i]]
      BY <3>1 DEF MoveByTask
    <3>3. e = Moved(byTaskPart, endCell, f)
      BY <2>2, <2>5, <3>2, Zenon DEF EndsByTask, Moved
    <3> QED  BY <1>4, <2>3, <3>3, MovedIncreasing
  <2> QED  BY <2>4, <2>5
<1> QED  BY <1>5, <1>6

\* The worker the transfer loop finds for a cell is the one whose range has it.
LEMMA WorkerOfCell ==
  ASSUME NEW e, Increasing(e), NEW c \in Cell
  PROVE  /\ WorkerOf(e, c) \in Task
         /\ \A w \in Task : c \in StartsOf(e)[w] .. e[w] <=> w = WorkerOf(e, c)
<1>1. e \in [Task -> Int] /\ e[Threads-1] = Count - 1 /\ Threads-1 \in Task
  BY SizeAssumption DEF Increasing, Task
<1> DEFINE Has(i) == c <= e[i] /\ \A j \in 0 .. i-1 : e[j] < c
<1>2. \E i \in Task : Has(i)
  <2> DEFINE T == {i \in Task : c <= e[i]}
  <2>1. Threads-1 \in T  BY <1>1, SizeAssumption DEF Cell
  <2>2. PICK i \in T : \A j \in T : i <= j
    <3>1. T \subseteq Nat  BY DEF Task
    <3> QED  BY <2>1, <3>1, LeastElement
  <2>3. ASSUME NEW j \in 0 .. i-1 PROVE j \in Task /\ j \notin T
    <3>1. j \in Task /\ ~ (i <= j)  BY <2>2, SizeAssumption DEF Task
    <3> QED  BY <2>2, <3>1
  <2>4. \A j \in 0 .. i-1 : e[j] < c  BY <1>1, <2>3 DEF Cell
  <2> QED  BY <2>2, <2>4
<1>3. WorkerOf(e, c) \in Task /\ Has(WorkerOf(e, c))  BY <1>2 DEF WorkerOf
<1>4. ASSUME NEW w \in Task
      PROVE  c \in StartsOf(e)[w] .. e[w] <=> Has(w)
  <2>1. e[w] \in Int /\ StartsOf(e)[w] \in Int /\ c \in Int
    BY <1>1, StartsOfType DEF Cell
  <2>2. ASSUME c \in StartsOf(e)[w] .. e[w] PROVE Has(w)
    <3>1. \A j \in 0 .. w-1 : j \in Task /\ j < w /\ e[j] \in Int  BY <1>1 DEF Task
    <3>2. \A j \in 0 .. w-1 : e[j] < StartsOf(e)[w]  BY <3>1, IncreasingRange
    <3> QED  BY <2>1, <2>2, <3>1, <3>2
  <2>3. ASSUME Has(w) PROVE c \in StartsOf(e)[w] .. e[w]
    <3>1. CASE w = 0  BY <2>1, <2>3, <3>1 DEF StartsOf, Cell
    <3>2. CASE w # 0
      <4>1. w-1 \in 0 .. w-1 /\ w-1 \in Task  BY <3>2, SizeAssumption DEF Task
      <4>2. e[w-1] < c /\ e[w-1] \in Int /\ StartsOf(e)[w] = e[w-1] + 1
        BY <1>1, <2>3, <3>2, <4>1 DEF StartsOf
      <4> QED  BY <2>1, <2>3, <4>2
    <3> QED  BY <3>1, <3>2
  <2> QED  BY <2>2, <2>3
<1>5. ASSUME NEW v \in Task, NEW w \in Task, Has(v), Has(w) PROVE v = w
  <2>1. v \in Int /\ w \in Int /\ e[v] \in Int /\ e[w] \in Int /\ c \in Int
    BY <1>1 DEF Task, Cell
  <2>2. ~ (v < w)
    <3>1. v < w => v \in 0 .. w-1  BY DEF Task
    <3> QED  BY <1>5, <2>1, <3>1
  <2>3. ~ (w < v)
    <3>1. w < v => w \in 0 .. v-1  BY DEF Task
    <3> QED  BY <1>5, <2>1, <3>1
  <2> QED  BY <2>1, <2>2, <2>3
<1> QED  BY <1>3, <1>4, <1>5

\* The inductive invariant: the ranges in force and every stored state are sound.
RangesInv ==
  /\ TypeOK
  /\ RangesPartitionCells
  /\ WorkersHoldTheirRanges
  /\ NoCellLost
  /\ SavedStatesSound

\* The invariant says that the ends increase.
LEMMA RangesInvEnds ==
  ASSUME RangesInv
  PROVE  Increasing(endCell) /\ startCell = StartsOf(endCell)
<1>1. endCell \in [Task -> Int] /\ startCell = StartsOf(endCell)
  BY DEF RangesInv, TypeOK, RangesPartitionCells, Partition
<1>2. Partition(StartsOf(endCell), endCell)
  BY <1>1 DEF RangesInv, RangesPartitionCells
<1> QED  BY <1>1, <1>2, PartitionIsIncreasing

\* Once the transfer loop is through, each worker has the cells of its new range.
LEMMA TransferredAll ==
  ASSUME RangesInv, NEW e, Increasing(e), ~ broken, NEW w \in Task
  PROVE  Transferred(e, Count)[w] = StartsOf(e)[w] .. e[w]
<1>1. Increasing(endCell) /\ startCell = StartsOf(endCell)  BY RangesInvEnds
<1>2. \A v \in Task : bin[v] = StartsOf(endCell)[v] .. endCell[v]
  BY <1>1 DEF RangesInv, WorkersHoldTheirRanges
<1>3. \A c \in Cell : c < Count  BY SizeAssumption DEF Cell
<1>4. ASSUME NEW c \in Cell
      PROVE  c \in Transferred(e, Count)[w] <=> c \in StartsOf(e)[w] .. e[w]
  <2>1. /\ WorkerOf(endCell, c) \in Task
        /\ \A v \in Task : c \in bin[v] <=> v = WorkerOf(endCell, c)
    BY <1>1, <1>2, WorkerOfCell
  <2>2. c \in StartsOf(e)[w] .. e[w] <=> w = WorkerOf(e, c)  BY WorkerOfCell
  <2>3. c \in Transferred(e, Count)[w] <=>
          \/ c \in bin[w] /\ ~ (w = WorkerOf(endCell, c) /\ w # WorkerOf(e, c))
          \/ w = WorkerOf(e, c) /\ c \in bin[WorkerOf(endCell, c)]
    BY <1>3 DEF Transferred
  <2> QED  BY <2>1, <2>2, <2>3
<1>5. StartsOf(e)[w] .. e[w] \subseteq Cell
  <2>1. StartsOf(e)[w] \in Cell /\ e[w] \in Cell  BY IncreasingRange
  <2> QED  BY <2>1, SizeAssumption DEF Cell
<1>6. Transferred(e, Count)[w] \subseteq Cell  BY DEF Transferred
<1> QED  BY <1>4, <1>5, <1>6

\* However far the transfer loop comes, every cell is in some worker.
LEMMA TransferLosesNothing ==
  ASSUME RangesInv, NEW e, Increasing(e), NEW k, NEW c \in Cell
  PROVE  \E w \in Task : c \in Transferred(e, k)[w]
<1>1. Increasing(endCell)  BY RangesInvEnds
<1>2. WorkerOf(endCell, c) \in Task /\ WorkerOf(e, c) \in Task
  BY <1>1, WorkerOfCell
<1>3. PICK w \in Task : c \in bin[w]  BY DEF RangesInv, NoCellLost
<1>4. CASE c < k /\ w = WorkerOf(endCell, c) /\ w # WorkerOf(e, c)
  <2>1. c \in Transferred(e, k)[WorkerOf(e, c)]  BY <1>2, <1>3, <1>4 DEF Transferred
  <2> QED  BY <1>2, <2>1
<1>5. CASE ~ (c < k /\ w = WorkerOf(endCell, c) /\ w # WorkerOf(e, c))
  <2>1. c \in Transferred(e, k)[w]  BY <1>3, <1>5 DEF Transferred
  <2> QED  BY <2>1
<1> QED  BY <1>4, <1>5

\* SetEndCells and InitialPhreeqc2Module establish the invariant.
LEMMA RangesInvInit == Init => RangesInv
<1> SUFFICES ASSUME Init PROVE RangesInv  OBVIOUS
<1>1. /\ endCell = EvenEnds /\ startCell = StartsOf(EvenEnds)
      /\ bin = [w \in Task |-> startCell[w] .. endCell[w]]
      /\ saved = [s \in StateIds |-> Nothing]
  BY DEF Init, InitWith
<1>2. Increasing(EvenEnds)  BY EvenEndsIncreasing
<1>3. RangesPartitionCells
  BY <1>1, <1>2, EvenEndsType, PartitionIsIncreasing DEF RangesPartitionCells
<1>4. WorkersHoldTheirRanges  BY <1>1 DEF WorkersHoldTheirRanges
<1>5. NoCellLost
  <2> SUFFICES ASSUME NEW c \in Cell PROVE \E w \in Task : c \in bin[w]
    BY DEF NoCellLost
  <2>1. WorkerOf(EvenEnds, c) \in Task
    BY <1>2, WorkerOfCell
  <2>2. c \in StartsOf(EvenEnds)[WorkerOf(EvenEnds, c)] .. EvenEnds[WorkerOf(EvenEnds, c)]
    BY <1>2, <2>1, WorkerOfCell
  <2> QED  BY <1>1, <2>1, <2>2
<1>6. SavedStatesSound  BY <1>1 DEF SavedStatesSound
<1> QED  BY <1>3, <1>4, <1>5, <1>6, TypeInit DEF RangesInv

\* Every step preserves it.
LEMMA RangesInvStep == HalfOrMore /\ RangesInv /\ [Next]_vars => RangesInv'
<1> SUFFICES ASSUME HalfOrMore, RangesInv, [Next]_vars PROVE RangesInv'  OBVIOUS
<1>0. TypeOK' /\ TypeOK  BY TypeStep DEF RangesInv
<1>1. CASE RebalanceLoad
  <2>1. PICK e \in NewEnds : Redistribute(e)  BY <1>1 DEF RebalanceLoad
  <2>2. Increasing(e)
    BY <1>0, <1>1, NewEndsIncreasing, RangesInvEnds DEF RebalanceLoad
  <2>3. startCell' = StartsOf(e) /\ endCell' = e /\ bin' = Transferred(e, Count)
    BY <2>1 DEF Redistribute
  <2>4. RangesPartitionCells'
    <3>1. e \in [Task -> Int]  BY <2>2 DEF Increasing
    <3> QED  BY <2>2, <2>3, <3>1, PartitionIsIncreasing DEF RangesPartitionCells, Partition
  <2>5. WorkersHoldTheirRanges'
    BY <1>1, <2>2, <2>3, TransferredAll DEF RebalanceLoad, WorkersHoldTheirRanges
  <2>6. NoCellLost'  BY <2>2, <2>3, TransferLosesNothing DEF NoCellLost
  <2>7. SavedStatesSound'
    BY <1>1 DEF RebalanceLoad, RangesInv, SavedStatesSound, Partition
  <2> QED  BY <1>0, <2>4, <2>5, <2>6, <2>7 DEF RangesInv
<1>2. CASE RebalanceLoadFails
  <2>1. PICK e \in NewEnds, k \in Cell :
          bin' = [Transferred(e, k) EXCEPT ![WorkerOf(e, k)] =
                    @ \cup ({k} \cap bin[WorkerOf(endCell, k)])]
    BY <1>2 DEF RebalanceLoadFails
  <2>2. Increasing(e)
    BY <1>0, <1>2, NewEndsIncreasing, RangesInvEnds DEF RebalanceLoadFails
  <2>3. NoCellLost'
    <3> SUFFICES ASSUME NEW c \in Cell PROVE \E w \in Task : c \in bin'[w]
      BY DEF NoCellLost
    <3>1. PICK w \in Task : c \in Transferred(e, k)[w]
      BY <2>2, TransferLosesNothing
    <3>2. DOMAIN Transferred(e, k) = Task  BY DEF Transferred
    <3>3. c \in bin'[w]  BY <2>1, <3>1, <3>2
    <3> QED  BY <3>3
  <2>4. /\ RangesPartitionCells' /\ WorkersHoldTheirRanges' /\ SavedStatesSound'
    BY <1>2 DEF RebalanceLoadFails, RangesInv, RangesPartitionCells,
                WorkersHoldTheirRanges, SavedStatesSound, Partition
  <2> QED  BY <1>0, <2>3, <2>4 DEF RangesInv
<1>3. ASSUME NEW s \in StateIds, StateSave(s) PROVE RangesInv'
  <2>1. /\ RangesPartitionCells' /\ WorkersHoldTheirRanges' /\ NoCellLost'
    BY <1>3 DEF StateSave, RangesInv, RangesPartitionCells, WorkersHoldTheirRanges,
                NoCellLost, Partition
  <2>2. SavedStatesSound'
    <3> SUFFICES ASSUME NEW r \in StateIds, saved'[r] # Nothing
                 PROVE  /\ Partition(saved'[r].start, saved'[r].end)
                        /\ ~ saved'[r].broken => \A w \in Task :
                             saved'[r].bin[w] = saved'[r].start[w] .. saved'[r].end[w]
                        /\ \A c \in Cell : \E w \in Task : c \in saved'[r].bin[w]
      BY DEF SavedStatesSound, Partition
    <3>1. CASE r # s
      <4>1. saved'[r] = saved[r]  BY <1>0, <1>3, <3>1 DEF StateSave, TypeOK
      <4> QED  BY <4>1 DEF RangesInv, SavedStatesSound
    <3>2. CASE r = s
      <4>1. saved'[r] = [start |-> startCell, end |-> endCell, bin |-> bin,
                         broken |-> broken]
        BY <1>0, <1>3, <3>2 DEF StateSave, TypeOK
      <4>2. /\ saved'[r].start = startCell /\ saved'[r].end = endCell
            /\ saved'[r].bin = bin /\ saved'[r].broken = broken
        BY <4>1
      <4> QED
        BY <4>2 DEF RangesInv, RangesPartitionCells, WorkersHoldTheirRanges, NoCellLost
    <3> QED  BY <3>1, <3>2
  <2> QED  BY <1>0, <2>1, <2>2 DEF RangesInv
<1>4. ASSUME NEW s \in StateIds, StateApply(s) PROVE RangesInv'
  <2>1. /\ saved[s] # Nothing /\ startCell' = saved[s].start /\ endCell' = saved[s].end
        /\ bin' = saved[s].bin /\ broken' = saved[s].broken /\ saved' = saved
    BY <1>4 DEF StateApply
  <2>2. RangesPartitionCells' /\ WorkersHoldTheirRanges' /\ NoCellLost'
    BY <2>1 DEF RangesInv, SavedStatesSound, RangesPartitionCells,
                WorkersHoldTheirRanges, NoCellLost, Partition
  <2>3. SavedStatesSound'  BY <2>1 DEF RangesInv, SavedStatesSound, Partition
  <2> QED  BY <1>0, <2>2, <2>3 DEF RangesInv
<1>5. ASSUME NEW s \in StateIds, StateDelete(s) PROVE RangesInv'
  <2>1. /\ RangesPartitionCells' /\ WorkersHoldTheirRanges' /\ NoCellLost'
    BY <1>5 DEF StateDelete, RangesInv, RangesPartitionCells, WorkersHoldTheirRanges,
                NoCellLost, Partition
  <2>2. \A r \in StateIds : saved'[r] # Nothing => saved'[r] = saved[r]
    BY <1>0, <1>5 DEF StateDelete, TypeOK
  <2>3. SavedStatesSound'  BY <2>2 DEF RangesInv, SavedStatesSound, Partition
  <2> QED  BY <1>0, <2>1, <2>3 DEF RangesInv
<1>6. ASSUME UNCHANGED <<startCell, endCell, bin, saved, broken>> PROVE RangesInv'
  BY <1>0, <1>6 DEF RangesInv, RangesPartitionCells, WorkersHoldTheirRanges,
                    NoCellLost, SavedStatesSound, Partition
<1>7. ASSUME NEW f \in Fractions, SetRebalanceFraction(f) PROVE RangesInv'
  BY <1>6, <1>7 DEF SetRebalanceFraction
<1>8. ASSUME NEW b \in BOOLEAN, SetRebalanceByCell(b) PROVE RangesInv'
  BY <1>6, <1>8 DEF SetRebalanceByCell
<1>9. CASE UNCHANGED vars  BY <1>6, <1>9 DEF vars
<1> QED  BY <1>1, <1>2, <1>3, <1>4, <1>5, <1>7, <1>8, <1>9 DEF Next

\* The inductive invariant holds in every execution.
LEMMA RangesInvHolds == HalfOrMore => (Spec => []RangesInv)
<1> SUFFICES ASSUME HalfOrMore PROVE Spec => []RangesInv  OBVIOUS
<1>1. Init => RangesInv  BY RangesInvInit
<1>2. RangesInv /\ [Next]_vars => RangesInv'  BY RangesInvStep
<1> QED  BY <1>1, <1>2, PTL DEF Spec

\* Every RunCells works on a partition: for fractions of one half and more (and
\* zero) the start and end cells always cut the cells into ranges, one per worker.
THEOREM RangesStayPartition == HalfOrMore => (Spec => []RangesPartitionCells)
<1> SUFFICES ASSUME HalfOrMore PROVE Spec => []RangesPartitionCells  OBVIOUS
<1>1. Spec => []RangesInv  BY RangesInvHolds
<1>2. RangesInv => RangesPartitionCells  BY DEF RangesInv
<1> QED  BY <1>1, <1>2, PTL

\* A worker's IPhreeqc instance holds the cells RunCellsThread will run in it,
\* unless a transfer has failed half way.
THEOREM CellsFollowRanges == HalfOrMore => (Spec => []WorkersHoldTheirRanges)
<1> SUFFICES ASSUME HalfOrMore PROVE Spec => []WorkersHoldTheirRanges  OBVIOUS
<1>1. Spec => []RangesInv  BY RangesInvHolds
<1>2. RangesInv => WorkersHoldTheirRanges  BY DEF RangesInv
<1> QED  BY <1>1, <1>2, PTL

\* No sequence of rebalances, failed transfers and state changes loses a cell.
THEOREM CellsAreNeverLost == HalfOrMore => (Spec => []NoCellLost)
<1> SUFFICES ASSUME HalfOrMore PROVE Spec => []NoCellLost  OBVIOUS
<1>1. Spec => []RangesInv  BY RangesInvHolds
<1>2. RangesInv => NoCellLost  BY DEF RangesInv
<1> QED  BY <1>1, <1>2, PTL

----------------------------------------------------------------------------
(* LoadBalance implements CellOwnership.                                   *)

\* The refinement mapping: the worker in whose range a cell lies.
OwnerOf(start, end) == [c \in Cell |-> CHOOSE w \in Task : c \in start[w] .. end[w]]

Owners == OwnerOf(startCell, endCell)
KeptOwners ==
  [s \in StateIds |->
     IF saved[s] = Nothing THEN Nothing ELSE OwnerOf(saved[s].start, saved[s].end)]

\* The owners under increasing ends are a distribution as CellOwnership allows.
LEMMA OwnersDistributed ==
  ASSUME NEW e, Increasing(e)
  PROVE  /\ OwnerOf(StartsOf(e), e) \in [Cell -> Task]
         /\ OwnerOf(StartsOf(e), e) # Nothing
         /\ Ownership!Distribution(OwnerOf(StartsOf(e), e))
<1> DEFINE f == OwnerOf(StartsOf(e), e)
<1>0. Ownership!Cell = Cell /\ Ownership!Task = Task
  BY DEF Ownership!Cell, Ownership!Task, Cell, Task
<1>1. \A c \in Cell : f[c] \in Task /\ c \in StartsOf(e)[f[c]] .. e[f[c]]
  BY WorkerOfCell DEF OwnerOf
<1>2. f \in [Cell -> Task]  BY <1>1 DEF OwnerOf
<1>3. f # Nothing
  <2>1. 0 \in Cell  BY SizeAssumption DEF Cell
  <2>2. DOMAIN f # {}  BY <2>1 DEF OwnerOf
  <2> QED  BY <2>2 DEF Nothing
<1> HIDE DEF f
<1>4. ASSUME NEW c \in Cell, NEW d \in Cell, c <= d PROVE f[c] <= f[d]
  <2>1. f[c] \in Task /\ f[d] \in Task /\ f[c] \in Int /\ f[d] \in Int  BY <1>1 DEF Task
  <2>2. c >= StartsOf(e)[f[c]] /\ d <= e[f[d]] /\ c \in Int /\ d \in Int
    BY <1>1 DEF Cell
  <2>3. e[f[d]] \in Int /\ StartsOf(e)[f[c]] \in Int
    BY <2>1, IncreasingRange DEF Cell
  <2>4. ~ (f[d] < f[c])
    <3>1. f[d] < f[c] => e[f[d]] < StartsOf(e)[f[c]]  BY <2>1, IncreasingRange
    <3> QED  BY <1>4, <2>2, <2>3, <3>1
  <2> QED  BY <2>1, <2>4
<1>5. ASSUME NEW w \in Task PROVE \E c \in Cell : f[c] = w
  <2>1. e[w] \in Cell  BY IncreasingRange
  <2>2. e[w] \in StartsOf(e)[w] .. e[w]
    <3>1. e \in [Task -> Int]  BY DEF Increasing
    <3>2. StartsOf(e)[w] <= e[w]  BY <3>1, PartitionIsIncreasing DEF Partition
    <3>3. StartsOf(e)[w] \in Int /\ e[w] \in Int  BY <3>1, StartsOfType
    <3> QED  BY <3>2, <3>3
  <2>3. f[e[w]] = w  BY <1>1, <2>1, <2>2, WorkerOfCell
  <2> QED  BY <2>1, <2>3
<1>6. Ownership!Distribution(f)  BY <1>0, <1>4, <1>5 DEF Ownership!Distribution
<1> QED  BY <1>2, <1>3, <1>6 DEF f

\* The ranges in force and the stored ones have owners.
LEMMA OwnersOfRanges ==
  ASSUME RangesInv
  PROVE  /\ Owners \in {f \in [Ownership!Cell -> Ownership!Task] : Ownership!Distribution(f)}
         /\ \A s \in StateIds : saved[s] # Nothing =>
              OwnerOf(saved[s].start, saved[s].end) # Nothing
<1>0. Ownership!Cell = Cell /\ Ownership!Task = Task
  BY DEF Ownership!Cell, Ownership!Task, Cell, Task
<1>1. Increasing(endCell) /\ startCell = StartsOf(endCell)  BY RangesInvEnds
<1>2. ASSUME NEW s \in StateIds, saved[s] # Nothing
      PROVE  OwnerOf(saved[s].start, saved[s].end) # Nothing
  <2>1. Partition(saved[s].start, saved[s].end)  BY <1>2 DEF RangesInv, SavedStatesSound
  <2>2. saved[s].end \in [Task -> Int]
    BY <1>2 DEF RangesInv, TypeOK, SavedState
  <2>3. Increasing(saved[s].end) /\ saved[s].start = StartsOf(saved[s].end)
    BY <2>1, <2>2, PartitionIsIncreasing DEF Partition
  <2> QED  BY <2>3, OwnersDistributed
<1> QED  BY <1>0, <1>1, <1>2, OwnersDistributed DEF Owners

\* The variables of CellOwnership are these two functions.
LEMMA OwnershipInit == RangesInv /\ Init => Ownership!Init
<1> SUFFICES ASSUME RangesInv, Init PROVE Ownership!Init  OBVIOUS
<1>1. KeptOwners = [s \in StateIds |-> Ownership!Nothing]
  BY DEF KeptOwners, Init, InitWith, Nothing, Ownership!Nothing
<1> QED  BY <1>1, OwnersOfRanges DEF Ownership!Init, Owners, OwnerOf, KeptOwners

\* A change of one stored state changes one of the stored distributions.
LEMMA KeptOwnersUpdate ==
  ASSUME NEW s \in StateIds, NEW f, KeptOwners'[s] = f,
         \A r \in StateIds \ {s} : KeptOwners'[r] = KeptOwners[r]
  PROVE  KeptOwners' = [KeptOwners EXCEPT ![s] = f]
<1> DEFINE k == KeptOwners
           l == KeptOwners'
<1>1. k = [r \in StateIds |-> k[r]] /\ l = [r \in StateIds |-> l[r]]  BY DEF KeptOwners
<1>2. l[s] = f /\ \A r \in StateIds \ {s} : l[r] = k[r]  OBVIOUS
<1> HIDE DEF k, l
<1>3. l = [k EXCEPT ![s] = f]  BY <1>1, <1>2
<1> QED  BY <1>3 DEF k, l

\* Each step of LoadBalance is one step of CellOwnership or none.
LEMMA OwnershipStep ==
  HalfOrMore /\ RangesInv /\ [Next]_vars => [Ownership!Next]_Ownership!vars
<1> SUFFICES ASSUME HalfOrMore, RangesInv, [Next]_vars
             PROVE  [Ownership!Next]_Ownership!vars
  OBVIOUS
<1>0. TypeOK  BY DEF RangesInv
<1>1. CASE RebalanceLoad
  <2>1. Owners' \in {f \in [Ownership!Cell -> Ownership!Task] : Ownership!Distribution(f)}
    <3>1. PICK e \in NewEnds : Redistribute(e)  BY <1>1 DEF RebalanceLoad
    <3>2. Increasing(e)
      BY <1>0, <1>1, NewEndsIncreasing, RangesInvEnds DEF RebalanceLoad
    <3>3. Owners' = OwnerOf(StartsOf(e), e)  BY <3>1 DEF Redistribute, Owners, OwnerOf
    <3>4. Ownership!Cell = Cell /\ Ownership!Task = Task
      BY DEF Ownership!Cell, Ownership!Task, Cell, Task
    <3> QED  BY <3>2, <3>3, <3>4, OwnersDistributed
  <2>2. KeptOwners' = KeptOwners  BY <1>1 DEF RebalanceLoad, KeptOwners, OwnerOf
  <2>3. Ownership!Reassign
    BY <2>1, <2>2 DEF Ownership!Reassign, Owners, OwnerOf, KeptOwners
  <2> QED  BY <2>3 DEF Ownership!Next
<1>2. ASSUME UNCHANGED <<startCell, endCell, saved>> PROVE UNCHANGED Ownership!vars
  BY <1>2 DEF Ownership!vars
<1>3. CASE RebalanceLoadFails  BY <1>2, <1>3 DEF RebalanceLoadFails
<1>4. ASSUME NEW f \in Fractions, SetRebalanceFraction(f) PROVE UNCHANGED Ownership!vars
  BY <1>2, <1>4 DEF SetRebalanceFraction
<1>5. ASSUME NEW b \in BOOLEAN, SetRebalanceByCell(b) PROVE UNCHANGED Ownership!vars
  BY <1>2, <1>5 DEF SetRebalanceByCell
<1>6. ASSUME NEW s \in StateIds, StateSave(s) PROVE Ownership!Next
  <2>1. /\ saved'[s] # Nothing /\ saved'[s].start = startCell /\ saved'[s].end = endCell
        /\ \A r \in StateIds \ {s} : saved'[r] = saved[r]
        /\ startCell' = startCell /\ endCell' = endCell
    <3>1. saved'[s] = [start |-> startCell, end |-> endCell, bin |-> bin, broken |-> broken]
          /\ \A r \in StateIds \ {s} : saved'[r] = saved[r]
      BY <1>0, <1>6 DEF StateSave, TypeOK
    <3>2. saved'[s] # Nothing
      <4>1. "start" \in DOMAIN saved'[s]  BY <3>1
      <4>2. DOMAIN Nothing = {}  BY DEF Nothing
      <4> QED  BY <4>1, <4>2
    <3> QED  BY <1>6, <3>1, <3>2 DEF StateSave
  <2>2. Owners' = Owners  BY <2>1 DEF Owners, OwnerOf
  <2>3. KeptOwners' = [KeptOwners EXCEPT ![s] = Owners]
    <3>1. KeptOwners'[s] = Owners  BY <2>1 DEF KeptOwners, Owners
    <3>2. ASSUME NEW r \in StateIds \ {s} PROVE KeptOwners'[r] = KeptOwners[r]
      <4>1. saved'[r] = saved[r]  BY <2>1
      <4> QED  BY <4>1 DEF KeptOwners
    <3> QED  BY <3>1, <3>2, KeptOwnersUpdate
  <2>4. Ownership!Keep(s)
    BY <2>2, <2>3 DEF Ownership!Keep, Owners, OwnerOf, KeptOwners
  <2> QED  BY <2>4 DEF Ownership!Next
<1>7. ASSUME NEW s \in StateIds, StateApply(s) PROVE Ownership!Next
  <2>1. /\ saved[s] # Nothing /\ startCell' = saved[s].start /\ endCell' = saved[s].end
        /\ saved' = saved
    BY <1>7 DEF StateApply
  <2>2. KeptOwners[s] # Ownership!Nothing /\ KeptOwners[s] = OwnerOf(saved[s].start, saved[s].end)
    BY <2>1, OwnersOfRanges DEF KeptOwners, Nothing, Ownership!Nothing
  <2>3. Owners' = KeptOwners[s]  BY <2>1, <2>2 DEF Owners, OwnerOf
  <2>4. KeptOwners' = KeptOwners  BY <2>1 DEF KeptOwners, OwnerOf, Nothing
  <2>5. Ownership!Restore(s)
    BY <2>2, <2>3, <2>4 DEF Ownership!Restore, Owners, OwnerOf, KeptOwners
  <2> QED  BY <2>5 DEF Ownership!Next
<1>8. ASSUME NEW s \in StateIds, StateDelete(s) PROVE Ownership!Next
  <2>1. /\ saved'[s] = Nothing /\ \A r \in StateIds \ {s} : saved'[r] = saved[r]
        /\ startCell' = startCell /\ endCell' = endCell
    BY <1>0, <1>8 DEF StateDelete, TypeOK
  <2>2. Owners' = Owners  BY <2>1 DEF Owners, OwnerOf
  <2>3. KeptOwners' = [KeptOwners EXCEPT ![s] = Ownership!Nothing]
    <3>1. KeptOwners'[s] = Ownership!Nothing  BY <2>1 DEF KeptOwners, Nothing, Ownership!Nothing
    <3>2. ASSUME NEW r \in StateIds \ {s} PROVE KeptOwners'[r] = KeptOwners[r]
      <4>1. saved'[r] = saved[r]  BY <2>1
      <4> QED  BY <4>1 DEF KeptOwners
    <3> QED  BY <3>1, <3>2, KeptOwnersUpdate
  <2>4. Ownership!Forget(s)
    BY <2>2, <2>3 DEF Ownership!Forget, Owners, OwnerOf, KeptOwners
  <2> QED  BY <2>4 DEF Ownership!Next
<1>9. CASE UNCHANGED vars  BY <1>2, <1>9 DEF vars
<1> QED  BY <1>1, <1>3, <1>4, <1>5, <1>6, <1>7, <1>8, <1>9 DEF Next

\* The distribution of cells keeps the promise of CellOwnership for fractions of
\* one half and more (and zero), failed transfers included.
THEOREM OwnershipImplemented == HalfOrMore => (Spec => ImplementsOwnership)
<1> SUFFICES ASSUME HalfOrMore PROVE Spec => Ownership!Spec  BY DEF ImplementsOwnership
<1>1. Init => RangesInv  BY RangesInvInit
<1>2. Spec => []RangesInv  BY RangesInvHolds
<1>3. RangesInv /\ Init => Ownership!Init  BY OwnershipInit
<1>4. RangesInv /\ [Next]_vars => [Ownership!Next]_Ownership!vars
  BY OwnershipStep
<1> QED  BY <1>1, <1>2, <1>3, <1>4, PTL DEF Spec, Ownership!Spec
=============================================================================
