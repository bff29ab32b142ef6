---------------------------- MODULE KMedianProofs ----------------------------
(***************************************************************************)
(* Proofs about streamcluster's search for medians, for any number of      *)
(* threads, any points and any bounds on the number of centers.            *)
(***************************************************************************)
EXTENDS KMedian, SumProofs, SequenceTheorems

-----------------------------------------------------------------------------
(***************************************************************************)
(* Blocks, distances and sums.                                             *)
(***************************************************************************)

LEMMA FiniteSets ==
  /\ IsFiniteSet(pids) /\ IsFiniteSet(indices) /\ 0 \in pids /\ 0 \in indices
  BY KMedianAssumption, FS_Interval DEF pids, indices

LEMMA Multiples ==
  ASSUME NEW a \in Nat, NEW b \in Nat, NEW c \in Nat, b < c
  PROVE  a * b + a <= a * c /\ a * (b + 1) = a * b + a
  OBVIOUS

\* Every point is in the block of exactly one thread.
LEMMA BlocksPartition ==
  /\ \A t \in pids : Block(t) \subseteq indices /\ IsFiniteSet(Block(t))
  /\ \A j \in indices : \E t \in pids : j \in Block(t)
  /\ \A t, u \in pids : t # u => Block(t) \cap Block(u) = {}
<1> DEFINE b == num \div nproc
<1>0. nproc \in Nat \ {0} /\ num \in Nat
  BY KMedianAssumption
<1>1. b \in Nat /\ b * nproc <= num
  BY <1>0
<1>2. ASSUME NEW t \in pids
      PROVE  /\ t \in Nat /\ t < nproc
             /\ b * t \in Nat /\ b * (t + 1) \in Nat /\ b * (t + 1) <= num
             /\ Block(t) = IF t = nproc - 1 THEN b * t .. num - 1 ELSE b * t .. b * (t + 1) - 1
  <2>1. t \in Nat /\ t < nproc
    BY <1>0 DEF pids
  <2>2. b * t + b <= b * nproc /\ b * (t + 1) = b * t + b
    BY <1>0, <1>1, <2>1, Multiples
  <2>3. b * t \in Nat /\ b * nproc \in Nat
    BY <1>0, <1>1, <2>1
  <2>4. Block(t) = IF t = nproc - 1 THEN b * t .. num - 1 ELSE b * t .. b * (t + 1) - 1
    BY DEF Block
  <2> HIDE DEF b
  <2> QED BY <1>0, <1>1, <2>1, <2>2, <2>3, <2>4
<1>3. ASSUME NEW t \in pids PROVE Block(t) \subseteq indices /\ IsFiniteSet(Block(t))
  <2>1. Block(t) \subseteq indices
    <3> HIDE DEF b
    <3> QED BY <1>0, <1>2 DEF indices
  <2> QED BY <2>1, FiniteSets, FS_Subset
<1>4. ASSUME NEW t \in pids, NEW u \in pids, t < u PROVE Block(t) \cap Block(u) = {}
  <2>1. b * t + b <= b * u /\ b * (t + 1) = b * t + b
    BY <1>1, <1>2, <1>4, Multiples
  <2>2. t # nproc - 1
    BY <1>0, <1>2, <1>4
  <2> HIDE DEF b
  <2> QED BY <1>0, <1>2, <2>1, <2>2, SMTT(30)
<1>5. ASSUME NEW j \in indices PROVE \E t \in pids : j \in Block(t)
  <2>0. j \in Nat /\ j < num
    BY <1>0 DEF indices
  <2>1. CASE b * (nproc - 1) <= j
    <3>1. nproc - 1 \in pids
      BY <1>0 DEF pids
    <3> HIDE DEF b
    <3> QED BY <1>0, <1>2, <2>0, <2>1, <3>1
  <2>2. CASE j < b * (nproc - 1)
    <3> DEFINE t == j \div b
    <3>1. b > 0
      BY <1>0, <1>1, <2>0, <2>2
    <3>2. t \in Nat /\ b * t <= j /\ j < b * t + b
      <4> HIDE DEF b
      <4> QED BY <1>1, <2>0, <3>1
    <3>3. t < nproc - 1
      <4> SUFFICES ASSUME nproc - 1 <= t PROVE FALSE
        <5> HIDE DEF b
        <5> QED BY <1>0, <3>2
      <4>1. b * (nproc - 1) <= b * t
        <5>1. nproc - 1 \in Nat
          BY <1>0
        <5> HIDE DEF b, t
        <5> QED BY <1>1, <3>2, <5>1, Multiples
      <4> HIDE DEF b, t
      <4> QED BY <1>0, <1>1, <2>0, <2>2, <3>2, <4>1
    <3>4. t \in pids
      <4> HIDE DEF b, t
      <4> QED BY <1>0, <3>2, <3>3 DEF pids
    <3>5. b * (t + 1) = b * t + b
      <4> HIDE DEF b, t
      <4> QED BY <1>1, <3>2
    <3> HIDE DEF b, t
    <3>6. j \in Block(t)
      BY <1>0, <1>2, <2>0, <3>2, <3>3, <3>4, <3>5
    <3> QED BY <3>4, <3>6
  <2> QED
    <3>1. b * (nproc - 1) \in Int
      BY <1>0, <1>1
    <3> QED BY <2>0, <2>1, <2>2, <3>1
<1>6. ASSUME NEW t \in pids, NEW u \in pids, t # u PROVE Block(t) \cap Block(u) = {}
  <2>1. t < u \/ u < t
    BY <1>6, <1>2
  <2> QED BY <2>1, <1>4
<1> QED BY <1>3, <1>5, <1>6

\* What is added up block by block is added up over all points.
LEMMA SumByBlocks ==
  ASSUME NEW f, \A j \in indices : f[j] \in Int,
         NEW g, \A t \in pids : g[t] = SumFunctionOnSet(f, Block(t))
  PROVE  SumFunctionOnSet(g, pids) = SumFunctionOnSet(f, indices)
<1> DEFINE Q == [t \in pids |-> Block(t)]
<1>1. /\ \A t \in pids : IsFiniteSet(Q[t]) /\ Q[t] \subseteq indices
      /\ \A t, u \in pids : t # u => Q[t] \cap Q[u] = {}
      /\ \A j \in indices : \E t \in pids : j \in Q[t]
  BY BlocksPartition
<1>2. \A t \in pids : g[t] = SumFunctionOnSet(f, Q[t])
  OBVIOUS
<1>3. Parts(Q, pids, indices)
  <2> HIDE DEF Q
  <2> QED BY <1>1 DEF Parts
<1> HIDE DEF Q
<1> QED BY <1>2, <1>3, FiniteSets, SumByParts

PointsOK ==
  /\ DOMAIN point = indices
  /\ \A j \in indices :
       /\ point[j].weight \in Nat \ {0}
       /\ DOMAIN point[j].coord = DOMAIN point[0].coord
       /\ IsFiniteSet(DOMAIN point[j].coord)
       /\ \A d \in DOMAIN point[j].coord : point[j].coord[d] \in Int

LEMMA Squares ==
  \A a, b \in Int : (a - b) * (a - b) \in Nat /\ ((a - b) * (a - b) = 0 <=> a = b)
  OBVIOUS

\* Distances are natural numbers, and a point is at distance zero to itself.
LEMMA Distances ==
  ASSUME PointsOK
  PROVE  /\ \A j, c \in indices : dist(j, c) \in Nat /\ CostAt(j, c) \in Nat
         /\ \A j \in indices : dist(j, j) = 0 /\ CostAt(j, j) = 0
<1>1. ASSUME NEW j \in indices, NEW c \in indices
      PROVE  /\ dist(j, c) \in Nat
             /\ j = c => dist(j, c) = 0
  <2> DEFINE D == DOMAIN point[j].coord
             f == [d \in D |-> (point[j].coord[d] - point[c].coord[d])
                              * (point[j].coord[d] - point[c].coord[d])]
  <2>1. IsFiniteSet(D)
    BY DEF PointsOK
  <2>2. ASSUME NEW d \in D PROVE f[d] \in Nat /\ (j = c => f[d] = 0)
    <3>1. point[j].coord[d] \in Int /\ point[c].coord[d] \in Int
      <4>1. D = DOMAIN point[c].coord
        BY DEF PointsOK
      <4> QED BY <4>1 DEF PointsOK
    <3> QED BY <3>1, Squares
  <2>3. dist(j, c) = SumFunctionOnSet(f, D)
    BY SumOfFunction DEF dist
  <2> HIDE DEF D, f
  <2>4. dist(j, c) \in Nat
    BY <2>1, <2>2, <2>3, SumNatural
  <2>5. ASSUME j = c PROVE dist(j, c) = 0
    BY <2>1, <2>2, <2>3, <2>5, SumZero
  <2> QED BY <2>4, <2>5
<1>2. ASSUME NEW j \in indices, NEW c \in indices
      PROVE  /\ CostAt(j, c) \in Nat
             /\ j = c => CostAt(j, c) = 0
  <2>1. point[j].weight \in Nat /\ dist(j, c) \in Nat /\ (j = c => dist(j, c) = 0)
    BY <1>1 DEF PointsOK
  <2> QED BY <2>1 DEF CostAt
<1> QED BY <1>1, <1>2

\* Any order of the points will do.
LEMMA Shuffles ==
  ASSUME PointsOK, shuffled(point')
  PROVE  PointsOK'
<1>1. PICK f \in Bijection(indices, indices) : point' = [j \in indices |-> point[f[j]]]
  BY DEF shuffled
<1>2. f \in [indices -> indices]
  BY DEF Bijection, Injection
<1>3. 0 \in indices
  BY FiniteSets
<1>4. ASSUME NEW j \in indices
      PROVE  /\ point'[j].weight \in Nat \ {0}
             /\ DOMAIN point'[j].coord = DOMAIN point'[0].coord
             /\ IsFiniteSet(DOMAIN point'[j].coord)
             /\ \A d \in DOMAIN point'[j].coord : point'[j].coord[d] \in Int
  <2>1. f[j] \in indices /\ f[0] \in indices /\ point'[j] = point[f[j]] /\ point'[0] = point[f[0]]
    BY <1>1, <1>2, <1>3
  <2> QED BY <2>1 DEF PointsOK
<1> QED BY <1>1, <1>4 DEF PointsOK

\* The distance is the same both ways, and zero only between points at the same
\* place.
LEMMA Places ==
  ASSUME PointsOK, NEW j \in indices, NEW c \in indices
  PROVE  /\ dist(j, c) = dist(c, j)
         /\ dist(j, c) = 0 =>
              \A d \in DOMAIN point[j].coord : point[j].coord[d] = point[c].coord[d]
         /\ CostAt(j, c) = 0 <=> dist(j, c) = 0
<1> DEFINE D == DOMAIN point[j].coord
           f == [d \in D |-> (point[j].coord[d] - point[c].coord[d])
                            * (point[j].coord[d] - point[c].coord[d])]
           g == [d \in D |-> (point[c].coord[d] - point[j].coord[d])
                            * (point[c].coord[d] - point[j].coord[d])]
<1>1. IsFiniteSet(D) /\ D = DOMAIN point[c].coord
  BY DEF PointsOK
<1>2. \A d \in D : point[j].coord[d] \in Int /\ point[c].coord[d] \in Int
  BY <1>1 DEF PointsOK
<1>3. ASSUME NEW d \in D
      PROVE  f[d] \in Nat /\ f[d] = g[d] /\ (f[d] = 0 <=> point[j].coord[d] = point[c].coord[d])
  <2>1. PICK a \in Int : a = point[j].coord[d]
    BY <1>2
  <2>2. PICK b \in Int : b = point[c].coord[d]
    BY <1>2
  <2>3. f[d] = (a - b) * (a - b) /\ g[d] = (b - a) * (b - a)
    BY <2>1, <2>2
  <2>4. (a - b) * (a - b) = (b - a) * (b - a)
    OBVIOUS
  <2> QED BY <2>1, <2>2, <2>3, <2>4, Squares
<1>4. dist(j, c) = SumFunctionOnSet(f, D)
  BY SumOfFunction DEF dist
<1>5. dist(c, j) = SumFunctionOnSet(g, D)
  <2>1. dist(c, j) = SumFunction(g)
    BY <1>1 DEF dist
  <2> QED BY <2>1, SumOfFunction
<1>6. dist(j, c) = dist(c, j)
  <2> HIDE DEF D, f, g
  <2> QED BY <1>1, <1>3, <1>4, <1>5, SumEqual
<1>7. ASSUME dist(j, c) = 0
      PROVE  \A d \in D : point[j].coord[d] = point[c].coord[d]
  <2>1. \A d \in D : f[d] = 0
    <3> HIDE DEF D, f, g
    <3>1. \A d \in D : f[d] <= 0 /\ f[d] \in Nat
      BY <1>1, <1>3, <1>4, <1>7, SumNatural
    <3> QED BY <3>1
  <2> QED BY <1>3, <2>1
<1>8. CostAt(j, c) = 0 <=> dist(j, c) = 0
  <2>1. PICK w \in Nat \ {0} : w = point[j].weight
    BY DEF PointsOK
  <2>2. PICK d \in Nat : d = dist(j, c)
    BY Distances
  <2>3. d * w = 0 <=> d = 0
    OBVIOUS
  <2> QED BY <2>1, <2>2, <2>3 DEF CostAt
<1> QED BY <1>6, <1>7, <1>8

\* Points at the same place are at the same distance from every other.
LEMMA SamePlace ==
  ASSUME PointsOK, NEW j \in indices, NEW c \in indices, dist(j, c) = 0, NEW m \in indices
  PROVE  dist(m, j) = dist(m, c)
<1> DEFINE D == DOMAIN point[m].coord
           f == [d \in D |-> (point[m].coord[d] - point[j].coord[d])
                            * (point[m].coord[d] - point[j].coord[d])]
           g == [d \in D |-> (point[m].coord[d] - point[c].coord[d])
                            * (point[m].coord[d] - point[c].coord[d])]
<1>1. IsFiniteSet(D) /\ D = DOMAIN point[j].coord
  BY DEF PointsOK
<1>2. \A d \in D : point[m].coord[d] \in Int /\ point[c].coord[d] \in Int
  BY DEF PointsOK
<1>3. \A d \in D : point[j].coord[d] = point[c].coord[d]
  BY <1>1, Places
<1>4. f = g
  BY <1>3
<1> QED BY <1>4, SumOfFunction DEF dist

-----------------------------------------------------------------------------
(***************************************************************************)
(* The phases up to the first solution.  Between two barriers the threads  *)
(* are in one phase: those that have not yet reached the next barrier have *)
(* reached r of them, modulo 3, and those that have one more.              *)
(***************************************************************************)
After(r) == (r + 1) % 3

Phase(r, A, B) ==
  \A t \in pids : \/ reached[t] = r /\ at[t] \in A
                  \/ reached[t] = After(r) /\ at[t] \in B

\* Point j is with one of the centers of C, and none of them is nearer.
Near(j, C) ==
  /\ assign[j] \in C /\ cost[j] = CostAt(j, assign[j])
  /\ \A c \in C : cost[j] <= CostAt(j, c)

\* Different centers of C are different places.
Apart(C) == \A c, d \in C : c # d => dist(c, d) > 0

\* The centers that were opened are those there are, each its own.
Solved ==
  /\ Centers \subseteq indices
  /\ \A j \in indices : Near(j, Centers)
  /\ \A c \in Centers : assign[c] = c
  /\ k = Cardinality(Centers) /\ Apart(Centers)

PBegin(r) == Phase(r, {"begin"}, {"hiz"}) /\ open = FALSE
PHiz(r) == Phase(r, {"hiz"}, {"seed"}) /\ open = FALSE
PSeed(r) == Phase(r, {"seed", "pspeedy"}, {"first"}) /\ open = FALSE

PFirst(r) ==
  /\ Phase(r, {"first"}, {"start", "wait"}) /\ open = FALSE
  /\ \A t \in pids : at[t] = "start" <=> t = 0 /\ at[t] # "first"
  /\ \A t \in pids : at[t] # "first" =>
       \A j \in Block(t) : assign[j] = 0 /\ cost[j] = CostAt(j, 0)
  /\ at[0] = "start" => k = 1

\* A center is being opened at the point i.
Opening == i < num /\ at[0] \in {"announce", "broadcast", "move", "close"}

Moved(t) == at[t] \in {"close", "follow2"}

\* The centers are those of C, and point i for who has moved to it.
Opened(C) ==
  /\ C \subseteq indices /\ IsFiniteSet(C)
  /\ \A c \in C : assign[c] = c
  /\ k = IF Opening THEN Cardinality(C) + 1 ELSE Cardinality(C)
  /\ Opening => i \in indices \ C
  /\ Apart(IF Opening THEN C \cup {i} ELSE C)
  /\ \A t \in pids : \A j \in Block(t) :
       /\ Near(j, IF Moved(t) THEN C \cup {i} ELSE C)
       /\ Opening /\ j = i => IF Moved(t) THEN assign[j] = j ELSE cost[j] > 0

RoundControl(r) ==
  /\ Phase(r, {"start", "close2", "decide", "announce", "broadcast", "move",
               "wait", "asleep", "look", "follow"}, {"close", "sum", "follow2"})
  /\ at[0] \in {"start", "close2", "decide", "announce", "broadcast", "move", "close", "sum"}
  /\ \A t \in pids \ {0} : at[t] \in {"wait", "asleep", "look", "follow", "follow2", "sum"}
  /\ open = (at[0] \in {"broadcast", "move", "close", "sum"})
  /\ ~open => \A t \in pids \ {0} : at[t] \in {"wait", "asleep"}
  /\ \A t \in pids : at[t] = "sum" => i >= num
  /\ \A t \in pids : at[t] \in {"follow", "follow2", "close", "close2"} => i < num

PRound(r) == RoundControl(r) /\ \E C : Opened(C)

PClose(r) ==
  /\ Phase(r, {"close", "follow2"}, {"close2", "wait"})
  /\ \A t \in pids : at[t] \in {"close", "close2"} <=> t = 0
  /\ at[0] = "close2" => open = FALSE
  /\ i < num
  /\ Solved

PSum(r) ==
  /\ Phase(r, {"sum"}, {"total"})
  /\ \A t \in pids : at[t] = "total" =>
       open = FALSE /\ costs[t] = SumFunctionOnSet(cost, Block(t))
  /\ Solved

PTotal(r) ==
  /\ Phase(r, {"total"}, {"return"}) /\ open = FALSE
  /\ \A t \in pids : costs[t] = SumFunctionOnSet(cost, Block(t))
  /\ Solved
  /\ at[0] = "return" => totalcost = my[0].z * k + TotalCost

PReturn(r) ==
  /\ Phase(r, {"return", "pspeedy", "select"}, {"first", "search"})
  /\ open = FALSE /\ k \in Nat
  /\ at[0] = "return" => Solved /\ totalcost = my[0].z * k + TotalCost
  /\ \A t \in pids : IF k < kmin THEN at[t] \notin {"select", "search"}
                                 ELSE at[t] \notin {"pspeedy", "first"}

\* From now on no thread comes back to pspeedy.
PLater ==
  \A t \in pids : at[t] \in
    {"search", "pFL", "pass", "found", "decided", "pgain", "allocate", "count", "prefix",
     "table", "lower", "closing", "aggregate", "apply", "gained", "done"}

SomePhase(r) ==
  \/ PBegin(r) \/ PHiz(r) \/ PSeed(r) \/ PFirst(r) \/ PRound(r)
  \/ PClose(r) \/ PSum(r) \/ PTotal(r) \/ PReturn(r)

Base ==
  /\ DOMAIN at = pids /\ reached \in [pids -> 0..2]
  /\ DOMAIN costs = pids /\ i \in Nat
  /\ PointsOK

\* The shape of what each thread has.
Locals == [z : Int, hiz : Int, loz : Int, cost : Int, change : Int, e : Int, i : Int,
           K : Int, opening : Int, tries : Int]
Fields == {"z", "hiz", "loz", "cost", "change", "e", "i", "K", "opening", "tries"}

HasShape ==
  /\ DOMAIN my = pids /\ \A t \in pids : DOMAIN my[t] = Fields
  /\ DOMAIN work_mem = pids /\ \A t \in pids : DOMAIN work_mem[t] = columns
  /\ DOMAIN hizs = pids

PhaseInv == HasShape /\ Base /\ (PLater \/ \E r \in 0..2 : SomePhase(r))

-----------------------------------------------------------------------------
\* What a thread at a label does.
LEMMA StepAt ==
  ASSUME NEW t \in pids, Step(t) \/ Wake(t)
  PROVE  \/ at[t] = "begin" /\ Begin(t)
         \/ at[t] = "hiz" /\ Hiz(t)
         \/ at[t] = "seed" /\ Seed(t)
         \/ at[t] = "return" /\ Return(t)
         \/ at[t] = "select" /\ Select(t)
         \/ at[t] = "search" /\ Rough(t)
         \/ at[t] = "found" /\ Refine(t)
         \/ at[t] = "found" /\ Adjust(t)
         \/ at[t] = "decided" /\ Decided(t)
         \/ /\ UNCHANGED <<gainVars, hizs, kfinal>>
            /\ \/ at[t] = "pspeedy" /\ Enter(t)
               \/ at[t] = "first" /\ First(t)
               \/ at[t] = "start" /\ Start(t)
               \/ at[t] = "decide" /\ Decide(t)
               \/ at[t] = "decide" /\ NoMore(t)
               \/ at[t] = "announce" /\ Announce(t)
               \/ at[t] = "broadcast" /\ Broadcast(t)
               \/ at[t] = "move" /\ t = 0 /\ Move(t)
               \/ at[t] \in {"close", "close2"} /\ Close(t)
               \/ at[t] = "wait" /\ WaitOpen(t)
               \/ at[t] = "asleep" /\ WakeWorker(t)
               \/ at[t] = "look" /\ Look(t)
               \/ at[t] = "follow" /\ Follow(t)
               \/ at[t] = "follow2" /\ Follow2(t)
               \/ at[t] = "sum" /\ Sum1(t)
               \/ at[t] = "total" /\ Total(t)
         \/ /\ UNCHANGED <<speedyVars, hizs, kfinal>>
            /\ \/ at[t] = "pFL" /\ Search(t)
               \/ at[t] = "pass" /\ Pass(t)
               \/ at[t] = "pgain" /\ EnterGain(t)
               \/ at[t] = "allocate" /\ Allocate(t)
               \/ at[t] = "count" /\ Count(t)
               \/ at[t] = "prefix" /\ Prefix(t)
               \/ at[t] = "table" /\ Table(t)
               \/ at[t] = "lower" /\ Lower(t)
               \/ at[t] = "closing" /\ Closing(t)
               \/ at[t] = "aggregate" /\ Aggregate(t)
               \/ at[t] = "apply" /\ Apply(t)
               \/ at[t] = "gained" /\ Gained(t)
<1>1. CASE pkmedian(t)
  BY <1>1 DEF pkmedian, Begin, Hiz, Seed, Return, Select, Rough, Refine, Adjust, Decided
<1>2. CASE pspeedy(t) /\ UNCHANGED <<gainVars, hizs, kfinal>>
  BY <1>2 DEF pspeedy, Enter, First, Start, Decide, NoMore, Announce, Broadcast, Move, Close,
              WaitOpen, Look, Follow, Follow2, Sum1, Total
<1>3. CASE pFL(t) /\ UNCHANGED <<speedyVars, hizs, kfinal>>
  <2>1. Search(t) => at[t] = "pFL"
    BY DEF Search
  <2>2. Pass(t) => at[t] = "pass"
    BY DEF Pass
  <2>3. EnterGain(t) => at[t] = "pgain"
    BY DEF EnterGain
  <2>4. Allocate(t) => at[t] = "allocate"
    BY DEF Allocate
  <2>5. Count(t) => at[t] = "count"
    BY DEF Count
  <2>6. Prefix(t) => at[t] = "prefix"
    BY DEF Prefix
  <2>7. Table(t) => at[t] = "table"
    BY DEF Table
  <2>8. Lower(t) => at[t] = "lower"
    BY DEF Lower
  <2>9. Closing(t) => at[t] = "closing"
    BY DEF Closing
  <2>10. Aggregate(t) => at[t] = "aggregate"
    BY DEF Aggregate
  <2>11. Apply(t) => at[t] = "apply"
    BY DEF Apply
  <2>12. Gained(t) => at[t] = "gained"
    BY DEF Gained
  <2> QED BY <1>3, <2>1, <2>2, <2>3, <2>4, <2>5, <2>6, <2>7, <2>8, <2>9, <2>10, <2>11, <2>12 DEF pFL
<1>4. CASE Wake(t)
  BY <1>4 DEF Wake, WakeWorker
<1> QED BY <1>1, <1>2, <1>3, <1>4 DEF Step

LEMMA Rounds ==
  ASSUME NEW r \in 0..2
  PROVE  /\ After(r) \in 0..2 /\ After(r) # r /\ (After(r) + 2) % 3 = r
         /\ (r + 2) % 3 # r /\ (r + 2) % 3 # After(r) /\ (r + 2) % 3 \in 0..2
BY DEF After

\* Who has not yet reached the next barrier goes on, who has waits for all.
LEMMA Barriers ==
  ASSUME NEW r \in 0..2, NEW A, NEW B, Phase(r, A, B)
  PROVE  \A t \in pids :
           /\ reached[t] \in {r, After(r)}
           /\ reached[t] = r => at[t] \in A /\ Released(t)
           /\ reached[t] = After(r) => at[t] \in B
           /\ reached[t] = After(r) /\ Released(t) =>
                \A u \in pids : reached[u] = After(r) /\ at[u] \in B
BY Rounds DEF Phase, Released

LEMMA Reaches ==
  ASSUME DOMAIN at = pids, reached \in [pids -> 0..2],
         NEW r \in 0..2, NEW t \in pids, reached[t] = r, NEW l, ReachBarrier(t, l)
  PROVE  /\ DOMAIN at' = pids /\ reached' \in [pids -> 0..2]
         /\ at'[t] = l /\ \A u \in pids : u # t => at'[u] = at[u]
         /\ \A A, B : Phase(r, A, B) /\ l \in B => Phase(r, A, B)'
<1>1. /\ DOMAIN at' = pids /\ reached' \in [pids -> 0..2]
      /\ at'[t] = l /\ \A u \in pids : u # t => at'[u] = at[u]
      /\ reached'[t] = After(r) /\ \A u \in pids : u # t => reached'[u] = reached[u]
  BY Rounds DEF ReachBarrier, After
<1>2. ASSUME NEW A, NEW B, Phase(r, A, B), l \in B PROVE Phase(r, A, B)'
  BY <1>1, <1>2 DEF Phase
<1> QED BY <1>1, <1>2

LEMMA Goes ==
  ASSUME DOMAIN at = pids, reached \in [pids -> 0..2],
         NEW r \in 0..2, NEW t \in pids, reached[t] = r, NEW l, GoOn(t, l)
  PROVE  /\ DOMAIN at' = pids /\ reached' \in [pids -> 0..2]
         /\ at'[t] = l /\ \A u \in pids : u # t => at'[u] = at[u]
         /\ \A A, B : Phase(r, A, B) /\ l \in A => Phase(r, A, B)'
<1>1. /\ DOMAIN at' = pids /\ reached' \in [pids -> 0..2]
      /\ at'[t] = l /\ \A u \in pids : u # t => at'[u] = at[u]
      /\ reached' = reached
  BY DEF GoOn
<1>2. ASSUME NEW A, NEW B, Phase(r, A, B), l \in A PROVE Phase(r, A, B)'
  BY <1>1, <1>2 DEF Phase
<1> QED BY <1>1, <1>2

\* All threads have reached the barrier: the next phase begins.
LEMMA PhaseEnds ==
  ASSUME NEW r \in 0..2, NEW A, NEW B, Phase(r, A, B), \A t \in pids : reached[t] = After(r)
  PROVE  \A C, D : B \subseteq C => Phase(After(r), C, D)
BY Rounds DEF Phase

-----------------------------------------------------------------------------
(***************************************************************************)
(* A step of a thread that has not reached the barrier stays in its phase. *)
(***************************************************************************)
LEMMA BeginStep ==
  ASSUME Base, NEW r \in 0..2, PBegin(r), NEW t \in pids, reached[t] = r, Step(t) \/ Wake(t)
  PROVE  Base' /\ PBegin(r)'
<1>1. at[t] = "begin"
  BY Barriers DEF PBegin
<1>2. Begin(t)
  BY <1>1, StepAt
<1>3. ReachBarrier(t, "hiz") /\ UNCHANGED <<point, open, i, costs>>
  BY <1>2 DEF Begin, speedyVars
<1>4. /\ DOMAIN at' = pids /\ reached' \in [pids -> 0..2]
      /\ Phase(r, {"begin"}, {"hiz"})'
  BY <1>3, Reaches DEF PBegin, Base
<1> QED BY <1>3, <1>4 DEF PBegin, Base, PointsOK

LEMMA HizStep ==
  ASSUME Base, NEW r \in 0..2, PHiz(r), NEW t \in pids, reached[t] = r, Step(t) \/ Wake(t)
  PROVE  Base' /\ PHiz(r)'
<1>1. at[t] = "hiz"
  BY Barriers DEF PHiz
<1>2. Hiz(t)
  BY <1>1, StepAt
<1>3. ReachBarrier(t, "seed") /\ UNCHANGED <<point, open, i, costs>>
  BY <1>2 DEF Hiz, speedyVars
<1>4. /\ DOMAIN at' = pids /\ reached' \in [pids -> 0..2]
      /\ Phase(r, {"hiz"}, {"seed"})'
  BY <1>3, Reaches DEF PHiz, Base
<1> QED BY <1>3, <1>4 DEF PHiz, Base, PointsOK

LEMMA SeedStep ==
  ASSUME Base, NEW r \in 0..2, PSeed(r), NEW t \in pids, reached[t] = r, Step(t) \/ Wake(t)
  PROVE  Base' /\ PSeed(r)'
<1>1. at[t] \in {"seed", "pspeedy"}
  BY Barriers DEF PSeed
<1>2. CASE at[t] = "seed"
  <2>1. Seed(t)
    BY <1>2, StepAt
  <2>2. GoOn(t, "pspeedy") /\ UNCHANGED <<open, i, costs>>
    BY <2>1 DEF Seed, speedyVars
  <2>3. shuffled(point') \/ UNCHANGED point
    BY <2>1 DEF Seed
  <2>4. PointsOK'
    BY <2>3, Shuffles DEF Base, PointsOK
  <2>5. /\ DOMAIN at' = pids /\ reached' \in [pids -> 0..2]
        /\ Phase(r, {"seed", "pspeedy"}, {"first"})'
    BY <2>2, Goes DEF PSeed, Base
  <2> QED BY <2>2, <2>4, <2>5 DEF PSeed, Base
<1>3. CASE at[t] = "pspeedy"
  <2>1. Enter(t)
    BY <1>3, StepAt
  <2>2. ReachBarrier(t, "first") /\ UNCHANGED <<point, open, i, costs>>
    BY <2>1 DEF Enter, speedyVars
  <2>5. /\ DOMAIN at' = pids /\ reached' \in [pids -> 0..2]
        /\ Phase(r, {"seed", "pspeedy"}, {"first"})'
    BY <2>2, Reaches DEF PSeed, Base
  <2> QED BY <2>2, <2>5 DEF PSeed, Base, PointsOK
<1> QED BY <1>1, <1>2, <1>3

LEMMA FirstStep ==
  ASSUME Base, NEW r \in 0..2, PFirst(r), NEW t \in pids, reached[t] = r, Step(t) \/ Wake(t)
  PROVE  Base' /\ PFirst(r)'
<1>1. at[t] = "first"
  BY Barriers DEF PFirst
<1>2. First(t)
  BY <1>1, StepAt
<1> DEFINE l == IF t = 0 THEN "start" ELSE "wait"
<1>3. /\ ReachBarrier(t, l) /\ UNCHANGED <<point, open, i, costs>>
      /\ assign' = [j \in indices |-> IF j \in Block(t) THEN 0 ELSE assign[j]]
      /\ cost' = [j \in indices |-> IF j \in Block(t) THEN CostAt(j, 0) ELSE cost[j]]
      /\ k' = IF t = 0 THEN 1 ELSE k
  BY <1>2 DEF First, speedyVars
<1>4. /\ DOMAIN at' = pids /\ reached' \in [pids -> 0..2]
      /\ at'[t] = l /\ \A u \in pids : u # t => at'[u] = at[u]
      /\ Phase(r, {"first"}, {"start", "wait"})'
  <2>1. l \in {"start", "wait"}
    OBVIOUS
  <2> HIDE DEF l
  <2> QED BY <1>3, <2>1, Reaches DEF PFirst, Base
<1>5. ASSUME NEW u \in pids, at'[u] # "first", NEW j \in Block(u)
      PROVE  assign'[j] = 0 /\ cost'[j] = CostAt(j, 0)'
  <2>1. j \in indices /\ (u # t => j \notin Block(t))
    BY BlocksPartition
  <2>2. CostAt(j, 0)' = CostAt(j, 0)
    BY <1>3 DEF CostAt, dist
  <2>3. u # t => assign[j] = 0 /\ cost[j] = CostAt(j, 0)
    BY <1>4, <1>5 DEF PFirst
  <2> QED BY <1>3, <2>1, <2>2, <2>3
<1>6. /\ \A u \in pids : at'[u] = "start" <=> u = 0 /\ at'[u] # "first"
      /\ at'[0] = "start" => k' = 1
  <2>1. 0 \in pids
    BY FiniteSets
  <2> QED BY <1>3, <1>4, <2>1 DEF PFirst
<1>7. open' = FALSE /\ PFirst(r)'
  BY <1>3, <1>4, <1>5, <1>6 DEF PFirst
<1> QED BY <1>3, <1>4, <1>7 DEF Base, PointsOK

LEMMA SolvedKept ==
  ASSUME Solved, UNCHANGED <<point, assign, cost, k>>
  PROVE  Solved'
<1>1. Centers' = Centers
  BY DEF Centers
<1>2. ASSUME NEW j, NEW c PROVE CostAt(j, c)' = CostAt(j, c)
  BY DEF CostAt, dist
<1>3. ASSUME NEW j \in indices PROVE Near(j, Centers)'
  <2>1. Near(j, Centers)
    BY DEF Solved
  <2>2. CostAt(j, assign[j])' = CostAt(j, assign[j])
    BY DEF CostAt, dist
  <2> QED BY <1>1, <1>2, <2>1, <2>2 DEF Near
<1>4. \A c, d : dist(c, d)' = dist(c, d)
  BY DEF dist
<1> QED BY <1>1, <1>3, <1>4 DEF Solved, Apart

LEMMA CloseStep ==
  ASSUME Base, NEW r \in 0..2, PClose(r), NEW t \in pids, reached[t] = r, Step(t) \/ Wake(t)
  PROVE  Base' /\ PClose(r)'
<1>0. 0 \in pids
  BY FiniteSets
<1>1. at[t] \in {"close", "follow2"}
  BY Barriers DEF PClose
<1>2. CASE at[t] = "close"
  <2>1. Close(t)
    BY <1>2, StepAt
  <2>2. /\ ReachBarrier(t, "close2") /\ open' = FALSE
        /\ UNCHANGED <<point, assign, cost, k, i, costs>>
    BY <1>2, <2>1 DEF Close
  <2>3. /\ DOMAIN at' = pids /\ reached' \in [pids -> 0..2]
        /\ at'[t] = "close2" /\ \A u \in pids : u # t => at'[u] = at[u]
        /\ Phase(r, {"close", "follow2"}, {"close2", "wait"})'
    BY <2>2, Reaches DEF PClose, Base
  <2>4. Solved'
    BY <2>2, SolvedKept DEF PClose
  <2>5. \A u \in pids : at'[u] \in {"close", "close2"} <=> u = 0
    BY <1>2, <2>3 DEF PClose
  <2> QED BY <1>0, <1>2, <2>2, <2>3, <2>4, <2>5 DEF PClose, Base, PointsOK
<1>3. CASE at[t] = "follow2"
  <2>1. Follow2(t)
    BY <1>3, StepAt
  <2>2. /\ ReachBarrier(t, "wait")
        /\ UNCHANGED <<point, assign, cost, k, open, i, costs>>
    BY <1>3, <2>1 DEF Follow2, speedyVars
  <2>3. /\ DOMAIN at' = pids /\ reached' \in [pids -> 0..2]
        /\ at'[t] = "wait" /\ \A u \in pids : u # t => at'[u] = at[u]
        /\ Phase(r, {"close", "follow2"}, {"close2", "wait"})'
    BY <2>2, Reaches DEF PClose, Base
  <2>4. Solved'
    BY <2>2, SolvedKept DEF PClose
  <2>5. /\ \A u \in pids : at'[u] \in {"close", "close2"} <=> u = 0
        /\ t # 0
    BY <1>3, <2>3 DEF PClose
  <2> QED BY <1>0, <1>3, <2>2, <2>3, <2>4, <2>5 DEF PClose, Base, PointsOK
<1> QED BY <1>1, <1>2, <1>3

LEMMA SumStep ==
  ASSUME Base, NEW r \in 0..2, PSum(r), NEW t \in pids, reached[t] = r, Step(t) \/ Wake(t)
  PROVE  Base' /\ PSum(r)'
<1>1. at[t] = "sum"
  BY Barriers DEF PSum
<1>2. Sum1(t)
  BY <1>1, StepAt
<1>3. /\ ReachBarrier(t, "total") /\ open' = FALSE
      /\ costs' = [costs EXCEPT ![t] = SumFunctionOnSet(cost, Block(t))]
      /\ UNCHANGED <<point, assign, cost, k, i>>
  BY <1>2 DEF Sum1
<1>4. /\ DOMAIN at' = pids /\ reached' \in [pids -> 0..2]
      /\ at'[t] = "total" /\ \A u \in pids : u # t => at'[u] = at[u]
      /\ Phase(r, {"sum"}, {"total"})'
  BY <1>3, Reaches DEF PSum, Base
<1>5. /\ DOMAIN costs' = pids
      /\ \A u \in pids : at'[u] = "total" =>
           open' = FALSE /\ costs'[u] = SumFunctionOnSet(cost', Block(u))
  BY <1>3, <1>4 DEF PSum, Base
<1>6. Solved'
  BY <1>3, SolvedKept DEF PSum
<1> QED BY <1>3, <1>4, <1>5, <1>6 DEF PSum, Base, PointsOK

LEMMA CostsInt ==
  ASSUME Base, Solved
  PROVE  \A j \in indices : cost[j] \in Nat
<1>1. \A j \in indices : assign[j] \in Centers /\ cost[j] = CostAt(j, assign[j])
  BY DEF Solved, Near
<1>2. Centers \subseteq indices
  BY DEF Solved
<1> QED BY <1>1, <1>2, Distances DEF Base

LEMMA TotalStep ==
  ASSUME Base, NEW r \in 0..2, PTotal(r), NEW t \in pids, reached[t] = r, Step(t) \/ Wake(t)
  PROVE  Base' /\ PTotal(r)'
<1>1. at[t] = "total"
  BY Barriers DEF PTotal
<1>2. Total(t)
  BY <1>1, StepAt
<1>3. /\ ReachBarrier(t, "return")
      /\ totalcost' = IF t = 0 THEN my[t].z * k + SumFunctionOnSet(costs, pids) ELSE totalcost
      /\ UNCHANGED <<point, assign, cost, k, my, open, i, costs>>
  BY <1>2 DEF Total
<1>4. /\ DOMAIN at' = pids /\ reached' \in [pids -> 0..2]
      /\ at'[t] = "return" /\ \A u \in pids : u # t => at'[u] = at[u]
      /\ Phase(r, {"total"}, {"return"})'
  BY <1>3, Reaches DEF PTotal, Base
<1>5. Solved'
  BY <1>3, SolvedKept DEF PTotal
<1>6. SumFunctionOnSet(costs, pids) = TotalCost
  <2>1. \A j \in indices : cost[j] \in Int
    BY CostsInt DEF PTotal
  <2>2. \A u \in pids : costs[u] = SumFunctionOnSet(cost, Block(u))
    BY DEF PTotal
  <2> QED BY <2>1, <2>2, SumByBlocks DEF TotalCost
<1>7. TotalCost' = TotalCost
  BY <1>3 DEF TotalCost
<1>8. at'[0] = "return" => totalcost' = my'[0].z * k' + TotalCost'
  <2>1. CASE t = 0
    BY <1>3, <1>6, <1>7, <2>1
  <2>2. CASE t # 0
    BY <1>3, <1>4, <1>7, <2>2, FiniteSets DEF PTotal
  <2> QED BY <2>1, <2>2
<1> QED BY <1>3, <1>4, <1>5, <1>8 DEF PTotal, Base, PointsOK

LEMMA ReturnStep ==
  ASSUME DOMAIN my = pids, Base, NEW r \in 0..2, PReturn(r), NEW t \in pids, reached[t] = r, Step(t) \/ Wake(t)
  PROVE  Base' /\ PReturn(r)'
<1>0. 0 \in pids
  BY FiniteSets
<1>1. at[t] \in {"return", "pspeedy", "select"}
  BY Barriers DEF PReturn
<1>2. ASSUME NEW l, ReachBarrier(t, l), l \in {"first", "search"},
             l = "first" <=> at[t] = "pspeedy", at[t] # "return",
             UNCHANGED <<point, assign, cost, k, my, open, i, costs, totalcost>>
      PROVE  Base' /\ PReturn(r)'
  <2>1. /\ DOMAIN at' = pids /\ reached' \in [pids -> 0..2]
        /\ at'[t] = l /\ \A u \in pids : u # t => at'[u] = at[u]
        /\ Phase(r, {"return", "pspeedy", "select"}, {"first", "search"})'
    BY <1>2, Reaches DEF PReturn, Base
  <2>2. at'[0] = "return" => at[0] = "return"
    BY <1>0, <1>2, <2>1
  <2>3. at'[0] = "return" => Solved' /\ totalcost' = my'[0].z * k' + TotalCost'
    BY <1>2, <2>2, SolvedKept DEF PReturn, TotalCost
  <2>4. \A u \in pids : IF k < kmin THEN at'[u] \notin {"select", "search"}
                                    ELSE at'[u] \notin {"pspeedy", "first"}
    BY <1>1, <1>2, <2>1 DEF PReturn
  <2> QED BY <1>2, <2>1, <2>3, <2>4 DEF PReturn, Base, PointsOK
<1>3. CASE at[t] = "pspeedy"
  <2>1. Enter(t)
    BY <1>3, StepAt
  <2> DEFINE l == "first"
  <2>2. /\ ReachBarrier(t, l) /\ l = "first"
        /\ UNCHANGED <<point, assign, cost, k, my, open, i, costs, totalcost>>
    BY <2>1 DEF Enter, speedyVars
  <2> HIDE DEF l
  <2> QED BY <1>2, <1>3, <2>2
<1>4. CASE at[t] = "select"
  <2>1. Select(t)
    BY <1>4, StepAt
  <2> DEFINE l == "search"
  <2>2. /\ ReachBarrier(t, l) /\ l = "search"
        /\ UNCHANGED <<point, assign, cost, k, my, open, i, costs, totalcost>>
    BY <2>1 DEF Select, speedyVars
  <2> HIDE DEF l
  <2> QED BY <1>2, <1>4, <2>2
<1>5. CASE at[t] = "return"
  <2>1. Return(t)
    BY <1>5, StepAt
  <2> DEFINE l == IF k < kmin THEN "pspeedy" ELSE "select"
  <2>2. GoOn(t, l)
    <3>0. k \in Nat /\ kmin \in Nat
      BY KMedianAssumption DEF PReturn
    <3>1. k < kmin => GoOn(t, "pspeedy")
      BY <2>1, <3>0 DEF Return
    <3>2. ~(k < kmin) => GoOn(t, "select")
      BY <2>1 DEF Return
    <3> QED BY <3>1, <3>2
  <2>3. UNCHANGED <<assign, cost, k, open, i, costs, totalcost>>
    BY <2>1 DEF Return, speedyVars
  <2>4. \/ UNCHANGED point
        \/ t = 0 /\ shuffled(point')
    BY <2>1 DEF Return
  <2>5. PointsOK'
    BY <2>4, Shuffles DEF Base, PointsOK
  <2>6. t # 0 => my'[0] = my[0]
    BY <1>0, <2>1 DEF Return
  <2>7. /\ DOMAIN at' = pids /\ reached' \in [pids -> 0..2]
        /\ at'[t] = l /\ \A u \in pids : u # t => at'[u] = at[u]
        /\ Phase(r, {"return", "pspeedy", "select"}, {"first", "search"})'
    <3>1. l \in {"return", "pspeedy", "select"}
      OBVIOUS
    <3> HIDE DEF l
    <3> QED BY <2>2, <3>1, Goes DEF PReturn, Base
  <2>8. at'[0] = "return" => Solved' /\ totalcost' = my'[0].z * k' + TotalCost'
    <3>1. CASE t = 0
      BY <2>7, <3>1
    <3>2. CASE t # 0
      <4>1. UNCHANGED point
        BY <2>4, <3>2
      <4> QED BY <1>0, <2>3, <2>6, <2>7, <3>2, <4>1, SolvedKept DEF PReturn, TotalCost
    <3> QED BY <3>1, <3>2
  <2>9. \A u \in pids : IF k < kmin THEN at'[u] \notin {"select", "search"}
                                    ELSE at'[u] \notin {"pspeedy", "first"}
    <3>1. IF k < kmin THEN l \notin {"select", "search"} ELSE l \notin {"pspeedy", "first"}
      OBVIOUS
    <3> HIDE DEF l
    <3> QED BY <2>7, <3>1 DEF PReturn
  <2> HIDE DEF l
  <2> QED BY <2>3, <2>5, <2>7, <2>8, <2>9 DEF PReturn, Base
<1> QED BY <1>1, <1>3, <1>4, <1>5

\* Who has moved belongs to the opening of a center.
LEMMA MovedOpening ==
  ASSUME Base, NEW r, RoundControl(r), NEW t \in pids, Moved(t)
  PROVE  Opening /\ at[0] \in {"broadcast", "move", "close"}
<1>1. i < num /\ (t = 0 \/ at[t] = "follow2")
  BY DEF RoundControl, Moved
<1>2. at[0] \in {"broadcast", "move", "close", "sum"}
  BY <1>1 DEF RoundControl, Moved
<1>3. at[0] # "sum"
  BY <1>1, FiniteSets, KMedianAssumption DEF RoundControl, Base
<1> QED BY <1>1, <1>2, <1>3 DEF Opening

\* A step that moves no points and begins or ends no opening.
LEMMA OpenedKept ==
  ASSUME NEW C, Opened(C), UNCHANGED <<point, assign, cost, k>>, Opening' <=> Opening,
         \A u \in pids : Moved(u)' <=> Moved(u),
         i' = i \/ (~Opening /\ \A u \in pids : ~Moved(u))
  PROVE  Opened(C)'
<1>1. ASSUME NEW u \in pids, NEW j \in Block(u)
      PROVE  /\ Near(j, IF Moved(u) THEN C \cup {i} ELSE C)'
             /\ (Opening /\ j = i => IF Moved(u) THEN assign[j] = j ELSE cost[j] > 0)'
  <2>1. /\ Near(j, IF Moved(u) THEN C \cup {i} ELSE C)
        /\ Opening /\ j = i => IF Moved(u) THEN assign[j] = j ELSE cost[j] > 0
    BY DEF Opened
  <2>2. \A c : CostAt(j, c)' = CostAt(j, c)
    BY DEF CostAt, dist
  <2>3. CostAt(j, assign[j])' = CostAt(j, assign[j])
    BY DEF CostAt, dist
  <2>4. ASSUME NEW S, Near(j, S) PROVE Near(j, S)'
    BY <2>2, <2>3, <2>4 DEF Near
  <2>5. CASE Moved(u)
    <3>1. i' = i /\ Moved(u)'
      BY <2>5
    <3>2. Near(j, C \cup {i})'
      BY <2>1, <2>2, <2>3, <2>5, <3>1 DEF Near
    <3> QED BY <2>1, <2>5, <3>1, <3>2
  <2>6. CASE ~Moved(u)
    <3>1. Near(j, C)'
      BY <2>1, <2>2, <2>3, <2>6 DEF Near
    <3>2. Opening' /\ j = i' => cost'[j] > 0
      BY <2>1, <2>6
    <3> QED BY <2>6, <3>1, <3>2
  <2> QED BY <2>5, <2>6
<1>2. k' = IF Opening' THEN Cardinality(C) + 1 ELSE Cardinality(C)
  BY DEF Opened
<1>3. Opening' => i' \in indices \ C
  BY DEF Opened
<1>4. Apart(IF Opening THEN C \cup {i} ELSE C)'
  <2>1. \A c, d : dist(c, d)' = dist(c, d)
    BY DEF dist
  <2>2. Apart(IF Opening THEN C \cup {i} ELSE C) /\ (Opening => i' = i)
    BY DEF Opened
  <2> QED BY <2>1, <2>2 DEF Apart
<1> QED BY <1>1, <1>2, <1>3, <1>4 DEF Opened

\* The points of a block move to the new center.
LEMMA OpenedMoves ==
  ASSUME Base, NEW C, Opened(C), Opening, Opening', NEW t \in pids, MoveTo(t), ~Moved(t), Moved(t)',
         \A u \in pids : u # t => (Moved(u)' <=> Moved(u))
  PROVE  Opened(C)'
<1>0. /\ C \subseteq indices /\ i \in indices \ C
      /\ \A c \in C : assign[c] = c
  BY DEF Opened
<1>1. /\ UNCHANGED <<point, k, i>>
      /\ assign' = [j \in indices |-> IF j \in Nearer(t) THEN i ELSE assign[j]]
      /\ cost' = [j \in indices |-> IF j \in Nearer(t) THEN CostAt(j, i) ELSE cost[j]]
  BY DEF MoveTo, speedyVars
<1>2. \A j, c \in indices : CostAt(j, c)' = CostAt(j, c)
  BY <1>1 DEF CostAt, dist
<1>3. \A j, c \in indices : CostAt(j, c) \in Nat /\ CostAt(j, j) = 0
  BY Distances DEF Base
<1>4. ASSUME NEW j \in Block(t)
      PROVE  /\ Near(j, C \cup {i})' /\ (j = i => assign'[j] = j)
             /\ j \in C => assign'[j] = j
  <2>1. /\ j \in indices /\ Near(j, C)
        /\ j = i => cost[j] > 0
    BY BlocksPartition DEF Opened
  <2>2. /\ assign[j] \in C /\ assign[j] \in indices /\ cost[j] = CostAt(j, assign[j])
        /\ \A c \in C : cost[j] <= CostAt(j, c)
        /\ cost[j] \in Nat
    BY <1>0, <1>3, <2>1 DEF Near
  <2>3. CASE CostAt(j, i) < cost[j]
    <3>1. assign'[j] = i /\ cost'[j] = CostAt(j, i)
      BY <1>1, <2>1, <2>3 DEF Nearer
    <3>2. \A c \in C \cup {i} : CostAt(j, i) <= CostAt(j, c)'
      <4>1. ASSUME NEW c \in C PROVE CostAt(j, i) <= CostAt(j, c)'
        <5>1. CostAt(j, c)' = CostAt(j, c) /\ CostAt(j, c) \in Nat /\ CostAt(j, i) \in Nat
          BY <1>0, <1>2, <1>3, <2>1
        <5>2. cost[j] <= CostAt(j, c)
          BY <2>2
        <5> QED BY <2>2, <2>3, <5>1, <5>2
      <4>2. CostAt(j, i) <= CostAt(j, i)'
        BY <1>0, <1>1, <1>2, <1>3, <2>1
      <4> QED BY <1>1, <4>1, <4>2
    <3>3. j \notin C
      <4>1. j \in C => cost[j] = 0
        BY <1>0, <1>3, <2>1, <2>2
      <4> QED BY <1>0, <1>3, <2>1, <2>2, <2>3, <4>1
    <3>4. CostAt(j, assign[j])' = CostAt(j, i)
      BY <1>0, <1>1, <1>2, <2>1, <3>1
    <3> QED BY <1>1, <3>1, <3>2, <3>3, <3>4 DEF Near
  <2>4. CASE ~(CostAt(j, i) < cost[j])
    <3>1. assign'[j] = assign[j] /\ cost'[j] = cost[j] /\ cost[j] <= CostAt(j, i)
      <4>1. CostAt(j, i) \in Nat
        BY <1>0, <1>3, <2>1
      <4> QED BY <1>1, <2>1, <2>2, <2>4, <4>1 DEF Nearer
    <3>2. \A c \in C \cup {i} : cost[j] <= CostAt(j, c)'
      <4>1. \A c \in C \cup {i} : c \in indices /\ cost[j] <= CostAt(j, c)
        BY <1>0, <2>2, <3>1
      <4> QED BY <1>2, <2>1, <4>1
    <3>3. j # i
      BY <1>3, <2>1, <2>2, <2>4
    <3>4. CostAt(j, assign[j])' = cost[j]
      <4>1. CostAt(j, assign[j])' = CostAt(j, assign[j])
        BY <1>2, <2>1, <2>2, <3>1
      <4> QED BY <2>2, <4>1
    <3>5. j \in C => assign'[j] = j
      BY <1>0, <3>1
    <3> QED BY <1>1, <2>2, <3>1, <3>2, <3>3, <3>4, <3>5 DEF Near
  <2> QED BY <2>3, <2>4
<1>5. ASSUME NEW u \in pids, u # t, NEW j \in Block(u)
      PROVE  /\ assign'[j] = assign[j] /\ cost'[j] = cost[j]
             /\ \A S \in SUBSET indices : Near(j, S) => Near(j, S)'
  <2>1. j \in indices /\ j \notin Block(t)
    BY <1>5, BlocksPartition
  <2>2. assign'[j] = assign[j] /\ cost'[j] = cost[j]
    BY <1>1, <2>1 DEF Nearer
  <2>3. ASSUME NEW S \in SUBSET indices, Near(j, S) PROVE Near(j, S)'
    <3>1. assign[j] \in indices /\ CostAt(j, assign[j])' = CostAt(j, assign[j])
      BY <1>2, <2>1, <2>2, <2>3 DEF Near
    <3> QED BY <1>2, <2>1, <2>2, <2>3, <3>1 DEF Near
  <2> QED BY <2>2, <2>3
<1>6. \A c \in C : assign'[c] = c
  <2> SUFFICES ASSUME NEW c \in C PROVE assign'[c] = c
    OBVIOUS
  <2>1. PICK u \in pids : c \in Block(u)
    BY <1>0, BlocksPartition
  <2> QED BY <1>0, <1>4, <1>5, <2>1
<1>7. ASSUME NEW u \in pids, NEW j \in Block(u)
      PROVE  /\ Near(j, IF Moved(u) THEN C \cup {i} ELSE C)'
             /\ (Opening /\ j = i => IF Moved(u) THEN assign[j] = j ELSE cost[j] > 0)'
  <2>1. CASE u = t
    BY <1>1, <1>4, <2>1
  <2>2. CASE u # t
    <3>1. /\ Near(j, IF Moved(u) THEN C \cup {i} ELSE C)
          /\ j = i => IF Moved(u) THEN assign[j] = j ELSE cost[j] > 0
      BY DEF Opened
    <3>2. C \cup {i} \in SUBSET indices /\ C \in SUBSET indices
      BY <1>0
    <3>3. Near(j, IF Moved(u) THEN C \cup {i} ELSE C)'
      <4>1. CASE Moved(u)
        <5>1. Near(j, C \cup {i})'
          BY <1>1, <1>5, <2>2, <3>1, <3>2, <4>1
        <5> QED BY <2>2, <4>1, <5>1
      <4>2. CASE ~Moved(u)
        <5>1. Near(j, C)'
          BY <1>5, <2>2, <3>1, <3>2, <4>2
        <5> QED BY <2>2, <4>2, <5>1
      <4> QED BY <4>1, <4>2
    <3> QED BY <1>1, <1>5, <2>2, <3>1, <3>3
  <2> QED BY <2>1, <2>2
<1>8. k' = Cardinality(C) + 1 /\ i' \in indices \ C
  BY <1>0, <1>1 DEF Opened
<1>9. Apart(IF Opening THEN C \cup {i} ELSE C)'
  <2>1. \A c, d : dist(c, d)' = dist(c, d)
    BY <1>1 DEF dist
  <2>2. Apart(C \cup {i})
    BY DEF Opened
  <2> QED BY <1>1, <2>1, <2>2 DEF Apart
<1> QED BY <1>6, <1>7, <1>8, <1>9 DEF Opened

\* Steps of thread 0 between two centers, and of the others around the wait.
LEMMA RoundGoes ==
  ASSUME Base, NEW r \in 0..2, PRound(r), NEW t \in pids, reached[t] = r, NEW l,
         GoOn(t, l) \/ (l = at[t] /\ UNCHANGED <<at, reached>>),
         UNCHANGED <<point, assign, cost, k, costs>>, i' \in Nat,
         t = 0 => l \in {"decide", "announce", "broadcast"} /\ (i < num => l # "announce"),
         t = 0 => at[0] \in {"start", "close2", "decide", "announce"},
         t = 0 => (l = "broadcast" <=> at[0] = "announce"),
         t = 0 => open' = (l = "broadcast") /\ (i' = i \/ l = "decide"),
         t # 0 => l \in {"wait", "asleep", "look", "follow"} /\ i' = i /\ open' = open,
         t # 0 => (l \in {"look", "follow"} => open) /\ (l = "follow" => i < num)
  PROVE  Base' /\ PRound(r)'
<1>0. 0 \in pids
  BY FiniteSets
<1> DEFINE A == {"start", "close2", "decide", "announce", "broadcast", "move",
                 "wait", "asleep", "look", "follow"}
           B == {"close", "sum", "follow2"}
<1>1. /\ DOMAIN at' = pids /\ reached' \in [pids -> 0..2]
      /\ at'[t] = l /\ \A u \in pids : u # t => at'[u] = at[u]
      /\ Phase(r, A, B)'
  <2>1. l \in A
    OBVIOUS
  <2>2. Phase(r, A, B)
    BY DEF PRound, RoundControl
  <2> HIDE DEF A, B
  <2>3. CASE GoOn(t, l)
    BY <2>1, <2>2, <2>3, Goes DEF Base
  <2>4. CASE l = at[t] /\ UNCHANGED <<at, reached>>
    BY <2>2, <2>4 DEF Base, Phase
  <2> QED BY <2>3, <2>4
<1>2. Base'
  BY <1>1 DEF Base, PointsOK
<1>3. /\ at[t] \in A /\ RoundControl(r)
      /\ t # 0 => at[t] \in {"wait", "asleep", "look", "follow"}
  BY Barriers DEF PRound, RoundControl
<1>4. RoundControl(r)'
  <2>1. CASE t = 0
    <3>1. \A u \in pids \ {0} : at[u] \in {"wait", "asleep"}
      BY <2>1, <1>3 DEF RoundControl
    <3>2. at'[0] \in {"decide", "announce", "broadcast"} /\ open' = (at'[0] \in {"broadcast", "move", "close", "sum"})
      BY <1>0, <1>1, <2>1
    <3>3. \A u \in pids \ {0} : at'[u] \in {"wait", "asleep"}
      BY <1>1, <2>1, <3>1
    <3> QED BY <1>1, <3>2, <3>3 DEF RoundControl
  <2>2. CASE t # 0
    <3>1. at'[0] = at[0]
      BY <1>0, <1>1, <2>2
    <3>2. /\ \A u \in pids \ {0} : at'[u] \in {"wait", "asleep", "look", "follow", "follow2", "sum"}
          /\ ~open' => \A u \in pids \ {0} : at'[u] \in {"wait", "asleep"}
      BY <1>1, <1>3, <2>2 DEF RoundControl
    <3>3. /\ \A u \in pids : at'[u] = "sum" => i' >= num
          /\ \A u \in pids : at'[u] \in {"follow", "follow2", "close", "close2"} => i' < num
      BY <1>1, <1>3, <2>2 DEF RoundControl
    <3> QED BY <1>1, <1>3, <2>2, <3>1, <3>2, <3>3 DEF RoundControl
  <2> QED BY <2>1, <2>2
<1>5. \A u \in pids : Moved(u)' <=> Moved(u)
  <2>1. ~Moved(t) /\ at'[t] \notin {"close", "follow2"}
    BY <1>1, <1>3 DEF Moved
  <2> QED BY <1>1, <2>1 DEF Moved
<1>6. Opening' <=> Opening
  <2>1. CASE t = 0
    <3>1. CASE l = "broadcast"
      BY <1>0, <1>1, <2>1, <3>1 DEF Opening
    <3>2. CASE l = "announce"
      BY <1>0, <1>1, <2>1, <3>2 DEF Opening
    <3>3. CASE l = "decide"
      BY <1>0, <1>1, <2>1, <3>3 DEF Opening
    <3> QED BY <2>1, <3>1, <3>2, <3>3
  <2>2. CASE t # 0
    BY <1>0, <1>1, <2>2 DEF Opening
  <2> QED BY <2>1, <2>2
<1>7. i' = i \/ (~Opening /\ \A u \in pids : ~Moved(u))
  <2>1. CASE t = 0 /\ l = "decide"
    <3>1. at[0] \notin {"announce", "broadcast", "move", "close"}
      BY <2>1
    <3> QED BY <1>3, <3>1, MovedOpening DEF Opening
  <2> QED BY <2>1
<1>8. PICK C : Opened(C)
  BY DEF PRound
<1>9. Opened(C)'
  BY <1>5, <1>6, <1>7, <1>8, OpenedKept
<1> QED BY <1>2, <1>4, <1>9 DEF PRound

\* Thread 0 opens a center at the point i.
LEMMA RoundOpens ==
  ASSUME Base, NEW r \in 0..2, PRound(r), 0 \in pids, reached[0] = r, at[0] = "decide",
         NEW l, l = "announce", GoOn(0, l),
         i < num, cost[i] > 0, k' = k + 1, UNCHANGED <<point, assign, cost, i, open, costs>>
  PROVE  Base' /\ PRound(r)'
<1> DEFINE A == {"start", "close2", "decide", "announce", "broadcast", "move",
                 "wait", "asleep", "look", "follow"}
           B == {"close", "sum", "follow2"}
<1>1. /\ DOMAIN at' = pids /\ reached' \in [pids -> 0..2]
      /\ at'[0] = "announce" /\ \A u \in pids : u # 0 => at'[u] = at[u]
      /\ Phase(r, A, B)'
  <2>1. l \in A
    OBVIOUS
  <2>2. Phase(r, A, B)
    BY DEF PRound, RoundControl
  <2> HIDE DEF A, B
  <2> QED BY <2>1, <2>2, Goes DEF Base
<1>2. Base'
  BY <1>1 DEF Base, PointsOK
<1>3. \A u \in pids \ {0} : at[u] \in {"wait", "asleep"}
  BY DEF PRound, RoundControl
<1>4. RoundControl(r)'
  <2>1. \A u \in pids \ {0} : at'[u] \in {"wait", "asleep"}
    BY <1>1, <1>3
  <2>2. open' = (at'[0] \in {"broadcast", "move", "close", "sum"})
    BY <1>1 DEF PRound, RoundControl
  <2> QED BY <1>1, <2>1, <2>2 DEF RoundControl
<1>5. \A u \in pids : ~Moved(u) /\ ~Moved(u)'
  BY <1>1, <1>3 DEF Moved
<1>6. ~Opening /\ Opening'
  BY <1>1 DEF Opening
<1>7. PICK C : Opened(C)
  BY DEF PRound
<1>8. i \in indices
  BY KMedianAssumption DEF indices, Base
<1>9. i \notin C
  <2> SUFFICES ASSUME i \in C PROVE FALSE
    OBVIOUS
  <2>1. PICK u \in pids : i \in Block(u)
    BY <1>8, BlocksPartition
  <2>2. Near(i, C)
    BY <1>5, <1>7, <2>1 DEF Opened
  <2>3. assign[i] = i
    BY <1>7 DEF Opened
  <2>4. cost[i] = 0
    BY <1>8, <2>2, <2>3, Distances DEF Near, Base
  <2> QED BY <2>4
<1>10. Opened(C)'
  <2>1. ASSUME NEW u \in pids, NEW j \in Block(u)
        PROVE  Near(j, C)' /\ (j = i => cost[j] > 0)
    <3>1. Near(j, C)
      BY <1>5, <1>7 DEF Opened
    <3>2. \A c : CostAt(j, c)' = CostAt(j, c)
      BY DEF CostAt, dist
    <3>3. CostAt(j, assign[j])' = CostAt(j, assign[j])
      BY DEF CostAt, dist
    <3> QED BY <3>1, <3>2, <3>3 DEF Near
  <2>2. /\ C \subseteq indices /\ IsFiniteSet(C)
        /\ \A c \in C : assign'[c] = c
        /\ k' = Cardinality(C) + 1
    BY <1>6, <1>7 DEF Opened
  <2>3. i' \in indices \ C
    BY <1>8, <1>9
  <2>4. \A u \in pids : \A j \in Block(u) :
          /\ Near(j, IF Moved(u) THEN C \cup {i} ELSE C)'
          /\ (Opening /\ j = i => IF Moved(u) THEN assign[j] = j ELSE cost[j] > 0)'
    BY <1>5, <2>1
  <2>5. Apart(IF Opening THEN C \cup {i} ELSE C)'
    <3>1. Apart(C) /\ C \subseteq indices
      BY <1>6, <1>7 DEF Opened
    <3>2. PICK u \in pids : i \in Block(u)
      BY <1>8, BlocksPartition
    <3>3. Near(i, C)
      BY <1>5, <1>7, <3>2 DEF Opened
    <3>4. ASSUME NEW c \in C PROVE dist(i, c) > 0 /\ dist(c, i) > 0
      <4>1. cost[i] <= CostAt(i, c) /\ c \in indices
        BY <3>1, <3>3 DEF Near
      <4>2. CostAt(i, c) \in Nat /\ dist(i, c) \in Nat
        BY <1>8, <4>1, Distances DEF Base
      <4>3. cost[i] \in Nat
        <5>1. assign[i] \in indices /\ cost[i] = CostAt(i, assign[i])
          BY <3>1, <3>3 DEF Near
        <5> QED BY <1>8, <5>1, Distances DEF Base
      <4>4. CostAt(i, c) # 0
        BY <4>1, <4>2, <4>3
      <4> QED BY <1>8, <4>1, <4>2, <4>4, Places DEF Base
    <3>5. Apart(C \cup {i})
      BY <3>1, <3>4 DEF Apart
    <3>6. \A c, d : dist(c, d)' = dist(c, d)
      BY DEF dist
    <3> QED BY <1>6, <3>5, <3>6 DEF Apart
  <2> QED BY <1>6, <2>2, <2>3, <2>4, <2>5 DEF Opened
<1> QED BY <1>2, <1>4, <1>10 DEF PRound

LEMMA RoundWakes ==
  ASSUME Base, NEW r \in 0..2, PRound(r), reached[0] = r, at[0] = "broadcast", WakeAll,
         UNCHANGED <<point, assign, cost, k, reached, open, i, costs>>
  PROVE  Base' /\ PRound(r)'
<1>0. 0 \in pids
  BY FiniteSets
<1> DEFINE A == {"start", "close2", "decide", "announce", "broadcast", "move",
                 "wait", "asleep", "look", "follow"}
           B == {"close", "sum", "follow2"}
<1>1. /\ DOMAIN at' = pids
      /\ \A u \in pids : at'[u] = CASE at[u] = "asleep" -> "wait"
                                    [] at[u] = "broadcast" -> "move"
                                    [] OTHER -> at[u]
  BY DEF WakeAll
<1>2. /\ at'[0] = "move"
      /\ \A u \in pids : at'[u] = at[u] \/ (at[u] = "asleep" /\ at'[u] = "wait")
                                        \/ (at[u] = "broadcast" /\ at'[u] = "move")
  BY <1>0, <1>1
<1>3. Phase(r, A, B)'
  <2>1. Phase(r, A, B)
    BY DEF PRound, RoundControl
  <2> QED BY <1>2, <2>1 DEF Phase
<1>4. Base'
  BY <1>1 DEF Base, PointsOK
<1>5. open' = (at'[0] \in {"broadcast", "move", "close", "sum"})
  BY <1>2 DEF PRound, RoundControl
<1>6. \A u \in pids \ {0} : at'[u] \in {"wait", "asleep", "look", "follow", "follow2", "sum"}
  BY <1>2 DEF PRound, RoundControl
<1>7. RoundControl(r)'
  <2>1. open'
    BY <1>2, <1>5
  <2>2. /\ \A u \in pids : at'[u] = "sum" => i' >= num
        /\ \A u \in pids : at'[u] \in {"follow", "follow2", "close", "close2"} => i' < num
    BY <1>2 DEF PRound, RoundControl
  <2> QED BY <1>2, <1>3, <1>5, <1>6, <2>1, <2>2 DEF RoundControl
<1>8. \A u \in pids : Moved(u)' <=> Moved(u)
  BY <1>2 DEF Moved
<1>9. Opening' <=> Opening
  BY <1>0, <1>2 DEF Opening
<1>10. PICK C : Opened(C)
  BY DEF PRound
<1>11. Opened(C)'
  BY <1>8, <1>9, <1>10, OpenedKept
<1> QED BY <1>4, <1>7, <1>11 DEF PRound

\* A thread reaches the barrier at the end of the round, with its points moved
\* or after the last point.
LEMMA RoundReaches ==
  ASSUME Base, NEW r \in 0..2, PRound(r), NEW t \in pids, reached[t] = r, NEW l, ReachBarrier(t, l),
         IF i < num THEN MoveTo(t) /\ l = (IF t = 0 THEN "close" ELSE "follow2")
                    ELSE l = "sum" /\ UNCHANGED <<point, assign, cost, k, i>>,
         at[t] \in {"move", "look", "follow"}, UNCHANGED <<open, costs>>
  PROVE  Base' /\ PRound(r)'
<1>0. 0 \in pids /\ (i < num \/ i >= num)
  BY FiniteSets, KMedianAssumption DEF Base
<1> DEFINE A == {"start", "close2", "decide", "announce", "broadcast", "move",
                 "wait", "asleep", "look", "follow"}
           B == {"close", "sum", "follow2"}
<1>1. /\ DOMAIN at' = pids /\ reached' \in [pids -> 0..2]
      /\ at'[t] = l /\ \A u \in pids : u # t => at'[u] = at[u]
      /\ Phase(r, A, B)'
  <2>1. l \in B
    OBVIOUS
  <2>2. Phase(r, A, B)
    BY DEF PRound, RoundControl
  <2> HIDE DEF A, B
  <2> QED BY <2>1, <2>2, Reaches DEF Base
<1>2. UNCHANGED <<point, k, i>>
  BY DEF MoveTo, speedyVars
<1>3. Base'
  BY <1>1, <1>2 DEF Base, PointsOK
<1>4. /\ open /\ open'
      /\ t = 0 <=> at[t] = "move"
      /\ at[0] \in {"broadcast", "move", "close", "sum"}
  BY <1>0 DEF PRound, RoundControl
<1>5. /\ at'[0] \in {"broadcast", "move", "close", "sum"}
      /\ at'[0] \in {"broadcast", "move", "close"} \/ ~(i < num)
      /\ \A u \in pids \ {0} : at'[u] \in {"wait", "asleep", "look", "follow", "follow2", "sum"}
  <2>1. at[0] = "sum" => ~(i < num)
    BY <1>0, KMedianAssumption DEF PRound, RoundControl, Base
  <2> QED BY <1>0, <1>1, <1>4, <2>1 DEF PRound, RoundControl
<1>6. RoundControl(r)'
  <2>1. /\ \A u \in pids : at'[u] = "sum" => i' >= num
        /\ \A u \in pids : at'[u] \in {"follow", "follow2", "close", "close2"} => i' < num
    BY <1>0, <1>1, <1>2 DEF PRound, RoundControl
  <2>2. open' = (at'[0] \in {"broadcast", "move", "close", "sum"})
    BY <1>4, <1>5 DEF PRound, RoundControl
  <2> QED BY <1>1, <1>4, <1>5, <2>1, <2>2 DEF RoundControl
<1>7. PICK C : Opened(C)
  BY DEF PRound
<1>8. Opened(C)'
  <2>1. /\ ~Moved(t) /\ \A u \in pids : u # t => (Moved(u)' <=> Moved(u))
    BY <1>1 DEF Moved
  <2>2. CASE i < num
    <3>1. MoveTo(t) /\ Moved(t)'
      BY <1>1, <2>2 DEF Moved
    <3>2. Opening /\ Opening'
      <4>1. at[0] # "sum"
        BY <1>0, <2>2, KMedianAssumption DEF PRound, RoundControl, Base
      <4> QED BY <1>2, <1>4, <1>5, <2>2, <4>1 DEF Opening
    <3> QED BY <1>7, <2>1, <3>1, <3>2, OpenedMoves
  <2>3. CASE ~(i < num)
    <3>1. UNCHANGED <<point, assign, cost, k, i>> /\ ~Moved(t)'
      BY <1>1, <2>3 DEF Moved
    <3>2. Opening' <=> Opening
      BY <2>3, <3>1 DEF Opening
    <3>3. \A u \in pids : Moved(u)' <=> Moved(u)
      BY <2>1, <3>1
    <3> QED BY <1>7, <3>1, <3>2, <3>3, OpenedKept
  <2> QED BY <2>2, <2>3
<1> QED BY <1>3, <1>6, <1>8 DEF PRound

LEMMA RoundStep ==
  ASSUME Base, NEW r \in 0..2, PRound(r), NEW t \in pids, reached[t] = r, Step(t) \/ Wake(t)
  PROVE  Base' /\ PRound(r)'
<1>0. 0 \in pids /\ i \in Nat /\ num \in Nat
  BY FiniteSets, KMedianAssumption DEF Base
<1>1. at[t] \in {"start", "close2", "decide", "announce", "broadcast", "move",
                 "wait", "asleep", "look", "follow"}
  BY Barriers DEF PRound, RoundControl
<1>2. IF t = 0 THEN at[t] \in {"start", "close2", "decide", "announce", "broadcast", "move"}
               ELSE at[t] \in {"wait", "asleep", "look", "follow"}
  BY <1>1 DEF PRound, RoundControl
<1>3. open = (at[0] \in {"broadcast", "move", "close", "sum"})
  BY DEF PRound, RoundControl
<1>4. CASE at[t] = "start"
  <2>1. Start(t) /\ t = 0
    BY <1>2, <1>4, StepAt
  <2> DEFINE l == "decide"
  <2>2. /\ GoOn(t, l) /\ UNCHANGED <<point, assign, cost, k, costs, open>> /\ i' \in Nat
        /\ l = "decide"
    BY <2>1 DEF Start
  <2> HIDE DEF l
  <2> QED BY <1>3, <1>4, <2>1, <2>2, RoundGoes
<1>5. CASE at[t] = "close2"
  <2>1. Close(t) /\ t = 0
    BY <1>2, <1>5, StepAt
  <2> DEFINE l == "decide"
  <2>2. /\ GoOn(t, l) /\ UNCHANGED <<point, assign, cost, k, costs, open>> /\ i' \in Nat
        /\ l = "decide"
    BY <1>0, <1>5, <2>1 DEF Close
  <2> HIDE DEF l
  <2> QED BY <1>3, <1>5, <2>1, <2>2, RoundGoes
<1>6. CASE at[t] = "decide"
  <2>1. (Decide(t) \/ NoMore(t)) /\ t = 0
    BY <1>2, <1>6, StepAt
  <2>2. CASE NoMore(t)
    <3> DEFINE l == "announce"
    <3>1. /\ GoOn(t, l) /\ UNCHANGED <<point, assign, cost, k, costs, open, i>> /\ ~(i < num)
          /\ l = "announce"
      BY <1>0, <2>2 DEF NoMore, speedyVars
    <3> HIDE DEF l
    <3> QED BY <1>0, <1>3, <1>6, <2>1, <3>1, RoundGoes
  <2>3. CASE Decide(t) /\ i' = i + 1
    <3> DEFINE l == "decide"
    <3>1. UNCHANGED <<k, at, reached>> /\ UNCHANGED <<point, assign, cost, costs, open>>
      BY <1>0, <2>3 DEF Decide
    <3>2. l = at[t] /\ i' \in Nat /\ l = "decide"
      BY <1>0, <1>6, <2>3
    <3> HIDE DEF l
    <3> QED BY <1>3, <1>6, <2>1, <3>1, <3>2, RoundGoes
  <2>4. CASE Decide(t) /\ i' = i
    <3> DEFINE l == "announce"
    <3>1. /\ GoOn(0, l) /\ cost[i] > 0 /\ k' = k + 1 /\ i < num
          /\ UNCHANGED <<point, assign, cost, i, open, costs>>
          /\ l = "announce"
      BY <1>0, <2>1, <2>4 DEF Decide, MayOpen
    <3> HIDE DEF l
    <3> QED BY <1>0, <1>6, <2>1, <3>1, RoundOpens
  <2>5. Decide(t) => i' = i \/ i' = i + 1
    BY DEF Decide
  <2> QED BY <2>1, <2>2, <2>3, <2>4, <2>5
<1>7. CASE at[t] = "announce"
  <2>1. Announce(t) /\ t = 0
    BY <1>2, <1>7, StepAt
  <2> DEFINE l == "broadcast"
  <2>2. /\ GoOn(t, l) /\ UNCHANGED <<point, assign, cost, k, costs, i>> /\ open' = TRUE
        /\ l = "broadcast"
    BY <2>1 DEF Announce
  <2> HIDE DEF l
  <2> QED BY <1>0, <1>7, <2>1, <2>2, RoundGoes
<1>8. CASE at[t] = "broadcast"
  <2>1. Broadcast(t) /\ t = 0
    BY <1>2, <1>8, StepAt
  <2>2. WakeAll /\ UNCHANGED <<point, assign, cost, k, reached, open, i, costs>>
    BY <2>1 DEF Broadcast, speedyVars
  <2> QED BY <1>8, <2>1, <2>2, RoundWakes
<1>9. CASE at[t] = "move"
  <2>1. Move(t) /\ t = 0
    BY <1>2, <1>9, StepAt
  <2> DEFINE l == IF i < num THEN "close" ELSE "sum"
  <2>2. /\ ReachBarrier(t, l) /\ UNCHANGED <<open, costs>>
        /\ IF i < num THEN MoveTo(t) ELSE UNCHANGED <<point, assign, cost, k, i>>
    BY <1>0, <2>1 DEF Move, MoveTo, speedyVars
  <2>3. IF i < num THEN l = (IF t = 0 THEN "close" ELSE "follow2") ELSE l = "sum"
    BY <2>1
  <2> HIDE DEF l
  <2> QED BY <1>9, <2>2, <2>3, RoundReaches
<1>10. CASE at[t] = "wait"
  <2>1. WaitOpen(t) /\ t # 0
    BY <1>2, <1>10, StepAt
  <2> DEFINE l == IF open THEN "look" ELSE "asleep"
  <2>2. /\ GoOn(t, l) /\ UNCHANGED <<point, assign, cost, k, costs, i, open>>
        /\ l \in {"look", "asleep"} /\ (l = "look" => open)
    BY <2>1 DEF WaitOpen, speedyVars
  <2> HIDE DEF l
  <2> QED BY <1>0, <2>1, <2>2, RoundGoes
<1>11. CASE at[t] = "asleep"
  <2>1. WakeWorker(t) /\ t # 0
    BY <1>2, <1>11, StepAt
  <2> DEFINE l == "wait"
  <2>2. /\ GoOn(t, l) /\ UNCHANGED <<point, assign, cost, k, costs, i, open>>
        /\ l = "wait"
    BY <2>1 DEF WakeWorker, speedyVars
  <2> HIDE DEF l
  <2> QED BY <1>0, <2>1, <2>2, RoundGoes
<1>12. CASE at[t] = "look"
  <2>1. Look(t) /\ t # 0
    BY <1>2, <1>12, StepAt
  <2>2. UNCHANGED <<point, assign, cost, k, costs, i, open>>
    BY <2>1 DEF Look, speedyVars
  <2>3. CASE i < num
    <3> DEFINE l == "follow"
    <3>1. GoOn(t, l) /\ l = "follow" /\ open
      <4>1. GoOn(t, l)
        BY <1>0, <2>1, <2>3 DEF Look
      <4>2. open
        BY <1>12, <2>1 DEF PRound, RoundControl
      <4> QED BY <4>1, <4>2
    <3> HIDE DEF l
    <3> QED BY <1>0, <2>1, <2>2, <2>3, <3>1, RoundGoes
  <2>4. CASE ~(i < num)
    <3> DEFINE l == "sum"
    <3>1. ReachBarrier(t, l) /\ l = "sum"
      BY <1>0, <2>1, <2>4 DEF Look
    <3> HIDE DEF l
    <3> QED BY <1>12, <2>1, <2>2, <2>4, <3>1, RoundReaches
  <2> QED BY <2>3, <2>4
<1>13. CASE at[t] = "follow"
  <2>1. Follow(t) /\ t # 0
    BY <1>2, <1>13, StepAt
  <2> DEFINE l == "follow2"
  <2>2. ReachBarrier(t, l) /\ MoveTo(t) /\ i < num /\ l = "follow2" /\ UNCHANGED <<open, costs>>
    BY <2>1 DEF Follow, MoveTo, speedyVars
  <2> HIDE DEF l
  <2> QED BY <1>13, <2>1, <2>2, RoundReaches
<1> QED BY <1>1, <1>4, <1>5, <1>6, <1>7, <1>8, <1>9, <1>10, <1>11, <1>12, <1>13

-----------------------------------------------------------------------------
(***************************************************************************)
(* All threads have reached the barrier, and the next phase begins.        *)
(***************************************************************************)
AllReached(r) == \A t \in pids : reached[t] = After(r)

LEMMA CentersFinite ==
  Centers \subseteq indices => IsFiniteSet(Centers) /\ Cardinality(Centers) \in Nat
BY FiniteSets, FS_Subset, FS_CardinalityType

LEMMA FirstEnds ==
  ASSUME Base, NEW r \in 0..2, PFirst(r), AllReached(r)
  PROVE  PRound(After(r))
<1>0. 0 \in pids /\ 0 \in indices
  BY FiniteSets
<1>1. \A t \in pids : at[t] = IF t = 0 THEN "start" ELSE "wait"
  BY Rounds DEF AllReached, PFirst, Phase
<1>2. RoundControl(After(r))
  <2>1. Phase(After(r), {"start", "close2", "decide", "announce", "broadcast", "move",
               "wait", "asleep", "look", "follow"}, {"close", "sum", "follow2"})
    BY <1>1, Rounds DEF AllReached, Phase
  <2>2. open = (at[0] \in {"broadcast", "move", "close", "sum"})
    <3> DEFINE S == {"broadcast", "move", "close", "sum"}
    <3>1. at[0] \notin S /\ open = FALSE
      BY <1>0, <1>1 DEF PFirst
    <3> HIDE DEF S
    <3>2. (at[0] \in S) = FALSE
      BY <3>1
    <3> QED BY <3>1, <3>2 DEF S
  <2> QED BY <1>0, <1>1, <2>1, <2>2 DEF RoundControl
<1>3. ASSUME NEW t \in pids, NEW j \in Block(t) PROVE Near(j, {0})
  <2>1. assign[j] = 0 /\ cost[j] = CostAt(j, 0) /\ j \in indices
    BY <1>1, BlocksPartition DEF PFirst
  <2>2. CostAt(j, 0) \in Nat
    BY <1>0, <2>1, Distances DEF Base
  <2> QED BY <2>1, <2>2 DEF Near
<1>4. assign[0] = 0
  BY <1>0, <1>1, BlocksPartition DEF PFirst
<1>5. k = Cardinality({0}) /\ IsFiniteSet({0})
  BY <1>0, <1>1, FS_Singleton DEF PFirst
<1>6. ~Opening /\ \A t \in pids : ~Moved(t)
  BY <1>0, <1>1 DEF Opening, Moved
<1>7. Opened({0})
  <2>1. Apart({0})
    BY DEF Apart
  <2> QED BY <1>0, <1>3, <1>4, <1>5, <1>6, <2>1 DEF Opened
<1> QED BY <1>2, <1>7 DEF PRound

\* When all points are near to the centers of C, these are the centers.
LEMMA CentersAre ==
  ASSUME NEW C \in SUBSET indices, \A c \in C : assign[c] = c,
         \A j \in indices : Near(j, C), k = Cardinality(C), Apart(C)
  PROVE  Solved
<1>1. Centers = C
  BY DEF Centers, Near
<1> QED BY <1>1 DEF Solved

LEMMA RoundEnds ==
  ASSUME Base, NEW r \in 0..2, PRound(r), AllReached(r)
  PROVE  PClose(After(r)) \/ PSum(After(r))
<1>0. 0 \in pids /\ i \in Nat /\ num \in Nat
  BY FiniteSets, KMedianAssumption DEF Base
<1>1. \A t \in pids : at[t] \in {"close", "sum", "follow2"}
  BY Rounds DEF AllReached, PRound, RoundControl, Phase
<1>2. PICK C : Opened(C)
  BY DEF PRound
<1>3. \A j \in indices : \E t \in pids : j \in Block(t)
  BY BlocksPartition
<1>4. CASE i < num
  <2>1. \A t \in pids : at[t] = IF t = 0 THEN "close" ELSE "follow2"
    BY <1>0, <1>1, <1>4 DEF PRound, RoundControl
  <2>2. Opening /\ \A t \in pids : Moved(t)
    BY <1>0, <1>4, <2>1 DEF Opening, Moved
  <2>3. /\ C \subseteq indices /\ i \in indices \ C /\ IsFiniteSet(C)
        /\ \A c \in C : assign[c] = c
        /\ k = Cardinality(C) + 1
    BY <1>2, <2>2 DEF Opened
  <2>4. \A j \in indices : Near(j, C \cup {i}) /\ (j = i => assign[j] = j)
    BY <1>2, <1>3, <2>2 DEF Opened
  <2>5. k = Cardinality(C \cup {i}) /\ Apart(C \cup {i})
    BY <1>2, <2>2, <2>3, FS_AddElement DEF Opened
  <2>6. Solved
    <3> DEFINE D == C \cup {i}
    <3>1. D \in SUBSET indices /\ (\A c \in D : assign[c] = c)
          /\ (\A j \in indices : Near(j, D)) /\ k = Cardinality(D) /\ Apart(D)
      BY <2>3, <2>4, <2>5
    <3> HIDE DEF D
    <3> QED BY <3>1, CentersAre
  <2>7. Phase(After(r), {"close", "follow2"}, {"close2", "wait"})
    BY <2>1, Rounds DEF AllReached, Phase
  <2> QED BY <1>0, <1>4, <2>1, <2>6, <2>7 DEF PClose
<1>5. CASE ~(i < num)
  <2>1. \A t \in pids : at[t] = "sum"
    BY <1>0, <1>1, <1>5 DEF PRound, RoundControl
  <2>2. ~Opening /\ \A t \in pids : ~Moved(t)
    BY <1>0, <2>1 DEF Opening, Moved
  <2>3. /\ C \in SUBSET indices
        /\ \A c \in C : assign[c] = c
        /\ k = Cardinality(C) /\ Apart(C)
    BY <1>2, <2>2 DEF Opened
  <2>4. \A j \in indices : Near(j, C)
    BY <1>2, <1>3, <2>2 DEF Opened
  <2>6. Solved
    BY <2>3, <2>4, CentersAre
  <2>7. Phase(After(r), {"sum"}, {"total"})
    BY <2>1, Rounds DEF AllReached, Phase
  <2> QED BY <2>1, <2>6, <2>7 DEF PSum
<1> QED BY <1>4, <1>5

LEMMA CloseEnds ==
  ASSUME Base, NEW r \in 0..2, PClose(r), AllReached(r)
  PROVE  PRound(After(r))
<1>0. 0 \in pids
  BY FiniteSets
<1>1. \A t \in pids : at[t] = IF t = 0 THEN "close2" ELSE "wait"
  BY <1>0, Rounds DEF AllReached, PClose, Phase
<1>2. RoundControl(After(r))
  <2>1. Phase(After(r), {"start", "close2", "decide", "announce", "broadcast", "move",
               "wait", "asleep", "look", "follow"}, {"close", "sum", "follow2"})
    BY <1>1, Rounds DEF AllReached, Phase
  <2>2. open = (at[0] \in {"broadcast", "move", "close", "sum"})
    <3> DEFINE S == {"broadcast", "move", "close", "sum"}
    <3>1. at[0] \notin S /\ open = FALSE
      BY <1>0, <1>1 DEF PClose
    <3> HIDE DEF S
    <3>2. (at[0] \in S) = FALSE
      BY <3>1
    <3> QED BY <3>1, <3>2 DEF S
  <2>3. i < num
    BY DEF PClose
  <2> QED BY <1>0, <1>1, <2>1, <2>2, <2>3 DEF RoundControl
<1>3. ~Opening /\ \A t \in pids : ~Moved(t)
  BY <1>0, <1>1 DEF Opening, Moved
<1>4. /\ Centers \subseteq indices /\ k = Cardinality(Centers) /\ Apart(Centers)
      /\ \A c \in Centers : assign[c] = c
      /\ \A j \in indices : Near(j, Centers)
  BY DEF PClose, Solved
<1>6. \A t \in pids : \A j \in Block(t) : j \in indices
  BY BlocksPartition
<1>7. Opened(Centers)
  BY <1>3, <1>4, <1>6, CentersFinite DEF Opened
<1> QED BY <1>2, <1>7 DEF PRound

LEMMA SumEnds ==
  ASSUME Base, NEW r \in 0..2, PSum(r), AllReached(r)
  PROVE  PTotal(After(r))
<1>1. \A t \in pids : at[t] = "total"
  BY Rounds DEF AllReached, PSum, Phase
<1>2. Phase(After(r), {"total"}, {"return"})
  BY <1>1, Rounds DEF AllReached, Phase
<1> QED BY <1>1, <1>2, FiniteSets DEF PTotal, PSum

LEMMA TotalEnds ==
  ASSUME Base, NEW r \in 0..2, PTotal(r), AllReached(r)
  PROVE  PReturn(After(r))
<1>1. \A t \in pids : at[t] = "return"
  BY Rounds DEF AllReached, PTotal, Phase
<1>2. Phase(After(r), {"return", "pspeedy", "select"}, {"first", "search"})
  BY <1>1, Rounds DEF AllReached, Phase
<1>3. k \in Nat
  BY CentersFinite DEF PTotal, Solved
<1> QED BY <1>1, <1>2, <1>3, FiniteSets DEF PTotal, PReturn

LEMMA ReturnEnds ==
  ASSUME Base, NEW r \in 0..2, PReturn(r), AllReached(r)
  PROVE  PFirst(After(r)) \/ PLater
<1>1. \A t \in pids : at[t] \in {"first", "search"}
  BY Rounds DEF AllReached, PReturn, Phase
<1>2. CASE k < kmin
  <2>1. \A t \in pids : at[t] = "first"
    BY <1>1, <1>2 DEF PReturn
  <2>2. Phase(After(r), {"first"}, {"start", "wait"})
    BY <2>1, Rounds DEF AllReached, Phase
  <2> QED BY <2>1, <2>2, FiniteSets DEF PFirst, PReturn
<1>3. CASE ~(k < kmin)
  <2>1. \A t \in pids : at[t] = "search"
    BY <1>1, <1>3 DEF PReturn
  <2> QED BY <2>1 DEF PLater
<1> QED BY <1>2, <1>3

LEMMA PhasesEnd ==
  ASSUME Base, NEW r \in 0..2, SomePhase(r), AllReached(r)
  PROVE  PLater \/ SomePhase(After(r))
<1>1. PBegin(r) => PHiz(After(r))
  BY Rounds DEF AllReached, PBegin, PHiz, Phase
<1>2. PHiz(r) => PSeed(After(r))
  BY Rounds DEF AllReached, PHiz, PSeed, Phase
<1>3. ASSUME PSeed(r) PROVE PFirst(After(r))
  <2>1. \A t \in pids : at[t] = "first"
    BY <1>3, Rounds DEF AllReached, PSeed, Phase
  <2>2. Phase(After(r), {"first"}, {"start", "wait"})
    BY <2>1, Rounds DEF AllReached, Phase
  <2> QED BY <1>3, <2>1, <2>2, FiniteSets DEF PFirst, PSeed
<1> QED BY <1>1, <1>2, <1>3, FirstEnds, RoundEnds, CloseEnds, SumEnds, TotalEnds, ReturnEnds
        DEF SomePhase

LEMMA PhasesStep ==
  ASSUME DOMAIN my = pids, Base, NEW r \in 0..2, SomePhase(r), NEW t \in pids, reached[t] = r,
         Step(t) \/ Wake(t)
  PROVE  Base' /\ SomePhase(r)'
BY BeginStep, HizStep, SeedStep, FirstStep, RoundStep, CloseStep, SumStep, TotalStep, ReturnStep
   DEF SomePhase

\* Whoever has reached the barrier makes no step before the others have.
LEMMA AllWait ==
  ASSUME Base, NEW r \in 0..2, SomePhase(r), NEW t \in pids, reached[t] # r, Step(t) \/ Wake(t)
  PROVE  AllReached(r) /\ reached[t] = After(r)
<1> DEFINE B == {"hiz", "seed", "first", "start", "wait", "close", "sum", "follow2", "close2",
                 "total", "return", "search"}
<1>1. ASSUME NEW A1, NEW B1, Phase(r, A1, B1), B1 \subseteq B
      PROVE  AllReached(r) /\ reached[t] = After(r)
  <2>1. reached[t] = After(r) /\ at[t] \in B
    BY <1>1, Barriers
  <2>2. Released(t)
    BY <2>1, StepAt DEF Hiz, Seed, First, Start, WaitOpen, Close, Sum1, Follow2, Total, Return, Rough
  <2> QED BY <1>1, <2>1, <2>2, Barriers DEF AllReached
<1>2. /\ {"hiz"} \subseteq B /\ {"seed"} \subseteq B /\ {"first"} \subseteq B
      /\ {"start", "wait"} \subseteq B /\ {"close", "sum", "follow2"} \subseteq B
      /\ {"close2", "wait"} \subseteq B /\ {"total"} \subseteq B /\ {"return"} \subseteq B
      /\ {"first", "search"} \subseteq B
  OBVIOUS
<1> HIDE DEF B
<1> QED BY <1>1, <1>2
        DEF SomePhase, PBegin, PHiz, PSeed, PFirst, PRound, RoundControl, PClose, PSum, PTotal, PReturn

-----------------------------------------------------------------------------
(***************************************************************************)
(* What is true of every step, and of the steps of the search.             *)
(***************************************************************************)
Steps(t, l) == ReachBarrier(t, l) \/ GoOn(t, l)

\* A step of the search leaves pspeedy's variables and the points alone.
LEMMA SearchSteps ==
  ASSUME NEW t \in pids, PLater, Step(t) \/ Wake(t)
  PROVE  /\ \E l \in {"search", "pFL", "pass", "found", "decided", "pgain", "allocate", "count",
                     "prefix", "table", "lower", "closing", "aggregate", "apply", "gained",
                     "done"} : Steps(t, l)
         /\ UNCHANGED <<point, speedyVars>>
<1> DEFINE L == {"search", "pFL", "pass", "found", "decided", "pgain", "allocate", "count",
                 "prefix", "table", "lower", "closing", "aggregate", "apply", "gained",
                 "done"}
<1>0. at[t] \in L
  BY DEF PLater
<1>1. Search(t) => (ReachBarrier(t, "pass")) /\ UNCHANGED point
  BY DEF Search, pointVars
<1>2. Pass(t) => (ReachBarrier(t, "pgain") \/ GoOn(t, "found")) /\ UNCHANGED point
  BY DEF Pass, pointVars
<1>3. EnterGain(t) => (ReachBarrier(t, "allocate")) /\ UNCHANGED point
  BY DEF EnterGain, pointVars
<1>4. Allocate(t) => (ReachBarrier(t, "count")) /\ UNCHANGED point
  BY DEF Allocate, pointVars
<1>5. Count(t) => (ReachBarrier(t, "prefix")) /\ UNCHANGED point
  BY DEF Count, pointVars
<1>6. Prefix(t) => (ReachBarrier(t, "table")) /\ UNCHANGED point
  BY DEF Prefix, pointVars
<1>7. Table(t) => (ReachBarrier(t, "lower")) /\ UNCHANGED point
  BY DEF Table, pointVars
<1>8. Lower(t) => (ReachBarrier(t, "closing")) /\ UNCHANGED point
  BY DEF Lower, pointVars
<1>9. Closing(t) => (ReachBarrier(t, "aggregate")) /\ UNCHANGED point
  BY DEF Closing, pointVars
<1>10. Aggregate(t) => (ReachBarrier(t, "apply")) /\ UNCHANGED point
  BY DEF Aggregate, pointVars
<1>11. Apply(t) => (ReachBarrier(t, "gained")) /\ UNCHANGED point
  BY DEF Apply, pointVars
<1>12. Gained(t) => (ReachBarrier(t, "allocate") \/ ReachBarrier(t, "pass")) /\ UNCHANGED point
  BY DEF Gained, pointVars
<1>13. Rough(t) => (GoOn(t, "pFL")) /\ UNCHANGED <<point, speedyVars>>
  BY DEF Rough
<1>14. Refine(t) => (GoOn(t, "pFL")) /\ UNCHANGED <<point, speedyVars>>
  BY DEF Refine
<1>15. Adjust(t) => (GoOn(t, "decided")) /\ UNCHANGED <<point, speedyVars>>
  BY DEF Adjust
<1>16. Decided(t) => (GoOn(t, "done") \/ ReachBarrier(t, "search")) /\ UNCHANGED <<point, speedyVars>>
  BY DEF Decided
<1>17. \/ /\ UNCHANGED speedyVars
         /\ \/ Search(t) \/ Pass(t) \/ EnterGain(t) \/ Allocate(t) \/ Count(t) \/ Prefix(t)
            \/ Table(t) \/ Lower(t) \/ Closing(t) \/ Aggregate(t) \/ Apply(t) \/ Gained(t)
      \/ Rough(t) \/ Refine(t) \/ Adjust(t) \/ Decided(t)
  BY <1>0, StepAt
<1>18. UNCHANGED <<point, speedyVars>>
  BY <1>17, <1>1, <1>2, <1>3, <1>4, <1>5, <1>6, <1>7, <1>8, <1>9, <1>10, <1>11, <1>12, <1>13, <1>14, <1>15, <1>16
<1>19. \/ ReachBarrier(t, "search") \/ ReachBarrier(t, "pass") \/ ReachBarrier(t, "pgain")
      \/ ReachBarrier(t, "allocate") \/ ReachBarrier(t, "count") \/ ReachBarrier(t, "prefix")
      \/ ReachBarrier(t, "table") \/ ReachBarrier(t, "lower") \/ ReachBarrier(t, "closing")
      \/ ReachBarrier(t, "aggregate") \/ ReachBarrier(t, "apply") \/ ReachBarrier(t, "gained")
      \/ GoOn(t, "pFL") \/ GoOn(t, "found") \/ GoOn(t, "decided") \/ GoOn(t, "done")
  BY <1>17, <1>1, <1>2, <1>3, <1>4, <1>5, <1>6, <1>7, <1>8, <1>9, <1>10, <1>11, <1>12, <1>13, <1>14, <1>15, <1>16
<1> QED BY <1>18, <1>19 DEF Steps

LEMMA LaterStep ==
  ASSUME Base, PLater, NEW t \in pids, Step(t) \/ Wake(t)
  PROVE  Base' /\ PLater'
<1>1. UNCHANGED <<point, i, costs>>
  BY SearchSteps DEF speedyVars
<1> DEFINE L == {"search", "pFL", "pass", "found", "decided", "pgain", "allocate", "count",
                 "prefix", "table", "lower", "closing", "aggregate", "apply", "gained",
                 "done"}
<1>2. PICK l \in L : Steps(t, l)
  BY SearchSteps
<1>3. /\ DOMAIN at' = pids /\ reached' \in [pids -> 0..2]
      /\ \A u \in pids : at'[u] = at[u] \/ at'[u] = l
  BY <1>2 DEF Steps, ReachBarrier, GoOn, Base
<1>4. \A u \in pids : at'[u] \in L
  BY <1>3 DEF PLater
<1>5. PLater'
  BY <1>4 DEF PLater
<1> QED BY <1>1, <1>3, <1>5 DEF Base, PointsOK

\* No step takes away what a thread has.
LEMMA ShapeStays ==
  ASSUME HasShape, NEW t \in pids, Step(t) \/ Wake(t)
  PROVE  HasShape'
<1> DEFINE HasLocals(f) == DOMAIN f = pids /\ \A u \in pids : DOMAIN f[u] = Fields
           HasRows(f) == DOMAIN f = pids /\ \A u \in pids : DOMAIN f[u] = columns
<1>0. HasLocals(my) /\ HasRows(work_mem) /\ DOMAIN hizs = pids
  BY DEF HasShape
<1>1. Begin(t) => UNCHANGED my /\ UNCHANGED work_mem /\ DOMAIN hizs' = pids
  BY <1>0 DEF Begin, gainVars
<1>2. Hiz(t) => UNCHANGED my /\ UNCHANGED work_mem /\ DOMAIN hizs' = pids
  BY <1>0 DEF Hiz, gainVars
<1>3. Seed(t) => HasLocals(my') /\ UNCHANGED work_mem /\ DOMAIN hizs' = pids
  BY <1>0 DEF Seed, gainVars
<1>4. Return(t) => HasLocals(my') /\ UNCHANGED work_mem /\ DOMAIN hizs' = pids
  BY <1>0 DEF Return, gainVars
<1>5. Select(t) => UNCHANGED my /\ UNCHANGED work_mem /\ DOMAIN hizs' = pids
  BY <1>0 DEF Select, gainVars
<1>6. Rough(t) => HasLocals(my') /\ UNCHANGED work_mem /\ DOMAIN hizs' = pids
  BY <1>0 DEF Rough, gainVars
<1>7. Refine(t) => HasLocals(my') /\ UNCHANGED work_mem /\ DOMAIN hizs' = pids
  BY <1>0 DEF Refine, gainVars
<1>8. Adjust(t) => HasLocals(my') /\ UNCHANGED work_mem /\ DOMAIN hizs' = pids
  BY <1>0 DEF Adjust, Bounds, gainVars
<1>9. Decided(t) => UNCHANGED my /\ UNCHANGED work_mem /\ DOMAIN hizs' = pids
  BY <1>0 DEF Decided, gainVars
<1>10. Enter(t) => UNCHANGED my
  BY <1>0 DEF Enter
<1>11. First(t) => UNCHANGED my
  BY <1>0 DEF First
<1>12. Start(t) => UNCHANGED my
  BY <1>0 DEF Start
<1>13. Decide(t) => UNCHANGED my
  BY <1>0 DEF Decide
<1>14. NoMore(t) => UNCHANGED my
  BY <1>0 DEF NoMore
<1>15. Announce(t) => UNCHANGED my
  BY <1>0 DEF Announce
<1>16. Broadcast(t) => UNCHANGED my
  BY <1>0 DEF Broadcast
<1>17. Move(t) => UNCHANGED my
  BY <1>0 DEF Move, MoveTo
<1>18. Close(t) => UNCHANGED my
  BY <1>0 DEF Close
<1>19. WaitOpen(t) => UNCHANGED my
  BY <1>0 DEF WaitOpen
<1>20. WakeWorker(t) => UNCHANGED my
  BY <1>0 DEF WakeWorker
<1>21. Look(t) => UNCHANGED my
  BY <1>0 DEF Look
<1>22. Follow(t) => UNCHANGED my
  BY <1>0 DEF Follow, MoveTo
<1>23. Follow2(t) => UNCHANGED my
  BY <1>0 DEF Follow2
<1>24. Sum1(t) => UNCHANGED my
  BY <1>0 DEF Sum1
<1>25. Total(t) => UNCHANGED my
  BY <1>0 DEF Total
<1>26. Search(t) => HasLocals(my') /\ UNCHANGED work_mem
  BY <1>0 DEF Search, gainVars
<1>27. Pass(t) => HasLocals(my') /\ UNCHANGED work_mem
  BY <1>0 DEF Pass, gainVars
<1>28. EnterGain(t) => UNCHANGED my /\ UNCHANGED work_mem
  BY <1>0 DEF EnterGain, gainVars
<1>29. Allocate(t) => HasLocals(my') /\ UNCHANGED work_mem
  BY <1>0 DEF Allocate, gainVars
<1>30. Count(t) => UNCHANGED my /\ HasRows(work_mem')
  BY <1>0 DEF Count, gainVars
<1>31. Prefix(t) => UNCHANGED my /\ HasRows(work_mem')
  BY <1>0 DEF Prefix, gainVars
<1>32. Table(t) => UNCHANGED my /\ HasRows(work_mem')
  BY <1>0 DEF Table, emptyRow, gainVars
<1>33. Lower(t) => HasLocals(my') /\ HasRows(work_mem')
  BY <1>0 DEF Lower, gainVars
<1>34. Closing(t) => HasLocals(my') /\ HasRows(work_mem')
  BY <1>0 DEF Closing, gainVars
<1>35. Aggregate(t) => UNCHANGED my /\ UNCHANGED work_mem
  BY <1>0 DEF Aggregate, gainVars
<1>36. Apply(t) => UNCHANGED my /\ UNCHANGED work_mem
  BY <1>0 DEF Apply, gainVars
<1>37. Gained(t) => HasLocals(my') /\ HasRows(work_mem')
  BY <1>0 DEF Gained, emptyRow, gainVars
<1>38. HasLocals(my') /\ HasRows(work_mem') /\ DOMAIN hizs' = pids
  <2> HIDE DEF HasLocals, HasRows
  <2>1. UNCHANGED <<gainVars, hizs, kfinal>> => UNCHANGED <<work_mem, hizs>>
    BY DEF gainVars
  <2>2. UNCHANGED my => (HasLocals(my') <=> HasLocals(my))
    OBVIOUS
  <2>3. UNCHANGED work_mem => (HasRows(work_mem') <=> HasRows(work_mem))
    OBVIOUS
  <2> QED BY <1>0, <2>1, <2>2, <2>3, StepAt, <1>1, <1>2, <1>3, <1>4, <1>5, <1>6, <1>7, <1>8, <1>9, <1>10, <1>11, <1>12, <1>13, <1>14, <1>15, <1>16, <1>17, <1>18, <1>19, <1>20, <1>21, <1>22, <1>23, <1>24, <1>25, <1>26, <1>27, <1>28, <1>29, <1>30, <1>31, <1>32, <1>33, <1>34, <1>35, <1>36, <1>37
<1> QED BY <1>38 DEF HasShape

-----------------------------------------------------------------------------
(***************************************************************************)
(* The invariant of the phases.                                            *)
(***************************************************************************)
LEMMA PhaseInvInit == pkmedianInit => PhaseInv
<1> SUFFICES ASSUME pkmedianInit PROVE PhaseInv
  OBVIOUS
<1>1. PointsOK
  BY KMedianAssumption DEF pkmedianInit, PointsOK
<1>2. Base /\ HasShape
  BY <1>1 DEF pkmedianInit, speedyInit, gainInit, emptyRow, Base, HasShape, Fields
<1>3. PBegin(0)
  BY DEF pkmedianInit, speedyInit, PBegin, Phase
<1>4. 0 \in 0..2
  OBVIOUS
<1> QED BY <1>2, <1>3, <1>4 DEF PhaseInv, SomePhase

\* Who makes a step is in a phase and has not reached the barrier at its end.
LEMMA NowIn ==
  ASSUME PhaseInv, NEW t \in pids, Step(t) \/ Wake(t)
  PROVE  PLater \/ \E r \in 0..2 : SomePhase(r) /\ reached[t] = r
<1>0. Base
  BY DEF PhaseInv
<1> SUFFICES ASSUME NEW r \in 0..2, SomePhase(r), reached[t] # r
             PROVE  PLater \/ \E q \in 0..2 : SomePhase(q) /\ reached[t] = q
  BY DEF PhaseInv
<1>1. AllReached(r) /\ reached[t] = After(r)
  BY <1>0, AllWait
<1>2. After(r) \in 0..2
  BY Rounds
<1>3. PLater \/ SomePhase(After(r))
  BY <1>0, <1>1, PhasesEnd
<1>4. PICK q \in 0..2 : q = After(r)
  BY <1>2
<1> QED BY <1>1, <1>3, <1>4

LEMMA PhaseInvNext == PhaseInv /\ [KMedianNext]_medianVars => PhaseInv'
<1> SUFFICES ASSUME PhaseInv, [KMedianNext]_medianVars PROVE PhaseInv'
  OBVIOUS
<1>1. CASE UNCHANGED medianVars
  <2>1. UNCHANGED <<point, assign, cost, k, at, my, reached, open, i, costs, totalcost>>
    BY <1>1 DEF medianVars, facilityVars, speedyVars
  <2>10. HasShape'
    BY <1>1 DEF PhaseInv, HasShape, medianVars, facilityVars, gainVars
  <2>2. Base' <=> Base
    BY <2>1 DEF Base, PointsOK
  <2>3. \A r, A, B : Phase(r, A, B)' <=> Phase(r, A, B)
    BY <2>1 DEF Phase
  <2>4. Solved => Solved'
    BY <2>1, SolvedKept
  <2>5. \A C : Opened(C) => Opened(C)'
    <3>1. (Opening' <=> Opening) /\ \A t \in pids : Moved(t)' <=> Moved(t)
      BY <2>1 DEF Opening, Moved
    <3> QED BY <2>1, <3>1, OpenedKept
  <2>6. \A t, j : CostAt(j, t)' = CostAt(j, t)
    BY <2>1 DEF CostAt, dist
  <2>7. TotalCost' = TotalCost
    BY <2>1 DEF TotalCost
  <2>8. PLater => PLater'
    BY <2>1 DEF PLater
  <2>9. ASSUME NEW r \in 0..2, SomePhase(r) PROVE SomePhase(r)'
    <3>1. (PBegin(r) => PBegin(r)') /\ (PHiz(r) => PHiz(r)') /\ (PSeed(r) => PSeed(r)')
      BY <2>1, <2>3 DEF PBegin, PHiz, PSeed
    <3>2. PFirst(r) => PFirst(r)'
      BY <2>1, <2>3, <2>6 DEF PFirst
    <3>3. PRound(r) => PRound(r)'
      <4>1. RoundControl(r) => RoundControl(r)'
        BY <2>1, <2>3 DEF RoundControl
      <4> QED BY <2>5, <4>1 DEF PRound
    <3>4. PClose(r) => PClose(r)'
      BY <2>1, <2>3, <2>4 DEF PClose
    <3>5. PSum(r) => PSum(r)'
      BY <2>1, <2>3, <2>4 DEF PSum
    <3>6. PTotal(r) => PTotal(r)'
      BY <2>1, <2>3, <2>4, <2>7 DEF PTotal
    <3>7. PReturn(r) => PReturn(r)'
      BY <2>1, <2>3, <2>4, <2>7 DEF PReturn
    <3> QED BY <2>9, <3>1, <3>2, <3>3, <3>4, <3>5, <3>6, <3>7 DEF SomePhase
  <2> QED BY <2>2, <2>8, <2>9, <2>10 DEF PhaseInv
<1>2. ASSUME NEW t \in pids, Step(t) \/ Wake(t) PROVE PhaseInv'
  <2>0. Base /\ DOMAIN my = pids /\ HasShape'
    BY <1>2, ShapeStays DEF PhaseInv, HasShape
  <2>1. CASE PLater
    BY <1>2, <2>0, <2>1, LaterStep DEF PhaseInv
  <2>2. ASSUME NEW r \in 0..2, SomePhase(r), reached[t] = r PROVE PhaseInv'
    BY <1>2, <2>0, <2>2, PhasesStep DEF PhaseInv
  <2> QED BY <1>2, <2>1, <2>2, NowIn
<1> QED BY <1>1, <1>2 DEF KMedianNext

\* All threads at the return of pspeedy know the solution.
LEMMA ReturnSolved ==
  ASSUME PhaseInv, AllAt("return")
  PROVE  Solved /\ totalcost = my[0].z * k + TotalCost
<1>0. at[0] = "return" /\ \A t \in pids : at[t] = "return"
  BY FiniteSets DEF AllAt
<1>1. ~PLater
  BY <1>0, FiniteSets DEF PLater
<1>2. PICK r \in 0..2 : SomePhase(r)
  BY <1>1 DEF PhaseInv
<1>3. PTotal(r) \/ PReturn(r)
  BY <1>0, <1>2, FiniteSets
     DEF SomePhase, PBegin, PHiz, PSeed, PFirst, PRound, RoundControl, PClose, PSum, Phase
<1> QED BY <1>0, <1>3 DEF PTotal, PReturn

\* pspeedy's solution is exact: every point is with the nearest of the centers
\* that were opened, these are counted, and the cost is that of this solution,
\* whatever the number of threads and however they sleep, look and follow.
THEOREM NearestIsFound == KMedianSpec => []NearestCenter
<1>1. PhaseInv => NearestCenter
  <2> SUFFICES ASSUME PhaseInv, AllAt("return")
               PROVE  /\ CostsMatch
                      /\ \A j \in indices, c \in Centers : cost[j] <= CostAt(j, c)
                      /\ k = Cardinality(Centers)
                      /\ totalcost = my[0].z * k + TotalCost
    BY DEF NearestCenter
  <2> QED BY ReturnSolved DEF Solved, Near, CostsMatch
<1> QED BY <1>1, PhaseInvInit, PhaseInvNext, PTL DEF KMedianSpec

-----------------------------------------------------------------------------
(***************************************************************************)
(* The local variables up to the first solution: all threads have the same *)
(* price of a center and take the same way out of pspeedy.                 *)
(***************************************************************************)
\* Thread t has the values of m, those of pgain's columns aside.
Like(t, m) ==
  /\ my[t].z = m.z /\ my[t].hiz = m.hiz /\ my[t].loz = m.loz
  /\ my[t].cost = m.cost /\ my[t].change = m.change
  /\ my[t].e = m.e /\ my[t].i = m.i /\ my[t].tries = m.tries

Zero == [z |-> 0, hiz |-> 0, loz |-> 0, cost |-> 0, change |-> 0,
         e |-> 0, i |-> 0, K |-> 0, opening |-> 0, tries |-> 0]

Seeded(h) == [Zero EXCEPT !.hiz = h, !.z = Middle(0, h)]

\* What pkmedian goes on with when pspeedy has returned.
Returned(m) ==
  IF k >= kmin THEN [m EXCEPT !.cost = totalcost, !.tries = 0]
  ELSE IF m.tries = 0 THEN [m EXCEPT !.cost = totalcost, !.tries = 1]
  ELSE [m EXCEPT !.cost = totalcost, !.hiz = m.z, !.z = Middle(m.loz, m.z)]

\* All points are at the same place.
Coincide == \A j, c \in indices : dist(j, c) = 0

\* A center has a positive price, unless there is only one place for it.
FirstPrice(m) ==
  /\ m \in Locals /\ m.loz = 0 /\ m.z >= 0
  /\ (m.z > 0 /\ m.hiz > 0) \/ Coincide

NoCenters == \A j \in indices : is_center[j] = FALSE

HizOf(t) == SumFunction([j \in Block(t) |-> CostAt(j, 0)])

EarlyFresh ==
  /\ \A t \in pids : at[t] \in {"begin", "hiz", "seed"} /\ Like(t, Zero)
  /\ \A t \in pids : at[t] = "seed" => hizs[t] = HizOf(t)
  /\ NoCenters

EarlySeed(m) ==
  /\ FirstPrice(m) /\ m = Seeded(SumFunctionOnSet(hizs, pids))
  /\ \A t \in pids : \/ at[t] = "seed" /\ Like(t, Zero)
                     \/ at[t] \in {"pspeedy", "first"} /\ Like(t, m)
  /\ NoCenters

RunLabels == {"pspeedy", "first", "start", "decide", "announce", "broadcast", "move", "close",
              "close2", "wait", "asleep", "look", "follow", "follow2", "sum", "total", "return"}

EarlyRun(m) ==
  /\ FirstPrice(m)
  /\ \A t \in pids : at[t] \in RunLabels /\ Like(t, m)
  /\ \A t, u \in pids : at[t] = "return" => at[u] \notin {"pspeedy", "first"}
  /\ NoCenters

Feasible == feasible \in Seq(indices) /\ Len(feasible) > 0

EarlyReturn(r, m) ==
  /\ FirstPrice(m)
  /\ Phase(r, {"return", "pspeedy", "select"}, {"first", "search"})
  /\ \A t \in pids : \/ at[t] = "return" /\ Like(t, m)
                     \/ at[t] \in {"pspeedy", "first", "select", "search"} /\ Like(t, Returned(m))
  /\ \A t \in pids : IF k < kmin THEN at[t] \notin {"select", "search"}
                                 ELSE at[t] \notin {"pspeedy", "first"}
  /\ totalcost \in Int /\ k \in Nat
  /\ k >= kmin => Solved /\ totalcost = m.z * k + TotalCost
  /\ IF at[0] = "search"
       THEN Feasible /\ \A j \in indices : is_center[j] <=> j \in Centers
       ELSE NoCenters

Early ==
  \/ EarlyFresh
  \/ \E m : EarlySeed(m) \/ EarlyRun(m) \/ \E r \in 0..2 : EarlyReturn(r, m)

-----------------------------------------------------------------------------
\* Where the others are when a thread makes a step.
LEMMA Together ==
  ASSUME PhaseInv, NEW t \in pids, Step(t) \/ Wake(t)
  PROVE  /\ at[t] = "seed" => \A u \in pids : at[u] \in {"seed", "pspeedy", "first"}
         /\ at[t] = "first" => \A u \in pids : at[u] \in {"first", "start", "wait"}
         /\ at[t] = "total" => \A u \in pids : at[u] \in {"total", "return"}
         /\ at[t] = "return" => \E r \in 0..2 : reached[t] = r /\ PReturn(r)
<1>1. CASE PLater
  <2>1. at[t] \notin {"seed", "first", "total", "return"}
    BY <1>1 DEF PLater
  <2> QED BY <2>1
<1>2. ASSUME NEW r \in 0..2, SomePhase(r), reached[t] = r
      PROVE  /\ at[t] = "seed" => \A u \in pids : at[u] \in {"seed", "pspeedy", "first"}
             /\ at[t] = "first" => \A u \in pids : at[u] \in {"first", "start", "wait"}
             /\ at[t] = "total" => \A u \in pids : at[u] \in {"total", "return"}
             /\ at[t] = "return" => PReturn(r)
  <2>1. r # After(r)
    BY Rounds
  <2>2. PBegin(r) \/ PHiz(r) => at[t] \in {"begin", "hiz"}
    BY <1>2, <2>1 DEF PBegin, PHiz, Phase
  <2>3. PSeed(r) => at[t] \in {"seed", "pspeedy"} /\ \A u \in pids : at[u] \in {"seed", "pspeedy", "first"}
    BY <1>2, <2>1 DEF PSeed, Phase
  <2>4. PFirst(r) => at[t] = "first" /\ \A u \in pids : at[u] \in {"first", "start", "wait"}
    BY <1>2, <2>1 DEF PFirst, Phase
  <2>5. PRound(r) => at[t] \in {"start", "close2", "decide", "announce", "broadcast", "move",
                                "wait", "asleep", "look", "follow"}
    BY <1>2, <2>1 DEF PRound, RoundControl, Phase
  <2>6. PClose(r) \/ PSum(r) => at[t] \in {"close", "follow2", "sum"}
    BY <1>2, <2>1 DEF PClose, PSum, Phase
  <2>7. PTotal(r) => at[t] = "total" /\ \A u \in pids : at[u] \in {"total", "return"}
    BY <1>2, <2>1 DEF PTotal, Phase
  <2>8. PReturn(r) => at[t] \in {"return", "pspeedy", "select"}
    BY <1>2, <2>1 DEF PReturn, Phase
  <2> QED BY <1>2, <2>2, <2>3, <2>4, <2>5, <2>6, <2>7, <2>8 DEF SomePhase
<1> QED BY <1>1, <1>2, NowIn

\* Points are put into another order.
LEMMA CoincideStays ==
  ASSUME PointsOK, Coincide, UNCHANGED point \/ shuffled(point')
  PROVE  Coincide'
<1>1. CASE UNCHANGED point
  BY <1>1 DEF Coincide, dist
<1>2. CASE shuffled(point')
  <2>1. PICK f \in Bijection(indices, indices) : point' = [j \in indices |-> point[f[j]]]
    BY <1>2 DEF shuffled
  <2>2. f \in [indices -> indices]
    BY DEF Bijection, Injection
  <2>3. ASSUME NEW j \in indices, NEW c \in indices
        PROVE  dist(j, c)' = 0
    <3>1. f[j] \in indices /\ f[c] \in indices /\ point'[j] = point[f[j]] /\ point'[c] = point[f[c]]
      BY <2>1, <2>2
    <3>2. dist(j, c)' = dist(f[j], f[c])
      BY <3>1 DEF dist
    <3> QED BY <3>1, <3>2 DEF Coincide
  <2> QED BY <2>3 DEF Coincide
<1> QED BY <1>1, <1>2

\* A single center costs nothing only if all points are at its place.
LEMMA SeedPrice ==
  ASSUME PointsOK, \A t \in pids : hizs[t] = HizOf(t)
  PROVE  FirstPrice(Seeded(SumFunctionOnSet(hizs, pids)))
<1> DEFINE f == [j \in indices |-> CostAt(j, 0)]
<1>0. IsFiniteSet(indices) /\ 0 \in indices
  BY FiniteSets
<1>1. \A j \in indices : f[j] \in Nat
  BY <1>0, Distances
<1>2. ASSUME NEW t \in pids PROVE hizs[t] = SumFunctionOnSet(f, Block(t))
  <2>1. Block(t) \subseteq indices /\ IsFiniteSet(Block(t))
    BY BlocksPartition
  <2>2. \A j \in Block(t) : f[j] \in Int
    BY <1>1, <2>1
  <2>3. [j \in Block(t) |-> CostAt(j, 0)] = [j \in Block(t) |-> f[j]]
    BY <2>1
  <2> HIDE DEF f
  <2>4. SumFunction([j \in Block(t) |-> f[j]]) = SumFunctionOnSet(f, Block(t))
    BY <2>1, <2>2, SumOfDefined
  <2> QED BY <2>3, <2>4 DEF HizOf
<1>3. PICK h : h = SumFunctionOnSet(hizs, pids)
  OBVIOUS
<1>4. h = SumFunctionOnSet(f, indices)
  <2> HIDE DEF f
  <2>1. \A j \in indices : f[j] \in Int
    BY <1>1
  <2> QED BY <1>2, <1>3, <2>1, SumByBlocks
<1>5. h \in Nat /\ \A j \in indices : f[j] <= h
  <2> HIDE DEF f
  <2> QED BY <1>0, <1>1, <1>4, SumNatural
<1>6. h > 0 \/ Coincide
  <2> SUFFICES ASSUME h = 0 PROVE Coincide
    BY <1>5
  <2>1. \A j \in indices : dist(j, 0) = 0
    <3> SUFFICES ASSUME NEW j \in indices PROVE dist(j, 0) = 0
      OBVIOUS
    <3>1. f[j] = 0
      <4> HIDE DEF f
      <4> QED BY <1>1, <1>5
    <3> QED BY <1>0, <3>1, Places
  <2>2. ASSUME NEW j \in indices, NEW c \in indices PROVE dist(j, c) = 0
    <3>1. dist(j, c) = dist(j, 0)
      BY <1>0, <2>1, SamePlace
    <3> QED BY <2>1, <3>1
  <2> QED BY <2>2 DEF Coincide
<1>7. Middle(0, h) \in Nat /\ (h > 0 => Middle(0, h) > 0)
  BY <1>5 DEF Middle
<1>8. PICK s : s = Seeded(h)
  OBVIOUS
<1>9. s \in Locals /\ s.loz = 0 /\ s.z = Middle(0, h) /\ s.hiz = h
  <2>1. PICK z \in Nat : z = Middle(0, h)
    BY <1>7
  <2>2. s = [z |-> z, hiz |-> h, loz |-> 0, cost |-> 0, change |-> 0,
             e |-> 0, i |-> 0, K |-> 0, opening |-> 0, tries |-> 0]
    BY <1>8, <2>1 DEF Seeded, Zero
  <2> QED BY <1>5, <2>1, <2>2 DEF Locals
<1> QED BY <1>3, <1>5, <1>6, <1>7, <1>8, <1>9 DEF FirstPrice

-----------------------------------------------------------------------------
\* What a step of thread t leaves of the others' local variables.
LEMMA LikeOthers ==
  ASSUME NEW m, NEW t \in pids, \A u \in pids : u # t => my'[u] = my[u]
  PROVE  \A u \in pids : u # t => (Like(u, m)' <=> Like(u, m))
BY DEF Like

LEMMA LikeStays ==
  ASSUME NEW m, UNCHANGED my
  PROVE  \A u \in pids : Like(u, m)' <=> Like(u, m)
BY DEF Like

LEMMA PriceStays ==
  ASSUME PointsOK, NEW m, FirstPrice(m), UNCHANGED point \/ shuffled(point')
  PROVE  FirstPrice(m)'
BY CoincideStays DEF FirstPrice

LEMMA FreshStep ==
  ASSUME PhaseInv, EarlyFresh, NEW t \in pids, Step(t) \/ Wake(t)
  PROVE  Early'
<1>0. HasShape /\ PointsOK /\ DOMAIN at = pids
  BY DEF PhaseInv, Base
<1>1. at[t] \in {"begin", "hiz", "seed"}
  BY DEF EarlyFresh
<1>2. CASE at[t] = "begin"
  <2>1. Begin(t)
    BY <1>2, StepAt
  <2>2. UNCHANGED <<my, hizs, point, is_center>> /\ at' = [at EXCEPT ![t] = "hiz"]
    BY <2>1 DEF Begin, gainVars, ReachBarrier
  <2>3. \A u \in pids : HizOf(u)' = HizOf(u)
    BY <2>2 DEF HizOf, CostAt, dist
  <2>4. EarlyFresh'
    BY <1>0, <2>2, <2>3, LikeStays DEF EarlyFresh, NoCenters
  <2> QED BY <2>4 DEF Early
<1>3. CASE at[t] = "hiz"
  <2>1. Hiz(t)
    BY <1>3, StepAt
  <2>2. /\ UNCHANGED <<my, point, is_center>> /\ at' = [at EXCEPT ![t] = "seed"]
        /\ hizs' = [hizs EXCEPT ![t] = HizOf(t)]
    BY <2>1 DEF Hiz, gainVars, ReachBarrier, HizOf
  <2>3. \A u \in pids : HizOf(u)' = HizOf(u)
    BY <2>2 DEF HizOf, CostAt, dist
  <2>4. \A u \in pids : at'[u] = "seed" => hizs'[u] = HizOf(u)
    BY <1>0, <2>2 DEF EarlyFresh, HasShape
  <2>5. EarlyFresh'
    BY <1>0, <2>2, <2>3, <2>4, LikeStays DEF EarlyFresh, NoCenters
  <2> QED BY <2>5 DEF Early
<1>4. CASE at[t] = "seed"
  <2>1. Seed(t)
    BY <1>4, StepAt
  <2>2. PICK h : h = SumFunctionOnSet(hizs, pids)
    OBVIOUS
  <2>3. PICK m : m = Seeded(h)
    OBVIOUS
  <2>4. \A u \in pids : at[u] = "seed" /\ hizs[u] = HizOf(u)
    BY <1>4, Together DEF EarlyFresh
  <2>5. FirstPrice(m)
    BY <1>0, <2>2, <2>3, <2>4, SeedPrice
  <2>6. /\ my' = [my EXCEPT ![t].hiz = h, ![t].z = Middle(my[t].loz, h)]
        /\ UNCHANGED hizs /\ at' = [at EXCEPT ![t] = "pspeedy"] /\ UNCHANGED is_center
        /\ UNCHANGED point \/ shuffled(point')
    BY <2>1, <2>2 DEF Seed, gainVars, GoOn
  <2>7. /\ m.hiz = h /\ m.z = Middle(0, h) /\ m.loz = 0 /\ m.cost = 0 /\ m.change = 0
        /\ m.e = 0 /\ m.i = 0 /\ m.tries = 0
    BY <2>3 DEF Seeded, Zero
  <2>8. Like(t, m)'
    <3>1. Like(t, Zero) /\ DOMAIN my = pids /\ DOMAIN my[t] = Fields
      BY <1>0 DEF EarlyFresh, HasShape
    <3>2. /\ my[t].hiz = 0 /\ my[t].z = 0 /\ my[t].loz = 0 /\ my[t].cost = 0 /\ my[t].change = 0
          /\ my[t].e = 0 /\ my[t].i = 0 /\ my[t].tries = 0
      BY <3>1 DEF Like, Zero
    <3>3. /\ my'[t].hiz = h /\ my'[t].z = Middle(0, h) /\ my'[t].loz = 0 /\ my'[t].cost = 0
          /\ my'[t].change = 0 /\ my'[t].e = 0 /\ my'[t].i = 0 /\ my'[t].tries = 0
      BY <2>6, <3>1, <3>2 DEF Fields
    <3> QED BY <2>7, <3>3 DEF Like
  <2>9. \A u \in pids : u # t => Like(u, Zero)' /\ at'[u] = "seed"
    <3>1. \A u \in pids : u # t => my'[u] = my[u]
      BY <1>0, <2>6 DEF HasShape
    <3>2. \A u \in pids : Like(u, Zero)
      BY DEF EarlyFresh
    <3>3. \A u \in pids : u # t => at'[u] = "seed"
      BY <1>0, <2>4, <2>6
    <3> QED BY <3>1, <3>2, <3>3, LikeOthers
  <2>10. FirstPrice(m)' /\ m = Seeded(SumFunctionOnSet(hizs, pids))'
    BY <1>0, <2>2, <2>3, <2>5, <2>6, PriceStays DEF Seeded
  <2>11. at'[t] = "pspeedy"
    BY <1>0, <2>6
  <2>12. EarlySeed(m)'
    BY <2>6, <2>8, <2>9, <2>10, <2>11 DEF EarlySeed, EarlyFresh, NoCenters
  <2> QED BY <2>12 DEF Early
<1> QED BY <1>1, <1>2, <1>3, <1>4

\* A step of pspeedy leaves the local variables and those of the search alone.
LEMMA RunSteps ==
  ASSUME NEW t \in pids, Step(t) \/ Wake(t), at[t] \in RunLabels \ {"return"}
  PROVE  /\ UNCHANGED <<point, my, is_center, hizs>>
         /\ \/ UNCHANGED at \/ WakeAll
            \/ at[t] = "pspeedy" /\ at' = [at EXCEPT ![t] = "first"]
            \/ at[t] = "total" /\ at' = [at EXCEPT ![t] = "return"]
            \/ \E l \in RunLabels \ {"pspeedy", "first", "return"} : at' = [at EXCEPT ![t] = l]
<1> DEFINE L == RunLabels \ {"pspeedy", "first", "return"}
           To == \/ UNCHANGED at \/ WakeAll
                 \/ at[t] = "pspeedy" /\ at' = [at EXCEPT ![t] = "first"]
                 \/ at[t] = "total" /\ at' = [at EXCEPT ![t] = "return"]
                 \/ \E l \in L : at' = [at EXCEPT ![t] = l]
<1>1. {"start", "decide", "announce", "broadcast", "move", "close", "close2", "wait", "asleep",
       "look", "follow", "follow2", "sum", "total"} \subseteq L
  BY DEF RunLabels
<1>2. Enter(t) => UNCHANGED <<point, my>> /\ To
  BY DEF Enter, ReachBarrier
<1>3. Total(t) => UNCHANGED <<point, my>> /\ To
  BY DEF Total, ReachBarrier
<1>4. Broadcast(t) => UNCHANGED <<point, my>> /\ To
  BY DEF Broadcast
<1>5. Start(t) => UNCHANGED <<point, my>> /\ To
  <2> HIDE DEF L
  <2> QED BY <1>1 DEF Start, ReachBarrier, GoOn
<1>6. Announce(t) => UNCHANGED <<point, my>> /\ To
  <2> HIDE DEF L
  <2> QED BY <1>1 DEF Announce, ReachBarrier, GoOn
<1>7. NoMore(t) => UNCHANGED <<point, my>> /\ To
  <2> HIDE DEF L
  <2> QED BY <1>1 DEF NoMore, ReachBarrier, GoOn
<1>8. Look(t) => UNCHANGED <<point, my>> /\ To
  <2> HIDE DEF L
  <2> QED BY <1>1 DEF Look, ReachBarrier, GoOn
<1>9. Follow(t) => UNCHANGED <<point, my>> /\ To
  <2> HIDE DEF L
  <2> QED BY <1>1 DEF Follow, ReachBarrier, GoOn, MoveTo
<1>10. Follow2(t) => UNCHANGED <<point, my>> /\ To
  <2> HIDE DEF L
  <2> QED BY <1>1 DEF Follow2, ReachBarrier, GoOn
<1>11. Sum1(t) => UNCHANGED <<point, my>> /\ To
  <2> HIDE DEF L
  <2> QED BY <1>1 DEF Sum1, ReachBarrier, GoOn
<1>12. WakeWorker(t) => UNCHANGED <<point, my>> /\ To
  <2> HIDE DEF L
  <2> QED BY <1>1 DEF WakeWorker, ReachBarrier, GoOn
<1>13. First(t) => UNCHANGED <<point, my>> /\ To
  <2> HIDE DEF L
  <2> QED BY <1>1 DEF First, ReachBarrier, GoOn
<1>14. WaitOpen(t) => UNCHANGED <<point, my>> /\ To
  <2> HIDE DEF L
  <2> QED BY <1>1 DEF WaitOpen, ReachBarrier, GoOn
<1>15. Decide(t) => UNCHANGED <<point, my>> /\ To
  <2> HIDE DEF L
  <2> QED BY <1>1 DEF Decide, ReachBarrier, GoOn
<1>16. Move(t) => UNCHANGED <<point, my>> /\ To
  <2> HIDE DEF L
  <2> QED BY <1>1 DEF Move, ReachBarrier, GoOn, MoveTo
<1>17. Close(t) => UNCHANGED <<point, my>> /\ To
  <2> HIDE DEF L
  <2> QED BY <1>1 DEF Close, ReachBarrier, GoOn
<1>18. /\ UNCHANGED <<gainVars, hizs, kfinal>>
      /\ \/ Enter(t) \/ First(t) \/ Start(t) \/ Decide(t) \/ NoMore(t) \/ Announce(t)
         \/ Broadcast(t) \/ Move(t) \/ Close(t) \/ WaitOpen(t) \/ WakeWorker(t) \/ Look(t)
         \/ Follow(t) \/ Follow2(t) \/ Sum1(t) \/ Total(t)
  BY StepAt DEF RunLabels
<1> HIDE DEF To
<1>19. UNCHANGED <<point, my>> /\ To
  BY <1>18, <1>2, <1>3, <1>4, <1>5, <1>6, <1>7, <1>8, <1>9, <1>10, <1>11, <1>12, <1>13, <1>14, <1>15, <1>16, <1>17
<1> QED BY <1>18, <1>19 DEF To, gainVars

LEMMA RunStep ==
  ASSUME PhaseInv, NEW m, EarlyRun(m), NEW t \in pids, Step(t) \/ Wake(t), at[t] # "return"
  PROVE  EarlyRun(m)'
<1>0. PointsOK /\ DOMAIN at = pids
  BY DEF PhaseInv, Base
<1>1. at[t] \in RunLabels \ {"return"}
  BY DEF EarlyRun
<1>2. /\ UNCHANGED <<point, my, is_center, hizs>>
      /\ \/ UNCHANGED at \/ WakeAll
         \/ at[t] = "pspeedy" /\ at' = [at EXCEPT ![t] = "first"]
         \/ at[t] = "total" /\ at' = [at EXCEPT ![t] = "return"]
         \/ \E l \in RunLabels \ {"pspeedy", "first", "return"} : at' = [at EXCEPT ![t] = l]
  BY <1>1, RunSteps
<1>3. FirstPrice(m)'
  BY <1>0, <1>2, PriceStays DEF EarlyRun
<1>4. (\A u \in pids : Like(u, m)') /\ NoCenters'
  BY <1>2, LikeStays DEF EarlyRun, NoCenters
<1>5. /\ \A u \in pids : at'[u] \in RunLabels
      /\ \A u, v \in pids : at'[u] = "return" => at'[v] \notin {"pspeedy", "first"}
  <2>0. \A u, v \in pids : at[u] \in RunLabels /\ (at[u] = "return" => at[v] \notin {"pspeedy", "first"})
    BY DEF EarlyRun
  <2>1. CASE UNCHANGED at
    BY <2>0, <2>1
  <2>2. CASE WakeAll
    <3>1. \A u \in pids : \/ at'[u] = at[u]
                          \/ at'[u] \in {"wait", "move"}
      BY <2>2 DEF WakeAll
    <3>2. {"wait", "move"} \subseteq RunLabels
      BY DEF RunLabels
    <3> QED BY <2>0, <3>1, <3>2
  <2>3. CASE at[t] = "pspeedy" /\ at' = [at EXCEPT ![t] = "first"]
    <3>1. "first" \in RunLabels
      BY DEF RunLabels
    <3> QED BY <1>0, <2>0, <2>3, <3>1
  <2>4. CASE at[t] = "total" /\ at' = [at EXCEPT ![t] = "return"]
    <3>1. "return" \in RunLabels /\ \A u \in pids : at[u] \in {"total", "return"}
      BY <2>4, Together DEF RunLabels
    <3> QED BY <1>0, <2>0, <2>4, <3>1
  <2>5. ASSUME NEW l \in RunLabels \ {"pspeedy", "first", "return"}, at' = [at EXCEPT ![t] = l]
        PROVE  /\ \A u \in pids : at'[u] \in RunLabels
               /\ \A u, v \in pids : at'[u] = "return" => at'[v] \notin {"pspeedy", "first"}
    BY <1>0, <2>0, <2>5
  <2> QED BY <1>2, <2>1, <2>2, <2>3, <2>4, <2>5
<1> QED BY <1>3, <1>4, <1>5 DEF EarlyRun

LEMMA SeedsStep ==
  ASSUME PhaseInv, NEW m, EarlySeed(m), NEW t \in pids, Step(t) \/ Wake(t)
  PROVE  Early'
<1>0. HasShape /\ PointsOK /\ DOMAIN at = pids
  BY DEF PhaseInv, Base
<1>1. at[t] \in {"seed", "pspeedy", "first"}
  BY DEF EarlySeed
<1>2. CASE at[t] = "seed"
  <2>1. Seed(t)
    BY <1>2, StepAt
  <2>2. PICK h : h = SumFunctionOnSet(hizs, pids)
    OBVIOUS
  <2>3. m = Seeded(h)
    BY <2>2 DEF EarlySeed
  <2>6. /\ my' = [my EXCEPT ![t].hiz = h, ![t].z = Middle(my[t].loz, h)]
        /\ UNCHANGED hizs /\ at' = [at EXCEPT ![t] = "pspeedy"] /\ UNCHANGED is_center
        /\ UNCHANGED point \/ shuffled(point')
    BY <2>1, <2>2 DEF Seed, gainVars, GoOn
  <2>7. /\ m.hiz = h /\ m.z = Middle(0, h) /\ m.loz = 0 /\ m.cost = 0 /\ m.change = 0
        /\ m.e = 0 /\ m.i = 0 /\ m.tries = 0
    BY <2>3 DEF Seeded, Zero
  <2>8. Like(t, m)'
    <3>1. Like(t, Zero) /\ DOMAIN my = pids /\ DOMAIN my[t] = Fields
      BY <1>0, <1>2 DEF EarlySeed, HasShape
    <3>2. /\ my[t].hiz = 0 /\ my[t].z = 0 /\ my[t].loz = 0 /\ my[t].cost = 0 /\ my[t].change = 0
          /\ my[t].e = 0 /\ my[t].i = 0 /\ my[t].tries = 0
      BY <3>1 DEF Like, Zero
    <3>3. /\ my'[t].hiz = h /\ my'[t].z = Middle(0, h) /\ my'[t].loz = 0 /\ my'[t].cost = 0
          /\ my'[t].change = 0 /\ my'[t].e = 0 /\ my'[t].i = 0 /\ my'[t].tries = 0
      BY <2>6, <3>1, <3>2 DEF Fields
    <3> QED BY <2>7, <3>3 DEF Like
  <2>9. \A u \in pids : \/ at'[u] = "seed" /\ Like(u, Zero)'
                        \/ at'[u] \in {"pspeedy", "first"} /\ Like(u, m)'
    <3>1. \A u \in pids : u # t => my'[u] = my[u]
      BY <1>0, <2>6 DEF HasShape
    <3>2. \A u \in pids : u # t => at'[u] = at[u]
      BY <1>0, <2>6
    <3>3. at'[t] = "pspeedy"
      BY <1>0, <2>6
    <3>4. \A u \in pids : u # t => (Like(u, m)' <=> Like(u, m)) /\ (Like(u, Zero)' <=> Like(u, Zero))
      BY <3>1, LikeOthers
    <3> QED BY <2>8, <3>2, <3>3, <3>4 DEF EarlySeed
  <2>10. FirstPrice(m)' /\ m = Seeded(SumFunctionOnSet(hizs, pids))'
    BY <1>0, <2>2, <2>3, <2>6, PriceStays DEF Seeded, EarlySeed
  <2>12. EarlySeed(m)'
    BY <2>6, <2>9, <2>10 DEF EarlySeed, NoCenters
  <2> QED BY <2>12 DEF Early
<1>3. CASE at[t] = "pspeedy"
  <2>1. Enter(t)
    BY <1>3, StepAt
  <2>2. UNCHANGED <<point, my, is_center, hizs>> /\ at' = [at EXCEPT ![t] = "first"]
    <3>1. UNCHANGED <<gainVars, hizs, kfinal>>
      BY <1>3, StepAt
    <3> QED BY <2>1, <3>1 DEF Enter, ReachBarrier, gainVars
  <2>3. \A u \in pids : \/ at'[u] = "seed" /\ Like(u, Zero)'
                        \/ at'[u] \in {"pspeedy", "first"} /\ Like(u, m)'
    <3>1. \A u \in pids : (Like(u, m)' <=> Like(u, m)) /\ (Like(u, Zero)' <=> Like(u, Zero))
      BY <2>2, LikeStays
    <3>2. Like(t, m) /\ at'[t] = "first" /\ \A u \in pids : u # t => at'[u] = at[u]
      BY <1>0, <1>3, <2>2 DEF EarlySeed
    <3> QED BY <3>1, <3>2 DEF EarlySeed
  <2>4. FirstPrice(m)' /\ m = Seeded(SumFunctionOnSet(hizs, pids))'
    BY <1>0, <2>2, PriceStays DEF Seeded, EarlySeed
  <2>5. EarlySeed(m)'
    BY <2>2, <2>3, <2>4 DEF EarlySeed, NoCenters
  <2> QED BY <2>5 DEF Early
<1>4. CASE at[t] = "first"
  <2>1. \A u \in pids : at[u] \in {"first", "start", "wait"}
    BY <1>4, Together
  <2>2. \A u \in pids : at[u] = "first" /\ Like(u, m)
    BY <2>1 DEF EarlySeed
  <2>3. "first" \in RunLabels
    BY DEF RunLabels
  <2>4. EarlyRun(m)
    BY <2>2, <2>3 DEF EarlySeed, EarlyRun
  <2>5. EarlyRun(m)'
    BY <1>4, <2>4, RunStep
  <2> QED BY <2>5 DEF Early
<1> QED BY <1>1, <1>2, <1>3, <1>4

\* All are back from pspeedy, with the same number of centers.
LEMMA RunEnds ==
  ASSUME PhaseInv, NEW m, EarlyRun(m), NEW t \in pids, Step(t) \/ Wake(t), at[t] = "return"
  PROVE  \E r \in 0..2 : EarlyReturn(r, m)
<1>1. PICK r \in 0..2 : reached[t] = r /\ PReturn(r)
  BY Together
<1>2. \A u \in pids : at[u] = "return"
  <2>1. \A u \in pids : at[u] \in {"return", "pspeedy", "select", "first", "search"}
    BY <1>1 DEF PReturn, Phase
  <2> QED BY <2>1 DEF EarlyRun, RunLabels
<1>3. Solved /\ totalcost = my[0].z * k + TotalCost
  BY <1>2, ReturnSolved DEF AllAt
<1>4. k \in Nat
  BY <1>1 DEF PReturn
<1>5. m.z \in Int /\ my[0].z = m.z
  BY FiniteSets DEF EarlyRun, FirstPrice, Locals, Like
<1>6. TotalCost \in Int
  <2>1. \A j \in indices : cost[j] \in Int
    BY <1>3, CostsInt DEF PhaseInv
  <2> QED BY <2>1, FiniteSets, SumType DEF TotalCost
<1>7. totalcost \in Int
  BY <1>3, <1>4, <1>5, <1>6
<1>8. Phase(r, {"return", "pspeedy", "select"}, {"first", "search"})
  BY <1>1 DEF PReturn
<1>9. at[0] = "return"
  BY <1>2, FiniteSets
<1> QED BY <1>2, <1>3, <1>4, <1>5, <1>7, <1>8, <1>9 DEF EarlyRun, EarlyReturn

\* The way on and the price of a center are the same for all.
LEMMA ReturnedPrice ==
  ASSUME NEW m, FirstPrice(m), totalcost \in Int
  PROVE  /\ FirstPrice(Returned(m))
         /\ k >= kmin => Returned(m).z = m.z /\ Returned(m).cost = totalcost
<1>1. m \in Locals /\ m.z \in Int /\ m.z >= 0 /\ m.loz = 0 /\ m.hiz \in Int
  BY DEF FirstPrice, Locals
<1>2. PICK z \in Int : z = Middle(m.loz, m.z)
  BY <1>1 DEF Middle
<1>3. z >= 0 /\ (m.z > 0 => z > 0)
  BY <1>1, <1>2 DEF Middle
<1>4. PICK c \in Int : c = totalcost
  OBVIOUS
<1>5. CASE k >= kmin
  <2>1. PICK n : n = [m EXCEPT !.cost = c, !.tries = 0]
    OBVIOUS
  <2>2. n \in Locals /\ n.loz = m.loz /\ n.z = m.z /\ n.hiz = m.hiz /\ n.cost = c
    BY <1>1, <2>1 DEF Locals
  <2>3. Returned(m) = n
    BY <1>4, <1>5, <2>1 DEF Returned
  <2> QED BY <1>4, <2>2, <2>3 DEF FirstPrice
<1>6. CASE ~(k >= kmin) /\ m.tries = 0
  <2>1. PICK n : n = [m EXCEPT !.cost = c, !.tries = 1]
    OBVIOUS
  <2>2. n \in Locals /\ n.loz = m.loz /\ n.z = m.z /\ n.hiz = m.hiz
    <3>1. PICK n1 : n1 = [m EXCEPT !.cost = c]
      OBVIOUS
    <3>2. n1 \in Locals /\ n1.loz = m.loz /\ n1.z = m.z /\ n1.hiz = m.hiz
      BY <1>1, <3>1 DEF Locals
    <3>3. n = [n1 EXCEPT !.tries = 1]
      BY <2>1, <3>1
    <3> QED BY <3>2, <3>3 DEF Locals
  <2>3. Returned(m) = n
    BY <1>4, <1>6, <2>1 DEF Returned
  <2> QED BY <1>6, <2>2, <2>3 DEF FirstPrice
<1>7. CASE ~(k >= kmin) /\ m.tries # 0
  <2>0. PICK h \in Int : h = m.z
    BY <1>1
  <2>1. PICK n : n = [m EXCEPT !.cost = c, !.hiz = h, !.z = z]
    OBVIOUS
  <2>2. n \in Locals /\ n.loz = m.loz /\ n.z = z /\ n.hiz = h
    <3>1. PICK n1 : n1 = [m EXCEPT !.cost = c, !.hiz = h]
      OBVIOUS
    <3>2. n1 \in Locals /\ n1.loz = m.loz /\ n1.hiz = h
      BY <1>1, <3>1 DEF Locals
    <3>3. n = [n1 EXCEPT !.z = z]
      BY <2>1, <3>1
    <3> QED BY <1>2, <3>2, <3>3 DEF Locals
  <2>3. Returned(m) = n
    BY <1>2, <1>4, <1>7, <2>0, <2>1 DEF Returned
  <2>4. FirstPrice(n)
    BY <1>1, <1>3, <2>0, <2>2 DEF FirstPrice
  <2> QED BY <1>7, <2>3, <2>4
<1> QED BY <1>5, <1>6, <1>7

LEMMA ReturnLocals ==
  ASSUME HasShape, NEW m, m \in Locals, k \in Nat, NEW t \in pids, Like(t, m), Return(t)
  PROVE  Like(t, Returned(m))' /\ \A u \in pids : u # t => my'[u] = my[u]
<1>0. DOMAIN my = pids /\ DOMAIN my[t] = Fields /\ kmin \in Nat
  BY KMedianAssumption DEF HasShape
<1>1. \A u \in pids : u # t => my'[u] = my[u]
  BY <1>0 DEF Return
<1>2. UNCHANGED <<k, totalcost>>
  BY DEF Return, speedyVars
<1>3. Returned(m)' = Returned(m)
  BY <1>2 DEF Returned
<1>4. CASE k >= kmin
  <2>1. my' = [my EXCEPT ![t].cost = totalcost, ![t].tries = 0]
    BY <1>0, <1>4 DEF Return
  <2>2. PICK n : n = [m EXCEPT !.cost = totalcost, !.tries = 0]
    OBVIOUS
  <2>3. /\ n.cost = totalcost /\ n.tries = 0 /\ n.z = m.z /\ n.hiz = m.hiz /\ n.loz = m.loz
        /\ n.change = m.change /\ n.e = m.e /\ n.i = m.i
    BY <2>2 DEF Locals
  <2>4. /\ my'[t].cost = totalcost /\ my'[t].tries = 0 /\ my'[t].z = my[t].z
        /\ my'[t].hiz = my[t].hiz /\ my'[t].loz = my[t].loz /\ my'[t].change = my[t].change
        /\ my'[t].e = my[t].e /\ my'[t].i = my[t].i
    BY <1>0, <2>1 DEF Fields
  <2>5. Like(t, n)'
    BY <2>3, <2>4 DEF Like
  <2>6. Returned(m) = n
    BY <1>4, <2>2 DEF Returned
  <2> QED BY <1>1, <1>3, <2>5, <2>6
<1>5. CASE ~(k >= kmin) /\ m.tries = 0
  <2>1. my' = [my EXCEPT ![t].tries = 1, ![t].cost = totalcost]
    BY <1>0, <1>5 DEF Return, Like
  <2>2. PICK n : n = [m EXCEPT !.cost = totalcost, !.tries = 1]
    OBVIOUS
  <2>3. /\ n.cost = totalcost /\ n.tries = 1 /\ n.z = m.z /\ n.hiz = m.hiz /\ n.loz = m.loz
        /\ n.change = m.change /\ n.e = m.e /\ n.i = m.i
    BY <2>2 DEF Locals
  <2>4. /\ my'[t].cost = totalcost /\ my'[t].tries = 1 /\ my'[t].z = my[t].z
        /\ my'[t].hiz = my[t].hiz /\ my'[t].loz = my[t].loz /\ my'[t].change = my[t].change
        /\ my'[t].e = my[t].e /\ my'[t].i = my[t].i
    BY <1>0, <2>1 DEF Fields
  <2>5. Like(t, n)'
    BY <2>3, <2>4 DEF Like
  <2>6. Returned(m) = n
    BY <1>5, <2>2 DEF Returned
  <2> QED BY <1>1, <1>3, <2>5, <2>6
<1>6. CASE ~(k >= kmin) /\ m.tries # 0
  <2>0. PICK z : z = Middle(m.loz, m.z)
    OBVIOUS
  <2>1. my' = [my EXCEPT ![t].hiz = my[t].z, ![t].z = Middle(my[t].loz, @), ![t].cost = totalcost]
    BY <1>0, <1>6 DEF Return, Like
  <2>2. PICK n : n = [m EXCEPT !.cost = totalcost, !.hiz = m.z, !.z = z]
    OBVIOUS
  <2>3. /\ n.cost = totalcost /\ n.hiz = m.z /\ n.z = z /\ n.tries = m.tries /\ n.loz = m.loz
        /\ n.change = m.change /\ n.e = m.e /\ n.i = m.i
    BY <2>2 DEF Locals
  <2>4. /\ my'[t].cost = totalcost /\ my'[t].hiz = my[t].z /\ my'[t].z = Middle(my[t].loz, my[t].z)
        /\ my'[t].tries = my[t].tries /\ my'[t].loz = my[t].loz /\ my'[t].change = my[t].change
        /\ my'[t].e = my[t].e /\ my'[t].i = my[t].i
    BY <1>0, <2>1 DEF Fields
  <2>5. Like(t, n)'
    BY <2>0, <2>3, <2>4 DEF Like
  <2>6. Returned(m) = n
    BY <1>6, <2>0, <2>2 DEF Returned
  <2> QED BY <1>1, <1>3, <2>5, <2>6
<1> QED BY <1>4, <1>5, <1>6

-----------------------------------------------------------------------------
(***************************************************************************)
(* The phases of the search.  All threads have the local variables of m,   *)
(* or what the phase makes of them.                                        *)
(***************************************************************************)
\* The point that pgain considers.
Candidate(m) == feasible[(m.i % Len(feasible)) + 1]

Ready(m) ==
  /\ m \in Locals /\ m.z > 0 /\ m.hiz > 0 /\ m.loz >= 0
  /\ Feasible

\* The flags, the number of centers and the assignments tell of the same centers.
Settled ==
  /\ \A j \in indices : assign[j] \in indices /\ cost[j] = CostAt(j, assign[j])
  /\ \A j \in indices : is_center[j] <=> j \in Centers
  /\ \A c \in Centers : assign[c] = c
  /\ k = Cardinality(Centers)

\* What the solution costs.
Worth(m) == m.z * k + TotalCost

Called(m, e) == [m EXCEPT !.e = e]
Begun(m, e) == [m EXCEPT !.e = e, !.change = m.cost]
Started(m) == [m EXCEPT !.change = 0, !.i = 0]

Priced(m, z) == m.cost + (z - m.z) * k
Repriced(m, lo, hi, z) == [m EXCEPT !.loz = lo, !.hiz = hi, !.z = z, !.cost = Priced(m, z)]
Bounded(m) ==
  IF k > kmax THEN Repriced(m, m.z, m.hiz, Middle(m.z, m.hiz))
  ELSE IF k < kmin THEN Repriced(m, m.loz, m.z, Middle(m.loz, m.z))
  ELSE m

\* After pgain gained g.
Added(m, g) ==
  IF m.i + 1 < Iter THEN [m EXCEPT !.change = m.change - g, !.i = m.i + 1]
  ELSE [m EXCEPT !.change = m.change - g, !.i = 0, !.cost = m.cost - (m.change - g)]

Enough(m) == m.change * m.e > m.cost
Again(m) == m.e = 10 /\ GoodNumber
Over(m) == IsGood \/ 1000 * m.loz >= 999 * m.hiz

\* Between two passes.
Outside(m) == Ready(m) /\ Settled /\ m.cost = Worth(m)

PSearch(r, m) ==
  /\ Phase(r, {"search", "pFL"}, {"pass"}) /\ Outside(m)
  /\ \A t \in pids : \/ at[t] = "search" /\ Like(t, m)
                     \/ at[t] = "pFL" /\ Like(t, Called(m, 10))
                     \/ at[t] = "pass" /\ Like(t, Begun(m, 10))

\* How far a thread is with the judgement of the last pass.
Judged(r, m, t) ==
  \/ reached[t] = r /\ at[t] = "pass" /\ Like(t, m)
  \/ reached[t] # r /\ at[t] = "pgain" /\ Enough(m) /\ Like(t, Started(m))
  \/ reached[t] = r /\ at[t] = "found" /\ ~Enough(m) /\ Like(t, m)
  \/ reached[t] = r /\ at[t] = "pFL" /\ ~Enough(m) /\ Again(m) /\ Like(t, Called(m, 1000))
  \/ reached[t] # r /\ at[t] = "pass" /\ ~Enough(m) /\ Again(m) /\ Like(t, Begun(m, 1000))
  \/ reached[t] = r /\ at[t] = "decided" /\ ~Enough(m) /\ ~Again(m) /\ Like(t, Bounded(m))
  \/ reached[t] = r /\ at[t] = "done" /\ ~Enough(m) /\ ~Again(m) /\ Over(Bounded(m))
  \/ /\ reached[t] # r /\ at[t] = "search" /\ ~Enough(m) /\ ~Again(m) /\ ~Over(Bounded(m))
     /\ Like(t, Bounded(m))

PPass(r, m) ==
  /\ Phase(r, {"pass", "found", "pFL", "decided", "done"}, {"pgain", "pass", "search"})
  /\ Outside(m) /\ \A t \in pids : Judged(r, m, t)

\* In a pass.  What has been gained is not yet taken off the cost.
Inside(m) ==
  /\ Ready(m) /\ Settled /\ m.cost - m.change = Worth(m)
  /\ \A t \in pids : Like(t, m)

PEnter(r, m) == Phase(r, {"pgain"}, {"allocate"}) /\ Inside(m)

PAllocate(r, m) ==
  /\ Phase(r, {"allocate"}, {"count"}) /\ Inside(m)
  /\ \A t \in pids : at[t] = "count" => my[t].K = k
  /\ at[0] = "count" => gl_number_of_centers_to_close = 0

KnowsCount == \A t \in pids : my[t].K = k
NoneClosing == gl_number_of_centers_to_close = 0

\* The columns of the centers of a block, and of all of them.
RankedIn(t) == \A j \in Mine(t) : center_table[j] = Rank(Mine(t), j)
Sizes == [t \in pids |-> Cardinality(Mine(t))]
Before(t) == SumFunctionOnSet(Sizes, 0..t-1)
Numbered ==
  /\ \A c \in Centers : center_table[c] \in 0..k-1
  /\ \A c, d \in Centers : center_table[c] = center_table[d] => c = d

PCount(r, m) ==
  /\ Phase(r, {"count"}, {"prefix"}) /\ Inside(m) /\ KnowsCount /\ NoneClosing
  /\ \A t \in pids : at[t] = "prefix" => RankedIn(t) /\ work_mem[t][0] = Cardinality(Mine(t))

PPrefix(r, m) ==
  /\ Phase(r, {"prefix"}, {"table"}) /\ Inside(m) /\ KnowsCount /\ NoneClosing
  /\ \A t \in pids : RankedIn(t)
  /\ IF at[0] = "table" THEN \A t \in pids : work_mem[t][0] = Before(t)
                        ELSE \A t \in pids : work_mem[t][0] = Cardinality(Mine(t))

Cleared(t) ==
  /\ \A j \in Block(t) : ~switch_membership[j]
  /\ \A c \in columns : work_mem[t][c] = 0

NumberedIn(t) == \A j \in Mine(t) : center_table[j] = Rank(Mine(t), j) + Before(t)

PTable(r, m) ==
  /\ Phase(r, {"table"}, {"lower"}) /\ Inside(m) /\ KnowsCount /\ NoneClosing
  /\ \A t \in pids : IF at[t] = "table" THEN RankedIn(t) /\ work_mem[t][0] = Before(t)
                                        ELSE NumberedIn(t) /\ Cleared(t)

SwitchesIn(t) == \A j \in Block(t) : switch_membership[j] <=> j \in Switching(t)
OpeningOf(t) == SumFunction([j \in Switching(t) |-> CostAt(j, x(t)) - cost[j]])

PLower(r, m) ==
  /\ Phase(r, {"lower"}, {"closing"}) /\ Inside(m) /\ KnowsCount /\ NoneClosing /\ Numbered
  /\ \A t \in pids : IF at[t] = "lower" THEN Cleared(t)
       ELSE /\ SwitchesIn(t) /\ my[t].opening = OpeningOf(t)
            /\ \A c \in columns : work_mem[t][c] = Saving(t, c)

\* What closing j saves, and which of its centers a thread counts as closed.
Saved(m, j) == m.z + SumFunction([p \in pids |-> Saving(p, center_table[j])])
ClosedIn(m, t) == {j \in Mine(t) : Saved(m, j) > 0}
LoweredIn(m, t) == \A j \in Mine(t) : gl_lower[center_table[j]] = Saved(m, j)

SummedIn(m, t) ==
  /\ work_mem[t][k] = Cardinality(ClosedIn(m, t))
  /\ work_mem[t][k + 1] = OpeningOf(t) - SumFunction([j \in ClosedIn(m, t) |-> Saved(m, j)])

PClosing(r, m) ==
  /\ Phase(r, {"closing"}, {"aggregate"}) /\ Inside(m) /\ KnowsCount /\ NoneClosing /\ Numbered
  /\ \A t \in pids : SwitchesIn(t) /\ \A c \in 0..k-1 : work_mem[t][c] = Saving(t, c)
  /\ \A t \in pids : IF at[t] = "closing" THEN my[t].opening = OpeningOf(t)
                                          ELSE LoweredIn(m, t) /\ SummedIn(m, t)

PAggregate(r, m) ==
  /\ Phase(r, {"aggregate"}, {"apply"}) /\ Inside(m) /\ KnowsCount /\ Numbered
  /\ \A t \in pids : SwitchesIn(t) /\ LoweredIn(m, t) /\ SummedIn(m, t)
  /\ IF at[0] = "aggregate" THEN NoneClosing
     ELSE /\ gl_number_of_centers_to_close = SumFunction([p \in pids |-> work_mem[p][k]])
          /\ gl_cost_of_opening_x = m.z + SumFunction([p \in pids |-> work_mem[p][k + 1]])

\* The solution that pgain is about to carry out: assignments, costs, centers
\* and their number, and what it gains.
Aims(m, s) ==
  /\ \A j \in indices : s.assign[j] \in indices /\ s.cost[j] = CostAt(j, s.assign[j])
  /\ s.centers = {s.assign[j] : j \in indices}
  /\ \A c \in s.centers : s.assign[c] = c
  /\ s.k = Cardinality(s.centers) /\ s.gain \in Int
  /\ m.cost - (m.change - s.gain) = m.z * s.k + SumFunctionOnSet(s.cost, indices)

Moves(j) == switch_membership[j] \/ gl_lower[center_table[assign[j]]] > 0
Stays(j) == is_center[j] /\ gl_lower[center_table[j]] <= 0

ToDo(m, s, t) ==
  \A j \in Block(t) :
    IF s.gain < 0
      THEN /\ s.assign[j] = IF Moves(j) THEN Candidate(m) ELSE assign[j]
           /\ s.cost[j] = IF Moves(j) THEN CostAt(j, Candidate(m)) ELSE cost[j]
           /\ j \in s.centers <=> j = Candidate(m) \/ Stays(j)
      ELSE /\ s.assign[j] = assign[j] /\ s.cost[j] = cost[j]
           /\ j \in s.centers <=> is_center[j]

Done(s, t) ==
  \A j \in Block(t) :
    s.assign[j] = assign[j] /\ s.cost[j] = cost[j] /\ (j \in s.centers <=> is_center[j])

PApply(r, m, s) ==
  /\ Phase(r, {"apply"}, {"gained"}) /\ Ready(m) /\ Aims(m, s)
  /\ \A t \in pids : Like(t, m)
  /\ \A t \in pids : IF at[t] = "apply" THEN ToDo(m, s, t) ELSE Done(s, t)
  /\ IF at[0] = "apply"
       THEN /\ s.k = IF s.gain < 0 THEN k + 1 - gl_number_of_centers_to_close ELSE k
            /\ IF s.gain < 0 THEN gl_cost_of_opening_x = s.gain
                             ELSE s.gain = 0 /\ ~(gl_cost_of_opening_x < 0)
       ELSE k = s.k /\ gl_cost_of_opening_x = s.gain

PGained(r, m) ==
  /\ Phase(r, {"gained"}, {"allocate", "pass"}) /\ Ready(m) /\ Settled
  /\ gl_cost_of_opening_x \in Int
  /\ m.cost - (m.change - gl_cost_of_opening_x) = Worth(m)
  /\ \A t \in pids :
       \/ at[t] = "gained" /\ Like(t, m)
       \/ /\ at[t] = IF m.i + 1 < Iter THEN "allocate" ELSE "pass"
          /\ Like(t, Added(m, gl_cost_of_opening_x))

SearchPhase(r, m) ==
  \/ PSearch(r, m) \/ PPass(r, m) \/ PEnter(r, m) \/ PAllocate(r, m) \/ PCount(r, m)
  \/ PPrefix(r, m) \/ PTable(r, m) \/ PLower(r, m) \/ PClosing(r, m) \/ PAggregate(r, m)
  \/ (\E s : PApply(r, m, s)) \/ PGained(r, m)

SearchInv == PhaseInv /\ (Early \/ \E r \in 0..2 : \E m : SearchPhase(r, m))

-----------------------------------------------------------------------------
(***************************************************************************)
(* From pspeedy to the search.                                             *)
(***************************************************************************)
LEMMA BackStep ==
  ASSUME PhaseInv, NEW r \in 0..2, NEW m, EarlyReturn(r, m),
         NEW t \in pids, reached[t] = r, Step(t) \/ Wake(t)
  PROVE  EarlyReturn(r, m)'
<1>0. HasShape /\ PointsOK /\ DOMAIN at = pids /\ reached \in [pids -> 0..2]
  BY DEF PhaseInv, Base
<1>1. /\ FirstPrice(m) /\ totalcost \in Int /\ k \in Nat
      /\ Phase(r, {"return", "pspeedy", "select"}, {"first", "search"})
      /\ k >= kmin => Solved /\ totalcost = m.z * k + TotalCost
  BY DEF EarlyReturn
<1>2. PICK n : n = Returned(m)
  OBVIOUS
<1>3. \A u \in pids : \/ at[u] = "return" /\ Like(u, m)
                      \/ at[u] \in {"pspeedy", "first", "select", "search"} /\ Like(u, n)
  BY <1>2 DEF EarlyReturn
<1>4. kmin \in Nat /\ m \in Locals
  BY <1>1, KMedianAssumption DEF FirstPrice
<1>5. at[t] \in {"return", "pspeedy", "select"}
  BY <1>1, Barriers
<1>6. UNCHANGED <<totalcost, k>> => Returned(m)' = n
  BY <1>2 DEF Returned
<1>7. 0 \in pids
  BY FiniteSets
<1>8. CASE at[t] = "return"
  <2>1. Return(t) /\ Like(t, m)
    BY <1>3, <1>8, StepAt
  <2>2. PICK l : l = IF k < kmin THEN "pspeedy" ELSE "select"
    OBVIOUS
  <2>3. /\ UNCHANGED <<assign, cost, k, totalcost, is_center, feasible>> /\ GoOn(t, l)
        /\ (UNCHANGED point \/ shuffled(point')) /\ (k >= kmin => UNCHANGED point)
    BY <1>1, <1>4, <2>1, <2>2 DEF Return, speedyVars, gainVars
  <2>4. /\ at'[t] = l /\ \A u \in pids : u # t => at'[u] = at[u]
        /\ Phase(r, {"return", "pspeedy", "select"}, {"first", "search"})'
    <3>1. l \in {"return", "pspeedy", "select"}
      BY <2>2
    <3> HIDE DEF Return
    <3> QED BY <1>0, <1>1, <2>3, <3>1, Goes
  <2>5. Like(t, n)' /\ \A u \in pids : u # t => my'[u] = my[u]
    <3>1. Like(t, Returned(m))' /\ \A u \in pids : u # t => my'[u] = my[u]
      BY <1>0, <1>1, <1>4, <2>1, ReturnLocals
    <3>2. Returned(m)' = n
      BY <1>6, <2>3
    <3> QED BY <3>1, <3>2
  <2>6. \A u \in pids : u # t => (Like(u, n)' <=> Like(u, n)) /\ (Like(u, m)' <=> Like(u, m))
    BY <2>5, LikeOthers
  <2>7. \A u \in pids : \/ at'[u] = "return" /\ Like(u, m)'
                        \/ at'[u] \in {"pspeedy", "first", "select", "search"} /\ Like(u, n)'
    BY <1>3, <2>2, <2>4, <2>5, <2>6
  <2>8. FirstPrice(m)'
    BY <1>0, <1>1, <2>3, PriceStays
  <2>9. k >= kmin => Solved' /\ (totalcost = m.z * k + TotalCost)'
    BY <1>1, <2>3, SolvedKept DEF TotalCost
  <2>10. \A u \in pids : IF k < kmin THEN at'[u] \notin {"select", "search"}
                                     ELSE at'[u] \notin {"pspeedy", "first"}
    BY <2>2, <2>4 DEF EarlyReturn
  <2>11. at'[0] = "search" <=> at[0] = "search"
    BY <1>7, <1>8, <2>2, <2>4
  <2>12. IF at'[0] = "search" THEN Feasible' /\ \A j \in indices : is_center'[j] <=> j \in Centers'
                              ELSE NoCenters'
    <3>1. Centers' = Centers /\ (Feasible' <=> Feasible) /\ (NoCenters' <=> NoCenters)
      BY <2>3 DEF Centers, Feasible, NoCenters
    <3> QED BY <2>3, <2>11, <3>1 DEF EarlyReturn
  <2>13. Returned(m)' = n /\ totalcost' = totalcost /\ k' = k
    BY <1>6, <2>3
  <2> QED BY <1>1, <2>4, <2>7, <2>8, <2>9, <2>10, <2>12, <2>13 DEF EarlyReturn
<1>9. CASE at[t] = "pspeedy"
  <2>1. Enter(t) /\ UNCHANGED <<gainVars, hizs, kfinal>>
    BY <1>9, StepAt
  <2>3. /\ UNCHANGED <<point, assign, cost, k, my, totalcost, is_center, feasible>>
        /\ ReachBarrier(t, "first")
    BY <2>1 DEF Enter, speedyVars, gainVars
  <2>4. /\ at'[t] = "first" /\ \A u \in pids : u # t => at'[u] = at[u]
        /\ Phase(r, {"return", "pspeedy", "select"}, {"first", "search"})'
    BY <1>0, <1>1, <2>3, Reaches
  <2>6. \A u \in pids : (Like(u, n)' <=> Like(u, n)) /\ (Like(u, m)' <=> Like(u, m))
    BY <2>3, LikeStays
  <2>7. \A u \in pids : \/ at'[u] = "return" /\ Like(u, m)'
                        \/ at'[u] \in {"pspeedy", "first", "select", "search"} /\ Like(u, n)'
    <3>1. Like(t, n)
      BY <1>3, <1>9
    <3> QED BY <1>3, <2>4, <2>6, <3>1
  <2>8. FirstPrice(m)'
    BY <1>0, <1>1, <2>3, PriceStays
  <2>9. k >= kmin => Solved' /\ (totalcost = m.z * k + TotalCost)'
    BY <1>1, <2>3, SolvedKept DEF TotalCost
  <2>10. \A u \in pids : IF k < kmin THEN at'[u] \notin {"select", "search"}
                                     ELSE at'[u] \notin {"pspeedy", "first"}
    BY <1>9, <2>4 DEF EarlyReturn
  <2>11. at'[0] = "search" <=> at[0] = "search"
    BY <1>7, <1>9, <2>4
  <2>12. IF at'[0] = "search" THEN Feasible' /\ \A j \in indices : is_center'[j] <=> j \in Centers'
                              ELSE NoCenters'
    <3>1. Centers' = Centers /\ (Feasible' <=> Feasible) /\ (NoCenters' <=> NoCenters)
      BY <2>3 DEF Centers, Feasible, NoCenters
    <3> QED BY <2>3, <2>11, <3>1 DEF EarlyReturn
  <2>13. Returned(m)' = n /\ totalcost' = totalcost /\ k' = k
    BY <1>6, <2>3
  <2> QED BY <1>1, <2>4, <2>7, <2>8, <2>9, <2>10, <2>12, <2>13 DEF EarlyReturn
<1>10. CASE at[t] = "select"
  <2>1. Select(t)
    BY <1>10, StepAt
  <2>3. /\ UNCHANGED <<point, assign, cost, k, my, totalcost>> /\ ReachBarrier(t, "search")
        /\ t # 0 => UNCHANGED <<feasible, is_center>>
    BY <2>1 DEF Select, speedyVars
  <2>4. /\ at'[t] = "search" /\ \A u \in pids : u # t => at'[u] = at[u]
        /\ Phase(r, {"return", "pspeedy", "select"}, {"first", "search"})'
    BY <1>0, <1>1, <2>3, Reaches
  <2>6. \A u \in pids : (Like(u, n)' <=> Like(u, n)) /\ (Like(u, m)' <=> Like(u, m))
    BY <2>3, LikeStays
  <2>7. \A u \in pids : \/ at'[u] = "return" /\ Like(u, m)'
                        \/ at'[u] \in {"pspeedy", "first", "select", "search"} /\ Like(u, n)'
    <3>1. Like(t, n)
      BY <1>3, <1>10
    <3> QED BY <1>3, <2>4, <2>6, <3>1
  <2>8. FirstPrice(m)'
    BY <1>0, <1>1, <2>3, PriceStays
  <2>9. k >= kmin => Solved' /\ (totalcost = m.z * k + TotalCost)'
    BY <1>1, <2>3, SolvedKept DEF TotalCost
  <2>10. \A u \in pids : IF k < kmin THEN at'[u] \notin {"select", "search"}
                                     ELSE at'[u] \notin {"pspeedy", "first"}
    BY <1>10, <2>4 DEF EarlyReturn
  <2>11. Centers' = Centers
    BY <2>3 DEF Centers
  <2>12. IF at'[0] = "search" THEN Feasible' /\ \A j \in indices : is_center'[j] <=> j \in Centers'
                              ELSE NoCenters'
    <3>1. CASE t = 0
      <4>1. NoCenters
        BY <1>10, <3>1 DEF EarlyReturn
      <4>2. \A j \in indices : is_center'[j] <=> j \in Centers'
        BY <2>1, <2>11, <3>1, <4>1 DEF Select, NoCenters
      <4>3. PICK size : size = IF num <= MaxFeasible THEN num ELSE MaxFeasible
        OBVIOUS
      <4>4. size \in Nat /\ size > 0
        BY <4>3, KMedianAssumption
      <4>5. feasible' \in [1..size -> indices]
        BY <2>1, <3>1, <4>3 DEF Select
      <4>6. Feasible'
        <5>1. feasible' \in Seq(indices)
          BY <4>4, <4>5, SeqDef
        <5>2. Len(feasible') = size
          BY <4>4, <4>5, <5>1, LenProperties
        <5> QED BY <4>4, <5>1, <5>2 DEF Feasible, indices
      <4> QED BY <2>4, <3>1, <4>2, <4>6
    <3>2. CASE t # 0
      <4>1. Centers' = Centers /\ (Feasible' <=> Feasible) /\ (NoCenters' <=> NoCenters)
        BY <2>3, <3>2 DEF Centers, Feasible, NoCenters
      <4> QED BY <1>7, <2>3, <2>4, <3>2, <4>1 DEF EarlyReturn
    <3> QED BY <3>1, <3>2
  <2>13. Returned(m)' = n /\ totalcost' = totalcost /\ k' = k
    BY <1>6, <2>3
  <2> QED BY <1>1, <2>4, <2>7, <2>8, <2>9, <2>10, <2>12, <2>13 DEF EarlyReturn
<1> QED BY <1>5, <1>8, <1>9, <1>10

\* With two centers there are two places, and a center is not for nothing.
LEMMA NotCoincident ==
  ASSUME Solved, k >= kmin
  PROVE  ~Coincide
<1> SUFFICES ASSUME Coincide PROVE FALSE
  OBVIOUS
<1>1. Centers \subseteq indices /\ k = Cardinality(Centers) /\ Apart(Centers)
  BY DEF Solved
<1>2. kmin \in Nat /\ kmin >= 2 /\ IsFiniteSet(Centers) /\ Cardinality(Centers) \in Nat
  BY <1>1, KMedianAssumption, CentersFinite
<1>3. PICK c : c \in Centers
  BY <1>1, <1>2, FS_EmptySet
<1>4. Cardinality(Centers \ {c}) = Cardinality(Centers) - 1 /\ IsFiniteSet(Centers \ {c})
  BY <1>2, <1>3, FS_RemoveElement
<1>5. PICK d : d \in Centers \ {c}
  BY <1>1, <1>2, <1>4, FS_EmptySet
<1>6. dist(c, d) > 0 /\ dist(c, d) = 0
  BY <1>1, <1>3, <1>5 DEF Apart, Coincide
<1> QED BY <1>6

\* All go back to pspeedy, or all go on to the search.
LEMMA BackEnds ==
  ASSUME PhaseInv, NEW r \in 0..2, NEW m, EarlyReturn(r, m), AllReached(r)
  PROVE  \/ EarlyRun(Returned(m)) /\ \A u \in pids : at[u] = "first"
         \/ PSearch(After(r), Returned(m))
<1>0. kmin \in Nat /\ k \in Nat
  BY KMedianAssumption DEF EarlyReturn
<1>1. \A u \in pids : at[u] \in {"first", "search"}
  BY Barriers, Rounds DEF EarlyReturn, AllReached
<1>2. PICK n : n = Returned(m)
  OBVIOUS
<1>3. FirstPrice(n) /\ (k >= kmin => n.z = m.z /\ n.cost = totalcost)
  BY <1>2, ReturnedPrice DEF EarlyReturn
<1>4. \A u \in pids : Like(u, n)
  BY <1>1, <1>2 DEF EarlyReturn
<1>5. CASE k < kmin
  <2>1. \A u \in pids : at[u] = "first"
    BY <1>1, <1>5 DEF EarlyReturn
  <2>2. NoCenters
    BY <2>1, FiniteSets DEF EarlyReturn
  <2>3. "first" \in RunLabels
    BY DEF RunLabels
  <2>4. EarlyRun(n)
    BY <1>3, <1>4, <2>1, <2>2, <2>3 DEF EarlyRun
  <2> QED BY <1>2, <2>1, <2>4
<1>6. CASE k >= kmin
  <2>1. \A u \in pids : at[u] = "search"
    BY <1>0, <1>1, <1>6 DEF EarlyReturn
  <2>2. /\ Solved /\ totalcost = m.z * k + TotalCost /\ Feasible
        /\ \A j \in indices : is_center[j] <=> j \in Centers
    BY <1>6, <2>1, FiniteSets DEF EarlyReturn
  <2>3. ~Coincide
    BY <1>6, <2>2, NotCoincident
  <2>4. Ready(n)
    BY <1>3, <2>2, <2>3 DEF Ready, FirstPrice
  <2>5. Settled
    <3>1. /\ Centers \subseteq indices /\ k = Cardinality(Centers)
          /\ \A c \in Centers : assign[c] = c
          /\ \A j \in indices : assign[j] \in Centers /\ cost[j] = CostAt(j, assign[j])
      BY <2>2 DEF Solved, Near
    <3> QED BY <2>2, <3>1 DEF Settled
  <2>6. n.cost = Worth(n)
    BY <1>3, <1>6, <2>2 DEF Worth
  <2>7. Phase(After(r), {"search", "pFL"}, {"pass"})
    BY <2>1, Rounds DEF AllReached, Phase
  <2>8. PSearch(After(r), n)
    BY <1>4, <2>1, <2>4, <2>5, <2>6, <2>7 DEF PSearch, Outside
  <2> QED BY <1>2, <2>8
<1> QED BY <1>0, <1>5, <1>6

-----------------------------------------------------------------------------
(***************************************************************************)
(* What the phases of the search share.                                    *)
(***************************************************************************)
LEMMA CalledFields ==
  ASSUME NEW m \in Locals, NEW e \in Int, NEW n, n = Called(m, e)
  PROVE  /\ n \in Locals /\ n.z = m.z /\ n.hiz = m.hiz /\ n.loz = m.loz /\ n.cost = m.cost
         /\ n.change = m.change /\ n.e = e /\ n.i = m.i /\ n.tries = m.tries
BY DEF Called, Locals

LEMMA BegunFields ==
  ASSUME NEW m \in Locals, NEW e \in Int, NEW n, n = Begun(m, e)
  PROVE  /\ n \in Locals /\ n.z = m.z /\ n.hiz = m.hiz /\ n.loz = m.loz /\ n.cost = m.cost
         /\ n.change = m.cost /\ n.e = e /\ n.i = m.i /\ n.tries = m.tries
<1>1. PICK n1 : n1 = [m EXCEPT !.e = e]
  OBVIOUS
<1>2. /\ n1 \in Locals /\ n1.z = m.z /\ n1.hiz = m.hiz /\ n1.loz = m.loz /\ n1.cost = m.cost
      /\ n1.change = m.change /\ n1.e = e /\ n1.i = m.i /\ n1.tries = m.tries
  BY <1>1 DEF Locals
<1>3. PICK c \in Int : c = m.cost
  BY DEF Locals
<1>4. n = [n1 EXCEPT !.change = c]
  BY <1>1, <1>3 DEF Begun
<1> QED BY <1>2, <1>3, <1>4 DEF Locals

LEMMA StartedFields ==
  ASSUME NEW m \in Locals, NEW n, n = Started(m)
  PROVE  /\ n \in Locals /\ n.z = m.z /\ n.hiz = m.hiz /\ n.loz = m.loz /\ n.cost = m.cost
         /\ n.change = 0 /\ n.e = m.e /\ n.i = 0 /\ n.tries = m.tries
<1>1. PICK n1 : n1 = [m EXCEPT !.change = 0]
  OBVIOUS
<1>2. /\ n1 \in Locals /\ n1.z = m.z /\ n1.hiz = m.hiz /\ n1.loz = m.loz /\ n1.cost = m.cost
      /\ n1.change = 0 /\ n1.e = m.e /\ n1.i = m.i /\ n1.tries = m.tries
  BY <1>1 DEF Locals
<1>4. n = [n1 EXCEPT !.i = 0]
  BY <1>1 DEF Started
<1> QED BY <1>2, <1>4 DEF Locals

\* A price between two prices, and the cost of the solution at another price.
LEMMA ChangeOfPrice ==
  ASSUME NEW m \in Locals, k \in Nat,
         NEW z \in Int, NEW lo \in Int, NEW hi \in Int, NEW n,
         n = Repriced(m, lo, hi, z)
  PROVE  /\ n \in Locals /\ n.z = z /\ n.hiz = hi /\ n.loz = lo /\ n.cost = Priced(m, z)
         /\ n.change = m.change /\ n.e = m.e /\ n.i = m.i /\ n.tries = m.tries
<1>0. PICK c \in Int : c = Priced(m, z)
  <2>1. m.cost \in Int /\ m.z \in Int
    BY DEF Locals
  <2>2. PICK a \in Int : a = z - m.z
    BY <2>1
  <2>3. a * k \in Int
    BY <2>2
  <2> QED BY <2>1, <2>2, <2>3 DEF Priced
<1>1. PICK n1 : n1 = [m EXCEPT !.loz = lo]
  OBVIOUS
<1>2. /\ n1 \in Locals /\ n1.loz = lo
      /\ n1.change = m.change /\ n1.e = m.e /\ n1.i = m.i /\ n1.tries = m.tries
  BY <1>1 DEF Locals
<1>3. PICK n2 : n2 = [n1 EXCEPT !.hiz = hi]
  OBVIOUS
<1>4. /\ n2 \in Locals /\ n2.loz = lo /\ n2.hiz = hi
      /\ n2.change = m.change /\ n2.e = m.e /\ n2.i = m.i /\ n2.tries = m.tries
  BY <1>2, <1>3 DEF Locals
<1>5. PICK n3 : n3 = [n2 EXCEPT !.z = z]
  OBVIOUS
<1>6. /\ n3 \in Locals /\ n3.loz = lo /\ n3.hiz = hi /\ n3.z = z
      /\ n3.change = m.change /\ n3.e = m.e /\ n3.i = m.i /\ n3.tries = m.tries
  BY <1>4, <1>5 DEF Locals
<1>7. n = [n3 EXCEPT !.cost = c]
  BY <1>0, <1>1, <1>3, <1>5 DEF Repriced
<1> QED BY <1>0, <1>6, <1>7 DEF Locals

LEMMA BoundedFields ==
  ASSUME NEW m \in Locals, k \in Nat, m.z > 0, m.hiz > 0, m.loz >= 0, NEW n, n = Bounded(m)
  PROVE  /\ n \in Locals /\ n.z > 0 /\ n.hiz > 0 /\ n.loz >= 0 /\ n.cost = Priced(m, n.z)
         /\ n.change = m.change /\ n.e = m.e /\ n.i = m.i /\ n.tries = m.tries
<1>0. m.z \in Int /\ m.hiz \in Int /\ m.loz \in Int /\ m.cost \in Int
  BY DEF Locals
<1>1. kmax \in Nat /\ kmin \in Nat
  BY KMedianAssumption
<1>2. CASE k > kmax
  <2>1. PICK z \in Int : z = Middle(m.z, m.hiz)
    BY <1>0 DEF Middle
  <2>2. z > 0
    BY <1>0, <2>1 DEF Middle
  <2>3. n = Repriced(m, m.z, m.hiz, z)
    BY <1>2, <2>1 DEF Bounded
  <2>4. /\ n \in Locals /\ n.z = z /\ n.hiz = m.hiz /\ n.loz = m.z /\ n.cost = Priced(m, z)
        /\ n.change = m.change /\ n.e = m.e /\ n.i = m.i /\ n.tries = m.tries
    BY <1>0, <2>3, ChangeOfPrice
  <2> QED BY <1>0, <2>2, <2>4
<1>3. CASE ~(k > kmax) /\ k < kmin
  <2>1. PICK z \in Int : z = Middle(m.loz, m.z)
    BY <1>0 DEF Middle
  <2>2. z > 0
    BY <1>0, <2>1 DEF Middle
  <2>3. n = Repriced(m, m.loz, m.z, z)
    BY <1>3, <2>1 DEF Bounded
  <2>4. /\ n \in Locals /\ n.z = z /\ n.hiz = m.z /\ n.loz = m.loz /\ n.cost = Priced(m, z)
        /\ n.change = m.change /\ n.e = m.e /\ n.i = m.i /\ n.tries = m.tries
    BY <1>0, <2>3, ChangeOfPrice
  <2> QED BY <1>0, <2>2, <2>4
<1>4. CASE ~(k > kmax) /\ ~(k < kmin)
  <2>1. n = m
    BY <1>4 DEF Bounded
  <2>2. Priced(m, m.z) = m.cost
    <3>1. (m.z - m.z) * k = 0
      <4>1. m.z - m.z = 0
        BY <1>0
      <4> QED BY <4>1
    <3> QED BY <1>0, <3>1 DEF Priced
  <2> QED BY <1>0, <2>1, <2>2
<1> QED BY <1>2, <1>3, <1>4

LEMMA AddedFields ==
  ASSUME NEW m \in Locals, NEW g \in Int, NEW n, n = Added(m, g)
  PROVE  /\ n \in Locals /\ n.z = m.z /\ n.hiz = m.hiz /\ n.loz = m.loz
         /\ n.change = m.change - g /\ n.e = m.e /\ n.tries = m.tries
         /\ n.i = IF m.i + 1 < Iter THEN m.i + 1 ELSE 0
         /\ n.cost = IF m.i + 1 < Iter THEN m.cost ELSE m.cost - (m.change - g)
<1>0. m.change \in Int /\ m.i \in Int /\ m.cost \in Int /\ Iter \in Nat
  BY KMedianAssumption DEF Locals
<1>1. PICK c \in Int : c = m.change - g
  BY <1>0
<1>2. PICK n1 : n1 = [m EXCEPT !.change = c]
  OBVIOUS
<1>3. /\ n1 \in Locals /\ n1.z = m.z /\ n1.hiz = m.hiz /\ n1.loz = m.loz
      /\ n1.change = c /\ n1.e = m.e /\ n1.i = m.i /\ n1.tries = m.tries /\ n1.cost = m.cost
  BY <1>2 DEF Locals
<1>4. CASE m.i + 1 < Iter
  <2>1. PICK i1 \in Int : i1 = m.i + 1
    BY <1>0
  <2>2. n = [n1 EXCEPT !.i = i1]
    BY <1>1, <1>2, <1>4, <2>1 DEF Added
  <2>3. /\ n \in Locals /\ n.z = m.z /\ n.hiz = m.hiz /\ n.loz = m.loz
        /\ n.change = c /\ n.e = m.e /\ n.i = i1 /\ n.tries = m.tries /\ n.cost = m.cost
    BY <1>3, <2>1, <2>2 DEF Locals
  <2> QED BY <1>1, <1>4, <2>1, <2>3
<1>5. CASE ~(m.i + 1 < Iter)
  <2>1. PICK d \in Int : d = m.cost - c
    BY <1>0
  <2>2. PICK n2 : n2 = [n1 EXCEPT !.i = 0]
    OBVIOUS
  <2>3. /\ n2 \in Locals /\ n2.z = m.z /\ n2.hiz = m.hiz /\ n2.loz = m.loz
        /\ n2.change = c /\ n2.e = m.e /\ n2.i = 0 /\ n2.tries = m.tries /\ n2.cost = m.cost
    BY <1>3, <2>2 DEF Locals
  <2>4. n = [n2 EXCEPT !.cost = d]
    BY <1>1, <1>2, <1>5, <2>1, <2>2 DEF Added
  <2>5. /\ n \in Locals /\ n.z = m.z /\ n.hiz = m.hiz /\ n.loz = m.loz
        /\ n.change = c /\ n.e = m.e /\ n.i = 0 /\ n.tries = m.tries /\ n.cost = d
    BY <2>1, <2>3, <2>4 DEF Locals
  <2> QED BY <1>1, <1>5, <2>1, <2>5
<1> QED BY <1>4, <1>5

LEMMA SettledTypes ==
  ASSUME PointsOK, Settled
  PROVE  /\ Centers \subseteq indices /\ IsFiniteSet(Centers) /\ k \in Nat /\ k <= num
         /\ \A j \in indices : cost[j] \in Nat /\ assign[j] \in Centers
         /\ TotalCost \in Int
<1>1. Centers \subseteq indices /\ \A j \in indices : assign[j] \in Centers
  BY DEF Settled, Centers
<1>2. IsFiniteSet(Centers) /\ k \in Nat
  BY <1>1, CentersFinite DEF Settled
<1>3. k <= num
  <2>1. Cardinality(Centers) <= Cardinality(indices)
    BY <1>1, FiniteSets, FS_Subset
  <2>2. Cardinality(indices) = num
    BY KMedianAssumption, FS_Interval DEF indices
  <2> QED BY <2>1, <2>2 DEF Settled
<1>4. \A j \in indices : cost[j] \in Nat
  BY Distances DEF Settled
<1>5. TotalCost \in Int
  <2>1. \A j \in indices : cost[j] \in Int
    BY <1>4
  <2> QED BY <2>1, FiniteSets, SumType DEF TotalCost
<1> QED BY <1>1, <1>2, <1>3, <1>4, <1>5

LEMMA SettledStays ==
  ASSUME Settled, UNCHANGED <<point, assign, cost, k, is_center>>
  PROVE  /\ Settled' /\ TotalCost' = TotalCost /\ Centers' = Centers
         /\ \A t : Mine(t)' = Mine(t)
<1>1. Centers' = Centers
  BY DEF Centers
<1>2. \A j, c : CostAt(j, c)' = CostAt(j, c)
  BY DEF CostAt, dist
<1>3. TotalCost' = TotalCost /\ \A t : Mine(t)' = Mine(t)
  BY DEF TotalCost, Mine
<1>4. \A j \in indices : (assign[j] \in indices /\ cost[j] = CostAt(j, assign[j]))'
  <2> SUFFICES ASSUME NEW j \in indices PROVE (assign[j] \in indices /\ cost[j] = CostAt(j, assign[j]))'
    OBVIOUS
  <2>1. PICK a : a = assign[j]
    OBVIOUS
  <2>2. CostAt(j, assign[j])' = CostAt(j, a)
    BY <2>1 DEF CostAt, dist
  <2> QED BY <2>1, <2>2 DEF Settled
<1>5. Settled'
  BY <1>1, <1>4 DEF Settled
<1> QED BY <1>1, <1>3, <1>5

LEMMA ReadyStays ==
  ASSUME NEW m, Ready(m), UNCHANGED feasible
  PROVE  Ready(m)' /\ Candidate(m)' = Candidate(m)
BY DEF Ready, Feasible, Candidate

LEMMA OutsideStays ==
  ASSUME NEW m, Outside(m), UNCHANGED <<point, assign, cost, k, is_center>>, Feasible'
  PROVE  Outside(m)'
BY SettledStays DEF Outside, Ready, Worth

LEMMA InsideStays ==
  ASSUME NEW m, Inside(m), UNCHANGED <<point, assign, cost, k, is_center, feasible>>,
         \A u \in pids : Like(u, m)'
  PROVE  Inside(m)'
BY SettledStays, ReadyStays DEF Inside, Worth

\* All threads consider the same point.
LEMMA SameCandidate ==
  ASSUME NEW m, Ready(m)
  PROVE  /\ Candidate(m) \in indices
         /\ \A t \in pids : Like(t, m) => x(t) = Candidate(m)
<1>1. m.i \in Int /\ feasible \in Seq(indices) /\ Len(feasible) > 0
  BY DEF Ready, Locals, Feasible
<1>2. Len(feasible) \in Nat /\ feasible \in [1..Len(feasible) -> indices]
  BY <1>1, LenProperties
<1>3. (m.i % Len(feasible)) + 1 \in 1..Len(feasible)
  BY <1>1, <1>2
<1>4. Candidate(m) \in indices
  BY <1>2, <1>3 DEF Candidate
<1> QED BY <1>4 DEF Like, x, Candidate

-----------------------------------------------------------------------------
(***************************************************************************)
(* Between two passes.                                                     *)
(***************************************************************************)
LEMMA OthersStay ==
  ASSUME reached \in [pids -> 0..2], NEW r \in 0..2, NEW t \in pids, reached[t] = r, NEW l
  PROVE  /\ ReachBarrier(t, l) =>
              reached'[t] = After(r) /\ \A u \in pids : u # t => reached'[u] = reached[u]
         /\ GoOn(t, l) => reached'[t] = r /\ \A u \in pids : u # t => reached'[u] = reached[u]
BY DEF ReachBarrier, GoOn, After

LEMMA PSearchStep ==
  ASSUME Base, HasShape, NEW r \in 0..2, NEW m, PSearch(r, m),
         NEW t \in pids, reached[t] = r, Step(t) \/ Wake(t)
  PROVE  PSearch(r, m)'
<1>0. DOMAIN at = pids /\ reached \in [pids -> 0..2] /\ DOMAIN my = pids /\ DOMAIN my[t] = Fields
  BY DEF Base, HasShape
<1>1. Phase(r, {"search", "pFL"}, {"pass"}) /\ Outside(m) /\ m \in Locals /\ Feasible
  BY DEF PSearch, Outside, Ready
<1>2. at[t] \in {"search", "pFL"}
  BY <1>1, Barriers
<1>3. PICK n1 : n1 = Called(m, 10)
  OBVIOUS
<1>4. PICK n2 : n2 = Begun(m, 10)
  OBVIOUS
<1>5. \A u \in pids : \/ at[u] = "search" /\ Like(u, m)
                      \/ at[u] = "pFL" /\ Like(u, n1)
                      \/ at[u] = "pass" /\ Like(u, n2)
  BY <1>3, <1>4 DEF PSearch
<1>6. /\ n1.z = m.z /\ n1.hiz = m.hiz /\ n1.loz = m.loz /\ n1.cost = m.cost
      /\ n1.change = m.change /\ n1.e = 10 /\ n1.i = m.i /\ n1.tries = m.tries
  BY <1>1, <1>3, CalledFields
<1>7. /\ n2.z = m.z /\ n2.hiz = m.hiz /\ n2.loz = m.loz /\ n2.cost = m.cost
      /\ n2.change = m.cost /\ n2.e = 10 /\ n2.i = m.i /\ n2.tries = m.tries
  BY <1>1, <1>4, BegunFields
<1>8. CASE at[t] = "search"
  <2>1. Rough(t)
    BY <1>8, StepAt
  <2>2. /\ UNCHANGED <<point, assign, cost, k, is_center, feasible>> /\ GoOn(t, "pFL")
        /\ my' = [my EXCEPT ![t].e = 10]
    BY <2>1 DEF Rough, gainVars
  <2>3. /\ at'[t] = "pFL" /\ \A u \in pids : u # t => at'[u] = at[u]
        /\ Phase(r, {"search", "pFL"}, {"pass"})'
    BY <1>0, <1>1, <2>2, Goes
  <2>4. Like(t, n1)'
    <3>1. Like(t, m)
      BY <1>5, <1>8
    <3>2. /\ my'[t].z = my[t].z /\ my'[t].hiz = my[t].hiz /\ my'[t].loz = my[t].loz
          /\ my'[t].cost = my[t].cost /\ my'[t].change = my[t].change /\ my'[t].e = 10
          /\ my'[t].i = my[t].i /\ my'[t].tries = my[t].tries
      BY <1>0, <2>2 DEF Fields
    <3> QED BY <1>6, <3>1, <3>2 DEF Like
  <2>5. \A u \in pids : u # t => my'[u] = my[u]
    BY <1>0, <2>2
  <2>6. \A u \in pids : u # t => /\ Like(u, m)' <=> Like(u, m)
                                 /\ Like(u, n1)' <=> Like(u, n1)
                                 /\ Like(u, n2)' <=> Like(u, n2)
    BY <2>5, LikeOthers
  <2>7. Outside(m)'
    BY <1>1, <2>2, OutsideStays DEF Feasible
  <2>8. \A u \in pids : \/ at'[u] = "search" /\ Like(u, m)'
                        \/ at'[u] = "pFL" /\ Like(u, n1)'
                        \/ at'[u] = "pass" /\ Like(u, n2)'
    BY <1>5, <2>3, <2>4, <2>6
  <2> QED BY <1>3, <1>4, <2>3, <2>7, <2>8 DEF PSearch, Called, Begun
<1>9. CASE at[t] = "pFL"
  <2>1. Search(t)
    BY <1>9, StepAt
  <2>2. /\ UNCHANGED <<point, assign, cost, k, is_center, feasible>> /\ ReachBarrier(t, "pass")
        /\ my' = [my EXCEPT ![t].change = my[t].cost]
    BY <2>1 DEF Search, gainVars, pointVars
  <2>3. /\ at'[t] = "pass" /\ \A u \in pids : u # t => at'[u] = at[u]
        /\ Phase(r, {"search", "pFL"}, {"pass"})'
    BY <1>0, <1>1, <2>2, Reaches
  <2>4. Like(t, n2)'
    <3>1. Like(t, n1)
      BY <1>5, <1>9
    <3>2. /\ my'[t].z = my[t].z /\ my'[t].hiz = my[t].hiz /\ my'[t].loz = my[t].loz
          /\ my'[t].cost = my[t].cost /\ my'[t].change = my[t].cost /\ my'[t].e = my[t].e
          /\ my'[t].i = my[t].i /\ my'[t].tries = my[t].tries
      BY <1>0, <2>2 DEF Fields
    <3> QED BY <1>6, <1>7, <3>1, <3>2 DEF Like
  <2>5. \A u \in pids : u # t => my'[u] = my[u]
    BY <1>0, <2>2
  <2>6. \A u \in pids : u # t => /\ Like(u, m)' <=> Like(u, m)
                                 /\ Like(u, n1)' <=> Like(u, n1)
                                 /\ Like(u, n2)' <=> Like(u, n2)
    BY <2>5, LikeOthers
  <2>7. Outside(m)'
    BY <1>1, <2>2, OutsideStays DEF Feasible
  <2>8. \A u \in pids : \/ at'[u] = "search" /\ Like(u, m)'
                        \/ at'[u] = "pFL" /\ Like(u, n1)'
                        \/ at'[u] = "pass" /\ Like(u, n2)'
    BY <1>5, <2>3, <2>4, <2>6
  <2> QED BY <1>3, <1>4, <2>3, <2>7, <2>8 DEF PSearch, Called, Begun
<1> QED BY <1>2, <1>8, <1>9

\* All have called pFL.
LEMMA PSearchEnds ==
  ASSUME NEW r \in 0..2, NEW m, PSearch(r, m), AllReached(r)
  PROVE  PPass(After(r), Begun(m, 10))
<1>1. Phase(r, {"search", "pFL"}, {"pass"}) /\ Outside(m) /\ m \in Locals
  BY DEF PSearch, Outside, Ready
<1>2. \A u \in pids : at[u] = "pass" /\ reached[u] = After(r)
  BY <1>1, Barriers, Rounds DEF AllReached
<1>3. PICK n : n = Begun(m, 10)
  OBVIOUS
<1>4. \A u \in pids : Like(u, n)
  BY <1>2, <1>3 DEF PSearch
<1>5. /\ n \in Locals /\ n.z = m.z /\ n.hiz = m.hiz /\ n.loz = m.loz /\ n.cost = m.cost
  BY <1>1, <1>3, BegunFields
<1>6. Outside(n)
  BY <1>1, <1>5 DEF Outside, Ready, Worth
<1>7. Phase(After(r), {"pass", "found", "pFL", "decided", "done"}, {"pgain", "pass", "search"})
  BY <1>2, Rounds DEF Phase
<1>8. \A u \in pids : Judged(After(r), n, u)
  BY <1>2, <1>4 DEF Judged
<1> QED BY <1>3, <1>6, <1>7, <1>8 DEF PPass

\* What is judged does not change.
LEMMA JudgedOthers ==
  ASSUME NEW r, NEW m, NEW u \in pids, Judged(r, m, u), k' = k,
         my'[u] = my[u], at'[u] = at[u], reached'[u] = reached[u]
  PROVE  Judged(r, m, u)'
<1>1. \A n : Like(u, n)' <=> Like(u, n)
  BY DEF Like
<1>2. PICK n1 : n1 = Started(m)
  OBVIOUS
<1>3. PICK n2 : n2 = Called(m, 1000)
  OBVIOUS
<1>4. PICK n3 : n3 = Begun(m, 1000)
  OBVIOUS
<1>5. PICK n4 : n4 = Bounded(m)
  OBVIOUS
<1>6. Started(m)' = n1 /\ Called(m, 1000)' = n2 /\ Begun(m, 1000)' = n3
  BY <1>2, <1>3, <1>4 DEF Started, Called, Begun
<1>7. Bounded(m)' = n4
  BY <1>5 DEF Bounded, Repriced, Priced
<1>8. (Enough(m)' <=> Enough(m)) /\ (Again(m)' <=> Again(m)) /\ (Over(n4)' <=> Over(n4))
  BY DEF Enough, Again, GoodNumber, Over, IsGood
<1> QED BY <1>1, <1>2, <1>3, <1>4, <1>5, <1>6, <1>7, <1>8 DEF Judged

\* How a thread changes its bounds and price.
LEMMA BoundsOfThread ==
  ASSUME NEW m, NEW t \in pids, DOMAIN my = pids, DOMAIN my[t] = Fields, Like(t, m),
         my' = [my EXCEPT ![t] = Bounds(t)], m \in Locals, k \in Nat,
         NEW n, n = Bounded(m)
  PROVE  Like(t, n)'
<1>1. my'[t] = Bounds(t)
  OBVIOUS
<1>2. kmin \in Nat /\ kmax \in Nat /\ kmin <= kmax
  BY KMedianAssumption
<1>3. PICK u : u = my[t]
  OBVIOUS
<1>4. /\ DOMAIN u = Fields /\ u.z = m.z /\ u.hiz = m.hiz /\ u.loz = m.loz /\ u.cost = m.cost
      /\ u.change = m.change /\ u.e = m.e /\ u.i = m.i /\ u.tries = m.tries
  BY <1>3 DEF Like
<1>5. CASE k > kmax
  <2>1. PICK z : z = Middle(m.z, m.hiz)
    OBVIOUS
  <2>2. PICK c : c = Priced(m, z)
    OBVIOUS
  <2>3. Adjusted(t, z) = c
    BY <1>3, <1>4, <2>2 DEF Adjusted, Priced
  <2>4. PICK v : v = Bounds(t)
    OBVIOUS
  <2>5. v = [u EXCEPT !.loz = u.z, !.z = z, !.cost = c]
    <3>1. ~(k < kmin)
      BY <1>2, <1>5
    <3> QED BY <1>3, <1>4, <1>5, <2>1, <2>3, <2>4, <3>1 DEF Bounds
  <2>6. /\ v.z = z /\ v.hiz = m.hiz /\ v.loz = m.z /\ v.cost = c
        /\ v.change = m.change /\ v.e = m.e /\ v.i = m.i /\ v.tries = m.tries
    BY <1>4, <2>5 DEF Fields
  <2>7. n = [m EXCEPT !.loz = m.z, !.hiz = m.hiz, !.z = z, !.cost = c]
    BY <1>5, <2>1, <2>2 DEF Bounded, Repriced
  <2>8. /\ n.z = z /\ n.hiz = m.hiz /\ n.loz = m.z /\ n.cost = c
        /\ n.change = m.change /\ n.e = m.e /\ n.i = m.i /\ n.tries = m.tries
    BY <2>7 DEF Locals
  <2> QED BY <1>1, <2>4, <2>6, <2>8 DEF Like
<1>6. CASE ~(k > kmax) /\ k < kmin
  <2>1. PICK z : z = Middle(m.loz, m.z)
    OBVIOUS
  <2>2. PICK c : c = Priced(m, z)
    OBVIOUS
  <2>3. Adjusted(t, z) = c
    BY <1>3, <1>4, <2>2 DEF Adjusted, Priced
  <2>4. PICK v : v = Bounds(t)
    OBVIOUS
  <2>5. v = [u EXCEPT !.hiz = u.z, !.z = z, !.cost = c]
    BY <1>3, <1>4, <1>6, <2>1, <2>3, <2>4 DEF Bounds
  <2>6. /\ v.z = z /\ v.hiz = m.z /\ v.loz = m.loz /\ v.cost = c
        /\ v.change = m.change /\ v.e = m.e /\ v.i = m.i /\ v.tries = m.tries
    BY <1>4, <2>5 DEF Fields
  <2>7. n = [m EXCEPT !.loz = m.loz, !.hiz = m.z, !.z = z, !.cost = c]
    BY <1>6, <2>1, <2>2 DEF Bounded, Repriced
  <2>8. /\ n.z = z /\ n.hiz = m.z /\ n.loz = m.loz /\ n.cost = c
        /\ n.change = m.change /\ n.e = m.e /\ n.i = m.i /\ n.tries = m.tries
    BY <2>7 DEF Locals
  <2> QED BY <1>1, <2>4, <2>6, <2>8 DEF Like
<1>7. CASE ~(k > kmax) /\ ~(k < kmin)
  <2>1. Bounds(t) = u
    BY <1>3, <1>7 DEF Bounds
  <2>2. n = m
    BY <1>7 DEF Bounded
  <2> QED BY <1>1, <1>3, <1>4, <2>1, <2>2 DEF Like
<1> QED BY <1>5, <1>6, <1>7

\* The feasible centers in another order.
LEMMA Permuted ==
  ASSUME Feasible, NEW f \in Bijection(1..Len(feasible), 1..Len(feasible)),
         feasible' = [j \in 1..Len(feasible) |-> feasible[f[j]]]
  PROVE  Feasible'
<1>1. PICK n \in Nat : n = Len(feasible) /\ n > 0 /\ feasible \in [1..n -> indices]
  BY LenProperties DEF Feasible
<1>2. f \in [1..n -> 1..n]
  BY <1>1 DEF Bijection, Injection
<1>3. feasible' \in [1..n -> indices]
  BY <1>1, <1>2
<1>4. feasible' \in Seq(indices)
  BY <1>1, <1>3, SeqDef
<1>5. Len(feasible') = n
  BY <1>1, <1>3, <1>4, LenProperties
<1>6. feasible' \in Seq(indices) /\ Len(feasible') > 0 /\ indices' = indices
  BY <1>1, <1>4, <1>5 DEF indices
<1> QED BY <1>6 DEF Feasible

LEMMA PPassStep ==
  ASSUME Base, HasShape, NEW r \in 0..2, NEW m, PPass(r, m),
         NEW t \in pids, reached[t] = r, Step(t) \/ Wake(t)
  PROVE  PPass(r, m)'
<1> DEFINE A == {"pass", "found", "pFL", "decided", "done"}
           B == {"pgain", "pass", "search"}
<1>0. DOMAIN at = pids /\ reached \in [pids -> 0..2] /\ DOMAIN my = pids /\ DOMAIN my[t] = Fields
  BY DEF Base, HasShape
<1>1. Phase(r, A, B) /\ Outside(m) /\ m \in Locals /\ Feasible /\ Settled
  BY DEF PPass, Outside, Ready
<1>2. PointsOK /\ k \in Nat
  BY <1>1, SettledTypes DEF Base
<1>3. After(r) # r
  BY Rounds
<1>4. \A u \in pids : Judged(r, m, u)
  BY DEF PPass
\* It suffices to look at thread t.
<1>5. ASSUME UNCHANGED <<point, assign, cost, k, is_center>>, Feasible',
             \A u \in pids : u # t => my'[u] = my[u],
             NEW l \in A \cup B, \/ GoOn(t, l) /\ l \in A
                                 \/ ReachBarrier(t, l) /\ l \in B,
             (GoOn(t, l) => reached'[t] = r) /\ (ReachBarrier(t, l) => reached'[t] = After(r))
               /\ at'[t] = l => Judged(r, m, t)'
      PROVE  PPass(r, m)'
  <2>1. at'[t] = l /\ (\A u \in pids : u # t => at'[u] = at[u]) /\ Phase(r, A, B)'
    <3> HIDE DEF A, B
    <3> QED BY <1>0, <1>1, <1>5, Goes, Reaches
  <2>2. /\ (GoOn(t, l) => reached'[t] = r) /\ (ReachBarrier(t, l) => reached'[t] = After(r))
        /\ \A u \in pids : u # t => reached'[u] = reached[u]
    BY <1>0, <1>5, OthersStay
  <2>3. \A u \in pids : u # t => Judged(r, m, u)'
    BY <1>4, <1>5, <2>1, <2>2, JudgedOthers
  <2>4. Judged(r, m, t)'
    BY <1>5, <2>1, <2>2
  <2>5. Outside(m)'
    BY <1>1, <1>5, OutsideStays
  <2> QED BY <2>1, <2>3, <2>4, <2>5 DEF PPass
<1>6. CASE at[t] = "pass"
  <2>1. Pass(t) /\ UNCHANGED <<speedyVars, hizs, kfinal>>
    BY <1>6, StepAt
  <2>2. Like(t, m)
    BY <1>4, <1>6 DEF Judged
  <2>3. GainedEnough(t) <=> Enough(m)
    BY <2>2 DEF GainedEnough, Enough, Like
  <2>4. UNCHANGED <<point, assign, cost, k, is_center>>
    BY <2>1 DEF Pass, pointVars
  <2>5. CASE GainedEnough(t)
    <3>1. /\ my' = [my EXCEPT ![t].change = 0, ![t].i = 0] /\ ReachBarrier(t, "pgain")
          /\ \/ UNCHANGED feasible
             \/ \E f \in Bijection(1..Len(feasible), 1..Len(feasible)) :
                  feasible' = [j \in 1..Len(feasible) |-> feasible[f[j]]]
      BY <2>1, <2>5 DEF Pass
    <3>2. Feasible'
      BY <1>1, <3>1, Permuted DEF Feasible
    <3>3. PICK n : n = Started(m)
      OBVIOUS
    <3>4. Like(t, n)'
      <4>1. /\ n.z = m.z /\ n.hiz = m.hiz /\ n.loz = m.loz /\ n.cost = m.cost
            /\ n.change = 0 /\ n.e = m.e /\ n.i = 0 /\ n.tries = m.tries
        BY <1>1, <3>3, StartedFields
      <4>2. /\ my'[t].z = my[t].z /\ my'[t].hiz = my[t].hiz /\ my'[t].loz = my[t].loz
            /\ my'[t].cost = my[t].cost /\ my'[t].change = 0 /\ my'[t].e = my[t].e
            /\ my'[t].i = 0 /\ my'[t].tries = my[t].tries
        BY <1>0, <3>1 DEF Fields
      <4> QED BY <2>2, <4>1, <4>2 DEF Like
    <3>5. Started(m)' = n /\ Enough(m)'
      BY <2>3, <2>5, <3>3 DEF Started, Enough
    <3>6. reached'[t] = After(r) /\ at'[t] = "pgain" => Judged(r, m, t)'
      BY <1>3, <3>4, <3>5 DEF Judged
    <3>7. \A u \in pids : u # t => my'[u] = my[u]
      BY <1>0, <3>1
    <3> QED BY <1>5, <2>4, <3>1, <3>2, <3>6, <3>7
  <2>6. CASE ~GainedEnough(t)
    <3>1. UNCHANGED <<my, feasible>> /\ GoOn(t, "found")
      BY <2>1, <2>6 DEF Pass
    <3>2. Feasible' /\ \A u \in pids : u # t => my'[u] = my[u]
      BY <1>1, <3>1 DEF Feasible
    <3>3. Like(t, m)' /\ ~Enough(m)'
      BY <2>2, <2>3, <2>6, <3>1 DEF Like, Enough
    <3>4. reached'[t] = r /\ at'[t] = "found" => Judged(r, m, t)'
      BY <3>3 DEF Judged
    <3> QED BY <1>5, <2>4, <3>1, <3>2, <3>4
  <2> QED BY <2>5, <2>6
<1>7. CASE at[t] = "found" /\ Refine(t)
  <2>1. Like(t, m) /\ ~Enough(m)
    BY <1>4, <1>7 DEF Judged
  <2>2. /\ UNCHANGED <<point, assign, cost, k, is_center, feasible>> /\ GoOn(t, "pFL")
        /\ my' = [my EXCEPT ![t].e = 1000] /\ my[t].e = 10 /\ GoodNumber
    BY <1>7 DEF Refine, gainVars
  <2>3. Again(m)
    BY <2>1, <2>2 DEF Again, Like
  <2>4. PICK n : n = Called(m, 1000)
    OBVIOUS
  <2>5. Like(t, n)'
    <3>1. /\ n.z = m.z /\ n.hiz = m.hiz /\ n.loz = m.loz /\ n.cost = m.cost
          /\ n.change = m.change /\ n.e = 1000 /\ n.i = m.i /\ n.tries = m.tries
      BY <1>1, <2>4, CalledFields
    <3>2. /\ my'[t].z = my[t].z /\ my'[t].hiz = my[t].hiz /\ my'[t].loz = my[t].loz
          /\ my'[t].cost = my[t].cost /\ my'[t].change = my[t].change /\ my'[t].e = 1000
          /\ my'[t].i = my[t].i /\ my'[t].tries = my[t].tries
      BY <1>0, <2>2 DEF Fields
    <3> QED BY <2>1, <3>1, <3>2 DEF Like
  <2>6. Called(m, 1000)' = n /\ ~Enough(m)' /\ Again(m)'
    BY <2>1, <2>2, <2>3, <2>4 DEF Called, Enough, Again, GoodNumber
  <2>7. reached'[t] = r /\ at'[t] = "pFL" => Judged(r, m, t)'
    BY <2>5, <2>6 DEF Judged
  <2>8. Feasible' /\ \A u \in pids : u # t => my'[u] = my[u]
    BY <1>0, <1>1, <2>2 DEF Feasible
  <2> QED BY <1>5, <2>2, <2>7, <2>8
<1>8. CASE at[t] = "pFL"
  <2>1. Search(t)
    BY <1>8, StepAt
  <2>2. PICK n1 : n1 = Called(m, 1000)
    OBVIOUS
  <2>3. Like(t, n1) /\ ~Enough(m) /\ Again(m)
    BY <1>4, <1>8, <2>2 DEF Judged
  <2>4. /\ UNCHANGED <<point, assign, cost, k, is_center, feasible>> /\ ReachBarrier(t, "pass")
        /\ my' = [my EXCEPT ![t].change = my[t].cost]
    BY <2>1 DEF Search, gainVars, pointVars
  <2>5. PICK n : n = Begun(m, 1000)
    OBVIOUS
  <2>6. Like(t, n)'
    <3>1. /\ n.z = m.z /\ n.hiz = m.hiz /\ n.loz = m.loz /\ n.cost = m.cost
          /\ n.change = m.cost /\ n.e = 1000 /\ n.i = m.i /\ n.tries = m.tries
      BY <1>1, <2>5, BegunFields
    <3>2. /\ n1.z = m.z /\ n1.hiz = m.hiz /\ n1.loz = m.loz /\ n1.cost = m.cost
          /\ n1.e = 1000 /\ n1.i = m.i /\ n1.tries = m.tries
      BY <1>1, <2>2, CalledFields
    <3>3. /\ my'[t].z = my[t].z /\ my'[t].hiz = my[t].hiz /\ my'[t].loz = my[t].loz
          /\ my'[t].cost = my[t].cost /\ my'[t].change = my[t].cost /\ my'[t].e = my[t].e
          /\ my'[t].i = my[t].i /\ my'[t].tries = my[t].tries
      BY <1>0, <2>4 DEF Fields
    <3> QED BY <2>3, <3>1, <3>2, <3>3 DEF Like
  <2>7. Begun(m, 1000)' = n /\ ~Enough(m)' /\ Again(m)'
    BY <2>3, <2>4, <2>5 DEF Begun, Enough, Again, GoodNumber
  <2>8. reached'[t] = After(r) /\ at'[t] = "pass" => Judged(r, m, t)'
    BY <1>3, <2>6, <2>7 DEF Judged
  <2>9. Feasible' /\ \A u \in pids : u # t => my'[u] = my[u]
    BY <1>0, <1>1, <2>4 DEF Feasible
  <2> QED BY <1>5, <2>4, <2>8, <2>9
<1>9. CASE at[t] = "found" /\ Adjust(t)
  <2>1. Like(t, m) /\ ~Enough(m)
    BY <1>4, <1>9 DEF Judged
  <2>2. /\ UNCHANGED <<point, assign, cost, k, is_center, feasible>> /\ GoOn(t, "decided")
        /\ my' = [my EXCEPT ![t] = Bounds(t)] /\ (my[t].e = 1000 \/ ~GoodNumber)
    BY <1>9 DEF Adjust, gainVars
  <2>3. ~Again(m)
    BY <2>1, <2>2 DEF Again, Like
  <2>4. PICK n : n = Bounded(m)
    OBVIOUS
  <2>5. Like(t, n)'
    BY <1>0, <1>1, <1>2, <2>1, <2>2, <2>4, BoundsOfThread
  <2>6. Bounded(m)' = n /\ ~Enough(m)' /\ ~Again(m)'
    BY <2>1, <2>2, <2>3, <2>4 DEF Bounded, Repriced, Priced, Enough, Again, GoodNumber
  <2>7. reached'[t] = r /\ at'[t] = "decided" => Judged(r, m, t)'
    BY <2>5, <2>6 DEF Judged
  <2>8. Feasible' /\ \A u \in pids : u # t => my'[u] = my[u]
    BY <1>0, <1>1, <2>2 DEF Feasible
  <2> QED BY <1>5, <2>2, <2>7, <2>8
<1>10. CASE at[t] = "decided"
  <2>1. Decided(t)
    BY <1>10, StepAt
  <2>2. PICK n : n = Bounded(m)
    OBVIOUS
  <2>3. Like(t, n) /\ ~Enough(m) /\ ~Again(m)
    BY <1>4, <1>10, <2>2 DEF Judged
  <2>4. /\ UNCHANGED <<point, assign, cost, k, is_center, feasible, my>>
        /\ \/ (IsGood \/ IsStuck(t)) /\ GoOn(t, "done")
           \/ ~IsGood /\ ~IsStuck(t) /\ ReachBarrier(t, "search")
    BY <2>1 DEF Decided, gainVars
  <2>5. (IsGood \/ IsStuck(t)) <=> Over(n)
    BY <2>3 DEF IsStuck, Over, Like
  <2>6. Bounded(m)' = n /\ ~Enough(m)' /\ ~Again(m)' /\ Like(t, n)' /\ (Over(n)' <=> Over(n))
    BY <2>2, <2>3, <2>4
       DEF Bounded, Repriced, Priced, Enough, Again, GoodNumber, Like, Over, IsGood
  <2>7. Feasible' /\ \A u \in pids : u # t => my'[u] = my[u]
    BY <1>1, <2>4 DEF Feasible
  <2>8. CASE (IsGood \/ IsStuck(t)) /\ GoOn(t, "done")
    <3>1. reached'[t] = r /\ at'[t] = "done" => Judged(r, m, t)'
      BY <2>5, <2>6, <2>8 DEF Judged
    <3> QED BY <1>5, <2>4, <2>7, <2>8, <3>1
  <2>9. CASE ~IsGood /\ ~IsStuck(t) /\ ReachBarrier(t, "search")
    <3>1. reached'[t] = After(r) /\ at'[t] = "search" => Judged(r, m, t)'
      BY <1>3, <2>5, <2>6, <2>9 DEF Judged
    <3> QED BY <1>5, <2>4, <2>7, <2>9, <3>1
  <2> QED BY <2>4, <2>8, <2>9
<1>11. at[t] \in A
  <2> HIDE DEF A, B
  <2> QED BY <1>1, Barriers
<1>12. at[t] # "done"
  BY StepAt
<1>13. at[t] = "found" => Refine(t) \/ Adjust(t)
  BY StepAt
<1> QED BY <1>6, <1>7, <1>8, <1>9, <1>10, <1>11, <1>12, <1>13

\* The last pass was judged the same by all.
LEMMA PPassEnds ==
  ASSUME PointsOK, NEW r \in 0..2, NEW m, PPass(r, m), AllReached(r)
  PROVE  \E n : PEnter(After(r), n) \/ PPass(After(r), n) \/ PSearch(After(r), n)
<1>1. /\ Outside(m) /\ m \in Locals /\ Settled /\ Ready(m)
  BY DEF PPass, Outside, Ready
<1>2. k \in Nat /\ m.z \in Int /\ m.cost \in Int /\ TotalCost \in Int
  BY <1>1, SettledTypes DEF Locals
<1>3. \A u \in pids : reached[u] = After(r) /\ After(r) # r
  BY Rounds DEF AllReached
<1>4. PICK n1 : n1 = Started(m)
  OBVIOUS
<1>5. PICK n2 : n2 = Begun(m, 1000)
  OBVIOUS
<1>6. PICK n3 : n3 = Bounded(m)
  OBVIOUS
<1>7. \A u \in pids : \/ at[u] = "pgain" /\ Enough(m) /\ Like(u, n1)
                      \/ at[u] = "pass" /\ ~Enough(m) /\ Again(m) /\ Like(u, n2)
                      \/ at[u] = "search" /\ ~Enough(m) /\ ~Again(m) /\ Like(u, n3)
  <2>1. \A u \in pids : Judged(r, m, u)
    BY DEF PPass
  <2> QED BY <1>3, <1>4, <1>5, <1>6, <2>1 DEF Judged
<1>8. CASE Enough(m)
  <2>1. \A u \in pids : at[u] = "pgain" /\ Like(u, n1)
    BY <1>7, <1>8
  <2>2. n1 \in Locals /\ n1.z = m.z /\ n1.hiz = m.hiz /\ n1.loz = m.loz /\ n1.cost = m.cost
        /\ n1.change = 0
    BY <1>1, <1>4, StartedFields
  <2>3. Phase(After(r), {"pgain"}, {"allocate"})
    BY <1>3, <2>1 DEF Phase
  <2>4. n1.cost - n1.change = Worth(n1)
    BY <1>1, <1>2, <2>2 DEF Outside, Worth
  <2>5. Inside(n1)
    BY <1>1, <2>1, <2>2, <2>4 DEF Inside, Ready
  <2> QED BY <2>3, <2>5 DEF PEnter
<1>9. CASE ~Enough(m) /\ Again(m)
  <2>1. \A u \in pids : at[u] = "pass" /\ Like(u, n2)
    BY <1>7, <1>9
  <2>2. n2 \in Locals /\ n2.z = m.z /\ n2.hiz = m.hiz /\ n2.loz = m.loz /\ n2.cost = m.cost
    BY <1>1, <1>5, BegunFields
  <2>3. Phase(After(r), {"pass", "found", "pFL", "decided", "done"}, {"pgain", "pass", "search"})
    BY <1>3, <2>1 DEF Phase
  <2>4. Outside(n2)
    BY <1>1, <2>2 DEF Outside, Ready, Worth
  <2>5. \A u \in pids : Judged(After(r), n2, u)
    BY <1>3, <2>1 DEF Judged
  <2> QED BY <2>3, <2>4, <2>5 DEF PPass
<1>10. CASE ~Enough(m) /\ ~Again(m)
  <2>1. \A u \in pids : at[u] = "search" /\ Like(u, n3)
    BY <1>7, <1>10
  <2>2. n3 \in Locals /\ n3.z > 0 /\ n3.hiz > 0 /\ n3.loz >= 0 /\ n3.cost = Priced(m, n3.z)
    BY <1>1, <1>2, <1>6, BoundedFields DEF Ready
  <2>3. Phase(After(r), {"search", "pFL"}, {"pass"})
    BY <1>3, <2>1 DEF Phase
  <2>4. n3.cost = Worth(n3)
    <3>1. PICK z \in Int : z = n3.z
      BY <2>2 DEF Locals
    <3>2. PICK y \in Int : y = m.z
      BY <1>2
    <3>3. (z - y) * k = z * k - y * k /\ z * k \in Int /\ y * k \in Int
      BY <1>2
    <3>4. m.cost = y * k + TotalCost
      BY <1>1, <3>2 DEF Outside, Worth
    <3>5. n3.cost = m.cost + (z - y) * k
      BY <2>2, <3>1, <3>2 DEF Priced
    <3> QED BY <1>2, <3>1, <3>3, <3>4, <3>5 DEF Worth
  <2>5. Outside(n3)
    BY <1>1, <2>2, <2>4 DEF Outside, Ready
  <2> QED BY <2>1, <2>3, <2>5 DEF PSearch
<1> QED BY <1>8, <1>9, <1>10

-----------------------------------------------------------------------------
(***************************************************************************)
(* pgain: the columns of the centers.                                      *)
(***************************************************************************)
\* Thread t changes nothing but what it has of the columns.
Keeps(t) ==
  \A u \in pids : (\A m : Like(u, m)' <=> Like(u, m)) /\ (u # t => my'[u] = my[u])

LEMMA LocalsKept ==
  ASSUME HasShape, NEW t \in pids, NEW v,
         \/ UNCHANGED my \/ my' = [my EXCEPT ![t].K = v] \/ my' = [my EXCEPT ![t].opening = v]
  PROVE  Keeps(t)
<1>1. DOMAIN my = pids /\ DOMAIN my[t] = Fields
  BY DEF HasShape
<1>2. \A u \in pids : u # t => my'[u] = my[u]
  BY <1>1
<1>3. /\ my'[t].z = my[t].z /\ my'[t].hiz = my[t].hiz /\ my'[t].loz = my[t].loz
      /\ my'[t].cost = my[t].cost /\ my'[t].change = my[t].change /\ my'[t].e = my[t].e
      /\ my'[t].i = my[t].i /\ my'[t].tries = my[t].tries
  BY <1>1 DEF Fields
<1>4. ASSUME NEW m, NEW u \in pids PROVE Like(u, m)' <=> Like(u, m)
  <2>1. CASE u = t
    BY <1>3, <2>1 DEF Like
  <2>2. CASE u # t
    BY <1>2, <2>2 DEF Like
  <2> QED BY <2>1, <2>2
<1> QED BY <1>2, <1>4 DEF Keeps

\* Most steps of pgain leave the solution alone.
LEMMA GainStep ==
  ASSUME Base, HasShape, NEW r \in 0..2, NEW m, Inside(m), NEW t \in pids, reached[t] = r, NEW l,
         Keeps(t), UNCHANGED <<point, assign, cost, k, is_center, feasible>>, ReachBarrier(t, l)
  PROVE  /\ Inside(m)' /\ Centers' = Centers /\ Ready(m)' /\ Candidate(m)' = Candidate(m)
         /\ \A u \in pids : Mine(u)' = Mine(u) /\ x(u)' = x(u) /\ x(u) = Candidate(m)
         /\ \A u \in pids : u # t => my'[u] = my[u]
         /\ at'[t] = l /\ \A u \in pids : u # t => at'[u] = at[u]
         /\ \A A, B : Phase(r, A, B) /\ l \in B => Phase(r, A, B)'
         /\ 0 \in pids
<1>1. \A u \in pids : Like(u, m) /\ Like(u, m)'
  BY DEF Inside, Keeps
<1>2. Inside(m)'
  BY <1>1, InsideStays
<1>3. /\ Centers' = Centers /\ Ready(m)' /\ Candidate(m)' = Candidate(m)
      /\ \A u \in pids : Mine(u)' = Mine(u)
  BY SettledStays, ReadyStays DEF Inside
<1>4. \A u \in pids : x(u) = Candidate(m) /\ x(u)' = Candidate(m)
  <2>1. \A u \in pids : x(u) = Candidate(m)
    BY <1>1, SameCandidate DEF Inside
  <2>2. \A u \in pids : my'[u].i = m.i
    BY <1>1 DEF Like
  <2>3. \A u \in pids : x(u)' = Candidate(m)
    BY <2>2 DEF x, Candidate
  <2> QED BY <2>1, <2>3
<1>5. \A u \in pids : u # t => my'[u] = my[u]
  BY DEF Keeps
<1>6. /\ at'[t] = l /\ \A u \in pids : u # t => at'[u] = at[u]
      /\ \A A, B : Phase(r, A, B) /\ l \in B => Phase(r, A, B)'
  <2>1. DOMAIN at = pids /\ reached \in [pids -> 0..2]
    BY DEF Base
  <2> QED BY <2>1, Reaches
<1> QED BY <1>2, <1>3, <1>4, <1>5, <1>6, FiniteSets

\* No center is in two blocks.
LEMMA MineApart ==
  /\ \A t \in pids : Mine(t) \subseteq Block(t) /\ Mine(t) \subseteq indices /\ IsFiniteSet(Mine(t))
  /\ \A t, u \in pids : t # u => Mine(t) \cap Mine(u) = {}
<1>1. \A t \in pids : Mine(t) \subseteq Block(t)
  BY DEF Mine
<1>2. \A t \in pids : Mine(t) \subseteq indices /\ IsFiniteSet(Mine(t))
  BY <1>1, BlocksPartition, FS_Subset
<1> QED BY <1>1, <1>2, BlocksPartition

LEMMA PEnterStep ==
  ASSUME Base, HasShape, NEW r \in 0..2, NEW m, PEnter(r, m),
         NEW t \in pids, reached[t] = r, Step(t) \/ Wake(t)
  PROVE  PEnter(r, m)'
<1>1. Phase(r, {"pgain"}, {"allocate"}) /\ Inside(m)
  BY DEF PEnter
<1>2. at[t] = "pgain"
  BY <1>1, Barriers
<1>3. EnterGain(t)
  BY <1>2, StepAt
<1>4. /\ UNCHANGED <<point, assign, cost, k, is_center, feasible, my>>
      /\ ReachBarrier(t, "allocate")
  BY <1>3 DEF EnterGain, pointVars, gainVars
<1>5. Inside(m)' /\ Phase(r, {"pgain"}, {"allocate"})'
  <2>1. Keeps(t)
    BY <1>4, LocalsKept
  <2> QED BY <1>1, <1>4, <2>1, GainStep
<1> QED BY <1>5 DEF PEnter

LEMMA PEnterEnds ==
  ASSUME NEW r \in 0..2, NEW m, PEnter(r, m), AllReached(r)
  PROVE  PAllocate(After(r), m)
<1>1. \A u \in pids : at[u] = "allocate" /\ reached[u] = After(r)
  BY Barriers, Rounds DEF PEnter, AllReached
<1>2. Phase(After(r), {"allocate"}, {"count"})
  BY <1>1 DEF Phase
<1> QED BY <1>1, <1>2, FiniteSets DEF PAllocate, PEnter

LEMMA PAllocateStep ==
  ASSUME Base, HasShape, NEW r \in 0..2, NEW m, PAllocate(r, m),
         NEW t \in pids, reached[t] = r, Step(t) \/ Wake(t)
  PROVE  PAllocate(r, m)'
<1>1. Phase(r, {"allocate"}, {"count"}) /\ Inside(m)
  BY DEF PAllocate
<1>2. at[t] = "allocate"
  BY <1>1, Barriers
<1>3. Allocate(t)
  BY <1>2, StepAt
<1>4. /\ UNCHANGED <<point, assign, cost, k, is_center, feasible>>
      /\ my' = [my EXCEPT ![t].K = k] /\ ReachBarrier(t, "count")
      /\ IF t = 0 THEN gl_number_of_centers_to_close' = 0
                  ELSE UNCHANGED gl_number_of_centers_to_close
  BY <1>3 DEF Allocate, pointVars
<1>5. /\ Inside(m)' /\ Phase(r, {"allocate"}, {"count"})' /\ 0 \in pids
      /\ at'[t] = "count" /\ \A u \in pids : u # t => at'[u] = at[u] /\ my'[u] = my[u]
  <2>1. Keeps(t)
    BY <1>4, LocalsKept
  <2> QED BY <1>1, <1>4, <2>1, GainStep
<1>6. my'[t].K = k
  <2>1. DOMAIN my = pids /\ DOMAIN my[t] = Fields
    BY DEF HasShape
  <2> QED BY <1>4, <2>1 DEF Fields
<1>7. \A u \in pids : at'[u] = "count" => my'[u].K = k'
  BY <1>4, <1>5, <1>6 DEF PAllocate
<1>8. at'[0] = "count" => gl_number_of_centers_to_close' = 0
  BY <1>4, <1>5 DEF PAllocate
<1> QED BY <1>5, <1>7, <1>8 DEF PAllocate

LEMMA PAllocateEnds ==
  ASSUME NEW r \in 0..2, NEW m, PAllocate(r, m), AllReached(r)
  PROVE  PCount(After(r), m)
<1>1. \A u \in pids : at[u] = "count" /\ reached[u] = After(r)
  BY Barriers, Rounds DEF PAllocate, AllReached
<1>2. Phase(After(r), {"count"}, {"prefix"})
  BY <1>1 DEF Phase
<1> QED BY <1>1, <1>2, FiniteSets DEF PAllocate, PCount, KnowsCount, NoneClosing

LEMMA PCountStep ==
  ASSUME Base, HasShape, NEW r \in 0..2, NEW m, PCount(r, m),
         NEW t \in pids, reached[t] = r, Step(t) \/ Wake(t)
  PROVE  PCount(r, m)'
<1>0. DOMAIN work_mem = pids /\ DOMAIN work_mem[t] = columns /\ 0 \in columns
  BY KMedianAssumption DEF HasShape, columns
<1>1. Phase(r, {"count"}, {"prefix"}) /\ Inside(m)
  BY DEF PCount
<1>2. at[t] = "count"
  BY <1>1, Barriers
<1>3. Count(t)
  BY <1>2, StepAt
<1>4. /\ UNCHANGED <<point, assign, cost, k, is_center, feasible, my,
                     gl_number_of_centers_to_close>>
      /\ ReachBarrier(t, "prefix")
      /\ center_table' = [j \in indices |->
           IF j \in Mine(t) THEN Rank(Mine(t), j) ELSE center_table[j]]
      /\ work_mem' = [work_mem EXCEPT ![t][0] = Cardinality(Mine(t))]
  BY <1>3 DEF Count, pointVars, Rank
<1>5. /\ Inside(m)' /\ Phase(r, {"count"}, {"prefix"})'
      /\ at'[t] = "prefix" /\ \A u \in pids : u # t => at'[u] = at[u]
      /\ \A u \in pids : Mine(u)' = Mine(u)
  <2>1. Keeps(t)
    BY <1>4, LocalsKept
  <2> QED BY <1>1, <1>4, <2>1, GainStep
<1>6. KnowsCount' /\ NoneClosing'
  BY <1>4 DEF PCount, KnowsCount, NoneClosing
<1>7. ASSUME NEW u \in pids, at'[u] = "prefix"
      PROVE  RankedIn(u)' /\ work_mem'[u][0] = Cardinality(Mine(u)')
  <2>1. Mine(u) \subseteq indices /\ (u # t => Mine(u) \cap Mine(t) = {})
    BY MineApart
  <2>2. PICK M : M = Mine(u)
    OBVIOUS
  <2>3. Mine(u)' = M
    BY <1>5, <2>2
  <2>4. CASE u = t
    <3>1. \A j \in M : center_table'[j] = Rank(M, j)
      BY <1>4, <2>1, <2>2, <2>4
    <3>2. work_mem'[u][0] = Cardinality(M)
      BY <1>0, <1>4, <2>2, <2>4
    <3> QED BY <2>3, <3>1, <3>2 DEF RankedIn
  <2>5. CASE u # t
    <3>1. RankedIn(u) /\ work_mem[u][0] = Cardinality(M)
      BY <1>5, <1>7, <2>2, <2>5 DEF PCount
    <3>2. \A j \in M : center_table'[j] = center_table[j]
      BY <1>4, <2>1, <2>2, <2>5
    <3>3. \A j \in M : center_table'[j] = Rank(M, j)
      BY <2>2, <3>1, <3>2 DEF RankedIn
    <3>4. work_mem'[u][0] = Cardinality(M)
      BY <1>0, <1>4, <2>5, <3>1
    <3> QED BY <2>3, <3>3, <3>4 DEF RankedIn
  <2> QED BY <2>4, <2>5
<1> QED BY <1>5, <1>6, <1>7 DEF PCount

LEMMA PCountEnds ==
  ASSUME NEW r \in 0..2, NEW m, PCount(r, m), AllReached(r)
  PROVE  PPrefix(After(r), m)
<1>1. \A u \in pids : at[u] = "prefix" /\ reached[u] = After(r)
  BY Barriers, Rounds DEF PCount, AllReached
<1>2. Phase(After(r), {"prefix"}, {"table"})
  BY <1>1 DEF Phase
<1> QED BY <1>1, <1>2, FiniteSets DEF PCount, PPrefix

LEMMA BeforeStays ==
  ASSUME \A u \in pids : Mine(u)' = Mine(u)
  PROVE  \A u : Before(u)' = Before(u)
<1>1. Sizes' = Sizes
  BY DEF Sizes
<1> QED BY <1>1 DEF Before

LEMMA PPrefixStep ==
  ASSUME Base, HasShape, NEW r \in 0..2, NEW m, PPrefix(r, m),
         NEW t \in pids, reached[t] = r, Step(t) \/ Wake(t)
  PROVE  PPrefix(r, m)'
<1>0. /\ DOMAIN work_mem = pids /\ \A p \in pids : DOMAIN work_mem[p] = columns
      /\ 0 \in columns
  BY KMedianAssumption DEF HasShape, columns
<1>1. Phase(r, {"prefix"}, {"table"}) /\ Inside(m)
  BY DEF PPrefix
<1>2. at[t] = "prefix"
  BY <1>1, Barriers
<1>3. Prefix(t)
  BY <1>2, StepAt
<1>4. /\ UNCHANGED <<point, assign, cost, k, is_center, feasible, my, center_table,
                     gl_number_of_centers_to_close>>
      /\ ReachBarrier(t, "table")
      /\ work_mem' = IF t = 0
           THEN [p \in pids |-> [work_mem[p] EXCEPT ![0] =
                   SumFunction([q \in 0..p-1 |-> work_mem[q][0]])]]
           ELSE work_mem
  BY <1>3 DEF Prefix, pointVars
<1>5. /\ Inside(m)' /\ Phase(r, {"prefix"}, {"table"})' /\ 0 \in pids
      /\ at'[t] = "table" /\ \A u \in pids : u # t => at'[u] = at[u]
      /\ \A u \in pids : Mine(u)' = Mine(u)
  <2>1. Keeps(t)
    BY <1>4, LocalsKept
  <2> QED BY <1>1, <1>4, <2>1, GainStep
<1>6. KnowsCount' /\ NoneClosing'
  BY <1>4 DEF PPrefix, KnowsCount, NoneClosing
<1>7. \A u \in pids : Before(u)' = Before(u)
  BY <1>5, BeforeStays
<1>8. \A u \in pids : RankedIn(u)'
  BY <1>4, <1>5 DEF PPrefix, RankedIn
<1>9. CASE t = 0
  <2>1. \A p \in pids : work_mem[p][0] = Cardinality(Mine(p))
    BY <1>2, <1>9 DEF PPrefix
  <2>2. ASSUME NEW u \in pids PROVE work_mem'[u][0] = Before(u)
    <3>1. work_mem'[u][0] = SumFunction([q \in 0..u-1 |-> work_mem[q][0]])
      BY <1>0, <1>4, <1>9
    <3>2. u \in Nat /\ 0..u-1 \subseteq pids
      BY KMedianAssumption DEF pids
    <3>3. [q \in 0..u-1 |-> work_mem[q][0]] = [q \in 0..u-1 |-> Sizes[q]]
      BY <2>1, <3>2 DEF Sizes
    <3>4. IsFiniteSet(0..u-1)
      BY <3>2, FS_Interval
    <3>5. \A q \in 0..u-1 : Sizes[q] \in Int
      <4>1. \A q \in pids : Sizes[q] = Cardinality(Mine(q)) /\ Cardinality(Mine(q)) \in Nat
        BY MineApart, FS_CardinalityType DEF Sizes
      <4> QED BY <3>2, <4>1
    <3>6. SumFunction([q \in 0..u-1 |-> Sizes[q]]) = SumFunctionOnSet(Sizes, 0..u-1)
      BY <3>4, <3>5, SumOfDefined
    <3> QED BY <3>1, <3>3, <3>6 DEF Before
  <2>3. \A u \in pids : (work_mem[u][0] = Before(u))'
    BY <1>7, <2>2
  <2> QED BY <1>5, <1>6, <1>8, <1>9, <2>3 DEF PPrefix
<1>10. CASE t # 0
  <2>1. work_mem' = work_mem /\ at'[0] = at[0]
    BY <1>4, <1>5, <1>10
  <2>2. IF at'[0] = "table" THEN \A u \in pids : (work_mem[u][0] = Before(u))'
                            ELSE \A u \in pids : (work_mem[u][0] = Cardinality(Mine(u)))'
    BY <1>5, <1>7, <2>1 DEF PPrefix
  <2> QED BY <1>5, <1>6, <1>8, <2>2 DEF PPrefix
<1> QED BY <1>9, <1>10

LEMMA PPrefixEnds ==
  ASSUME NEW r \in 0..2, NEW m, PPrefix(r, m), AllReached(r)
  PROVE  PTable(After(r), m)
<1>1. \A u \in pids : at[u] = "table" /\ reached[u] = After(r)
  BY Barriers, Rounds DEF PPrefix, AllReached
<1>2. Phase(After(r), {"table"}, {"lower"})
  BY <1>1 DEF Phase
<1> QED BY <1>1, <1>2, FiniteSets DEF PPrefix, PTable

LEMMA PTableStep ==
  ASSUME Base, HasShape, NEW r \in 0..2, NEW m, PTable(r, m),
         NEW t \in pids, reached[t] = r, Step(t) \/ Wake(t)
  PROVE  PTable(r, m)'
<1>0. DOMAIN work_mem = pids
  BY DEF HasShape
<1>1. Phase(r, {"table"}, {"lower"}) /\ Inside(m)
  BY DEF PTable
<1>2. at[t] = "table"
  BY <1>1, Barriers
<1>3. Table(t)
  BY <1>2, StepAt
<1>4. /\ UNCHANGED <<point, assign, cost, k, is_center, feasible, my,
                     gl_number_of_centers_to_close>>
      /\ ReachBarrier(t, "lower")
      /\ center_table' = [j \in indices |->
           IF j \in Mine(t) THEN center_table[j] + work_mem[t][0] ELSE center_table[j]]
      /\ switch_membership' = [j \in indices |-> j \notin Block(t) /\ switch_membership[j]]
      /\ work_mem' = [work_mem EXCEPT ![t] = emptyRow]
  BY <1>3 DEF Table, pointVars
<1>5. /\ Inside(m)' /\ Phase(r, {"table"}, {"lower"})'
      /\ at'[t] = "lower" /\ \A u \in pids : u # t => at'[u] = at[u]
      /\ \A u \in pids : Mine(u)' = Mine(u)
  <2>1. Keeps(t)
    BY <1>4, LocalsKept
  <2> QED BY <1>1, <1>4, <2>1, GainStep
<1>6. KnowsCount' /\ NoneClosing'
  BY <1>4 DEF PTable, KnowsCount, NoneClosing
<1>7. \A u \in pids : Before(u)' = Before(u)
  BY <1>5, BeforeStays
<1>8. NumberedIn(t)' /\ Cleared(t)'
  <2>1. Mine(t) \subseteq indices /\ Block(t) \subseteq indices
    BY MineApart, BlocksPartition
  <2>2. RankedIn(t) /\ work_mem[t][0] = Before(t)
    BY <1>2 DEF PTable
  <2>3. \A j \in Mine(t) : center_table'[j] = Rank(Mine(t), j) + Before(t)
    BY <1>4, <2>1, <2>2 DEF RankedIn
  <2>4. \A j \in Block(t) : ~switch_membership'[j]
    BY <1>4, <2>1
  <2>5. \A c \in columns : work_mem'[t][c] = 0
    BY <1>0, <1>4 DEF emptyRow
  <2>6. columns' = columns /\ Block(t)' = Block(t)
    BY DEF columns, Block
  <2> QED BY <1>5, <1>7, <2>3, <2>4, <2>5, <2>6 DEF NumberedIn, Cleared
<1>9. ASSUME NEW u \in pids, u # t
      PROVE  /\ RankedIn(u) => RankedIn(u)'
             /\ work_mem'[u] = work_mem[u]
             /\ NumberedIn(u) => NumberedIn(u)'
             /\ Cleared(u) => Cleared(u)'
  <2>1. Mine(u) \subseteq indices /\ Mine(u) \cap Mine(t) = {} /\ Block(u) \subseteq indices
        /\ Block(u) \cap Block(t) = {}
    BY <1>9, MineApart, BlocksPartition
  <2>2. \A j \in Mine(u) : center_table'[j] = center_table[j]
    BY <1>4, <2>1
  <2>3. \A j \in Block(u) : switch_membership'[j] = switch_membership[j] \/ ~switch_membership'[j]
    BY <1>4, <2>1
  <2>4. work_mem'[u] = work_mem[u]
    BY <1>0, <1>4, <1>9
  <2>5. columns' = columns /\ Block(u)' = Block(u)
    BY DEF columns, Block
  <2>6. RankedIn(u) => RankedIn(u)'
    BY <1>5, <2>2 DEF RankedIn
  <2>7. NumberedIn(u) => NumberedIn(u)'
    BY <1>5, <1>7, <2>2 DEF NumberedIn
  <2>8. Cleared(u) => Cleared(u)'
    BY <2>3, <2>4, <2>5 DEF Cleared
  <2> QED BY <2>4, <2>6, <2>7, <2>8
<1>10. ASSUME NEW u \in pids
       PROVE  IF at'[u] = "table" THEN RankedIn(u)' /\ (work_mem[u][0] = Before(u))'
                                  ELSE NumberedIn(u)' /\ Cleared(u)'
  <2>1. CASE u = t
    BY <1>5, <1>8, <2>1
  <2>2. CASE u # t
    <3>1. IF at[u] = "table" THEN RankedIn(u) /\ work_mem[u][0] = Before(u)
                             ELSE NumberedIn(u) /\ Cleared(u)
      BY DEF PTable
    <3>2. at'[u] = at[u] /\ Before(u)' = Before(u)
      BY <1>5, <1>7, <2>2
    <3> QED BY <1>9, <2>2, <3>1, <3>2
  <2> QED BY <2>1, <2>2
<1> QED BY <1>5, <1>6, <1>10 DEF PTable

\* The columns are those of the blocks before, and then of one's own.
LEMMA NumberAll ==
  ASSUME PointsOK, Settled, \A t \in pids : NumberedIn(t)
  PROVE  Numbered
<1>0. nproc \in Nat /\ pids = 0..nproc-1 /\ IsFiniteSet(pids)
  BY KMedianAssumption, FiniteSets DEF pids
<1>1. /\ Centers \subseteq indices /\ IsFiniteSet(Centers) /\ k \in Nat /\ k = Cardinality(Centers)
      /\ \A c \in indices : is_center[c] <=> c \in Centers
  BY SettledTypes DEF Settled
<1>2. PICK S : S = Sizes
  OBVIOUS
<1>3. \A t \in pids : S[t] = Cardinality(Mine(t)) /\ S[t] \in Nat
  BY <1>2, MineApart, FS_CardinalityType DEF Sizes
<1>4. SumFunctionOnSet(S, pids) = k
  <2> DEFINE Q == [t \in pids |-> Mine(t)]
             f == [j \in indices |-> 1]
  <2>1. Parts(Q, pids, Centers)
    <3>1. \A t \in pids : IsFiniteSet(Q[t]) /\ Q[t] \subseteq Centers
      BY <1>1, MineApart DEF Mine
    <3>2. \A t, u \in pids : t # u => Q[t] \cap Q[u] = {}
      BY MineApart
    <3>3. \A c \in Centers : \E t \in pids : c \in Q[t]
      BY <1>1, BlocksPartition DEF Mine
    <3> HIDE DEF Q
    <3> QED BY <3>1, <3>2, <3>3 DEF Parts
  <2>2. \A c \in Centers : f[c] = 1
    BY <1>1
  <2>3. \A t \in pids : Q[t] = Mine(t)
    OBVIOUS
  <2> HIDE DEF Q, f
  <2>4. ASSUME NEW t \in pids PROVE S[t] = SumFunctionOnSet(f, Q[t])
    <3>1. IsFiniteSet(Q[t]) /\ Q[t] \subseteq Centers
      BY <2>1 DEF Parts
    <3>2. SumFunctionOnSet(f, Q[t]) = 1 * Cardinality(Q[t])
      BY <2>2, <3>1, SumConstant
    <3> QED BY <1>3, <2>3, <3>2
  <2>5. SumFunctionOnSet(S, pids) = SumFunctionOnSet(f, Centers)
    BY <1>0, <2>1, <2>2, <2>4, SumByParts
  <2>6. SumFunctionOnSet(f, Centers) = 1 * Cardinality(Centers)
    BY <1>1, <2>2, SumConstant
  <2> QED BY <1>1, <2>5, <2>6
<1>5. ASSUME NEW t \in pids, NEW n \in Nat, t < n, n <= nproc
      PROVE  /\ Before(t) \in Nat
             /\ Before(t) + S[t] <= SumFunctionOnSet(S, 0..n-1)
  <2>1. t \in Nat /\ IsFiniteSet(0..t-1) /\ IsFiniteSet(t..n-1)
    BY <1>0, FS_Interval
  <2>2. (0..t-1) \cup (t..n-1) = 0..n-1 /\ (0..t-1) \cap (t..n-1) = {}
        /\ 0..n-1 \subseteq pids /\ t \in t..n-1
    BY <1>0, <1>5, <2>1
  <2>3. \A a \in 0..n-1 : S[a] \in Nat
    BY <1>3, <2>2
  <2>4. SumFunctionOnSet(S, 0..n-1) = SumFunctionOnSet(S, 0..t-1) + SumFunctionOnSet(S, t..n-1)
    <3>1. PICK A : A = 0..t-1
      OBVIOUS
    <3>2. PICK B : B = t..n-1
      OBVIOUS
    <3>3. A \cup B = 0..n-1 /\ A \cap B = {} /\ IsFiniteSet(A) /\ IsFiniteSet(B)
      BY <2>1, <2>2, <3>1, <3>2
    <3>4. \A a \in A \cup B : S[a] \in Int
      BY <2>3, <3>3
    <3>5. SumFunctionOnSet(S, A \cup B) = SumFunctionOnSet(S, A) + SumFunctionOnSet(S, B)
      BY <3>3, <3>4, SumUnion
    <3> QED BY <3>1, <3>2, <3>3, <3>5
  <2>5. SumFunctionOnSet(S, 0..t-1) \in Nat
    BY <2>1, <2>2, <2>3, SumNatural
  <2>6. S[t] <= SumFunctionOnSet(S, t..n-1) /\ SumFunctionOnSet(S, t..n-1) \in Nat
    BY <2>1, <2>2, <2>3, SumNatural
  <2>7. Before(t) = SumFunctionOnSet(S, 0..t-1)
    BY <1>2 DEF Before
  <2> QED BY <1>3, <2>4, <2>5, <2>6, <2>7
<1>6. ASSUME NEW t \in pids PROVE Before(t) \in Nat /\ Before(t) + S[t] <= k
  BY <1>0, <1>4, <1>5
<1>7. ASSUME NEW t \in pids, NEW u \in pids, t < u PROVE Before(t) + S[t] <= Before(u)
  <2>1. u \in Nat /\ u <= nproc
    BY <1>0
  <2> QED BY <1>2, <1>5, <1>7, <2>1 DEF Before
<1>8. ASSUME NEW c \in Centers
      PROVE  \E t \in pids : /\ c \in Mine(t)
                             /\ center_table[c] \in Int
                             /\ Before(t) <= center_table[c] /\ center_table[c] < Before(t) + S[t]
  <2>1. PICK t \in pids : c \in Mine(t)
    BY <1>1, BlocksPartition DEF Mine
  <2>2. center_table[c] = Rank(Mine(t), c) + Before(t)
    BY <2>1 DEF NumberedIn
  <2>3. IsFiniteSet(Mine(t)) /\ Mine(t) \subseteq Int
    BY MineApart DEF indices
  <2>4. Rank(Mine(t), c) \in 0..(Cardinality(Mine(t)) - 1)
    BY <2>1, <2>3, Ranks
  <2> QED BY <1>3, <1>6, <2>1, <2>2, <2>4
<1>9. \A c \in Centers : center_table[c] \in 0..k-1
  <2> SUFFICES ASSUME NEW c \in Centers PROVE center_table[c] \in 0..k-1
    OBVIOUS
  <2>1. PICK t \in pids : /\ center_table[c] \in Int
                          /\ Before(t) <= center_table[c] /\ center_table[c] < Before(t) + S[t]
    BY <1>8
  <2> QED BY <1>1, <1>3, <1>6, <2>1
<1>10. ASSUME NEW c \in Centers, NEW d \in Centers, center_table[c] = center_table[d]
       PROVE  c = d
  <2>1. PICK t \in pids : /\ c \in Mine(t) /\ center_table[c] \in Int
                          /\ Before(t) <= center_table[c] /\ center_table[c] < Before(t) + S[t]
    BY <1>8
  <2>2. PICK u \in pids : /\ d \in Mine(u) /\ center_table[d] \in Int
                          /\ Before(u) <= center_table[d] /\ center_table[d] < Before(u) + S[u]
    BY <1>8
  <2>3. t \in Int /\ u \in Int
    BY <1>0
  <2>4. ~(t < u)
    BY <1>3, <1>6, <1>7, <1>10, <2>1, <2>2
  <2>5. ~(u < t)
    BY <1>3, <1>6, <1>7, <1>10, <2>1, <2>2
  <2>6. t = u
    BY <2>3, <2>4, <2>5
  <2>7. Rank(Mine(t), c) + Before(t) = Rank(Mine(t), d) + Before(t)
    BY <1>10, <2>1, <2>2, <2>6 DEF NumberedIn
  <2>8. IsFiniteSet(Mine(t)) /\ Mine(t) \subseteq Int
    BY MineApart DEF indices
  <2>9. /\ Rank(Mine(t), c) \in 0..(Cardinality(Mine(t)) - 1)
        /\ Rank(Mine(t), d) \in 0..(Cardinality(Mine(t)) - 1)
        /\ Rank(Mine(t), c) = Rank(Mine(t), d) => c = d
    BY <2>1, <2>2, <2>6, <2>8, Ranks
  <2> QED BY <1>6, <2>7, <2>9
<1> QED BY <1>9, <1>10 DEF Numbered

LEMMA PTableEnds ==
  ASSUME PointsOK, NEW r \in 0..2, NEW m, PTable(r, m), AllReached(r)
  PROVE  PLower(After(r), m)
<1>1. \A u \in pids : at[u] = "lower" /\ reached[u] = After(r)
  BY Barriers, Rounds DEF PTable, AllReached
<1>2. Phase(After(r), {"lower"}, {"closing"})
  BY <1>1 DEF Phase
<1>3. \A u \in pids : NumberedIn(u) /\ Cleared(u)
  BY <1>1 DEF PTable
<1>4. Numbered
  BY <1>3, NumberAll DEF PTable, Inside
<1> QED BY <1>1, <1>2, <1>3, <1>4 DEF PTable, PLower

-----------------------------------------------------------------------------
(***************************************************************************)
(* pgain: what opening the candidate gains.                                *)
(***************************************************************************)
LEMMA SumsStay ==
  ASSUME NEW u \in pids, UNCHANGED <<point, assign, cost, center_table>>, x(u)' = x(u)
  PROVE  /\ Switching(u)' = Switching(u) /\ OpeningOf(u)' = OpeningOf(u)
         /\ \A c : Saving(u, c)' = Saving(u, c)
<1>1. \A j : CostAt(j, x(u))' = CostAt(j, x(u))
  BY DEF CostAt, dist
<1>2. Block(u)' = Block(u)
  BY DEF Block
<1>3. Switching(u)' = Switching(u)
  BY <1>1, <1>2 DEF Switching
<1>4. OpeningOf(u)' = OpeningOf(u)
  BY <1>1, <1>3 DEF OpeningOf
<1>5. ASSUME NEW c PROVE Saving(u, c)' = Saving(u, c)
  BY <1>1, <1>2, <1>3 DEF Saving
<1> QED BY <1>3, <1>4, <1>5

LEMMA SavedStays ==
  ASSUME NEW m, UNCHANGED <<point, assign, cost, center_table>>,
         \A u \in pids : x(u)' = x(u) /\ Mine(u)' = Mine(u)
  PROVE  /\ \A j : Saved(m, j)' = Saved(m, j)
         /\ \A u \in pids : /\ ClosedIn(m, u)' = ClosedIn(m, u)
                            /\ Switching(u)' = Switching(u) /\ OpeningOf(u)' = OpeningOf(u)
                            /\ \A c : Saving(u, c)' = Saving(u, c)
<1>1. \A u \in pids : /\ Switching(u)' = Switching(u) /\ OpeningOf(u)' = OpeningOf(u)
                      /\ \A c : Saving(u, c)' = Saving(u, c)
  BY SumsStay
<1>2. ASSUME NEW j PROVE Saved(m, j)' = Saved(m, j)
  BY <1>1 DEF Saved
<1>3. ASSUME NEW u \in pids PROVE ClosedIn(m, u)' = ClosedIn(m, u)
  BY <1>2 DEF ClosedIn
<1> QED BY <1>1, <1>2, <1>3

LEMMA SavingType ==
  ASSUME PointsOK, Settled, NEW t \in pids, x(t) \in indices, NEW c
  PROVE  Saving(t, c) \in Int
<1> DEFINE S == {j \in {j \in Block(t) \ Switching(t) : center_table[assign[j]] = c} : TRUE}
           f == [j \in indices |-> cost[j] - CostAt(j, x(t))]
<1>1. S \subseteq indices /\ IsFiniteSet(S)
  <2>1. S \subseteq Block(t)
    OBVIOUS
  <2> QED BY <2>1, BlocksPartition, FS_Subset
<1>2. \A j \in indices : f[j] \in Int
  BY SettledTypes, Distances
<1>3. Saving(t, c) = SumFunction([j \in S |-> f[j]])
  <2>1. S = {j \in Block(t) \ Switching(t) : center_table[assign[j]] = c}
    OBVIOUS
  <2>2. [j \in S |-> cost[j] - CostAt(j, x(t))] = [j \in S |-> f[j]]
    BY <1>1
  <2> HIDE DEF f
  <2> QED BY <2>1, <2>2 DEF Saving
<1> HIDE DEF S, f
<1>4. \A j \in S : f[j] \in Int
  BY <1>1, <1>2
<1>5. SumFunction([j \in S |-> f[j]]) = SumFunctionOnSet(f, S)
  BY <1>1, <1>4, SumOfDefined
<1> QED BY <1>1, <1>3, <1>4, <1>5, SumType

LEMMA NumberedStays ==
  ASSUME Numbered, Centers' = Centers, UNCHANGED <<center_table, k>>
  PROVE  Numbered'
BY DEF Numbered

LEMMA PLowerStep ==
  ASSUME Base, HasShape, NEW r \in 0..2, NEW m, PLower(r, m),
         NEW t \in pids, reached[t] = r, Step(t) \/ Wake(t)
  PROVE  PLower(r, m)'
<1>0. DOMAIN work_mem = pids /\ DOMAIN my = pids /\ DOMAIN my[t] = Fields
  BY DEF HasShape
<1>1. Phase(r, {"lower"}, {"closing"}) /\ Inside(m) /\ Settled /\ PointsOK /\ Numbered
  BY DEF PLower, Inside, Base
<1>2. at[t] = "lower"
  BY <1>1, Barriers
<1>3. Lower(t)
  BY <1>2, StepAt
<1>4. /\ UNCHANGED <<point, assign, cost, k, is_center, feasible, center_table,
                     gl_number_of_centers_to_close>>
      /\ ReachBarrier(t, "closing")
      /\ my' = [my EXCEPT ![t].opening = OpeningOf(t)]
      /\ switch_membership' = [j \in indices |-> j \in Switching(t) \/ switch_membership[j]]
      /\ work_mem' = [work_mem EXCEPT ![t] = [c \in columns |-> @[c] + Saving(t, c)]]
  BY <1>3 DEF Lower, pointVars, OpeningOf
<1>5. /\ Inside(m)' /\ Phase(r, {"lower"}, {"closing"})' /\ Centers' = Centers
      /\ at'[t] = "closing" /\ \A u \in pids : u # t => at'[u] = at[u]
      /\ \A u \in pids : Mine(u)' = Mine(u) /\ x(u)' = x(u) /\ x(u) = Candidate(m)
      /\ \A u \in pids : u # t => my'[u] = my[u]
  <2>1. Keeps(t)
    BY <1>4, LocalsKept
  <2> QED BY <1>1, <1>4, <2>1, GainStep
<1>6. my'[t].K = my[t].K /\ my'[t].opening = OpeningOf(t)
  BY <1>0, <1>4 DEF Fields
<1>7. KnowsCount' /\ NoneClosing' /\ Numbered'
  BY <1>1, <1>4, <1>5, <1>6, NumberedStays DEF PLower, KnowsCount, NoneClosing
<1>8. \A u \in pids : /\ Switching(u)' = Switching(u) /\ OpeningOf(u)' = OpeningOf(u)
                      /\ \A c : Saving(u, c)' = Saving(u, c)
  BY <1>4, <1>5, SavedStays
<1>9. /\ \A u \in pids : Block(u)' = Block(u) /\ Block(u) \subseteq indices
                         /\ Switching(u) \subseteq Block(u)
      /\ columns' = columns
  BY BlocksPartition DEF Block, columns, Switching
<1>10. SwitchesIn(t)' /\ my'[t].opening = OpeningOf(t)' /\ \A c \in columns : (work_mem[t][c] = Saving(t, c))'
  <2>1. Cleared(t)
    BY <1>2 DEF PLower
  <2>2. \A j \in Block(t) : switch_membership'[j] <=> j \in Switching(t)
    BY <1>4, <1>9, <2>1 DEF Cleared
  <2>3. ASSUME NEW c \in columns PROVE work_mem'[t][c] = Saving(t, c)
    <3>1. work_mem'[t][c] = work_mem[t][c] + Saving(t, c)
      BY <1>0, <1>4
    <3>2. work_mem[t][c] = 0
      BY <2>1 DEF Cleared
    <3>3. x(t) \in indices
      BY <1>1, <1>5, SameCandidate DEF Inside
    <3>4. Saving(t, c) \in Int
      BY <1>1, <3>3, SavingType
    <3> QED BY <3>1, <3>2, <3>4
  <2>4. SwitchesIn(t)'
    BY <1>8, <1>9, <2>2 DEF SwitchesIn
  <2>5. \A c \in columns : (work_mem[t][c] = Saving(t, c))'
    BY <1>8, <2>3
  <2> QED BY <1>6, <1>8, <2>4, <2>5
<1>11. ASSUME NEW u \in pids, u # t
       PROVE  IF at'[u] = "lower" THEN Cleared(u)'
              ELSE /\ SwitchesIn(u)' /\ (my[u].opening = OpeningOf(u))'
                   /\ \A c \in columns : (work_mem[u][c] = Saving(u, c))'
  <2>1. Block(u) \cap Switching(t) = {}
    BY <1>9, <1>11, BlocksPartition
  <2>2. \A j \in Block(u) : switch_membership'[j] <=> switch_membership[j]
    BY <1>4, <1>9, <2>1
  <2>3. work_mem'[u] = work_mem[u] /\ my'[u] = my[u] /\ at'[u] = at[u]
    BY <1>0, <1>4, <1>5, <1>11
  <2>4. CASE at[u] = "lower"
    <3>1. Cleared(u)
      BY <2>4 DEF PLower
    <3>2. Cleared(u)'
      BY <1>9, <2>2, <2>3, <3>1 DEF Cleared
    <3> QED BY <2>3, <2>4, <3>2
  <2>5. CASE at[u] # "lower"
    <3>1. SwitchesIn(u) /\ my[u].opening = OpeningOf(u) /\ \A c \in columns : work_mem[u][c] = Saving(u, c)
      BY <2>5 DEF PLower
    <3>2. SwitchesIn(u)'
      BY <1>8, <1>9, <2>2, <3>1 DEF SwitchesIn
    <3>3. (my[u].opening = OpeningOf(u))' /\ \A c \in columns : (work_mem[u][c] = Saving(u, c))'
      BY <1>8, <2>3, <3>1
    <3> QED BY <2>3, <2>5, <3>2, <3>3
  <2> QED BY <2>4, <2>5
<1>12. ASSUME NEW u \in pids
       PROVE  IF at'[u] = "lower" THEN Cleared(u)'
              ELSE /\ SwitchesIn(u)' /\ (my[u].opening = OpeningOf(u))'
                   /\ \A c \in columns' : (work_mem[u][c] = Saving(u, c))'
  BY <1>5, <1>9, <1>10, <1>11
<1> QED BY <1>5, <1>7, <1>12 DEF PLower

LEMMA PLowerEnds ==
  ASSUME PointsOK, NEW r \in 0..2, NEW m, PLower(r, m), AllReached(r)
  PROVE  PClosing(After(r), m)
<1>1. \A u \in pids : at[u] = "closing" /\ reached[u] = After(r)
  BY Barriers, Rounds DEF PLower, AllReached
<1>2. Phase(After(r), {"closing"}, {"aggregate"})
  BY <1>1 DEF Phase
<1>3. k \in Nat /\ k <= num /\ num \in Nat
  BY SettledTypes, KMedianAssumption DEF PLower, Inside
<1>4. 0..k-1 \subseteq columns
  BY <1>3 DEF columns
<1> QED BY <1>1, <1>2, <1>4, FiniteSets DEF PLower, PClosing

\* A thread sums up the columns of its centers.
LEMMA LowIsSaved ==
  ASSUME HasShape, NEW m, Inside(m), Numbered, NEW t \in pids, NEW j \in Mine(t),
         \A u \in pids : \A c \in 0..k-1 : work_mem[u][c] = Saving(u, c)
  PROVE  /\ Low(t, j) = Saved(m, j) /\ j \in Centers /\ center_table[j] \in 0..k-1
<1>1. j \in indices /\ is_center[j]
  BY MineApart DEF Mine
<1>2. j \in Centers
  BY <1>1 DEF Inside, Settled
<1>3. PICK c \in 0..k-1 : c = center_table[j]
  BY <1>2 DEF Numbered
<1>4. [p \in pids |-> work_mem[p][c]] = [p \in pids |-> Saving(p, c)]
  BY <1>3
<1>5. my[t].z = m.z
  BY DEF Inside, Like
<1>6. Low(t, j) = Saved(m, j)
  BY <1>3, <1>4, <1>5 DEF Low, Saved
<1> QED BY <1>2, <1>3, <1>6

LEMMA PClosingStep ==
  ASSUME Base, HasShape, NEW r \in 0..2, NEW m, PClosing(r, m),
         NEW t \in pids, reached[t] = r, Step(t) \/ Wake(t)
  PROVE  PClosing(r, m)'
<1>0. /\ DOMAIN work_mem = pids /\ \A u \in pids : DOMAIN work_mem[u] = columns
      /\ DOMAIN my = pids /\ DOMAIN my[t] = Fields
  BY DEF HasShape
<1>1. Phase(r, {"closing"}, {"aggregate"}) /\ Inside(m) /\ Settled /\ PointsOK /\ Numbered
  BY DEF PClosing, Inside, Base
<1>2. at[t] = "closing"
  BY <1>1, Barriers
<1>3. Closing(t)
  BY <1>2, StepAt
<1>4. k \in Nat /\ k \in columns /\ k + 1 \in columns /\ 0..k-1 \subseteq columns /\ my[t].K = k
  <2>1. k \in Nat /\ k <= num /\ num \in Nat
    BY <1>1, SettledTypes, KMedianAssumption
  <2> QED BY <2>1 DEF columns, PClosing, KnowsCount
<1>5. /\ \A u \in pids : SwitchesIn(u) /\ \A c \in 0..k-1 : work_mem[u][c] = Saving(u, c)
      /\ my[t].opening = OpeningOf(t)
  BY <1>2 DEF PClosing
<1>6. \A u \in pids : \A j \in Mine(u) :
        Low(u, j) = Saved(m, j) /\ j \in Centers /\ center_table[j] \in 0..k-1
  BY <1>1, <1>5, LowIsSaved
<1>7. Closed(t) = ClosedIn(m, t)
  BY <1>6 DEF Closed, ClosedIn
<1>8. [j \in Closed(t) |-> Low(t, j)] = [j \in ClosedIn(m, t) |-> Saved(m, j)]
  <2>1. \A j \in ClosedIn(m, t) : Low(t, j) = Saved(m, j)
    BY <1>6 DEF ClosedIn
  <2> QED BY <1>7, <2>1
<1>9. PICK a, b : /\ a = Cardinality(ClosedIn(m, t))
                  /\ b = OpeningOf(t) - SumFunction([j \in ClosedIn(m, t) |-> Saved(m, j)])
  OBVIOUS
<1>10. /\ UNCHANGED <<point, assign, cost, k, is_center, feasible, center_table,
                      switch_membership, gl_number_of_centers_to_close>>
       /\ ReachBarrier(t, "aggregate")
       /\ my' = [my EXCEPT ![t].opening = 0]
       /\ gl_lower' = [c \in columns |->
            IF \E j \in Mine(t) : center_table[j] = c
              THEN Low(t, CHOOSE j \in Mine(t) : center_table[j] = c) ELSE gl_lower[c]]
  BY <1>3 DEF Closing, pointVars
<1>11. work_mem' = [work_mem EXCEPT ![t][k] = a, ![t][k + 1] = b]
  BY <1>3, <1>4, <1>5, <1>7, <1>8, <1>9 DEF Closing
<1>12. /\ Inside(m)' /\ Phase(r, {"closing"}, {"aggregate"})' /\ Centers' = Centers
       /\ at'[t] = "aggregate" /\ \A u \in pids : u # t => at'[u] = at[u]
       /\ \A u \in pids : Mine(u)' = Mine(u) /\ x(u)' = x(u)
       /\ \A u \in pids : u # t => my'[u] = my[u]
  <2>1. Keeps(t)
    BY <1>10, LocalsKept
  <2> QED BY <1>1, <1>10, <2>1, GainStep
<1>13. my'[t].K = my[t].K
  BY <1>0, <1>10 DEF Fields
<1>14. KnowsCount' /\ NoneClosing' /\ Numbered'
  BY <1>1, <1>10, <1>12, <1>13, NumberedStays DEF PClosing, KnowsCount, NoneClosing
<1>15. /\ \A j : Saved(m, j)' = Saved(m, j)
       /\ \A u \in pids : /\ ClosedIn(m, u)' = ClosedIn(m, u)
                          /\ Switching(u)' = Switching(u) /\ OpeningOf(u)' = OpeningOf(u)
                          /\ \A c : Saving(u, c)' = Saving(u, c)
  BY <1>10, <1>12, SavedStays
<1>16. /\ work_mem'[t][k] = a /\ work_mem'[t][k + 1] = b
       /\ \A c \in 0..k-1 : work_mem'[t][c] = work_mem[t][c]
       /\ \A u \in pids : u # t => work_mem'[u] = work_mem[u]
  <2>1. k # k + 1 /\ \A c \in 0..k-1 : c # k /\ c # k + 1
    BY <1>4
  <2>2. PICK w : w = [work_mem EXCEPT ![t][k] = a]
    OBVIOUS
  <2>3. DOMAIN w = pids /\ DOMAIN w[t] = columns /\ w[t][k] = a
        /\ (\A c \in columns : c # k => w[t][c] = work_mem[t][c])
        /\ \A u \in pids : u # t => w[u] = work_mem[u]
    BY <1>0, <1>4, <2>2
  <2>4. work_mem' = [w EXCEPT ![t][k + 1] = b]
    BY <1>11, <2>2
  <2>5. /\ work_mem'[t][k + 1] = b /\ (\A c \in columns : c # k + 1 => work_mem'[t][c] = w[t][c])
        /\ \A u \in pids : u # t => work_mem'[u] = w[u]
    BY <1>4, <2>3, <2>4
  <2> QED BY <1>4, <2>1, <2>3, <2>5
<1>17. \A u \in pids : SwitchesIn(u)' /\ \A c \in (0..k-1)' : (work_mem[u][c] = Saving(u, c))'
  <2>1. ASSUME NEW u \in pids PROVE SwitchesIn(u)'
    <3>1. Block(u)' = Block(u)
      BY DEF Block
    <3> QED BY <1>5, <1>10, <1>15, <3>1 DEF SwitchesIn
  <2>2. \A u \in pids : \A c \in 0..k-1 : work_mem'[u][c] = work_mem[u][c]
    BY <1>16
  <2> QED BY <1>5, <1>10, <1>15, <2>1, <2>2
<1>18. LoweredIn(m, t)'
  <2>1. ASSUME NEW j \in Mine(t) PROVE gl_lower'[center_table[j]] = Saved(m, j)
    <3>1. PICK c : c = center_table[j]
      OBVIOUS
    <3>2. c \in columns
      BY <1>4, <1>6, <3>1
    <3>3. (CHOOSE n \in Mine(t) : center_table[n] = c) = j
      <4>1. \A n \in Mine(t) : center_table[n] = c => n = j
        BY <1>1, <1>6, <3>1 DEF Numbered
      <4> QED BY <3>1, <4>1
    <3>4. gl_lower'[c] = Low(t, j)
      BY <1>10, <3>1, <3>2, <3>3
    <3> QED BY <1>6, <3>1, <3>4
  <2> QED BY <1>10, <1>12, <1>15, <2>1 DEF LoweredIn
<1>19. SummedIn(m, t)'
  <2>1. /\ Cardinality(ClosedIn(m, t))' = a
        /\ (OpeningOf(t) - SumFunction([j \in ClosedIn(m, t) |-> Saved(m, j)]))' = b
    BY <1>9, <1>15
  <2> QED BY <1>10, <1>16, <2>1 DEF SummedIn
<1>20. ASSUME NEW u \in pids, u # t
       PROVE  IF at'[u] = "closing" THEN (my[u].opening = OpeningOf(u))'
                                    ELSE LoweredIn(m, u)' /\ SummedIn(m, u)'
  <2>1. CASE at[u] = "closing"
    <3>1. my[u].opening = OpeningOf(u)
      BY <2>1 DEF PClosing
    <3> QED BY <1>12, <1>15, <1>20, <2>1, <3>1
  <2>2. CASE at[u] # "closing"
    <3>1. LoweredIn(m, u) /\ SummedIn(m, u)
      BY <2>2 DEF PClosing
    <3>2. LoweredIn(m, u)'
      <4>1. ASSUME NEW j \in Mine(u) PROVE gl_lower'[center_table[j]] = Saved(m, j)
        <5>1. center_table[j] \in columns
          BY <1>4, <1>6
        <5>2. ~ \E n \in Mine(t) : center_table[n] = center_table[j]
          <6>1. \A n \in Mine(t) : n # j
            BY <1>20, MineApart
          <6> QED BY <1>1, <1>6, <6>1 DEF Numbered
        <5>3. gl_lower'[center_table[j]] = gl_lower[center_table[j]]
          BY <1>10, <5>1, <5>2
        <5> QED BY <3>1, <5>3 DEF LoweredIn
      <4>2. center_table' = center_table /\ Mine(u)' = Mine(u)
        BY <1>10, <1>12
      <4>3. \A j : Saved(m, j)' = Saved(m, j)
        BY <1>15
      <4> QED BY <4>1, <4>2, <4>3 DEF LoweredIn
    <3>3. SummedIn(m, u)'
      <4>1. /\ Cardinality(ClosedIn(m, u))' = Cardinality(ClosedIn(m, u))
            /\ (OpeningOf(u) - SumFunction([j \in ClosedIn(m, u) |-> Saved(m, j)]))'
                 = OpeningOf(u) - SumFunction([j \in ClosedIn(m, u) |-> Saved(m, j)])
        BY <1>15
      <4>2. work_mem'[u] = work_mem[u] /\ k' = k
        BY <1>10, <1>16, <1>20
      <4> QED BY <3>1, <4>1, <4>2 DEF SummedIn
    <3> QED BY <1>12, <1>20, <2>2, <3>2, <3>3
  <2> QED BY <2>1, <2>2
<1>21. ASSUME NEW u \in pids
       PROVE  IF at'[u] = "closing" THEN (my[u].opening = OpeningOf(u))'
                                    ELSE LoweredIn(m, u)' /\ SummedIn(m, u)'
  BY <1>12, <1>18, <1>19, <1>20
<1> QED BY <1>12, <1>14, <1>17, <1>21 DEF PClosing

LEMMA PClosingEnds ==
  ASSUME NEW r \in 0..2, NEW m, PClosing(r, m), AllReached(r)
  PROVE  PAggregate(After(r), m)
<1>1. \A u \in pids : at[u] = "aggregate" /\ reached[u] = After(r)
  BY Barriers, Rounds DEF PClosing, AllReached
<1>2. Phase(After(r), {"aggregate"}, {"apply"})
  BY <1>1 DEF Phase
<1>3. \A u \in pids : SwitchesIn(u) /\ LoweredIn(m, u) /\ SummedIn(m, u)
  BY <1>1 DEF PClosing
<1> QED BY <1>1, <1>2, <1>3, FiniteSets DEF PClosing, PAggregate

LEMMA PAggregateStep ==
  ASSUME Base, HasShape, NEW r \in 0..2, NEW m, PAggregate(r, m),
         NEW t \in pids, reached[t] = r, Step(t) \/ Wake(t)
  PROVE  PAggregate(r, m)'
<1>1. Phase(r, {"aggregate"}, {"apply"}) /\ Inside(m) /\ Settled /\ PointsOK /\ Numbered
  BY DEF PAggregate, Inside, Base
<1>2. at[t] = "aggregate"
  BY <1>1, Barriers
<1>3. Aggregate(t) /\ my[t].K = k /\ my[t].z = m.z
  BY <1>1, <1>2, StepAt DEF PAggregate, KnowsCount, Inside, Like
<1>4. PICK a, b : /\ a = SumFunction([p \in pids |-> work_mem[p][k]])
                  /\ b = SumFunction([p \in pids |-> work_mem[p][k + 1]])
  OBVIOUS
<1>5. /\ UNCHANGED <<point, assign, cost, k, is_center, feasible, center_table, my, work_mem,
                     switch_membership, gl_lower>>
      /\ ReachBarrier(t, "apply")
      /\ IF t = 0
           THEN /\ gl_number_of_centers_to_close' = gl_number_of_centers_to_close + a
                /\ gl_cost_of_opening_x' = m.z + b
           ELSE UNCHANGED <<gl_cost_of_opening_x, gl_number_of_centers_to_close>>
  BY <1>3, <1>4 DEF Aggregate, pointVars
<1>6. /\ Inside(m)' /\ Phase(r, {"aggregate"}, {"apply"})' /\ Centers' = Centers /\ 0 \in pids
      /\ at'[t] = "apply" /\ \A u \in pids : u # t => at'[u] = at[u]
      /\ \A u \in pids : Mine(u)' = Mine(u) /\ x(u)' = x(u)
  <2>1. Keeps(t)
    BY <1>5, LocalsKept
  <2> QED BY <1>1, <1>5, <2>1, GainStep
<1>7. KnowsCount' /\ Numbered'
  BY <1>1, <1>5, <1>6, NumberedStays DEF PAggregate, KnowsCount
<1>8. /\ \A j : Saved(m, j)' = Saved(m, j)
      /\ \A u \in pids : /\ ClosedIn(m, u)' = ClosedIn(m, u)
                         /\ Switching(u)' = Switching(u) /\ OpeningOf(u)' = OpeningOf(u)
  BY <1>5, <1>6, SavedStays
<1>9. ASSUME NEW u \in pids PROVE SwitchesIn(u)' /\ LoweredIn(m, u)' /\ SummedIn(m, u)'
  <2>1. SwitchesIn(u) /\ LoweredIn(m, u) /\ SummedIn(m, u) /\ Block(u)' = Block(u)
    BY DEF PAggregate, Block
  <2>2. SwitchesIn(u)'
    BY <1>5, <1>8, <2>1 DEF SwitchesIn
  <2>3. LoweredIn(m, u)'
    BY <1>5, <1>6, <1>8, <2>1 DEF LoweredIn
  <2>4. SummedIn(m, u)'
    <3>1. /\ Cardinality(ClosedIn(m, u))' = Cardinality(ClosedIn(m, u))
          /\ (OpeningOf(u) - SumFunction([j \in ClosedIn(m, u) |-> Saved(m, j)]))'
               = OpeningOf(u) - SumFunction([j \in ClosedIn(m, u) |-> Saved(m, j)])
      BY <1>8
    <3> QED BY <1>5, <2>1, <3>1 DEF SummedIn
  <2> QED BY <2>2, <2>3, <2>4
<1>10. /\ SumFunction([p \in pids |-> work_mem[p][k]])' = a
       /\ SumFunction([p \in pids |-> work_mem[p][k + 1]])' = b
  BY <1>4, <1>5
<1>11. a \in Int
  <2>1. ASSUME NEW p \in pids PROVE work_mem[p][k] \in Int
    <3>1. IsFiniteSet(ClosedIn(m, p))
      BY MineApart, FS_Subset DEF ClosedIn
    <3>2. Cardinality(ClosedIn(m, p)) \in Nat
      BY <3>1, FS_CardinalityType
    <3>3. SummedIn(m, p)
      BY DEF PAggregate
    <3> QED BY <3>2, <3>3 DEF SummedIn
  <2>2. PICK f : f = [p \in pids |-> work_mem[p][k]]
    OBVIOUS
  <2>3. (\A p \in pids : f[p] \in Int) /\ DOMAIN f = pids
    BY <2>1, <2>2
  <2>4. SumFunctionOnSet(f, pids) \in Int
    BY <2>3, FiniteSets, SumType
  <2> QED BY <1>4, <2>2, <2>3, <2>4, SumOfFunction
<1>12. IF at'[0] = "aggregate" THEN NoneClosing'
       ELSE /\ gl_number_of_centers_to_close' = a /\ gl_cost_of_opening_x' = m.z + b
  <2>1. CASE t = 0
    <3>1. gl_number_of_centers_to_close = 0
      BY <1>2, <2>1 DEF PAggregate, NoneClosing
    <3> QED BY <1>5, <1>6, <1>11, <2>1, <3>1
  <2>2. CASE t # 0
    <3>1. at'[0] = at[0] /\ UNCHANGED <<gl_cost_of_opening_x, gl_number_of_centers_to_close>>
      BY <1>5, <1>6, <2>2
    <3> QED BY <1>4, <3>1 DEF PAggregate, NoneClosing
  <2> QED BY <2>1, <2>2
<1> QED BY <1>6, <1>7, <1>9, <1>10, <1>12 DEF PAggregate

-----------------------------------------------------------------------------
(***************************************************************************)
(* What the sums of pgain say: the cost of opening the candidate is the    *)
(* price of the centers gained less that of those closed, and what the     *)
(* points that move cost more.                                             *)
(***************************************************************************)
Change(m) == [j \in indices |-> CostAt(j, Candidate(m)) - cost[j]]
Switches(m) == {j \in indices : CostAt(j, Candidate(m)) < cost[j]}
Members(m, c) == {j \in indices \ Switches(m) : assign[j] = c}
Closes(m) == {c \in Centers : Saved(m, c) > 0}
Left(m) == {j \in indices \ Switches(m) : assign[j] \in Closes(m)}

\* What is not switched and what is, block by block.
LEMMA SwitchesOfBlocks ==
  ASSUME PointsOK, NEW m, Inside(m)
  PROVE  /\ Candidate(m) \in indices /\ \A t \in pids : x(t) = Candidate(m)
         /\ \A t \in pids : Switching(t) = {j \in Block(t) : j \in Switches(m)}
         /\ \A j \in indices : Change(m)[j] \in Int /\ cost[j] \in Nat
<1>1. Candidate(m) \in indices /\ \A t \in pids : x(t) = Candidate(m)
  BY SameCandidate DEF Inside
<1>2. ASSUME NEW t \in pids PROVE Switching(t) = {j \in Block(t) : j \in Switches(m)}
  BY <1>1, BlocksPartition DEF Switching, Switches
<1>3. ASSUME NEW j \in indices PROVE Change(m)[j] \in Int /\ cost[j] \in Nat
  <2>1. cost[j] \in Nat /\ CostAt(j, Candidate(m)) \in Nat
    BY <1>1, SettledTypes, Distances DEF Inside
  <2> QED BY <2>1 DEF Change
<1> QED BY <1>1, <1>2, <1>3

\* The opposite numbers have the opposite sum.
LEMMA SumOpposite ==
  ASSUME NEW S, IsFiniteSet(S), NEW f, NEW g, \A a \in S : f[a] \in Int /\ g[a] = -f[a]
  PROVE  /\ SumFunctionOnSet(f, S) \in Int
         /\ SumFunctionOnSet(g, S) = -SumFunctionOnSet(f, S)
<1> DEFINE o == [a \in S |-> 0]
<1>1. \A a \in S : o[a] = f[a] + g[a] /\ f[a] \in Int /\ g[a] \in Int
  OBVIOUS
<1>2. \A a \in S : o[a] = 0
  OBVIOUS
<1> HIDE DEF o
<1>3. SumFunctionOnSet(o, S) = SumFunctionOnSet(f, S) + SumFunctionOnSet(g, S)
  BY <1>1, SumPlus
<1>4. SumFunctionOnSet(o, S) = 0
  BY <1>2, SumZero
<1>5. SumFunctionOnSet(f, S) \in Int /\ SumFunctionOnSet(g, S) \in Int
  BY <1>1, SumType
<1> QED BY <1>3, <1>4, <1>5

\* Closing a center saves its price, less what its members cost more at the
\* candidate.
LEMMA Shares ==
  ASSUME PointsOK, NEW m, Inside(m), Numbered, NEW c \in Centers
  PROVE  /\ IsFiniteSet(Members(m, c)) /\ Saved(m, c) \in Int
         /\ SumFunctionOnSet(Change(m), Members(m, c)) \in Int
         /\ Saved(m, c) = m.z - SumFunctionOnSet(Change(m), Members(m, c))
<1> DEFINE f == [j \in indices |-> cost[j] - CostAt(j, Candidate(m))]
           P == [t \in pids |-> {j \in Block(t) \ Switching(t) : center_table[assign[j]] = center_table[c]}]
           g == [t \in pids |-> Saving(t, center_table[c])]
<1>0. m.z \in Int /\ Settled
  BY DEF Inside, Ready, Locals
<1>1. /\ Candidate(m) \in indices /\ \A t \in pids : x(t) = Candidate(m)
      /\ \A t \in pids : Switching(t) = {j \in Block(t) : j \in Switches(m)}
      /\ \A j \in indices : Change(m)[j] \in Int /\ cost[j] \in Nat
  BY SwitchesOfBlocks
<1>2. PICK X \in indices : X = Candidate(m)
  BY <1>1
<1>3. \A j \in indices : f[j] \in Int /\ f[j] = -Change(m)[j]
  <2>1. \A j \in indices : CostAt(j, X) \in Nat /\ cost[j] \in Nat
    BY <1>1, Distances
  <2> QED BY <1>2, <2>1 DEF Change
<1>4. \A t \in pids : P[t] = {j \in Block(t) : j \in Members(m, c)}
  <2>1. \A j \in indices : assign[j] \in Centers
    BY <1>0, SettledTypes
  <2>2. \A j \in indices : center_table[assign[j]] = center_table[c] <=> assign[j] = c
    BY <2>1 DEF Numbered
  <2>3. \A t \in pids : Block(t) \subseteq indices
    BY BlocksPartition
  <2> QED BY <1>1, <2>2, <2>3 DEF Members
<1>5. \A t \in pids : g[t] = SumFunctionOnSet(f, P[t])
  <2> SUFFICES ASSUME NEW t \in pids PROVE g[t] = SumFunctionOnSet(f, P[t])
    OBVIOUS
  <2>1. P[t] \subseteq indices /\ IsFiniteSet(P[t])
    <3>1. P[t] \subseteq Block(t)
      OBVIOUS
    <3> QED BY <3>1, BlocksPartition, FS_Subset
  <2>2. PICK S : S = P[t]
    OBVIOUS
  <2>3. S = {j \in Block(t) \ Switching(t) : center_table[assign[j]] = center_table[c]}
    BY <2>2
  <2>4. [j \in S |-> cost[j] - CostAt(j, x(t))] = [j \in S |-> f[j]]
    BY <1>1, <2>1, <2>2
  <2>5. g[t] = SumFunction([j \in S |-> cost[j] - CostAt(j, x(t))])
    BY <2>3 DEF Saving
  <2> HIDE DEF P, f, g
  <2>6. \A j \in S : f[j] \in Int
    BY <1>3, <2>1, <2>2
  <2>7. SumFunction([j \in S |-> f[j]]) = SumFunctionOnSet(f, S)
    BY <2>1, <2>2, <2>6, SumOfDefined
  <2> QED BY <2>2, <2>4, <2>5, <2>7
<1>6. Saved(m, c) = m.z + SumFunctionOnSet(g, pids)
  <2>1. Saved(m, c) = m.z + SumFunction(g)
    BY DEF Saved
  <2>2. DOMAIN g = pids
    OBVIOUS
  <2> HIDE DEF g
  <2> QED BY <2>1, <2>2, SumOfFunction
<1> HIDE DEF P, f, g
<1>7. Members(m, c) \subseteq indices /\ IsFiniteSet(Members(m, c))
  <2>1. Members(m, c) \subseteq indices
    BY DEF Members
  <2> QED BY <2>1, FiniteSets, FS_Subset
<1>8. Parts(P, pids, Members(m, c))
  <2>1. \A t \in pids : IsFiniteSet(P[t]) /\ P[t] \subseteq Members(m, c)
    <3> SUFFICES ASSUME NEW t \in pids PROVE IsFiniteSet(P[t]) /\ P[t] \subseteq Members(m, c)
      OBVIOUS
    <3>1. P[t] \subseteq Members(m, c)
      BY <1>4
    <3> QED BY <1>7, <3>1, FS_Subset
  <2>2. \A t, u \in pids : t # u => P[t] \cap P[u] = {}
    BY <1>4, BlocksPartition
  <2>3. \A j \in Members(m, c) : \E t \in pids : j \in P[t]
    BY <1>4, <1>7, BlocksPartition
  <2> QED BY <2>1, <2>2, <2>3 DEF Parts
<1>9. SumFunctionOnSet(g, pids) = SumFunctionOnSet(f, Members(m, c))
  <2>1. \A j \in Members(m, c) : f[j] \in Int
    BY <1>3, <1>7
  <2> QED BY <1>5, <1>8, <2>1, FiniteSets, SumByParts
<1>10. /\ SumFunctionOnSet(Change(m), Members(m, c)) \in Int
       /\ SumFunctionOnSet(f, Members(m, c)) = -SumFunctionOnSet(Change(m), Members(m, c))
  <2>1. \A j \in Members(m, c) : Change(m)[j] \in Int /\ f[j] = -Change(m)[j]
    BY <1>1, <1>3, <1>7
  <2> QED BY <1>7, <2>1, SumOpposite
<1> QED BY <1>0, <1>6, <1>7, <1>9, <1>10

\* What the points that switch cost less.
LEMMA Openings ==
  ASSUME PointsOK, NEW m, Inside(m), NEW g, \A t \in pids : g[t] = OpeningOf(t)
  PROVE  /\ SumFunctionOnSet(g, pids) = SumFunctionOnSet(Change(m), Switches(m))
         /\ \A t \in pids : g[t] \in Int
<1> DEFINE P == [t \in pids |-> Switching(t)]
<1>1. /\ \A t \in pids : x(t) = Candidate(m)
      /\ \A t \in pids : P[t] = {j \in Block(t) : j \in Switches(m)}
      /\ \A j \in indices : Change(m)[j] \in Int
  BY SwitchesOfBlocks
<1>2. PICK d : d = Change(m)
  OBVIOUS
<1>3. \A t \in pids : g[t] = SumFunctionOnSet(d, P[t]) /\ g[t] \in Int
  <2> SUFFICES ASSUME NEW t \in pids PROVE g[t] = SumFunctionOnSet(d, P[t]) /\ g[t] \in Int
    OBVIOUS
  <2>1. P[t] \subseteq indices /\ IsFiniteSet(P[t])
    <3>1. P[t] \subseteq Block(t)
      BY <1>1
    <3> QED BY <3>1, BlocksPartition, FS_Subset
  <2>2. PICK S : S = P[t] /\ S = Switching(t)
    OBVIOUS
  <2>3. [j \in S |-> CostAt(j, x(t)) - cost[j]] = [j \in S |-> d[j]]
    BY <1>1, <1>2, <2>1, <2>2 DEF Change
  <2>4. g[t] = SumFunction([j \in S |-> CostAt(j, x(t)) - cost[j]])
    BY <2>2 DEF OpeningOf
  <2> HIDE DEF P
  <2>5. \A j \in S : d[j] \in Int
    BY <1>1, <1>2, <2>1, <2>2
  <2>6. SumFunction([j \in S |-> d[j]]) = SumFunctionOnSet(d, S) /\ SumFunctionOnSet(d, S) \in Int
    BY <2>1, <2>2, <2>5, SumOfDefined, SumType
  <2> QED BY <2>2, <2>3, <2>4, <2>6
<1> HIDE DEF P
<1>4. Parts(P, pids, Switches(m)) /\ Switches(m) \subseteq indices
  <2>0. Switches(m) \subseteq indices
    BY DEF Switches
  <2>1. \A t \in pids : IsFiniteSet(P[t]) /\ P[t] \subseteq Switches(m)
    <3> SUFFICES ASSUME NEW t \in pids PROVE IsFiniteSet(P[t]) /\ P[t] \subseteq Switches(m)
      OBVIOUS
    <3>1. P[t] \subseteq Block(t) /\ P[t] \subseteq Switches(m)
      BY <1>1
    <3> QED BY <3>1, BlocksPartition, FS_Subset
  <2>2. \A t, u \in pids : t # u => P[t] \cap P[u] = {}
    BY <1>1, BlocksPartition
  <2>3. \A j \in Switches(m) : \E t \in pids : j \in P[t]
    BY <1>1, <2>0, BlocksPartition
  <2> QED BY <2>0, <2>1, <2>2, <2>3 DEF Parts
<1>5. SumFunctionOnSet(g, pids) = SumFunctionOnSet(d, Switches(m))
  <2>1. \A j \in Switches(m) : d[j] \in Int
    BY <1>1, <1>2, <1>4
  <2> QED BY <1>3, <1>4, <2>1, FiniteSets, SumByParts
<1> QED BY <1>2, <1>3, <1>5

SavedBy(m) == [c \in Centers |-> Saved(m, c)]

\* How many centers the threads close, and what that saves.
LEMMA Closings ==
  ASSUME PointsOK, NEW m, Inside(m), Numbered,
         NEW g, \A t \in pids : g[t] = Cardinality(ClosedIn(m, t)),
         NEW h, \A t \in pids : h[t] = SumFunction([j \in ClosedIn(m, t) |-> Saved(m, j)])
  PROVE  /\ Closes(m) \subseteq Centers /\ IsFiniteSet(Closes(m))
         /\ SumFunctionOnSet(g, pids) = Cardinality(Closes(m))
         /\ SumFunctionOnSet(h, pids) = SumFunctionOnSet(SavedBy(m), Closes(m))
         /\ \A t \in pids : h[t] \in Int
<1> DEFINE P == [t \in pids |-> ClosedIn(m, t)]
           one == [c \in Centers |-> 1]
<1>1. /\ Centers \subseteq indices /\ IsFiniteSet(Centers)
      /\ \A c \in indices : is_center[c] <=> c \in Centers
  BY SettledTypes DEF Inside, Settled
<1>2. Closes(m) \subseteq Centers /\ IsFiniteSet(Closes(m))
  <2>1. Closes(m) \subseteq Centers
    BY DEF Closes
  <2> QED BY <1>1, <2>1, FS_Subset
<1>3. \A t \in pids : P[t] = {j \in Block(t) : j \in Closes(m)}
  BY <1>1, BlocksPartition DEF ClosedIn, Mine, Closes
<1>4. \A c \in Centers : one[c] = 1
  OBVIOUS
<1>5. PICK s : s = SavedBy(m)
  OBVIOUS
<1>6. \A c \in Centers : s[c] = Saved(m, c) /\ s[c] \in Int
  BY <1>5, Shares DEF SavedBy
<1>7. \A t \in pids : P[t] = ClosedIn(m, t)
  OBVIOUS
<1> HIDE DEF P, one
<1>8. Parts(P, pids, Closes(m))
  <2>1. \A t \in pids : IsFiniteSet(P[t]) /\ P[t] \subseteq Closes(m)
    <3> SUFFICES ASSUME NEW t \in pids PROVE IsFiniteSet(P[t]) /\ P[t] \subseteq Closes(m)
      OBVIOUS
    <3>1. P[t] \subseteq Closes(m)
      BY <1>3
    <3> QED BY <1>2, <3>1, FS_Subset
  <2>2. \A t, u \in pids : t # u => P[t] \cap P[u] = {}
    BY <1>3, BlocksPartition
  <2>3. \A j \in Closes(m) : \E t \in pids : j \in P[t]
    <3>1. Closes(m) \subseteq indices
      BY <1>1, <1>2
    <3> QED BY <1>3, <3>1, BlocksPartition
  <2> QED BY <2>1, <2>2, <2>3 DEF Parts
<1>9. SumFunctionOnSet(g, pids) = Cardinality(Closes(m))
  <2>1. ASSUME NEW t \in pids PROVE g[t] = SumFunctionOnSet(one, P[t])
    <3>1. IsFiniteSet(P[t]) /\ P[t] \subseteq Centers
      BY <1>2, <1>8 DEF Parts
    <3>2. SumFunctionOnSet(one, P[t]) = 1 * Cardinality(P[t]) /\ Cardinality(P[t]) \in Nat
      BY <1>4, <3>1, SumConstant, FS_CardinalityType
    <3> QED BY <1>7, <3>2
  <2>2. \A c \in Closes(m) : one[c] = 1
    BY <1>2, <1>4
  <2>3. SumFunctionOnSet(g, pids) = SumFunctionOnSet(one, Closes(m))
    BY <1>8, <2>1, <2>2, FiniteSets, SumByParts
  <2>4. SumFunctionOnSet(one, Closes(m)) = 1 * Cardinality(Closes(m)) /\ Cardinality(Closes(m)) \in Nat
    <3>1. PICK S : S = Closes(m)
      OBVIOUS
    <3>2. IsFiniteSet(S) /\ \A c \in S : one[c] = 1
      BY <1>2, <2>2, <3>1
    <3>3. SumFunctionOnSet(one, S) = 1 * Cardinality(S)
      BY <3>2, SumConstant
    <3>4. Cardinality(S) \in Nat
      BY <3>2, FS_CardinalityType
    <3> QED BY <3>1, <3>3, <3>4
  <2> QED BY <2>3, <2>4
<1>10. ASSUME NEW t \in pids PROVE h[t] = SumFunctionOnSet(s, P[t]) /\ h[t] \in Int
  <2>1. PICK S : S = P[t]
    OBVIOUS
  <2>2. IsFiniteSet(S) /\ S \subseteq Centers
    BY <1>2, <1>8, <2>1 DEF Parts
  <2>3. h[t] = SumFunction([j \in S |-> Saved(m, j)])
    BY <1>7, <2>1
  <2>4. [j \in S |-> Saved(m, j)] = [j \in S |-> s[j]]
    BY <1>6, <2>2
  <2>5. \A j \in S : s[j] \in Int
    BY <1>6, <2>2
  <2>6. SumFunction([j \in S |-> s[j]]) = SumFunctionOnSet(s, S) /\ SumFunctionOnSet(s, S) \in Int
    BY <2>2, <2>5, SumOfDefined, SumType
  <2> QED BY <2>1, <2>3, <2>4, <2>6
<1>11. SumFunctionOnSet(h, pids) = SumFunctionOnSet(s, Closes(m))
  <2>1. \A c \in Closes(m) : s[c] \in Int
    BY <1>2, <1>6
  <2> QED BY <1>8, <1>10, <2>1, FiniteSets, SumByParts
<1> QED BY <1>2, <1>5, <1>9, <1>10, <1>11

\* Together the closed centers save their prices, less what those they leave
\* cost more.
LEMMA ClosedShare ==
  ASSUME PointsOK, NEW m, Inside(m), Numbered,
         Closes(m) \subseteq Centers, IsFiniteSet(Closes(m))
  PROVE  /\ Cardinality(Closes(m)) \in Nat
         /\ IsFiniteSet(Left(m)) /\ SumFunctionOnSet(Change(m), Left(m)) \in Int
         /\ SumFunctionOnSet(SavedBy(m), Closes(m))
              = m.z * Cardinality(Closes(m)) - SumFunctionOnSet(Change(m), Left(m))
<1> DEFINE P == [c \in Closes(m) |-> Members(m, c)]
           g == [c \in Closes(m) |-> SumFunctionOnSet(Change(m), Members(m, c))]
           price == [c \in Closes(m) |-> m.z]
<1>0. m.z \in Int
  BY DEF Inside, Ready, Locals
<1>1. PICK d : d = Change(m)
  OBVIOUS
<1>2. \A j \in indices : d[j] \in Int
  BY <1>1, SwitchesOfBlocks
<1>3. PICK s : s = SavedBy(m)
  OBVIOUS
<1>4. \A c \in Closes(m) : /\ P[c] = Members(m, c) /\ IsFiniteSet(P[c])
                           /\ g[c] = SumFunctionOnSet(d, P[c]) /\ g[c] \in Int
                           /\ s[c] \in Int /\ price[c] = m.z /\ price[c] = s[c] + g[c]
  <2> SUFFICES ASSUME NEW c \in Closes(m)
               PROVE  /\ P[c] = Members(m, c) /\ IsFiniteSet(P[c])
                      /\ g[c] = SumFunctionOnSet(d, P[c]) /\ g[c] \in Int
                      /\ s[c] \in Int /\ price[c] = m.z /\ price[c] = s[c] + g[c]
    OBVIOUS
  <2>1. c \in Centers
    OBVIOUS
  <2>2. /\ IsFiniteSet(Members(m, c)) /\ Saved(m, c) \in Int
        /\ SumFunctionOnSet(d, Members(m, c)) \in Int
        /\ Saved(m, c) = m.z - SumFunctionOnSet(d, Members(m, c))
    BY <1>1, <2>1, Shares
  <2>3. s[c] = Saved(m, c)
    BY <1>3, <2>1 DEF SavedBy
  <2> QED BY <1>0, <1>1, <2>2, <2>3
<1> HIDE DEF P, g, price
<1>5. Left(m) \subseteq indices /\ IsFiniteSet(Left(m))
  <2>1. Left(m) \subseteq indices
    BY DEF Left
  <2> QED BY <2>1, FiniteSets, FS_Subset
<1>6. Parts(P, Closes(m), Left(m))
  <2>1. \A c \in Closes(m) : P[c] \subseteq Left(m)
    BY <1>4 DEF Members, Left
  <2>2. \A c, e \in Closes(m) : c # e => P[c] \cap P[e] = {}
    BY <1>4 DEF Members
  <2>3. \A j \in Left(m) : \E c \in Closes(m) : j \in P[c]
    BY <1>4 DEF Members, Left
  <2> QED BY <1>4, <2>1, <2>2, <2>3 DEF Parts
<1>7. SumFunctionOnSet(g, Closes(m)) = SumFunctionOnSet(d, Left(m))
  <2>1. \A j \in Left(m) : d[j] \in Int
    BY <1>2, <1>5
  <2>2. \A c \in Closes(m) : g[c] = SumFunctionOnSet(d, P[c])
    BY <1>4
  <2> QED BY <1>6, <2>1, <2>2, SumByParts
<1>8. SumFunctionOnSet(price, Closes(m)) = m.z * Cardinality(Closes(m))
  <2>1. \A c \in Closes(m) : price[c] = m.z
    BY <1>4
  <2> QED BY <1>0, <2>1, SumConstant
<1>9. SumFunctionOnSet(price, Closes(m)) = SumFunctionOnSet(s, Closes(m)) + SumFunctionOnSet(g, Closes(m))
  BY <1>4, SumPlus
<1>10. SumFunctionOnSet(d, Left(m)) \in Int /\ SumFunctionOnSet(s, Closes(m)) \in Int
  BY <1>2, <1>4, <1>5, SumType
<1>11. Cardinality(Closes(m)) \in Nat
  BY FS_CardinalityType
<1>12. PICK a : a = m.z * Cardinality(Closes(m))
  OBVIOUS
<1>13. SumFunctionOnSet(s, Closes(m)) = a - SumFunctionOnSet(d, Left(m))
  BY <1>7, <1>8, <1>9, <1>10, <1>12
<1> QED BY <1>1, <1>3, <1>5, <1>10, <1>11, <1>12, <1>13

\* The points that move when the candidate is opened.
Movers(m) == Switches(m) \cup Left(m)

\* What thread 0 has found.
Found(m) ==
  /\ gl_number_of_centers_to_close = Cardinality(Closes(m))
  /\ gl_cost_of_opening_x =
       m.z * (1 - Cardinality(Closes(m))) + SumFunctionOnSet(Change(m), Movers(m))

LEMMA TotalFound ==
  ASSUME PointsOK, NEW m, Inside(m), Numbered, \A t \in pids : SummedIn(m, t),
         gl_number_of_centers_to_close = SumFunction([p \in pids |-> work_mem[p][k]]),
         gl_cost_of_opening_x = m.z + SumFunction([p \in pids |-> work_mem[p][k + 1]])
  PROVE  /\ Found(m) /\ Closes(m) \subseteq Centers /\ IsFiniteSet(Closes(m))
         /\ Cardinality(Closes(m)) \in Nat
<1> DEFINE number == [p \in pids |-> work_mem[p][k]]
           f == [p \in pids |-> work_mem[p][k + 1]]
           o == [p \in pids |-> OpeningOf(p)]
           h == [p \in pids |-> SumFunction([j \in ClosedIn(m, p) |-> Saved(m, j)])]
<1>0. m.z \in Int
  BY DEF Inside, Ready, Locals
<1>1. \A t \in pids : number[t] = Cardinality(ClosedIn(m, t)) /\ f[t] = o[t] - h[t]
  BY DEF SummedIn
<1>2. \A t \in pids : /\ h[t] = SumFunction([j \in ClosedIn(m, t) |-> Saved(m, j)])
                      /\ o[t] = OpeningOf(t)
  OBVIOUS
<1>3. DOMAIN number = pids /\ DOMAIN f = pids
  OBVIOUS
<1>4. gl_number_of_centers_to_close = SumFunction(number) /\ gl_cost_of_opening_x = m.z + SumFunction(f)
  OBVIOUS
<1> HIDE DEF number, f, o, h
<1>5. /\ Closes(m) \subseteq Centers /\ IsFiniteSet(Closes(m))
      /\ SumFunctionOnSet(number, pids) = Cardinality(Closes(m))
      /\ SumFunctionOnSet(h, pids) = SumFunctionOnSet(SavedBy(m), Closes(m))
      /\ \A t \in pids : h[t] \in Int
  BY <1>1, <1>2, Closings
<1>6. /\ SumFunctionOnSet(o, pids) = SumFunctionOnSet(Change(m), Switches(m))
      /\ \A t \in pids : o[t] \in Int
  BY <1>2, Openings
<1>7. /\ Cardinality(Closes(m)) \in Nat
      /\ IsFiniteSet(Left(m)) /\ SumFunctionOnSet(Change(m), Left(m)) \in Int
      /\ SumFunctionOnSet(SavedBy(m), Closes(m))
           = m.z * Cardinality(Closes(m)) - SumFunctionOnSet(Change(m), Left(m))
  BY <1>5, ClosedShare
<1>8. SumFunctionOnSet(o, pids) = SumFunctionOnSet(f, pids) + SumFunctionOnSet(h, pids)
  <2>1. \A t \in pids : o[t] = f[t] + h[t] /\ f[t] \in Int /\ h[t] \in Int
    BY <1>1, <1>5, <1>6
  <2> QED BY <2>1, FiniteSets, SumPlus
<1>9. /\ SumFunctionOnSet(f, pids) \in Int /\ SumFunctionOnSet(h, pids) \in Int
      /\ SumFunctionOnSet(o, pids) \in Int
  <2>1. \A t \in pids : f[t] \in Int
    BY <1>1, <1>5, <1>6
  <2> QED BY <1>5, <1>6, <2>1, FiniteSets, SumType
<1>10. SumFunctionOnSet(Change(m), Movers(m))
         = SumFunctionOnSet(Change(m), Switches(m)) + SumFunctionOnSet(Change(m), Left(m))
  <2>1. PICK A, B : A = Switches(m) /\ B = Left(m)
    OBVIOUS
  <2>2. A \subseteq indices /\ B \subseteq indices /\ A \cap B = {}
    BY <2>1 DEF Switches, Left
  <2>3. IsFiniteSet(A) /\ IsFiniteSet(B)
    BY <2>2, FiniteSets, FS_Subset
  <2>4. \A j \in A \cup B : Change(m)[j] \in Int
    BY <2>2, SwitchesOfBlocks
  <2>5. PICK d : d = Change(m)
    OBVIOUS
  <2>6. SumFunctionOnSet(d, A \cup B) = SumFunctionOnSet(d, A) + SumFunctionOnSet(d, B)
    BY <2>2, <2>3, <2>4, <2>5, SumUnion
  <2> QED BY <2>1, <2>5, <2>6 DEF Movers
<1>11. PICK n \in Nat : n = Cardinality(Closes(m))
  BY <1>7
<1>12. PICK z \in Int : z = m.z
  BY <1>0
<1>13. z * (1 - n) = z - z * n /\ z * n \in Int
  OBVIOUS
<1>14. SumFunction(number) = SumFunctionOnSet(number, pids) /\ SumFunction(f) = SumFunctionOnSet(f, pids)
  BY <1>3, SumOfFunction
<1>15. PICK sw, lf \in Int : /\ sw = SumFunctionOnSet(Change(m), Switches(m))
                            /\ lf = SumFunctionOnSet(Change(m), Left(m))
  BY <1>6, <1>7, <1>9
<1>16. SumFunctionOnSet(f, pids) = sw - (z * n - lf)
  <2>1. PICK a \in Int : a = z * n
    BY <1>13
  <2>2. SumFunctionOnSet(h, pids) = a - lf
    BY <1>5, <1>7, <1>11, <1>12, <1>15, <2>1
  <2>3. SumFunctionOnSet(o, pids) = sw
    BY <1>6, <1>15
  <2>4. SumFunctionOnSet(f, pids) = sw - (a - lf)
    BY <1>8, <1>9, <2>2, <2>3
  <2> QED BY <2>1, <2>4
<1>17. gl_cost_of_opening_x = z * (1 - n) + (sw + lf)
  BY <1>4, <1>12, <1>13, <1>14, <1>15, <1>16
<1>18. gl_number_of_centers_to_close = n
  BY <1>4, <1>5, <1>11, <1>14
<1>19. gl_cost_of_opening_x = m.z * (1 - Cardinality(Closes(m))) + SumFunctionOnSet(Change(m), Movers(m))
  BY <1>10, <1>11, <1>12, <1>15, <1>17
<1> QED BY <1>5, <1>7, <1>11, <1>18, <1>19 DEF Found

\* The candidate moves to itself: if it does not switch it is at the place of
\* its center, which then closes, since that saves the whole of its price.
LEMMA CandidateMoves ==
  ASSUME PointsOK, NEW m, Inside(m), Numbered
  PROVE  /\ Candidate(m) \in Movers(m) /\ Candidate(m) \notin Centers \ Closes(m)
         /\ \A c \in Centers \ Closes(m) : c \notin Movers(m) /\ assign[c] = c
<1>0. Settled /\ m.z > 0 /\ m.z \in Int
  BY DEF Inside, Ready, Locals
<1>1. /\ Centers \subseteq indices /\ \A j \in indices : assign[j] \in Centers
      /\ \A c \in Centers : assign[c] = c
      /\ \A j \in indices : cost[j] = CostAt(j, assign[j])
  BY <1>0, SettledTypes DEF Settled
<1>2. PICK X \in indices : X = Candidate(m)
  BY SwitchesOfBlocks
<1>3. \A j, c \in indices : CostAt(j, c) \in Nat
  BY Distances
<1>4. ASSUME NEW c \in Centers PROVE c \notin Switches(m) /\ cost[c] = 0
  <2>1. c \in indices /\ cost[c] = CostAt(c, c)
    BY <1>1
  <2>2. CostAt(c, c) = 0 /\ CostAt(c, X) \in Nat
    BY <2>1, Distances
  <2> QED BY <1>2, <2>1, <2>2 DEF Switches
<1>5. \A c \in Centers \ Closes(m) : c \notin Movers(m) /\ assign[c] = c
  BY <1>1, <1>4 DEF Movers, Left
<1>6. X \in Movers(m)
  <2> SUFFICES ASSUME X \notin Switches(m) PROVE assign[X] \in Closes(m)
    BY DEF Movers, Left
  <2>1. PICK c \in Centers : c = assign[X]
    BY <1>1
  <2>2. c \in indices
    BY <1>1
  <2>3. CostAt(X, X) = 0 /\ cost[X] = CostAt(X, c) /\ CostAt(X, c) \in Nat
    BY <1>1, <2>1, <2>2, Distances
  <2>4. ~(0 < cost[X])
    BY <1>2, <2>3 DEF Switches
  <2>5. dist(X, c) = 0
    BY <2>2, <2>3, <2>4, Places
  <2>6. \A j \in Members(m, c) : Change(m)[j] = 0
    <3> SUFFICES ASSUME NEW j \in Members(m, c) PROVE Change(m)[j] = 0
      OBVIOUS
    <3>1. j \in indices /\ cost[j] = CostAt(j, c)
      BY <1>1 DEF Members
    <3>2. dist(j, X) = dist(j, c)
      BY <2>2, <2>5, <3>1, SamePlace
    <3>3. CostAt(j, X) = CostAt(j, c)
      BY <3>2 DEF CostAt
    <3>4. CostAt(j, c) \in Nat
      BY <1>3, <2>2, <3>1
    <3> QED BY <1>2, <3>1, <3>3, <3>4 DEF Change
  <2>7. /\ IsFiniteSet(Members(m, c))
        /\ Saved(m, c) = m.z - SumFunctionOnSet(Change(m), Members(m, c))
    BY Shares
  <2>8. SumFunctionOnSet(Change(m), Members(m, c)) = 0
    BY <2>6, <2>7, SumZero
  <2>9. Saved(m, c) > 0
    BY <1>0, <2>7, <2>8
  <2> QED BY <2>1, <2>9 DEF Closes
<1>7. X \notin Centers \ Closes(m)
  BY <1>5, <1>6
<1> QED BY <1>2, <1>5, <1>6, <1>7

NewAssign(m) == [j \in indices |-> IF j \in Movers(m) THEN Candidate(m) ELSE assign[j]]
NewCost(m) == [j \in indices |-> IF j \in Movers(m) THEN CostAt(j, Candidate(m)) ELSE cost[j]]
NewCenters(m) == (Centers \ Closes(m)) \cup {Candidate(m)}

\* What the points cost after the change.
LEMMA NewTotal ==
  ASSUME PointsOK, NEW m, Inside(m)
  PROVE  /\ SumFunctionOnSet(NewCost(m), indices) = TotalCost + SumFunctionOnSet(Change(m), Movers(m))
         /\ SumFunctionOnSet(Change(m), Movers(m)) \in Int /\ TotalCost \in Int
<1> DEFINE e == [j \in indices |-> IF j \in Movers(m) THEN Change(m)[j] ELSE 0]
<1>1. /\ \A j \in indices : Change(m)[j] \in Int /\ cost[j] \in Nat
      /\ Candidate(m) \in indices
  BY SwitchesOfBlocks
<1>2. Movers(m) \subseteq indices
  BY DEF Movers, Switches, Left
<1>3. PICK f : f = NewCost(m)
  OBVIOUS
<1>4. \A j \in indices : f[j] = cost[j] + e[j] /\ e[j] \in Int
  <2> SUFFICES ASSUME NEW j \in indices PROVE f[j] = cost[j] + e[j] /\ e[j] \in Int
    OBVIOUS
  <2>1. CostAt(j, Candidate(m)) \in Nat /\ cost[j] \in Nat
    BY <1>1, Distances
  <2>2. CASE j \in Movers(m)
    BY <1>3, <2>1, <2>2 DEF NewCost, Change
  <2>3. CASE j \notin Movers(m)
    BY <1>3, <2>1, <2>3 DEF NewCost
  <2> QED BY <2>2, <2>3
<1>5. \A j \in indices : IF j \in Movers(m) THEN e[j] = Change(m)[j] ELSE e[j] = 0
  OBVIOUS
<1> HIDE DEF e
<1>6. SumFunctionOnSet(f, indices) = SumFunctionOnSet(cost, indices) + SumFunctionOnSet(e, indices)
  <2>1. \A j \in indices : f[j] = cost[j] + e[j] /\ cost[j] \in Int /\ e[j] \in Int
    BY <1>1, <1>4
  <2> QED BY <2>1, FiniteSets, SumPlus
<1>7. PICK A, B : A = Movers(m) /\ B = indices \ Movers(m)
  OBVIOUS
<1>8. A \cup B = indices /\ A \cap B = {} /\ A \subseteq indices /\ B \subseteq indices
  BY <1>2, <1>7
<1>9. IsFiniteSet(A) /\ IsFiniteSet(B)
  BY <1>8, FiniteSets, FS_Subset
<1>10. SumFunctionOnSet(e, A \cup B) = SumFunctionOnSet(e, A) + SumFunctionOnSet(e, B)
  BY <1>4, <1>8, <1>9, SumUnion
<1>11. SumFunctionOnSet(e, B) = 0
  BY <1>5, <1>7, <1>9, SumZero
<1>12. SumFunctionOnSet(e, A) = SumFunctionOnSet(Change(m), A)
  <2>1. \A j \in A : e[j] = Change(m)[j] /\ Change(m)[j] \in Int
    BY <1>1, <1>5, <1>7, <1>8
  <2> QED BY <1>9, <2>1, SumEqual
<1>13. SumFunctionOnSet(Change(m), A) \in Int
  BY <1>1, <1>8, <1>9, SumType
<1>14. SumFunctionOnSet(e, indices) = SumFunctionOnSet(Change(m), Movers(m))
  BY <1>7, <1>8, <1>10, <1>11, <1>12, <1>13
<1>15. TotalCost \in Int
  BY SettledTypes DEF Inside
<1> QED BY <1>3, <1>6, <1>7, <1>13, <1>14, <1>15 DEF TotalCost

\* A solution as pgain would have it.
Plan(a, c, h, n, g) == [assign |-> a, cost |-> c, centers |-> h, k |-> n, gain |-> g]

LEMMA PlanAims ==
  ASSUME PointsOK, NEW m, Inside(m), Numbered, Found(m),
         Closes(m) \subseteq Centers, IsFiniteSet(Closes(m)),
         NEW s, s = Plan(NewAssign(m), NewCost(m), NewCenters(m),
                         k + 1 - gl_number_of_centers_to_close, gl_cost_of_opening_x)
  PROVE  Aims(m, s)
<1>0. /\ Settled /\ m.z \in Int /\ m.cost \in Int /\ m.change \in Int
      /\ m.cost - m.change = m.z * k + TotalCost
  BY DEF Inside, Ready, Locals, Worth
<1>1. /\ Centers \subseteq indices /\ IsFiniteSet(Centers) /\ k \in Nat /\ k = Cardinality(Centers)
      /\ \A j \in indices : assign[j] \in Centers /\ cost[j] = CostAt(j, assign[j])
      /\ \A c \in Centers : assign[c] = c
  BY <1>0, SettledTypes DEF Settled
<1>2. PICK X \in indices : X = Candidate(m)
  BY SwitchesOfBlocks
<1>3. X \in Movers(m) /\ X \notin Centers \ Closes(m)
      /\ \A c \in Centers \ Closes(m) : c \notin Movers(m) /\ assign[c] = c
  BY <1>2, CandidateMoves
<1>4. /\ s.assign = NewAssign(m) /\ s.cost = NewCost(m) /\ s.centers = NewCenters(m)
      /\ s.k = k + 1 - gl_number_of_centers_to_close /\ s.gain = gl_cost_of_opening_x
  BY DEF Plan
<1>5. \A j \in indices : /\ s.assign[j] = IF j \in Movers(m) THEN X ELSE assign[j]
                         /\ s.cost[j] = IF j \in Movers(m) THEN CostAt(j, X) ELSE cost[j]
  BY <1>2, <1>4 DEF NewAssign, NewCost
<1>6. s.centers = (Centers \ Closes(m)) \cup {X}
  BY <1>2, <1>4 DEF NewCenters
<1>7. \A j \in indices : s.assign[j] \in indices /\ s.cost[j] = CostAt(j, s.assign[j])
  BY <1>1, <1>5
<1>8. s.centers = {s.assign[j] : j \in indices}
  <2>1. ASSUME NEW j \in indices PROVE s.assign[j] \in s.centers
    <3>1. CASE j \in Movers(m)
      BY <1>5, <1>6, <3>1
    <3>2. CASE j \notin Movers(m)
      <4>1. j \notin Switches(m) /\ assign[j] \notin Closes(m)
        BY <3>2 DEF Movers, Left
      <4> QED BY <1>1, <1>5, <1>6, <3>2, <4>1
    <3> QED BY <3>1, <3>2
  <2>2. ASSUME NEW c \in s.centers PROVE c \in indices /\ s.assign[c] = c
    BY <1>1, <1>3, <1>5, <1>6
  <2> QED BY <2>1, <2>2
<1>9. \A c \in s.centers : s.assign[c] = c
  BY <1>1, <1>3, <1>5, <1>6
<1>10. PICK n \in Nat : n = Cardinality(Closes(m))
  BY FS_CardinalityType
<1>11. s.k = Cardinality(s.centers) /\ s.k = k + 1 - n
  <2>1. PICK D : D = Centers \ Closes(m)
    OBVIOUS
  <2>2. IsFiniteSet(D)
    BY <1>1, <2>1, FS_Subset
  <2>3. Cardinality(Closes(m) \cup D) = Cardinality(Closes(m)) + Cardinality(D) - Cardinality(Closes(m) \cap D)
    BY <2>2, FS_Union
  <2>4. Closes(m) \cup D = Centers /\ Closes(m) \cap D = {}
    BY <2>1
  <2>5. Cardinality(D) \in Nat /\ Cardinality({}) = 0
    BY <2>2, FS_CardinalityType, FS_EmptySet
  <2>6. k = n + Cardinality(D)
    BY <1>1, <1>10, <2>3, <2>4, <2>5
  <2>7. Cardinality(D \cup {X}) = Cardinality(D) + 1
    BY <1>3, <2>1, <2>2, FS_AddElement
  <2>8. s.k = k + 1 - n
    BY <1>4, <1>10 DEF Found
  <2>9. s.centers = D \cup {X}
    BY <1>6, <2>1
  <2>10. PICK q \in Nat : q = Cardinality(D)
    BY <2>5
  <2>11. Cardinality(s.centers) = q + 1
    BY <2>7, <2>9, <2>10
  <2>12. k + 1 - n = q + 1
    BY <2>6, <2>10
  <2> QED BY <2>8, <2>11, <2>12
<1>12. PICK v \in Int : v = SumFunctionOnSet(Change(m), Movers(m))
  BY NewTotal
<1>13. PICK tc \in Int : tc = TotalCost /\ SumFunctionOnSet(s.cost, indices) = tc + v
  BY <1>4, <1>12, NewTotal
<1>14. PICK z \in Int : z = m.z
  BY <1>0
<1>15. s.gain = z * (1 - n) + v /\ s.gain \in Int
  BY <1>4, <1>10, <1>12, <1>14 DEF Found
<1>16. m.cost - (m.change - s.gain) = m.z * s.k + SumFunctionOnSet(s.cost, indices)
  <2>1. /\ z * (1 - n) = z - z * n /\ z * (k + 1 - n) = z * k + z - z * n
        /\ z * n \in Int /\ z * k \in Int
    <3>1. PICK q \in Int : q = k
      BY <1>1
    <3>2. z * (q + 1 - n) = z * q + z - z * n /\ z * q \in Int /\ z * n \in Int
      OBVIOUS
    <3>3. z * (1 - n) = z - z * n
      OBVIOUS
    <3> QED BY <3>1, <3>2, <3>3
  <2>2. PICK a, b \in Int : a = z * n /\ b = z * k
    BY <2>1
  <2>3. s.gain = (z - a) + v
    BY <1>15, <2>1, <2>2
  <2>4. m.z * s.k = b + z - a
    BY <1>11, <1>14, <2>1, <2>2
  <2>5. m.cost - m.change = b + tc
    BY <1>0, <1>13, <1>14, <2>2
  <2>6. SumFunctionOnSet(s.cost, indices) = tc + v
    BY <1>13
  <2> HIDE DEF Plan
  <2> QED BY <1>0, <2>3, <2>4, <2>5, <2>6
<1> QED BY <1>7, <1>8, <1>9, <1>11, <1>15, <1>16 DEF Aims

\* What the threads are about to carry out is the new solution.
LEMMA PlanToDo ==
  ASSUME PointsOK, NEW m, Inside(m), Numbered, Closes(m) \subseteq Centers,
         NEW t \in pids, \A u \in pids : SwitchesIn(u) /\ LoweredIn(m, u),
         NEW s, NEW n, NEW g, s = Plan(NewAssign(m), NewCost(m), NewCenters(m), n, g), g < 0
  PROVE  ToDo(m, s, t)
<1>1. /\ Centers \subseteq indices /\ \A j \in indices : assign[j] \in Centers
      /\ \A j \in indices : is_center[j] <=> j \in Centers
  BY SettledTypes DEF Inside, Settled
<1>2. PICK X \in indices : X = Candidate(m)
  BY SwitchesOfBlocks
<1>3. \A c \in Centers : gl_lower[center_table[c]] = Saved(m, c) /\ Saved(m, c) \in Int
  <2> SUFFICES ASSUME NEW c \in Centers PROVE gl_lower[center_table[c]] = Saved(m, c) /\ Saved(m, c) \in Int
    OBVIOUS
  <2>1. PICK u \in pids : c \in Mine(u)
    BY <1>1, BlocksPartition DEF Mine
  <2>2. LoweredIn(m, u)
    OBVIOUS
  <2>3. gl_lower[center_table[c]] = Saved(m, c)
    BY <2>1, <2>2 DEF LoweredIn
  <2> QED BY <2>3, Shares
<1>4. \A j \in Block(t) : j \in indices /\ (switch_membership[j] <=> j \in Switches(m))
  <2>1. Block(t) \subseteq indices /\ Switching(t) = {j \in Block(t) : j \in Switches(m)}
    BY SwitchesOfBlocks, BlocksPartition
  <2>2. SwitchesIn(t)
    OBVIOUS
  <2> QED BY <2>1, <2>2 DEF SwitchesIn
<1>5. ASSUME NEW j \in Block(t) PROVE Moves(j) <=> j \in Movers(m)
  <2>1. PICK c \in Centers : c = assign[j]
    BY <1>1, <1>4
  <2>2. gl_lower[center_table[assign[j]]] > 0 <=> c \in Closes(m)
    BY <1>3, <2>1 DEF Closes
  <2>3. j \in Movers(m) <=> j \in Switches(m) \/ c \in Closes(m)
    BY <1>4, <2>1 DEF Movers, Left
  <2> QED BY <1>4, <2>2, <2>3 DEF Moves
<1>6. ASSUME NEW j \in Block(t) PROVE Stays(j) <=> j \in Centers \ Closes(m)
  <2>1. CASE j \in Centers
    <3>1. gl_lower[center_table[j]] <= 0 <=> j \notin Closes(m)
      BY <1>3, <2>1 DEF Closes
    <3> QED BY <1>1, <1>4, <2>1, <3>1 DEF Stays
  <2>2. CASE j \notin Centers
    BY <1>1, <1>4, <2>2 DEF Stays
  <2> QED BY <2>1, <2>2
<1>7. /\ s.assign = NewAssign(m) /\ s.cost = NewCost(m) /\ s.centers = NewCenters(m) /\ s.gain = g
  BY DEF Plan
<1>8. ASSUME NEW j \in Block(t)
      PROVE  /\ s.assign[j] = IF Moves(j) THEN Candidate(m) ELSE assign[j]
             /\ s.cost[j] = IF Moves(j) THEN CostAt(j, Candidate(m)) ELSE cost[j]
             /\ j \in s.centers <=> j = Candidate(m) \/ Stays(j)
  <2>1. j \in indices
    BY <1>4
  <2>2. s.assign[j] = IF Moves(j) THEN Candidate(m) ELSE assign[j]
    BY <1>5, <1>7, <2>1 DEF NewAssign
  <2>3. s.cost[j] = IF Moves(j) THEN CostAt(j, Candidate(m)) ELSE cost[j]
    BY <1>5, <1>7, <2>1 DEF NewCost
  <2>4. j \in s.centers <=> j = Candidate(m) \/ Stays(j)
    BY <1>6, <1>7 DEF NewCenters
  <2> QED BY <2>2, <2>3, <2>4
<1> QED BY <1>7, <1>8 DEF ToDo

\* If opening the candidate does not pay, everything stays as it is.
LEMMA StayAims ==
  ASSUME PointsOK, NEW m, Inside(m), NEW s, s = Plan(assign, cost, Centers, k, 0)
  PROVE  Aims(m, s) /\ s.gain = 0 /\ s.k = k /\ \A t \in pids : ToDo(m, s, t)
<1>1. /\ s.assign = assign /\ s.cost = cost /\ s.centers = Centers /\ s.k = k /\ s.gain = 0
  BY DEF Plan
<1>2. /\ Settled /\ m.cost \in Int /\ m.change \in Int
      /\ m.cost - m.change = m.z * k + TotalCost
  BY DEF Inside, Ready, Locals, Worth
<1>3. \A j \in indices : is_center[j] <=> j \in Centers
  BY <1>2 DEF Settled
<1>4. \A t \in pids : ToDo(m, s, t)
  <2>1. ~(s.gain < 0) /\ \A t \in pids : Block(t) \subseteq indices
    BY <1>1, BlocksPartition
  <2> QED BY <1>1, <1>3, <2>1 DEF ToDo
<1>5. Aims(m, s)
  <2>1. m.cost - (m.change - 0) = m.z * k + TotalCost
    BY <1>2
  <2>2. m.cost - (m.change - s.gain) = m.z * s.k + SumFunctionOnSet(s.cost, indices)
    BY <1>1, <2>1 DEF TotalCost
  <2>3. \A j \in indices : assign[j] \in indices /\ cost[j] = CostAt(j, assign[j])
    BY <1>2 DEF Settled
  <2>4. Centers = {assign[j] : j \in indices} /\ (\A c \in Centers : assign[c] = c) /\ k = Cardinality(Centers)
    BY <1>2 DEF Settled, Centers
  <2>5. \A j \in indices : s.assign[j] \in indices /\ s.cost[j] = CostAt(j, s.assign[j])
    BY <1>1, <2>3
  <2>6. s.centers = {s.assign[j] : j \in indices} /\ \A c \in s.centers : s.assign[c] = c
    <3>1. {s.assign[j] : j \in indices} = {assign[j] : j \in indices}
      BY <1>1
    <3>2. \A c \in s.centers : s.assign[c] = c
      BY <1>1, <2>4
    <3> QED BY <1>1, <2>4, <3>1, <3>2
  <2>7. s.k = Cardinality(s.centers) /\ s.gain \in Int
    BY <1>1, <2>4
  <2> QED BY <2>2, <2>5, <2>6, <2>7 DEF Aims
<1> QED BY <1>1, <1>4, <1>5

LEMMA PAggregateEnds ==
  ASSUME PointsOK, NEW r \in 0..2, NEW m, PAggregate(r, m), AllReached(r)
  PROVE  \E s : PApply(After(r), m, s)
<1>1. \A u \in pids : at[u] = "apply" /\ reached[u] = After(r)
  BY Barriers, Rounds DEF PAggregate, AllReached
<1>2. Phase(After(r), {"apply"}, {"gained"}) /\ 0 \in pids
  BY <1>1, FiniteSets DEF Phase
<1>3. /\ Inside(m) /\ Numbered /\ Ready(m) /\ \A u \in pids : Like(u, m)
      /\ \A u \in pids : SwitchesIn(u) /\ LoweredIn(m, u) /\ SummedIn(m, u)
  BY DEF PAggregate, Inside
<1>4. /\ gl_number_of_centers_to_close = SumFunction([p \in pids |-> work_mem[p][k]])
      /\ gl_cost_of_opening_x = m.z + SumFunction([p \in pids |-> work_mem[p][k + 1]])
  BY <1>1, <1>2 DEF PAggregate
<1>5. Found(m) /\ Closes(m) \subseteq Centers /\ IsFiniteSet(Closes(m))
  BY <1>3, <1>4, TotalFound
<1>6. CASE gl_cost_of_opening_x < 0
  <2>1. PICK s : s = Plan(NewAssign(m), NewCost(m), NewCenters(m),
                          k + 1 - gl_number_of_centers_to_close, gl_cost_of_opening_x)
    OBVIOUS
  <2>2. Aims(m, s)
    BY <1>3, <1>5, <2>1, PlanAims
  <2>3. PICK n, g : n = k + 1 - gl_number_of_centers_to_close /\ g = gl_cost_of_opening_x
    OBVIOUS
  <2>4. s = Plan(NewAssign(m), NewCost(m), NewCenters(m), n, g) /\ g < 0
    BY <1>6, <2>1, <2>3
  <2>5. \A u \in pids : ToDo(m, s, u)
    BY <1>3, <1>5, <2>4, PlanToDo
  <2>6. s.gain = gl_cost_of_opening_x /\ s.k = k + 1 - gl_number_of_centers_to_close
    BY <2>3, <2>4 DEF Plan
  <2>7. PApply(After(r), m, s)
    BY <1>1, <1>2, <1>3, <1>6, <2>2, <2>5, <2>6 DEF PApply
  <2> QED BY <2>7
<1>7. CASE ~(gl_cost_of_opening_x < 0)
  <2>1. PICK s : s = Plan(assign, cost, Centers, k, 0)
    OBVIOUS
  <2>2. Aims(m, s) /\ s.gain = 0 /\ s.k = k /\ \A u \in pids : ToDo(m, s, u)
    BY <1>3, <2>1, StayAims
  <2>3. ~(s.gain < 0)
    BY <2>2
  <2>4. PApply(After(r), m, s)
    BY <1>1, <1>2, <1>3, <1>7, <2>2, <2>3 DEF PApply
  <2> QED BY <2>4
<1> QED BY <1>6, <1>7

-----------------------------------------------------------------------------
(***************************************************************************)
(* pgain: the solution is carried out and its gain taken.                  *)
(***************************************************************************)
\* Thread t has done its part and no thread's part is touched by another.
ItsPart(s, t) ==
  /\ Done(s, t)'
  /\ \A u \in pids : u # t => \A j \in Block(u) :
       assign'[j] = assign[j] /\ cost'[j] = cost[j] /\ is_center'[j] = is_center[j]

LEMMA Carried ==
  ASSUME NEW m, NEW s, NEW t \in pids, ToDo(m, s, t), s.gain < 0, Carry(t), x(t) = Candidate(m)
  PROVE  ItsPart(s, t)
<1>1. /\ Block(t) \subseteq indices /\ Block(t)' = Block(t)
      /\ \A u \in pids : Block(u) \subseteq indices /\ (u # t => Block(u) \cap Block(t) = {})
  BY BlocksPartition DEF Block
<1>2. PICK X : X = Candidate(m) /\ X = x(t)
  OBVIOUS
<1>3. /\ Moving(t) \subseteq Block(t)
      /\ \A j \in Block(t) : j \in Moving(t) <=> Moves(j)
  BY DEF Moving, Moves
<1>4. /\ cost' = [j \in indices |-> IF j \in Moving(t) THEN CostAt(j, X) ELSE cost[j]]
      /\ assign' = [j \in indices |-> IF j \in Moving(t) THEN X ELSE assign[j]]
      /\ is_center' = [j \in indices |->
           IF j \in Block(t) THEN j = X \/ (is_center[j] /\ gl_lower[center_table[j]] <= 0)
                             ELSE is_center[j]]
  BY <1>2 DEF Carry
<1>5. ASSUME NEW j \in Block(t)
      PROVE  s.assign[j] = assign'[j] /\ s.cost[j] = cost'[j] /\ (j \in s.centers <=> is_center'[j])
  <2>1. /\ s.assign[j] = IF Moves(j) THEN X ELSE assign[j]
        /\ s.cost[j] = IF Moves(j) THEN CostAt(j, X) ELSE cost[j]
        /\ j \in s.centers <=> j = X \/ Stays(j)
    BY <1>2 DEF ToDo
  <2>2. j \in indices /\ (j \in Moving(t) <=> Moves(j))
    BY <1>1, <1>3
  <2>3. assign'[j] = IF Moves(j) THEN X ELSE assign[j]
    BY <1>4, <2>2
  <2>4. cost'[j] = IF Moves(j) THEN CostAt(j, X) ELSE cost[j]
    BY <1>4, <2>2
  <2>5. is_center'[j] <=> j = X \/ Stays(j)
    BY <1>4, <2>2 DEF Stays
  <2> QED BY <2>1, <2>3, <2>4, <2>5
<1>6. Done(s, t)'
  BY <1>1, <1>5 DEF Done
<1>7. ASSUME NEW u \in pids, u # t, NEW j \in Block(u)
      PROVE  assign'[j] = assign[j] /\ cost'[j] = cost[j] /\ is_center'[j] = is_center[j]
  <2>1. j \in indices /\ j \notin Block(t) /\ j \notin Moving(t)
    BY <1>1, <1>3, <1>7
  <2> QED BY <1>4, <2>1
<1> QED BY <1>6, <1>7 DEF ItsPart

LEMMA LeftAsIs ==
  ASSUME NEW m, NEW s, NEW t \in pids, ToDo(m, s, t), ~(s.gain < 0), LeaveAsIs(t)
  PROVE  ItsPart(s, t)
<1>1. Block(t)' = Block(t) /\ UNCHANGED <<assign, cost, is_center>>
  BY DEF Block, LeaveAsIs
<1>2. Done(s, t)
  BY DEF ToDo, Done
<1> QED BY <1>1, <1>2 DEF ItsPart, Done

\* Where a thread other than t is stays the same.
LEMMA PartsStay ==
  ASSUME NEW m, NEW s, NEW t \in pids, ItsPart(s, t), NEW u \in pids, u # t,
         UNCHANGED <<point, center_table, switch_membership, gl_lower>>,
         Candidate(m)' = Candidate(m)
  PROVE  (ToDo(m, s, u) => ToDo(m, s, u)') /\ (Done(s, u) => Done(s, u)')
<1>1. /\ Block(u)' = Block(u)
      /\ \A j \in Block(u) :
           assign'[j] = assign[j] /\ cost'[j] = cost[j] /\ is_center'[j] = is_center[j]
  BY DEF ItsPart, Block
<1>2. \A j \in Block(u) : (Moves(j)' <=> Moves(j)) /\ (Stays(j)' <=> Stays(j))
  BY <1>1 DEF Moves, Stays
<1>3. \A j : CostAt(j, Candidate(m))' = CostAt(j, Candidate(m))
  <2>1. PICK X : X = Candidate(m)
    OBVIOUS
  <2>2. \A j : CostAt(j, X)' = CostAt(j, X)
    BY DEF CostAt, dist
  <2>3. Candidate(m)' = X
    BY <2>1
  <2>4. \A j : CostAt(j, Candidate(m))' = CostAt(j, X)'
    BY <2>3 DEF CostAt, dist
  <2> QED BY <2>1, <2>2, <2>4
<1>4. Done(s, u) => Done(s, u)'
  BY <1>1 DEF Done
<1>5. ASSUME ToDo(m, s, u) PROVE ToDo(m, s, u)'
  <2>1. PICK X : X = Candidate(m) /\ X = Candidate(m)'
    OBVIOUS
  <2>2. ASSUME NEW j \in Block(u)
        PROVE  IF s.gain < 0
                 THEN /\ s.assign[j] = IF Moves(j)' THEN X ELSE assign'[j]
                      /\ s.cost[j] = IF Moves(j)' THEN CostAt(j, Candidate(m))' ELSE cost'[j]
                      /\ j \in s.centers <=> j = X \/ Stays(j)'
                 ELSE /\ s.assign[j] = assign'[j] /\ s.cost[j] = cost'[j]
                      /\ j \in s.centers <=> is_center'[j]
    <3>1. CASE s.gain < 0
      <4>1. /\ s.assign[j] = IF Moves(j) THEN X ELSE assign[j]
            /\ s.cost[j] = IF Moves(j) THEN CostAt(j, Candidate(m)) ELSE cost[j]
            /\ j \in s.centers <=> j = X \/ Stays(j)
        BY <1>5, <2>1, <3>1 DEF ToDo
      <4> QED BY <1>1, <1>2, <1>3, <3>1, <4>1
    <3>2. CASE ~(s.gain < 0)
      <4>1. /\ s.assign[j] = assign[j] /\ s.cost[j] = cost[j]
            /\ j \in s.centers <=> is_center[j]
        BY <1>5, <3>2 DEF ToDo
      <4> QED BY <1>1, <3>2, <4>1
    <3> QED BY <3>1, <3>2
  <2> QED BY <1>1, <2>1, <2>2 DEF ToDo
<1> QED BY <1>4, <1>5

LEMMA AimsStay ==
  ASSUME NEW m, NEW s, Aims(m, s), UNCHANGED point
  PROVE  Aims(m, s)'
<1>1. \A j, c : CostAt(j, c)' = CostAt(j, c)
  BY DEF CostAt, dist
<1>2. indices' = indices
  BY DEF indices
<1> QED BY <1>1, <1>2 DEF Aims

LEMMA PApplyStep ==
  ASSUME Base, HasShape, NEW r \in 0..2, NEW m, NEW s, PApply(r, m, s),
         NEW t \in pids, reached[t] = r, Step(t) \/ Wake(t)
  PROVE  PApply(r, m, s)'
<1>0. DOMAIN at = pids /\ reached \in [pids -> 0..2] /\ 0 \in pids
  BY FiniteSets DEF Base
<1>1. Phase(r, {"apply"}, {"gained"}) /\ Ready(m) /\ Aims(m, s) /\ \A u \in pids : Like(u, m)
  BY DEF PApply
<1>2. at[t] = "apply"
  BY <1>1, Barriers
<1>3. Apply(t)
  BY <1>2, StepAt
<1>4. /\ UNCHANGED <<point, my, center_table, switch_membership, gl_lower,
                     gl_number_of_centers_to_close, feasible>>
      /\ ReachBarrier(t, "gained") /\ (Carry(t) \/ LeaveAsIs(t))
  BY <1>3 DEF Apply
<1>5. /\ at'[t] = "gained" /\ \A u \in pids : u # t => at'[u] = at[u]
      /\ Phase(r, {"apply"}, {"gained"})'
  BY <1>0, <1>1, <1>4, Reaches
<1>6. Ready(m)' /\ Candidate(m)' = Candidate(m) /\ Aims(m, s)' /\ \A u \in pids : Like(u, m)'
  <2>1. Ready(m)' /\ Candidate(m)' = Candidate(m)
    BY <1>1, <1>4, ReadyStays
  <2>2. Aims(m, s)'
    BY <1>1, <1>4, AimsStay
  <2>3. \A u \in pids : Like(u, m)'
    BY <1>1, <1>4 DEF Like
  <2> QED BY <2>1, <2>2, <2>3
<1>7. ToDo(m, s, t) /\ x(t) = Candidate(m)
  BY <1>1, <1>2, SameCandidate DEF PApply
<1>8. Opens <=> s.gain < 0
  <2>1. CASE at[0] = "apply"
    BY <2>1 DEF PApply, Opens
  <2>2. CASE at[0] # "apply"
    BY <2>2 DEF PApply, Opens
  <2> QED BY <2>1, <2>2
<1>9. ItsPart(s, t)
  <2>1. CASE Carry(t)
    <3>1. s.gain < 0
      BY <1>8, <2>1 DEF Carry
    <3> QED BY <1>7, <2>1, <3>1, Carried
  <2>2. CASE LeaveAsIs(t)
    <3>1. ~(s.gain < 0)
      BY <1>8, <2>2 DEF LeaveAsIs
    <3> QED BY <1>7, <2>2, <3>1, LeftAsIs
  <2> QED BY <1>4, <2>1, <2>2
<1>10. ASSUME NEW u \in pids PROVE IF at'[u] = "apply" THEN ToDo(m, s, u)' ELSE Done(s, u)'
  <2>1. CASE u = t
    BY <1>5, <1>9, <2>1 DEF ItsPart
  <2>2. CASE u # t
    <3>1. (ToDo(m, s, u) => ToDo(m, s, u)') /\ (Done(s, u) => Done(s, u)')
      BY <1>4, <1>6, <1>9, <2>2, PartsStay
    <3>2. IF at[u] = "apply" THEN ToDo(m, s, u) ELSE Done(s, u)
      BY DEF PApply
    <3> QED BY <1>5, <2>2, <3>1, <3>2
  <2> QED BY <2>1, <2>2
<1>11. IF at'[0] = "apply"
         THEN /\ s.k = IF s.gain < 0 THEN k' + 1 - gl_number_of_centers_to_close' ELSE k'
              /\ IF s.gain < 0 THEN gl_cost_of_opening_x' = s.gain
                               ELSE s.gain = 0 /\ ~(gl_cost_of_opening_x' < 0)
         ELSE k' = s.k /\ gl_cost_of_opening_x' = s.gain
  <2>1. CASE t = 0
    <3>1. /\ s.k = IF s.gain < 0 THEN k + 1 - gl_number_of_centers_to_close ELSE k
          /\ IF s.gain < 0 THEN gl_cost_of_opening_x = s.gain
                           ELSE s.gain = 0 /\ ~(gl_cost_of_opening_x < 0)
      BY <1>2, <2>1 DEF PApply
    <3>2. k' = s.k /\ gl_cost_of_opening_x' = s.gain
      <4>1. CASE Carry(t)
        BY <1>8, <2>1, <3>1, <4>1 DEF Carry
      <4>2. CASE LeaveAsIs(t)
        BY <1>8, <2>1, <3>1, <4>2 DEF LeaveAsIs
      <4> QED BY <1>4, <4>1, <4>2
    <3> QED BY <1>5, <2>1, <3>2
  <2>2. CASE t # 0
    <3>1. at'[0] = at[0] /\ k' = k /\ gl_cost_of_opening_x' = gl_cost_of_opening_x
          /\ gl_number_of_centers_to_close' = gl_number_of_centers_to_close
      BY <1>0, <1>4, <1>5, <2>2 DEF Carry, LeaveAsIs
    <3> QED BY <3>1 DEF PApply
  <2> QED BY <2>1, <2>2
<1> QED BY <1>5, <1>6, <1>10, <1>11 DEF PApply

LEMMA PApplyEnds ==
  ASSUME PointsOK, NEW r \in 0..2, NEW m, NEW s, PApply(r, m, s), \A u \in pids : at[u] = "gained"
  PROVE  Settled /\ gl_cost_of_opening_x \in Int
         /\ m.cost - (m.change - gl_cost_of_opening_x) = Worth(m)
<1>1. /\ \A u \in pids : Done(s, u)
      /\ k = s.k /\ gl_cost_of_opening_x = s.gain /\ Aims(m, s)
  BY FiniteSets DEF PApply
<1>2. \A j \in indices : s.assign[j] = assign[j] /\ s.cost[j] = cost[j] /\ (j \in s.centers <=> is_center[j])
  BY <1>1, BlocksPartition DEF Done
<1>3. /\ \A j \in indices : assign[j] \in indices /\ cost[j] = CostAt(j, assign[j])
      /\ s.centers = {s.assign[j] : j \in indices}
      /\ \A c \in s.centers : s.assign[c] = c
      /\ s.k = Cardinality(s.centers) /\ s.gain \in Int
      /\ m.cost - (m.change - s.gain) = m.z * s.k + SumFunctionOnSet(s.cost, indices)
  BY <1>1, <1>2 DEF Aims
<1>4. Centers = s.centers
  BY <1>2, <1>3 DEF Centers
<1>5. Centers \subseteq indices
  BY <1>3 DEF Centers
<1>6. Settled
  <2>1. \A j \in indices : is_center[j] <=> j \in Centers
    BY <1>2, <1>4
  <2>2. \A c \in Centers : assign[c] = c
    BY <1>2, <1>3, <1>4, <1>5
  <2>3. k = Cardinality(Centers)
    BY <1>1, <1>3, <1>4
  <2> QED BY <1>3, <2>1, <2>2, <2>3 DEF Settled
<1>7. SumFunctionOnSet(s.cost, indices) = TotalCost
  <2>1. PICK c : c = s.cost
    OBVIOUS
  <2>2. \A j \in indices : c[j] = cost[j] /\ cost[j] \in Int
    BY <1>2, <1>3, <2>1, Distances
  <2>3. SumFunctionOnSet(c, indices) = SumFunctionOnSet(cost, indices)
    BY <2>2, FiniteSets, SumEqual
  <2> QED BY <2>1, <2>3 DEF TotalCost
<1> QED BY <1>1, <1>3, <1>6, <1>7 DEF Worth

LEMMA AllApplied ==
  ASSUME PointsOK, NEW r \in 0..2, NEW m, NEW s, PApply(r, m, s), AllReached(r)
  PROVE  PGained(After(r), m)
<1>1. \A u \in pids : at[u] = "gained" /\ reached[u] = After(r)
  BY Barriers, Rounds DEF PApply, AllReached
<1>2. Phase(After(r), {"gained"}, {"allocate", "pass"})
  BY <1>1 DEF Phase
<1>3. /\ Settled /\ gl_cost_of_opening_x \in Int
      /\ m.cost - (m.change - gl_cost_of_opening_x) = Worth(m)
  BY <1>1, PApplyEnds
<1> QED BY <1>1, <1>2, <1>3 DEF PApply, PGained

LEMMA PGainedStep ==
  ASSUME Base, HasShape, NEW r \in 0..2, NEW m, PGained(r, m),
         NEW t \in pids, reached[t] = r, Step(t) \/ Wake(t)
  PROVE  PGained(r, m)'
<1>0. /\ DOMAIN at = pids /\ reached \in [pids -> 0..2]
      /\ DOMAIN my = pids /\ DOMAIN my[t] = Fields
  BY DEF Base, HasShape
<1>1. /\ Phase(r, {"gained"}, {"allocate", "pass"}) /\ Ready(m) /\ Settled /\ m \in Locals
      /\ m.cost - (m.change - gl_cost_of_opening_x) = Worth(m)
  BY DEF PGained, Ready
<1>2. at[t] = "gained"
  BY <1>1, Barriers
<1>3. Gained(t) /\ Like(t, m)
  BY <1>2, StepAt DEF PGained
<1>4. PICK g \in Int : g = gl_cost_of_opening_x
  BY DEF PGained
<1>5. PICK l : l = IF m.i + 1 < Iter THEN "allocate" ELSE "pass"
  OBVIOUS
<1>6. UNCHANGED <<point, assign, cost, k, is_center, feasible, gl_cost_of_opening_x>>
  BY <1>3 DEF Gained, pointVars
<1>7. /\ ReachBarrier(t, l)
      /\ IF m.i + 1 < Iter
           THEN my' = [my EXCEPT ![t].change = my[t].change - g, ![t].i = @ + 1]
           ELSE my' = [my EXCEPT ![t].change = my[t].change - g, ![t].i = 0,
                                 ![t].cost = @ - (my[t].change - g)]
  <2>1. my[t].i = m.i
    BY <1>3 DEF Like
  <2> QED BY <1>3, <1>4, <1>5, <2>1 DEF Gained
<1>8. PICK n : n = Added(m, g)
  OBVIOUS
<1>9. /\ n.z = m.z /\ n.hiz = m.hiz /\ n.loz = m.loz
      /\ n.change = m.change - g /\ n.e = m.e /\ n.tries = m.tries
      /\ n.i = IF m.i + 1 < Iter THEN m.i + 1 ELSE 0
      /\ n.cost = IF m.i + 1 < Iter THEN m.cost ELSE m.cost - (m.change - g)
  BY <1>1, <1>8, AddedFields
<1>10. Like(t, n)' /\ \A u \in pids : u # t => my'[u] = my[u]
  <2>1. PICK v : v = my[t].change - g
    OBVIOUS
  <2>2. CASE m.i + 1 < Iter
    <3>1. my' = [my EXCEPT ![t].change = v, ![t].i = @ + 1]
      BY <1>7, <2>1, <2>2
    <3>2. /\ my'[t].z = my[t].z /\ my'[t].hiz = my[t].hiz /\ my'[t].loz = my[t].loz
          /\ my'[t].cost = my[t].cost /\ my'[t].change = v /\ my'[t].e = my[t].e
          /\ my'[t].i = my[t].i + 1 /\ my'[t].tries = my[t].tries
      BY <1>0, <3>1 DEF Fields
    <3>3. \A u \in pids : u # t => my'[u] = my[u]
      BY <1>0, <3>1
    <3> QED BY <1>3, <1>9, <2>1, <2>2, <3>2, <3>3 DEF Like
  <2>3. CASE ~(m.i + 1 < Iter)
    <3>1. PICK c : c = my[t].cost - v
      OBVIOUS
    <3>2. my' = [my EXCEPT ![t].change = v, ![t].i = 0, ![t].cost = c]
      BY <1>0, <1>7, <2>1, <2>3, <3>1 DEF Fields
    <3>3. /\ my'[t].z = my[t].z /\ my'[t].hiz = my[t].hiz /\ my'[t].loz = my[t].loz
          /\ my'[t].cost = c /\ my'[t].change = v /\ my'[t].e = my[t].e
          /\ my'[t].i = 0 /\ my'[t].tries = my[t].tries
      BY <1>0, <3>2 DEF Fields
    <3>4. \A u \in pids : u # t => my'[u] = my[u]
      BY <1>0, <3>2
    <3> QED BY <1>3, <1>9, <2>1, <2>3, <3>1, <3>3, <3>4 DEF Like
  <2> QED BY <2>2, <2>3
<1>11. /\ at'[t] = l /\ \A u \in pids : u # t => at'[u] = at[u]
       /\ Phase(r, {"gained"}, {"allocate", "pass"})'
  <2>1. l \in {"allocate", "pass"}
    BY <1>5
  <2> QED BY <1>0, <1>1, <1>7, <2>1, Reaches
<1>12. Ready(m)' /\ Settled' /\ Worth(m)' = Worth(m)
  BY <1>1, <1>6, ReadyStays, SettledStays DEF Worth
<1>13. Added(m, gl_cost_of_opening_x)' = n
  BY <1>4, <1>6, <1>8 DEF Added
<1>14. ASSUME NEW u \in pids
       PROVE  \/ at'[u] = "gained" /\ Like(u, m)'
              \/ at'[u] = l /\ Like(u, n)'
  <2>1. CASE u = t
    BY <1>10, <1>11, <2>1
  <2>2. CASE u # t
    <3>1. (Like(u, n)' <=> Like(u, n)) /\ (Like(u, m)' <=> Like(u, m)) /\ at'[u] = at[u]
      BY <1>10, <1>11, <2>2, LikeOthers
    <3>2. \/ at[u] = "gained" /\ Like(u, m)
          \/ at[u] = l /\ Like(u, n)
      BY <1>4, <1>5, <1>8 DEF PGained
    <3> QED BY <3>1, <3>2
  <2> QED BY <2>1, <2>2
<1>15. m.cost - (m.change - gl_cost_of_opening_x') = Worth(m)' /\ gl_cost_of_opening_x' \in Int
  BY <1>1, <1>4, <1>6, <1>12
<1> QED BY <1>5, <1>11, <1>12, <1>13, <1>14, <1>15 DEF PGained

LEMMA PGainedEnds ==
  ASSUME NEW r \in 0..2, NEW m, PGained(r, m), AllReached(r)
  PROVE  \E n : PAllocate(After(r), n) \/ PPass(After(r), n)
<1>1. /\ Phase(r, {"gained"}, {"allocate", "pass"}) /\ Ready(m) /\ Settled /\ m \in Locals
      /\ m.cost - (m.change - gl_cost_of_opening_x) = Worth(m)
  BY DEF PGained, Ready
<1>2. PICK g \in Int : g = gl_cost_of_opening_x
  BY DEF PGained
<1>3. PICK n : n = Added(m, g)
  OBVIOUS
<1>4. /\ n \in Locals /\ n.z = m.z /\ n.hiz = m.hiz /\ n.loz = m.loz
      /\ n.change = m.change - g
      /\ n.cost = IF m.i + 1 < Iter THEN m.cost ELSE m.cost - (m.change - g)
  BY <1>1, <1>3, AddedFields
<1>5. \A u \in pids : at[u] \in {"allocate", "pass"} /\ reached[u] = After(r)
  BY <1>1, Barriers, Rounds DEF AllReached
<1>6. \A u \in pids : at[u] = (IF m.i + 1 < Iter THEN "allocate" ELSE "pass") /\ Like(u, n)
  BY <1>2, <1>3, <1>5 DEF PGained
<1>7. Ready(n)
  BY <1>1, <1>4 DEF Ready
<1>8. Worth(n) = Worth(m)
  BY <1>4 DEF Worth
<1>9. CASE m.i + 1 < Iter
  <2>1. Inside(n)
    BY <1>1, <1>2, <1>4, <1>6, <1>7, <1>8, <1>9 DEF Inside
  <2>2. \A u \in pids : at[u] = "allocate"
    BY <1>6, <1>9
  <2>3. Phase(After(r), {"allocate"}, {"count"})
    BY <1>5, <2>2 DEF Phase
  <2>4. PAllocate(After(r), n)
    BY <2>1, <2>2, <2>3, FiniteSets DEF PAllocate
  <2> QED BY <2>4
<1>10. CASE ~(m.i + 1 < Iter)
  <2>1. Outside(n)
    BY <1>1, <1>2, <1>4, <1>7, <1>8, <1>10 DEF Outside
  <2>2. \A u \in pids : at[u] = "pass"
    BY <1>6, <1>10
  <2>3. Phase(After(r), {"pass", "found", "pFL", "decided", "done"}, {"pgain", "pass", "search"})
    BY <1>5, <2>2 DEF Phase
  <2>4. \A u \in pids : Judged(After(r), n, u)
    BY <1>5, <1>6, <2>2 DEF Judged
  <2>5. PPass(After(r), n)
    BY <2>1, <2>3, <2>4 DEF PPass
  <2> QED BY <2>5
<1> QED BY <1>9, <1>10

-----------------------------------------------------------------------------
(***************************************************************************)
(* The invariant of the search.                                            *)
(***************************************************************************)
LEMMA SearchPhaseStep ==
  ASSUME Base, HasShape, NEW r \in 0..2, NEW m, SearchPhase(r, m),
         NEW t \in pids, reached[t] = r, Step(t) \/ Wake(t)
  PROVE  SearchPhase(r, m)'
<1>1. PSearch(r, m) => PSearch(r, m)'
  BY PSearchStep
<1>2. PPass(r, m) => PPass(r, m)'
  BY PPassStep
<1>3. PEnter(r, m) => PEnter(r, m)'
  BY PEnterStep
<1>4. PAllocate(r, m) => PAllocate(r, m)'
  BY PAllocateStep
<1>5. PCount(r, m) => PCount(r, m)'
  BY PCountStep
<1>6. PPrefix(r, m) => PPrefix(r, m)'
  BY PPrefixStep
<1>7. PTable(r, m) => PTable(r, m)'
  BY PTableStep
<1>8. PLower(r, m) => PLower(r, m)'
  BY PLowerStep
<1>9. PClosing(r, m) => PClosing(r, m)'
  BY PClosingStep
<1>10. PAggregate(r, m) => PAggregate(r, m)'
  BY PAggregateStep
<1>11. \A s : PApply(r, m, s) => PApply(r, m, s)'
  BY PApplyStep
<1>12. PGained(r, m) => PGained(r, m)'
  BY PGainedStep
<1> QED BY <1>1, <1>2, <1>3, <1>4, <1>5, <1>6, <1>7, <1>8, <1>9, <1>10, <1>11, <1>12
           DEF SearchPhase

LEMMA SearchPhaseEnds ==
  ASSUME PointsOK, NEW r \in 0..2, NEW m, SearchPhase(r, m), AllReached(r)
  PROVE  \E n : SearchPhase(After(r), n)
<1>1. PSearch(r, m) => \E n : PPass(After(r), n)
  BY PSearchEnds
<1>2. PPass(r, m) => \E n : PEnter(After(r), n) \/ PPass(After(r), n) \/ PSearch(After(r), n)
  BY PPassEnds
<1>3. PEnter(r, m) => PAllocate(After(r), m)
  BY PEnterEnds
<1>4. PAllocate(r, m) => PCount(After(r), m)
  BY PAllocateEnds
<1>5. PCount(r, m) => PPrefix(After(r), m)
  BY PCountEnds
<1>6. PPrefix(r, m) => PTable(After(r), m)
  BY PPrefixEnds
<1>7. PTable(r, m) => PLower(After(r), m)
  BY PTableEnds
<1>8. PLower(r, m) => PClosing(After(r), m)
  BY PLowerEnds
<1>9. PClosing(r, m) => PAggregate(After(r), m)
  BY PClosingEnds
<1>10. PAggregate(r, m) => \E s : PApply(After(r), m, s)
  BY PAggregateEnds
<1>11. \A s : PApply(r, m, s) => PGained(After(r), m)
  BY AllApplied
<1>12. PGained(r, m) => \E n : PAllocate(After(r), n) \/ PPass(After(r), n)
  BY PGainedEnds
<1> QED BY <1>1, <1>2, <1>3, <1>4, <1>5, <1>6, <1>7, <1>8, <1>9, <1>10, <1>11, <1>12
           DEF SearchPhase

\* The labels behind the barriers of the search.
WaitLabels == {"pass", "pgain", "search", "allocate", "count", "prefix", "table", "lower",
               "closing", "aggregate", "apply", "gained", "first"}

\* Whoever is ahead makes no step before the others have reached the barrier.
LEMMA LateWaits ==
  ASSUME NEW r \in 0..2, NEW A, NEW B, Phase(r, A, B), B \subseteq WaitLabels,
         NEW t \in pids, reached[t] # r, Step(t) \/ Wake(t)
  PROVE  AllReached(r) /\ reached[t] = After(r)
<1>1. reached[t] = After(r) /\ at[t] \in WaitLabels
  BY Barriers
<1>2. Released(t)
  <2>1. at[t] \in {"pass", "pgain", "allocate", "count", "prefix", "table"} => Released(t)
    BY StepAt DEF Pass, EnterGain, Allocate, Count, Prefix, Table
  <2>2. at[t] \in {"lower", "closing", "aggregate", "apply", "gained"} => Released(t)
    BY StepAt DEF Lower, Closing, Aggregate, Apply, Gained
  <2>3. at[t] \in {"search", "first"} => Released(t)
    BY StepAt DEF Rough, First
  <2> QED BY <1>1, <2>1, <2>2, <2>3 DEF WaitLabels
<1> QED BY <1>1, <1>2, Barriers DEF AllReached

LEMMA PhaseOfSearch ==
  ASSUME NEW r \in 0..2, NEW m, SearchPhase(r, m)
  PROVE  \E A, B : Phase(r, A, B) /\ B \subseteq WaitLabels
<1>1. /\ PSearch(r, m) => Phase(r, {"search", "pFL"}, {"pass"})
      /\ PPass(r, m) => Phase(r, {"pass", "found", "pFL", "decided", "done"}, {"pgain", "pass", "search"})
      /\ PEnter(r, m) => Phase(r, {"pgain"}, {"allocate"})
      /\ PAllocate(r, m) => Phase(r, {"allocate"}, {"count"})
      /\ PCount(r, m) => Phase(r, {"count"}, {"prefix"})
      /\ PPrefix(r, m) => Phase(r, {"prefix"}, {"table"})
      /\ PTable(r, m) => Phase(r, {"table"}, {"lower"})
      /\ PLower(r, m) => Phase(r, {"lower"}, {"closing"})
      /\ PClosing(r, m) => Phase(r, {"closing"}, {"aggregate"})
      /\ PAggregate(r, m) => Phase(r, {"aggregate"}, {"apply"})
      /\ \A s : PApply(r, m, s) => Phase(r, {"apply"}, {"gained"})
      /\ PGained(r, m) => Phase(r, {"gained"}, {"allocate", "pass"})
  BY DEF PSearch, PPass, PEnter, PAllocate, PCount, PPrefix, PTable, PLower, PClosing,
         PAggregate, PApply, PGained
<1>2. /\ {"pass"} \subseteq WaitLabels /\ {"pgain", "pass", "search"} \subseteq WaitLabels
      /\ {"allocate"} \subseteq WaitLabels /\ {"count"} \subseteq WaitLabels
      /\ {"prefix"} \subseteq WaitLabels /\ {"table"} \subseteq WaitLabels
      /\ {"lower"} \subseteq WaitLabels /\ {"closing"} \subseteq WaitLabels
      /\ {"aggregate"} \subseteq WaitLabels /\ {"apply"} \subseteq WaitLabels
      /\ {"gained"} \subseteq WaitLabels /\ {"allocate", "pass"} \subseteq WaitLabels
  BY DEF WaitLabels
<1> QED BY <1>1, <1>2 DEF SearchPhase

LEMMA SearchStep ==
  ASSUME PhaseInv, NEW r \in 0..2, NEW m, SearchPhase(r, m), NEW t \in pids, Step(t) \/ Wake(t)
  PROVE  \E q \in 0..2 : \E n : SearchPhase(q, n)'
<1>0. Base /\ HasShape /\ PointsOK
  BY DEF PhaseInv, Base
<1>1. CASE reached[t] = r
  <2>1. SearchPhase(r, m)'
    BY <1>0, <1>1, SearchPhaseStep
  <2> QED BY <2>1
<1>2. CASE reached[t] # r
  <2>1. AllReached(r) /\ reached[t] = After(r)
    BY <1>2, PhaseOfSearch, LateWaits
  <2>2. PICK n : SearchPhase(After(r), n)
    BY <1>0, <2>1, SearchPhaseEnds
  <2>3. PICK q \in 0..2 : q = After(r)
    BY Rounds
  <2>4. SearchPhase(q, n)'
    BY <1>0, <2>1, <2>2, <2>3, SearchPhaseStep
  <2> QED BY <2>4
<1> QED BY <1>1, <1>2

LEMMA EarlyStep ==
  ASSUME PhaseInv, Early, NEW t \in pids, Step(t) \/ Wake(t)
  PROVE  Early' \/ \E q \in 0..2 : \E n : SearchPhase(q, n)'
<1>0. Base /\ HasShape /\ PointsOK
  BY DEF PhaseInv, Base
<1>1. CASE EarlyFresh
  BY <1>1, FreshStep
<1>2. ASSUME NEW m, EarlySeed(m) PROVE Early'
  BY <1>2, SeedsStep
<1>3. ASSUME NEW m, EarlyRun(m), at[t] # "return" PROVE Early'
  <2>1. EarlyRun(m)'
    BY <1>3, RunStep
  <2> QED BY <2>1 DEF Early
<1>4. ASSUME NEW m, NEW r \in 0..2, EarlyReturn(r, m)
      PROVE  Early' \/ \E q \in 0..2 : \E n : SearchPhase(q, n)'
  <2>1. CASE reached[t] = r
    <3>1. EarlyReturn(r, m)'
      BY <1>4, <2>1, BackStep
    <3> QED BY <3>1 DEF Early
  <2>2. CASE reached[t] # r
    <3>1. AllReached(r) /\ reached[t] = After(r)
      <4>1. Phase(r, {"return", "pspeedy", "select"}, {"first", "search"})
        BY <1>4 DEF EarlyReturn
      <4>2. {"first", "search"} \subseteq WaitLabels
        BY DEF WaitLabels
      <4> QED BY <2>2, <4>1, <4>2, LateWaits
    <3>2. PICK n : n = Returned(m)
      OBVIOUS
    <3>3. \/ EarlyRun(n) /\ \A u \in pids : at[u] = "first"
          \/ PSearch(After(r), n)
      BY <1>4, <3>1, <3>2, BackEnds
    <3>4. CASE EarlyRun(n) /\ \A u \in pids : at[u] = "first"
      BY <1>3, <3>4
    <3>5. CASE PSearch(After(r), n)
      <4>1. PICK q \in 0..2 : q = After(r)
        BY Rounds
      <4>2. SearchPhase(q, n)
        BY <3>5, <4>1 DEF SearchPhase
      <4> QED BY <4>2, SearchStep
    <3> QED BY <3>3, <3>4, <3>5
  <2> QED BY <2>1, <2>2
<1>5. ASSUME NEW m, EarlyRun(m), at[t] = "return"
      PROVE  Early' \/ \E q \in 0..2 : \E n : SearchPhase(q, n)'
  <2>1. PICK r \in 0..2 : EarlyReturn(r, m)
    BY <1>5, RunEnds
  <2> QED BY <1>4, <2>1
<1> QED BY <1>1, <1>2, <1>3, <1>4, <1>5 DEF Early

LEMMA SearchStays ==
  ASSUME PhaseInv, UNCHANGED medianVars, NEW r \in 0..2, NEW m, SearchPhase(r, m)
  PROVE  SearchPhase(r, m)'
<1>1. /\ UNCHANGED <<point, assign, cost, k, at, my, reached, hizs>>
      /\ UNCHANGED <<is_center, center_table, switch_membership, work_mem, gl_lower>>
      /\ UNCHANGED <<gl_cost_of_opening_x, gl_number_of_centers_to_close, feasible>>
  BY DEF medianVars, facilityVars, speedyVars, gainVars
<1>2. /\ \A q, A, B : Phase(q, A, B) => Phase(q, A, B)'
      /\ \A u, n : Like(u, n)' <=> Like(u, n)
  BY <1>1 DEF Phase, Like
<1>3. Ready(m) => Ready(m)' /\ Candidate(m)' = Candidate(m)
  BY <1>1, ReadyStays
<1>4. Settled => Settled' /\ TotalCost' = TotalCost /\ Centers' = Centers
  BY <1>1, SettledStays
<1>5. Outside(m) => Outside(m)'
  <2>1. Outside(m) => Feasible'
    BY <1>1 DEF Outside, Ready, Feasible
  <2> QED BY <1>1, <2>1, OutsideStays
<1>6. Inside(m) => Inside(m)'
  <2>1. Inside(m) => \A u \in pids : Like(u, m)'
    BY <1>2 DEF Inside
  <2> QED BY <1>1, <2>1, InsideStays
<1>7. \A u : Mine(u)' = Mine(u) /\ x(u)' = x(u) /\ Block(u)' = Block(u)
  BY <1>1 DEF Mine, x, Block
<1>8. /\ \A j : Saved(m, j)' = Saved(m, j)
      /\ \A u \in pids : /\ ClosedIn(m, u)' = ClosedIn(m, u)
                         /\ Switching(u)' = Switching(u) /\ OpeningOf(u)' = OpeningOf(u)
                         /\ \A c : Saving(u, c)' = Saving(u, c)
  BY <1>1, <1>7, SavedStays
<1>9. columns' = columns /\ indices' = indices /\ pids' = pids
  BY DEF columns, indices, pids
<1>10. /\ KnowsCount => KnowsCount'
       /\ NoneClosing => NoneClosing'
       /\ Settled /\ Numbered => Numbered'
  <2>1. KnowsCount => KnowsCount'
    BY <1>1 DEF KnowsCount
  <2>2. NoneClosing => NoneClosing'
    BY <1>1 DEF NoneClosing
  <2>3. Settled /\ Numbered => Numbered'
    BY <1>1, <1>4, NumberedStays
  <2> QED BY <2>1, <2>2, <2>3
<1>11. \A u : Before(u)' = Before(u)
  BY <1>7, BeforeStays
<1>12. \A u \in pids : /\ RankedIn(u)' <=> RankedIn(u)
                       /\ NumberedIn(u)' <=> NumberedIn(u)
                       /\ Cleared(u)' <=> Cleared(u)
                       /\ SwitchesIn(u)' <=> SwitchesIn(u)
                       /\ LoweredIn(m, u)' <=> LoweredIn(m, u)
  <2> SUFFICES ASSUME NEW u \in pids
               PROVE  /\ RankedIn(u)' <=> RankedIn(u)
                      /\ NumberedIn(u)' <=> NumberedIn(u)
                      /\ Cleared(u)' <=> Cleared(u)
                      /\ SwitchesIn(u)' <=> SwitchesIn(u)
                      /\ LoweredIn(m, u)' <=> LoweredIn(m, u)
    OBVIOUS
  <2>1. RankedIn(u)' <=> RankedIn(u)
    BY <1>1, <1>7 DEF RankedIn
  <2>2. NumberedIn(u)' <=> NumberedIn(u)
    BY <1>1, <1>7, <1>11 DEF NumberedIn
  <2>3. Cleared(u)' <=> Cleared(u)
    BY <1>1, <1>7, <1>9 DEF Cleared
  <2>4. SwitchesIn(u)' <=> SwitchesIn(u)
    BY <1>1, <1>7, <1>8 DEF SwitchesIn
  <2>5. LoweredIn(m, u)' <=> LoweredIn(m, u)
    BY <1>1, <1>7, <1>8 DEF LoweredIn
  <2> QED BY <2>1, <2>2, <2>3, <2>4, <2>5
<1>13. \A u \in pids : SummedIn(m, u)' <=> SummedIn(m, u)
  <2> SUFFICES ASSUME NEW u \in pids PROVE SummedIn(m, u)' <=> SummedIn(m, u)
    OBVIOUS
  <2>1. /\ Cardinality(ClosedIn(m, u))' = Cardinality(ClosedIn(m, u))
        /\ (OpeningOf(u) - SumFunction([j \in ClosedIn(m, u) |-> Saved(m, j)]))'
             = OpeningOf(u) - SumFunction([j \in ClosedIn(m, u) |-> Saved(m, j)])
    BY <1>8
  <2> QED BY <1>1, <2>1 DEF SummedIn
<1>14. PSearch(r, m) => PSearch(r, m)'
  BY <1>1, <1>2, <1>5 DEF PSearch, Called, Begun
<1>15. PPass(r, m) => PPass(r, m)'
  <2>1. /\ Enough(m)' <=> Enough(m)
        /\ Again(m)' <=> Again(m)
        /\ Bounded(m)' = Bounded(m)
    BY <1>1 DEF Enough, Again, GoodNumber, Bounded, Repriced, Priced
  <2>2. \A n : Over(n)' <=> Over(n)
    BY <1>1 DEF Over, IsGood
  <2>3. /\ Started(m)' = Started(m) /\ Called(m, 1000)' = Called(m, 1000)
        /\ Begun(m, 1000)' = Begun(m, 1000)
    BY DEF Started, Called, Begun
  <2>4. \A u \in pids : Judged(r, m, u) => Judged(r, m, u)'
    <3> SUFFICES ASSUME NEW u \in pids, Judged(r, m, u) PROVE Judged(r, m, u)'
      OBVIOUS
    <3>1. PICK n1, n2, n3, n4 : n1 = Started(m) /\ n2 = Called(m, 1000) /\ n3 = Begun(m, 1000) /\ n4 = Bounded(m)
      OBVIOUS
    <3>2. Started(m)' = n1 /\ Called(m, 1000)' = n2 /\ Begun(m, 1000)' = n3 /\ Bounded(m)' = n4
      BY <2>1, <2>3, <3>1
    <3> QED BY <1>1, <1>2, <2>1, <2>2, <3>1, <3>2 DEF Judged
  <2> QED BY <1>2, <1>5, <2>4 DEF PPass
<1>16. PEnter(r, m) => PEnter(r, m)'
  BY <1>2, <1>6 DEF PEnter
<1>17. PAllocate(r, m) => PAllocate(r, m)'
  BY <1>1, <1>2, <1>6 DEF PAllocate
<1>18. PCount(r, m) => PCount(r, m)'
  BY <1>1, <1>2, <1>6, <1>7, <1>10, <1>12 DEF PCount
<1>19. PPrefix(r, m) => PPrefix(r, m)'
  BY <1>1, <1>2, <1>6, <1>7, <1>10, <1>11, <1>12 DEF PPrefix
<1>20. PTable(r, m) => PTable(r, m)'
  BY <1>1, <1>2, <1>6, <1>10, <1>11, <1>12 DEF PTable
<1>21. Inside(m) => Settled
  BY DEF Inside
<1>22. PLower(r, m) => PLower(r, m)'
  <2>1. \A u \in pids : /\ my[u].opening' = my[u].opening
                        /\ \A c : work_mem'[u][c] = work_mem[u][c]
    BY <1>1
  <2> QED BY <1>1, <1>2, <1>6, <1>8, <1>9, <1>10, <1>12, <1>21 DEF PLower
<1>23. PClosing(r, m) => PClosing(r, m)'
  BY <1>1, <1>2, <1>6, <1>8, <1>10, <1>12, <1>13, <1>21 DEF PClosing
<1>24. PAggregate(r, m) => PAggregate(r, m)'
  BY <1>1, <1>2, <1>6, <1>10, <1>12, <1>13, <1>21 DEF PAggregate
<1>25. ASSUME NEW s, PApply(r, m, s) PROVE PApply(r, m, s)'
  <2>1. Ready(m) /\ Aims(m, s)
    BY <1>25 DEF PApply
  <2>2. Aims(m, s)'
    BY <1>1, <2>1, AimsStay
  <2>3. \A j, c : CostAt(j, c)' = CostAt(j, c)
    BY <1>1 DEF CostAt, dist
  <2>4. \A u \in pids : (ToDo(m, s, u) => ToDo(m, s, u)') /\ (Done(s, u) => Done(s, u)')
    <3> SUFFICES ASSUME NEW u \in pids
                 PROVE  (ToDo(m, s, u) => ToDo(m, s, u)') /\ (Done(s, u) => Done(s, u)')
      OBVIOUS
    <3>1. Done(s, u) => Done(s, u)'
      BY <1>1, <1>7 DEF Done
    <3>2. \A j : (Moves(j)' <=> Moves(j)) /\ (Stays(j)' <=> Stays(j))
      BY <1>1 DEF Moves, Stays
    <3>3. \A j : CostAt(j, Candidate(m))' = CostAt(j, Candidate(m))
      BY <1>1 DEF CostAt, dist, Candidate
    <3>4. ToDo(m, s, u) => ToDo(m, s, u)'
      BY <1>1, <1>3, <1>7, <2>1, <3>2, <3>3 DEF ToDo
    <3> QED BY <3>1, <3>4
  <2> QED BY <1>1, <1>2, <1>3, <1>25, <2>2, <2>4 DEF PApply
<1>26. PGained(r, m) => PGained(r, m)'
  <2>1. PGained(r, m) => Worth(m)' = Worth(m)
    BY <1>1, <1>4 DEF Worth, PGained
  <2>2. Added(m, gl_cost_of_opening_x)' = Added(m, gl_cost_of_opening_x)
    BY <1>1 DEF Added
  <2>3. PICK n : n = Added(m, gl_cost_of_opening_x)
    OBVIOUS
  <2>4. Added(m, gl_cost_of_opening_x)' = n
    BY <2>2, <2>3
  <2> QED BY <1>1, <1>2, <1>3, <1>4, <2>1, <2>3, <2>4 DEF PGained
<1> QED BY <1>14, <1>15, <1>16, <1>17, <1>18, <1>19, <1>20, <1>22, <1>23, <1>24, <1>25, <1>26
           DEF SearchPhase

LEMMA EarlyStays ==
  ASSUME PhaseInv, UNCHANGED medianVars, Early
  PROVE  Early'
<1>1. /\ UNCHANGED <<point, assign, cost, k, at, my, reached, hizs>>
      /\ UNCHANGED <<totalcost, is_center, feasible>>
  BY DEF medianVars, facilityVars, speedyVars, gainVars
<1>2. /\ \A q, A, B : Phase(q, A, B) => Phase(q, A, B)'
      /\ \A u, n : Like(u, n)' <=> Like(u, n)
      /\ NoCenters' <=> NoCenters
      /\ \A n : Returned(n)' = Returned(n)
      /\ Feasible' <=> Feasible
      /\ Centers' = Centers /\ TotalCost' = TotalCost
  BY <1>1 DEF Phase, Like, NoCenters, Returned, Feasible, Centers, TotalCost
<1>3. PointsOK
  BY DEF PhaseInv, Base
<1>4. \A n : FirstPrice(n) => FirstPrice(n)'
  BY <1>1, <1>3, PriceStays
<1>5. Solved => Solved'
  BY <1>1, SolvedKept
<1>6. EarlyFresh => EarlyFresh'
  <2>1. \A u : HizOf(u)' = HizOf(u)
    BY <1>1 DEF HizOf, CostAt, dist, Block
  <2> QED BY <1>1, <1>2, <2>1 DEF EarlyFresh
<1>7. \A n : EarlySeed(n) => EarlySeed(n)'
  <2>1. Seeded(SumFunctionOnSet(hizs, pids))' = Seeded(SumFunctionOnSet(hizs, pids))
    BY <1>1
  <2> QED BY <1>1, <1>2, <1>4, <2>1 DEF EarlySeed
<1>8. \A n : EarlyRun(n) => EarlyRun(n)'
  BY <1>1, <1>2, <1>4 DEF EarlyRun
<1>9. ASSUME NEW r \in 0..2, NEW n, EarlyReturn(r, n) PROVE EarlyReturn(r, n)'
  <2>1. PICK q : q = Returned(n) /\ q = Returned(n)'
    BY <1>2
  <2> QED BY <1>1, <1>2, <1>4, <1>5, <1>9, <2>1 DEF EarlyReturn
<1> QED BY <1>6, <1>7, <1>8, <1>9 DEF Early

LEMMA SearchInvInit == pkmedianInit => SearchInv
<1> SUFFICES ASSUME pkmedianInit PROVE SearchInv
  OBVIOUS
<1>1. PhaseInv
  BY PhaseInvInit
<1>2. EarlyFresh
  BY DEF pkmedianInit, gainInit, EarlyFresh, Like, Zero, NoCenters
<1> QED BY <1>1, <1>2 DEF SearchInv, Early

LEMMA SearchInvNext == SearchInv /\ [KMedianNext]_medianVars => SearchInv'
<1> SUFFICES ASSUME SearchInv, [KMedianNext]_medianVars PROVE SearchInv'
  OBVIOUS
<1>1. PhaseInv /\ PhaseInv'
  BY PhaseInvNext DEF SearchInv
<1>2. CASE UNCHANGED medianVars
  <2>1. Early => Early'
    BY <1>1, <1>2, EarlyStays
  <2>2. \A r \in 0..2 : \A m : SearchPhase(r, m) => SearchPhase(r, m)'
    BY <1>1, <1>2, SearchStays
  <2> QED BY <1>1, <2>1, <2>2 DEF SearchInv
<1>3. ASSUME NEW t \in pids, Step(t) \/ Wake(t) PROVE SearchInv'
  <2>1. Early => Early' \/ \E q \in 0..2 : \E n : SearchPhase(q, n)'
    BY <1>1, <1>3, EarlyStep
  <2>2. ASSUME NEW r \in 0..2, NEW m, SearchPhase(r, m)
        PROVE  \E q \in 0..2 : \E n : SearchPhase(q, n)'
    BY <1>1, <1>3, <2>2, SearchStep
  <2> QED BY <1>1, <2>1, <2>2 DEF SearchInv
<1> QED BY <1>2, <1>3 DEF KMedianNext

-----------------------------------------------------------------------------
(***************************************************************************)
(* What the search keeps.                                                  *)
(***************************************************************************)
LEMMA NotEarly ==
  ASSUME Early PROVE ~AllAt("gained") /\ ~AllAt("pass")
<1>1. \A t \in pids : at[t] \notin {"gained", "pass"}
  BY DEF Early, EarlyFresh, EarlySeed, EarlyRun, EarlyReturn, Phase, RunLabels
<1> QED BY <1>1, FiniteSets DEF AllAt

LEMMA AllGained ==
  ASSUME PointsOK, NEW r \in 0..2, NEW m, SearchPhase(r, m), AllAt("gained")
  PROVE  Settled
<1>1. 0 \in pids /\ \A u \in pids : at[u] = "gained"
  BY FiniteSets DEF AllAt
<1>2. \A s : PApply(r, m, s) => Settled
  BY <1>1, PApplyEnds
<1>3. PGained(r, m) => Settled
  BY DEF PGained
<1>4. ~PSearch(r, m) /\ ~PPass(r, m) /\ ~PEnter(r, m)
  BY <1>1 DEF Phase, PSearch, PPass, PEnter
<1>5. ~PAllocate(r, m) /\ ~PCount(r, m) /\ ~PPrefix(r, m) /\ ~PTable(r, m)
  BY <1>1 DEF Phase, PAllocate, PCount, PPrefix, PTable
<1>6. ~PLower(r, m) /\ ~PClosing(r, m) /\ ~PAggregate(r, m)
  BY <1>1 DEF Phase, PLower, PClosing, PAggregate
<1> QED BY <1>2, <1>3, <1>4, <1>5, <1>6 DEF SearchPhase

LEMMA AllPassed ==
  ASSUME NEW r \in 0..2, NEW m, SearchPhase(r, m), AllAt("pass"), NEW t \in pids
  PROVE  my[t].cost = my[t].z * k + TotalCost
<1>1. 0 \in pids /\ \A u \in pids : at[u] = "pass"
  BY FiniteSets DEF AllAt
<1>2. CASE PSearch(r, m)
  <2>1. m \in Locals /\ m.cost = m.z * k + TotalCost /\ 10 \in Int
    BY <1>2 DEF PSearch, Outside, Ready, Worth
  <2>2. PICK n : n = Begun(m, 10)
    OBVIOUS
  <2>3. Like(t, n)
    BY <1>1, <1>2, <2>2 DEF PSearch
  <2>4. n.cost = m.cost /\ n.z = m.z
    BY <2>1, <2>2, BegunFields
  <2> QED BY <2>1, <2>3, <2>4 DEF Like
<1>3. CASE PPass(r, m)
  <2>1. m \in Locals /\ m.cost = m.z * k + TotalCost /\ 1000 \in Int
    BY <1>3 DEF PPass, Outside, Ready, Worth
  <2>2. PICK n : n = Begun(m, 1000)
    OBVIOUS
  <2>3. Like(t, m) \/ Like(t, n)
    <3>1. Judged(r, m, t) /\ at[t] = "pass"
      BY <1>1, <1>3 DEF PPass
    <3> QED BY <2>2, <3>1 DEF Judged
  <2>4. n.cost = m.cost /\ n.z = m.z
    BY <2>1, <2>2, BegunFields
  <2> QED BY <2>1, <2>3, <2>4 DEF Like
<1>4. CASE PGained(r, m)
  <2>1. PICK g \in Int : g = gl_cost_of_opening_x
    BY <1>4 DEF PGained
  <2>2. m \in Locals /\ m.cost - (m.change - g) = m.z * k + TotalCost
    BY <1>4, <2>1 DEF PGained, Ready, Worth
  <2>3. PICK n : n = Added(m, g)
    OBVIOUS
  <2>4. ~(m.i + 1 < Iter) /\ Like(t, n)
    BY <1>1, <1>4, <2>1, <2>3 DEF PGained
  <2>5. n.cost = m.cost - (m.change - g) /\ n.z = m.z
    BY <2>2, <2>3, <2>4, AddedFields
  <2> QED BY <2>2, <2>4, <2>5 DEF Like
<1>5. ~PEnter(r, m) /\ ~PAllocate(r, m) /\ ~PCount(r, m) /\ ~PPrefix(r, m)
  BY <1>1 DEF Phase, PEnter, PAllocate, PCount, PPrefix
<1>6. ~PTable(r, m) /\ ~PLower(r, m) /\ ~PClosing(r, m) /\ ~PAggregate(r, m)
  BY <1>1 DEF Phase, PTable, PLower, PClosing, PAggregate
<1>7. \A s : ~PApply(r, m, s)
  BY <1>1 DEF Phase, PApply
<1> QED BY <1>2, <1>3, <1>4, <1>5, <1>6, <1>7 DEF SearchPhase

\* When pgain returns, its threads have made one solution of their blocks: the
\* flags name the centers that points are with, each is its own center, they
\* are as many as are counted, and every cost is that of the assignment,
\* whether or not the candidate has been opened.
THEOREM SolutionSettled == KMedianSpec => []CentersConsistent
<1>1. SearchInv => CentersConsistent
  <2> SUFFICES ASSUME SearchInv, AllAt("gained")
               PROVE  /\ CostsMatch
                      /\ Centers = {j \in indices : is_center[j]}
                      /\ \A c \in Centers : assign[c] = c
                      /\ k = Cardinality(Centers)
    BY DEF CentersConsistent
  <2>1. PointsOK
    BY DEF SearchInv, PhaseInv, Base
  <2>2. Settled
    BY <2>1, NotEarly, AllGained DEF SearchInv
  <2>3. Centers \subseteq indices
    BY <2>1, <2>2, SettledTypes
  <2> QED BY <2>2, <2>3 DEF Settled, CostsMatch
<1> QED BY <1>1, SearchInvInit, SearchInvNext, PTL DEF KMedianSpec

\* What the threads carry as the cost, from pass to pass and through every
\* change of z, is what the solution costs.
THEOREM CarriedCostIsExact == KMedianSpec => []CostIsExact
<1>1. SearchInv => CostIsExact
  <2> SUFFICES ASSUME SearchInv, AllAt("pass"), NEW t \in pids
               PROVE  my[t].cost = my[t].z * k + TotalCost
    BY DEF CostIsExact
  <2> QED BY NotEarly, AllPassed DEF SearchInv
<1> QED BY <1>1, SearchInvInit, SearchInvNext, PTL DEF KMedianSpec

=============================================================================
