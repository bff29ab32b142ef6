---------------------------- MODULE FluidProofs ----------------------------
(***************************************************************************)
(* Proofs about module Fluid, for any grid, any division of it, any number *)
(* of particles and any size of cells and pools.                           *)
(*                                                                         *)
(* FluidInv is a disjunction of the phases: a barrier separates each from  *)
(* the next, so that all threads are in the same one or have arrived at    *)
(* the barrier behind it (Together).  The phase Rebuilding carries the     *)
(* weight: between FindSlot and CopyParticle a slot is reserved, and a     *)
(* structure is in a pool, in a chain of the new cells or in what is left  *)
(* of a chain of the old ones (InOld).  Pools + chains + what is left is   *)
(* constant, structure by structure.  Counting is about the pairs threads  *)
(* find; which those are is said last, where addresses are compared.       *)
(***************************************************************************)
EXTENDS Fluid, SumProofs, SequenceTheorems

\* The types of a cell and of the local variables of a thread.
Cells == [n : Nat, p : Seq(Particles \cup {NoParticle}), chain : Seq(Nat)]
Labels == {"load", "swap", "clear", "rebuild", "file", "copy", "init", "densities",
           "pair", "add", "advance", "done"}
Quadruples == cellIds \X Nat \X cellIds \X Nat
Locals == [frame : Nat, c : Nat, j : Nat, np : Nat, at : {1, 2},
           todo : SUBSET Quadruples, reg : Int]

FluidTypeOK ==
  /\ loaded \in 0..numParticles
  /\ pos \in [Particles -> cellIds]
  /\ cells \in [cellIds -> Cells] /\ cells2 \in [cellIds -> Cells]
  /\ pools \in [tids -> Seq(Nat)]
  /\ alloc \in [tids -> Nat \ {0}]
  /\ fresh \in Nat \ {0}
  /\ poolAbove \in BOOLEAN
  /\ mutex \subseteq cellIds \X Nat
  /\ density \in [Particles -> Int]
  /\ step \in [tids -> Labels]
  /\ cur \in [tids -> Locals]
  /\ passed \in [tids -> 0..2]

-----------------------------------------------------------------------------
(* Where everybody is. *)
\* The threads of frame f have passed r barriers; some are in the phase of the
\* labels In, and those that are not have arrived at the barrier behind it, next.
Together(st, ba, cu, In, next, r, f) ==
  /\ f \in Nat
  /\ \E t \in tids : st[t] \in In
  /\ \A t \in tids :
       /\ cu[t].frame = f
       /\ \/ st[t] \in In /\ ba[t] = r
          \/ st[t] = next /\ ba[t] = (r + 1) % 3

-----------------------------------------------------------------------------
(* Arrays of cells *)

\* The structures in the chain of a cell with n particles.
Structures(n) == IF n = 0 THEN 0 ELSE (n - 1) \div PARTICLES_PER_CELL

\* q is stored once, in slot j of cell c.
Once(cs, q, c, j) ==
  /\ c \in cellIds /\ j \in 1..Len(cs[c].p)
  /\ \A d \in cellIds : \A k \in 1..Len(cs[d].p) : cs[d].p[k] = q <=> d = c /\ k = j

\* The particles of Q, and no others, are stored in cs.
Full(cs, Q) ==
  /\ \A c \in cellIds : /\ cs[c].n = Len(cs[c].p)
                        /\ Len(cs[c].chain) = Structures(cs[c].n)
                        /\ \A j \in 1..Len(cs[c].p) : cs[c].p[j] \in Q
  /\ \A q \in Q : \E c \in cellIds : \E j \in 1..Len(cs[c].p) : Once(cs, q, c, j)

\* No particle has moved further than to a neighbour of the cell it is in ...
Moved(at, cs) ==
  \A c \in cellIds : \A j \in 1..Len(cs[c].p) : at[cs[c].p[j]] \in Neighbours(c)

\* ... or none in the block of t has moved at all.
Settled(at, cs, t) ==
  \A c \in grid(t) : \A j \in 1..Len(cs[c].p) : at[cs[c].p[j]] = c

AllSettled(at, cs) == \A t \in tids : Settled(at, cs, t)

\* How often a structure is in the pools and in the chains of cs, and whether
\* there is such a structure: each is in one place.
Pools(ps, s) == SumFunctionOnSet([t \in tids |-> Occurrences(ps[t], s)], tids)
InChains(cs, s) == SumFunctionOnSet([c \in cellIds |-> Occurrences(cs[c].chain, s)], cellIds)
Known(next, s) == IF s \in 1..(next - 1) THEN 1 ELSE 0

Conserved(ps, next, cs) == \A s \in Nat : Pools(ps, s) + InChains(cs, s) = Known(next, s)

-----------------------------------------------------------------------------
(* Phases *)

\* InitSim files particles, in their order; no thread has started.
Loading ==
  /\ \A t \in tids : step[t] = "load" /\ passed[t] = 0 /\ cur[t].frame = 1
  /\ loaded < numParticles \/ numParticles = 0
  /\ Full(cells, 1..loaded) /\ AllSettled(pos, cells) /\ Conserved(pools, fresh, cells)

Filled(ps, next, cs) == Full(cs, Particles) /\ Conserved(ps, next, cs)

\* Thread 0 swaps the arrays: before, the particles are in cells, then in cells2.
Swapping ==
  /\ \E f \in Nat : Together(step, passed, cur, {"swap"}, "clear", 0, f)
  /\ IF step[0] = "swap" THEN Filled(pools, fresh, cells) /\ Moved(pos, cells)
                        ELSE Filled(pools, fresh, cells2) /\ Moved(pos, cells2)

Cleared(t) ==
  /\ \A c \in grid(t) : cells[c] = emptyCell
  /\ cur[t].c = 1 /\ cur[t].j = 0

Clearing ==
  /\ \E f \in Nat : Together(step, passed, cur, {"clear"}, "rebuild", 1, f)
  /\ Filled(pools, fresh, cells2) /\ Moved(pos, cells2)
  /\ \A t \in tids : step[t] = "rebuild" => Cleared(t)

-----------------------------------------------------------------------------
(* Rebuilding *)
InRebuild == {"rebuild", "file", "copy"}

Before(t, c) == Cardinality({d \in grid(t) : d < c})
\* The thread of a cell.
Owner(c) == CHOOSE t \in tids : c \in grid(t)

\* How many particles of a cell of the old array have been filed.
Read(c) ==
  LET t == Owner(c)
  IN  IF step[t] = "init" \/ Before(t, c) + 1 < cur[t].c THEN cells2[c].n
      ELSE IF Before(t, c) + 1 = cur[t].c THEN cur[t].j ELSE 0

\* q has been filed.
Filed(q) == \E c \in cellIds : \E j \in 1..Read(c) : cells2[c].p[j] = q

\* t is at a cell of its block; in the middle of filing, at a particle of it.
Cursor(t) ==
  /\ cur[t].c \in 1..(Cardinality(grid(t)) + 1)
  /\ IF cur[t].c <= Cardinality(grid(t)) THEN cur[t].j <= cells2[Source(t)].n ELSE cur[t].j = 0
  /\ step[t] # "rebuild" => cur[t].c <= Cardinality(grid(t)) /\ cur[t].j < cells2[Source(t)].n

\* Slot k of the cell d has been given to a thread that will copy into it.
Reserved(d, k) == \E t \in tids : step[t] = "copy" /\ Destination(t) = d /\ cur[t].np = k - 1

\* Every slot that is counted holds a particle or is reserved.
Slots(d) ==
  /\ Len(cells[d].p) <= cells[d].n
  /\ Len(cells[d].chain) = Structures(cells[d].n)
  /\ \A k \in 1..cells[d].n : Reserved(d, k) \/ (k <= Len(cells[d].p) /\ cells[d].p[k] # NoParticle)

\* NoParticle is in the slot reserved for t.
Copying(t) ==
  LET d == Destination(t)
  IN  /\ cur[t].np < cells[d].n
      /\ cur[t].np + 1 <= Len(cells[d].p) => cells[d].p[cur[t].np + 1] = NoParticle

\* The number of particles t has read is still that of the cell: it has the mutex.
Filing(t) ==
  LET d == Destination(t)
  IN  cur[t].np = cells[d].n /\ (border(d) => <<d, 0>> \in mutex)

\* No two threads are given the same slot.
Apart(t, u) ==
  /\ step[t] = "file" /\ step[u] = "file" => Destination(t) # Destination(u)
  /\ step[t] = "copy" /\ step[u] = "copy" =>
       Destination(t) # Destination(u) \/ cur[t].np # cur[u].np

\* How many structures of the old chain have been returned, how often s is in
\* what is left of that chain, and of all of them.
Returned(c) ==
  IF Read(c) = cells2[c].n THEN Len(cells2[c].chain)
  ELSE IF Read(c) < PARTICLES_PER_CELL THEN 0
  ELSE (Read(c) \div PARTICLES_PER_CELL) - 1

Kept(c, s) == Cardinality({m \in DOMAIN cells2[c].chain : Returned(c) < m /\ cells2[c].chain[m] = s})
InOld(s) == SumFunctionOnSet([c \in cellIds |-> Kept(c, s)], cellIds)

\* A particle is where it should be once it is filed, and nowhere before.
Placed(q) ==
  IF Filed(q) THEN \E j \in 1..Len(cells[pos[q]].p) : Once(cells, q, pos[q], j)
              ELSE \A d \in cellIds : \A k \in 1..Len(cells[d].p) : cells[d].p[k] # q

Refiled ==
  /\ Full(cells2, Particles) /\ Moved(pos, cells2)
  /\ \A t \in tids : step[t] \in InRebuild => Cursor(t)
  /\ \A t \in tids : step[t] = "file" => Filing(t)
  /\ \A t \in tids : step[t] = "copy" => Copying(t)
  /\ \A t, u \in tids : t # u => Apart(t, u)
  /\ \A d \in cellIds : Slots(d)
  /\ \A q \in Particles : Placed(q)
  /\ \A s \in Nat : Pools(pools, s) + InChains(cells, s) + InOld(s) = Known(fresh, s)

Rebuilding ==
  /\ \E f \in Nat : Together(step, passed, cur, InRebuild, "init", 2, f)
  /\ Refiled

-----------------------------------------------------------------------------
(* Initialising: the densities of a block are zero once its thread has arrived. *)
Initialising ==
  /\ \E f \in Nat : Together(step, passed, cur, {"init"}, "densities", 0, f)
  /\ Filled(pools, fresh, cells) /\ AllSettled(pos, cells)
  /\ \A t \in tids : step[t] = "densities" =>
        \A q \in Particles : pos[q] \in grid(t) => density[q] = 0

-----------------------------------------------------------------------------
(* Counting: a density is the number of particles paired with q for which no *)
(* thread has the pair pending.  Which near particles are paired with q is   *)
(* a question about addresses; no step of the counting depends on it.        *)
InDensities == {"densities", "pair", "add"}

FirstOf(pr) == cells[pr[1]].p[pr[2] + 1]
SecondOf(pr) == cells[pr[3]].p[pr[4] + 1]

\* The particles some thread counts for q.
Paired(q) ==
  {r \in Particles : \E t \in tids : \E pr \in PairsOf(t) : {q, r} = {FirstOf(pr), SecondOf(pr)}}

\* t has still to add r to q.
Pending(t, q, r) ==
  \/ /\ step[t] = "densities"
     /\ \E pr \in PairsOf(t) : {q, r} = {FirstOf(pr), SecondOf(pr)}
  \/ /\ step[t] \in {"pair", "add"}
     /\ \E pr \in cur[t].todo :
          \/ q = FirstOf(pr) /\ r = SecondOf(pr) /\ ~(pr = Pair(t) /\ cur[t].at = 2)
          \/ q = SecondOf(pr) /\ r = FirstOf(pr)

Counted(q) == {r \in Paired(q) : \A t \in tids : ~Pending(t, q, r)}

\* The density t has read is still the same: it has the mutex.
Adding(t) ==
  /\ cur[t].todo # {}
  /\ cur[t].reg = density[Updated(t)]
  /\ border(At(t).c) => <<At(t).c, At(t).i>> \in mutex

Counting ==
  /\ \E f \in Nat : Together(step, passed, cur, InDensities, "advance", 1, f)
  /\ Filled(pools, fresh, cells) /\ AllSettled(pos, cells)
  /\ \A t \in tids : step[t] \in {"pair", "add"} =>
       cur[t].todo \subseteq PairsOf(t) /\ (cur[t].todo = {} => cur[t].at = 1)
  /\ \A t \in tids : step[t] = "add" => Adding(t)
  /\ \A t, u \in tids : t # u /\ step[t] = "add" /\ step[u] = "add" => At(t) # At(u)
  /\ \A q \in Particles : density[q] = Cardinality(Counted(q))

\* The next phase is the swap, or the end: a thread that has moved its particles
\* is at the beginning of its next frame.
Advancing ==
  /\ \E f \in Nat :
       /\ \E t \in tids : step[t] = "advance"
       /\ \A t \in tids :
            \/ step[t] = "advance" /\ cur[t].frame = f /\ passed[t] = 2
            \/ /\ step[t] = (IF f < Frames THEN "swap" ELSE "done")
               /\ cur[t].frame = f + 1 /\ passed[t] = 0
  /\ Filled(pools, fresh, cells) /\ Moved(pos, cells)
  /\ \A t \in tids : step[t] = "advance" => Settled(pos, cells, t)
  /\ (\A t \in tids : step[t] = "advance") =>
       \A q \in Particles : density[q] = Cardinality(Paired(q))

Finished == \A t \in tids : step[t] = "done"

FluidInv ==
  /\ FluidTypeOK
  /\ \/ Loading
     \/ /\ loaded = numParticles
        /\ \/ Swapping \/ Clearing \/ Rebuilding \/ Initialising \/ Counting
           \/ Advancing \/ Finished

-----------------------------------------------------------------------------
(***************************************************************************)
(* Division, and the blocks of cells.                                      *)
(***************************************************************************)
LEMMA Divide ==
  ASSUME NEW a \in Int, NEW b \in Nat \ {0}
  PROVE  /\ a \div b \in Int /\ a % b \in 0..(b - 1)
         /\ a = b * (a \div b) + (a % b)
<1>1. a \div b \in Int
  OBVIOUS
<1>2. a % b \in 0..(b - 1)
  OBVIOUS
<1>3. a = b * (a \div b) + (a % b)
  OBVIOUS
<1> QED
  BY <1>1, <1>2, <1>3

\* Quotient and remainder are unique.
LEMMA DivideUnique ==
  ASSUME NEW a \in Int, NEW b \in Nat \ {0}, NEW q \in Int, NEW r \in 0..(b - 1), a = b * q + r
  PROVE  a \div b = q /\ a % b = r
<1> DEFINE p == a \div b
           s == a % b
<1>1. p \in Int /\ s \in 0..(b - 1) /\ a = b * p + s
  BY Divide
<1> HIDE DEF p, s
<1>2. ~(q < p)
  <2> SUFFICES ASSUME q < p PROVE FALSE
    OBVIOUS
  <2>1. b * (q + 1) <= b * p
    <3>1. q + 1 <= p /\ p - (q + 1) \in Nat
      BY <1>1
    <3>2. b * (p - (q + 1)) >= 0
      BY <3>1
    <3>3. b * (p - (q + 1)) = b * p - b * (q + 1)
      BY <1>1
    <3>4. b * p \in Int /\ b * (q + 1) \in Int
      BY <1>1
    <3> QED BY <3>2, <3>3, <3>4
  <2>2. b * (q + 1) = b * q + b
    OBVIOUS
  <2>3. b * q \in Int /\ b * p \in Int
    BY <1>1
  <2> QED BY <1>1, <2>1, <2>2, <2>3
<1>3. ~(p < q)
  <2> SUFFICES ASSUME p < q PROVE FALSE
    OBVIOUS
  <2>1. b * (p + 1) <= b * q
    <3>1. p + 1 <= q /\ q - (p + 1) \in Nat
      BY <1>1
    <3>2. b * (q - (p + 1)) >= 0
      BY <3>1
    <3>3. b * (q - (p + 1)) = b * q - b * (p + 1)
      BY <1>1
    <3>4. b * q \in Int /\ b * (p + 1) \in Int
      BY <1>1
    <3> QED BY <3>2, <3>3, <3>4
  <2>2. b * (p + 1) = b * p + b
    BY <1>1
  <2>3. b * q \in Int /\ b * p \in Int
    BY <1>1
  <2> QED BY <1>1, <2>1, <2>2, <2>3
<1>4. p = q
  BY <1>1, <1>2, <1>3
<1>5. s = r
  BY <1>1, <1>4
<1> QED
  BY <1>4, <1>5 DEF p, s

\* A quotient grows with the dividend.
LEMMA DivideMonotonic ==
  ASSUME NEW a \in Int, NEW c \in Int, a <= c, NEW b \in Nat \ {0}
  PROVE  a \div b <= c \div b
<1> DEFINE p == a \div b
           q == c \div b
<1>1. p \in Int /\ q \in Int /\ b * p <= a /\ c < b * q + b
  BY Divide
<1> HIDE DEF p, q
<1>2. ~(q < p)
  <2> SUFFICES ASSUME q < p PROVE FALSE
    OBVIOUS
  <2>1. p - (q + 1) \in Nat
    BY <1>1
  <2>2. b * (p - (q + 1)) >= 0
    BY <2>1
  <2>3. b * (p - (q + 1)) = b * p - (b * q + b)
    BY <1>1
  <2>4. b * p \in Int /\ b * q \in Int
    BY <1>1
  <2> QED BY <1>1, <2>2, <2>3, <2>4
<1> QED
  BY <1>1, <1>2 DEF p, q

\* The bounds of the blocks rise from 0 to n.
LEMMA Bounds ==
  ASSUME NEW n \in Nat \ {0}, NEW divs \in Nat \ {0}
  PROVE  /\ Bound(n, divs, 0) = 0 /\ Bound(n, divs, divs) = n
         /\ \A i \in Nat : Bound(n, divs, i) \in Int
         /\ \A i, j \in Nat : i <= j => Bound(n, divs, i) <= Bound(n, divs, j)
<1>1. 2 * divs \in Nat \ {0}
  OBVIOUS
<1>2. Bound(n, divs, 0) = 0
  <2>1. 2 * n * 0 + divs = (2 * divs) * 0 + divs /\ divs \in 0..(2 * divs - 1)
    OBVIOUS
  <2> QED BY <1>1, <2>1, DivideUnique DEF Bound
<1>3. Bound(n, divs, divs) = n
  <2>1. 2 * n * divs + divs = (2 * divs) * n + divs /\ divs \in 0..(2 * divs - 1)
    OBVIOUS
  <2> QED BY <1>1, <2>1, DivideUnique DEF Bound
<1>4. ASSUME NEW i \in Nat PROVE 2 * n * i + divs \in Int
  OBVIOUS
<1>5. ASSUME NEW i \in Nat PROVE Bound(n, divs, i) \in Int
  BY <1>1, <1>4, Divide DEF Bound
<1>6. ASSUME NEW i \in Nat, NEW j \in Nat, i <= j
      PROVE  Bound(n, divs, i) <= Bound(n, divs, j)
  <2>1. 2 * n * i + divs <= 2 * n * j + divs
    <3>1. 2 * n * (j - i) >= 0
      <4>1. j - i \in Nat /\ 2 * n \in Nat
        BY <1>6
      <4> QED BY <4>1
    <3>2. 2 * n * (j - i) = 2 * n * j - 2 * n * i
      OBVIOUS
    <3>3. 2 * n * j \in Int /\ 2 * n * i \in Int
      OBVIOUS
    <3> QED BY <3>1, <3>2, <3>3
  <2> QED BY <1>1, <1>4, <2>1, DivideMonotonic DEF Bound
<1> QED
  BY <1>2, <1>3, <1>5, <1>6

\* Every index is within the bounds of one block.
LEMMA WithinOne ==
  ASSUME NEW n \in Nat \ {0}, NEW divs \in Nat \ {0}, NEW v \in 0..(n - 1)
  PROVE  /\ \E i \in 0..(divs - 1) : Within(v, n, divs, i)
         /\ \A i, j \in Nat : Within(v, n, divs, i) /\ Within(v, n, divs, j) => i = j
<1> DEFINE B(i) == Bound(n, divs, i)
           G == {i \in Nat : B(i) <= v}
<1>1. /\ B(0) = 0 /\ B(divs) = n /\ \A i \in Nat : B(i) \in Int
      /\ \A i, j \in Nat : i <= j => B(i) <= B(j)
  BY Bounds
<1> HIDE DEF B
<1>2. \E i \in Nat : i \in G /\ i + 1 \notin G
  <2> SUFFICES ASSUME \A i \in Nat : i \in G => i + 1 \in G PROVE FALSE
    OBVIOUS
  <2>1. 0 \in G
    BY <1>1
  <2>2. \A i \in Nat : i \in G
    <3> HIDE DEF G
    <3> QED BY <2>1, NaturalInduction
  <2>3. B(divs) <= v
    BY <2>2
  <2> QED BY <1>1, <2>3
<1>3. PICK i \in Nat : B(i) <= v /\ ~(B(i + 1) <= v)
  BY <1>2
<1>4. v < B(i + 1) /\ i < divs
  <2>1. B(i + 1) \in Int /\ B(i) \in Int
    BY <1>1
  <2>2. v < B(i + 1)
    BY <1>3, <2>1
  <2>3. ~(divs <= i)
    <3> SUFFICES ASSUME divs <= i PROVE FALSE
      OBVIOUS
    <3>1. n <= B(i)
      BY <1>1
    <3> QED BY <1>3, <2>1, <3>1
  <2> QED BY <2>2, <2>3
<1>5. ASSUME NEW k \in Nat, NEW j \in Nat, B(k) <= v, v < B(j + 1), j < k PROVE FALSE
  <2>1. B(j + 1) <= B(k)
    BY <1>1, <1>5
  <2>2. B(j + 1) \in Int /\ B(k) \in Int
    BY <1>1
  <2> QED BY <1>5, <2>1, <2>2
<1>6. ASSUME NEW k \in Nat, NEW j \in Nat, Within(v, n, divs, k), Within(v, n, divs, j)
      PROVE  k = j
  <2>1. B(k) <= v /\ v < B(k + 1) /\ B(j) <= v /\ v < B(j + 1)
    BY <1>6 DEF Within, B
  <2>2. ~(j < k) /\ ~(k < j)
    BY <1>5, <2>1
  <2> QED BY <2>2
<1>7. i \in 0..(divs - 1) /\ Within(v, n, divs, i)
  BY <1>3, <1>4 DEF Within, B
<1> QED
  BY <1>6, <1>7

\* The constants are numbers.
LEMMA Numbers ==
  /\ nx \in Nat \ {0} /\ nz \in Nat \ {0} /\ XDIVS \in Nat \ {0} /\ ZDIVS \in Nat \ {0}
  /\ PARTICLES_PER_CELL \in Nat \ {0} /\ PoolCells \in Nat \ {0}
  /\ numParticles \in Nat /\ Frames \in Nat
BY FluidAssumption

\* i = q * n + r
LEMMA Coordinates ==
  ASSUME NEW m \in Nat \ {0}, NEW n \in Nat \ {0}
  PROVE  /\ \A i \in 0..(m * n - 1) : i \div n \in 0..(m - 1) /\ i % n \in 0..(n - 1)
         /\ \A q \in 0..(m - 1), r \in 0..(n - 1) :
              q * n + r \in 0..(m * n - 1) /\ (q * n + r) \div n = q /\ (q * n + r) % n = r
         /\ \A i \in 0..(m * n - 1) : i = (i \div n) * n + (i % n)
<1>1. ASSUME NEW i \in 0..(m * n - 1)
      PROVE  /\ i \div n \in 0..(m - 1) /\ i % n \in 0..(n - 1)
             /\ i = (i \div n) * n + (i % n)
  <2> DEFINE q == i \div n
             r == i % n
  <2>1. i \in Int
    BY m * n \in Int
  <2>2. q \in Int /\ r \in 0..(n - 1) /\ i = n * q + r
    BY <2>1, Divide
  <2> HIDE DEF q, r
  <2>3. ~(q < 0)
    <3> SUFFICES ASSUME q < 0 PROVE FALSE
      OBVIOUS
    <3>1. 0 - (q + 1) \in Nat
      BY <2>2
    <3>2. n * (0 - (q + 1)) >= 0
      BY <3>1
    <3>3. n * (0 - (q + 1)) = 0 - (n * q + n)
      BY <2>2
    <3>4. n * q \in Int /\ 0 <= i
      BY <2>2
    <3> QED BY <2>2, <3>2, <3>3, <3>4
  <2>4. ~(m <= q)
    <3> SUFFICES ASSUME m <= q PROVE FALSE
      OBVIOUS
    <3>1. q - m \in Nat
      BY <2>2
    <3>2. n * (q - m) >= 0
      BY <3>1
    <3>3. n * (q - m) = n * q - m * n
      BY <2>2
    <3>4. n * q \in Int /\ m * n \in Int /\ i < m * n
      BY <2>2
    <3> QED BY <2>2, <3>2, <3>3, <3>4
  <2>5. q \in 0..(m - 1)
    BY <2>2, <2>3, <2>4
  <2>6. n * q = q * n
    BY <2>2
  <2> QED BY <2>2, <2>5, <2>6 DEF q, r
<1>2. ASSUME NEW q \in 0..(m - 1), NEW r \in 0..(n - 1)
      PROVE  /\ q * n + r \in 0..(m * n - 1)
             /\ (q * n + r) \div n = q /\ (q * n + r) % n = r
  <2>1. q * n + r \in Int /\ q * n + r = n * q + r
    OBVIOUS
  <2>2. (q * n + r) \div n = q /\ (q * n + r) % n = r
    BY <2>1, DivideUnique
  <2>3. q * n + r < m * n /\ 0 <= q * n + r
    <3>1. m - (q + 1) \in Nat /\ q \in Nat
      OBVIOUS
    <3>2. (m - (q + 1)) * n >= 0 /\ q * n >= 0
      BY <3>1
    <3>3. (m - (q + 1)) * n = m * n - (q * n + n)
      OBVIOUS
    <3>4. m * n \in Int /\ q * n \in Int
      OBVIOUS
    <3> QED BY <3>2, <3>3, <3>4
  <2>4. m * n \in Int
    OBVIOUS
  <2> QED BY <2>1, <2>2, <2>3, <2>4
<1> QED
  BY <1>1, <1>2

\* Cells and threads are finite sets of numbers.
LEMMA Finiteness ==
  /\ IsFiniteSet(cellIds) /\ cellIds \subseteq Nat /\ 0 \in cellIds
  /\ IsFiniteSet(tids) /\ tids \subseteq Nat /\ 0 \in tids
<1>1. nx * nz \in Nat /\ XDIVS * ZDIVS \in Nat /\ nx * nz - 1 \in Int /\ XDIVS * ZDIVS - 1 \in Int
  BY Numbers
<1>2. nx * nz > 0 /\ XDIVS * ZDIVS > 0
  BY Numbers
<1>3. \A n \in Int : IsFiniteSet(0..n) /\ 0..n \subseteq Nat
  BY FS_Interval
<1> QED
  BY <1>1, <1>2, <1>3 DEF cellIds, tids

\* A cell is where its coordinates are.
LEMMA Axes ==
  /\ \A c \in cellIds : X(c) \in 0..(nx - 1) /\ Z(c) \in 0..(nz - 1)
  /\ \A c \in cellIds, d \in cellIds : X(c) = X(d) /\ Z(c) = Z(d) => c = d
<1>1. nx * nz = nz * nx
  BY Numbers
<1>2. \A c \in 0..(nz * nx - 1) : /\ c \div nx \in 0..(nz - 1) /\ c % nx \in 0..(nx - 1)
                                  /\ c = (c \div nx) * nx + (c % nx)
  BY Numbers, Coordinates
<1>3. \A c \in cellIds : Z(c) \in 0..(nz - 1) /\ X(c) \in 0..(nx - 1) /\ c = Z(c) * nx + X(c)
  BY <1>1, <1>2 DEF cellIds, X, Z
<1> QED
  BY <1>3

\* The blocks share out the cells.
LEMMA Blocks ==
  /\ \A t \in tids : grid(t) \subseteq cellIds /\ IsFiniteSet(grid(t))
  /\ \A c \in cellIds : \E t \in tids : c \in grid(t)
  /\ \A c \in cellIds : \A t, u \in tids : c \in grid(t) /\ c \in grid(u) => t = u
<1>1. \A t \in tids : grid(t) \subseteq cellIds
  BY DEF grid
<1>2. \A t \in tids : IsFiniteSet(grid(t))
  BY <1>1, Finiteness, FS_Subset
<1>3. /\ \A t \in tids : t \div ZDIVS \in 0..(XDIVS - 1) /\ t % ZDIVS \in 0..(ZDIVS - 1)
      /\ \A q \in 0..(XDIVS - 1), r \in 0..(ZDIVS - 1) :
              q * ZDIVS + r \in tids /\ (q * ZDIVS + r) \div ZDIVS = q /\ (q * ZDIVS + r) % ZDIVS = r
      /\ \A t \in tids : t = (t \div ZDIVS) * ZDIVS + (t % ZDIVS)
  BY Numbers, Coordinates DEF tids
<1>4. ASSUME NEW c \in cellIds PROVE \E t \in tids : c \in grid(t)
  <2>1. X(c) \in 0..(nx - 1) /\ Z(c) \in 0..(nz - 1)
    BY Axes
  <2>2. PICK i \in 0..(XDIVS - 1) : Within(X(c), nx, XDIVS, i)
    BY <2>1, Numbers, WithinOne
  <2>3. PICK j \in 0..(ZDIVS - 1) : Within(Z(c), nz, ZDIVS, j)
    BY <2>1, Numbers, WithinOne
  <2> DEFINE t == i * ZDIVS + j
  <2>4. t \in tids /\ t \div ZDIVS = i /\ t % ZDIVS = j
    BY <1>3
  <2> HIDE DEF t
  <2>5. c \in grid(t)
    BY <2>2, <2>3, <2>4 DEF grid
  <2> QED BY <2>4, <2>5
<1>5. ASSUME NEW c \in cellIds, NEW t \in tids, NEW u \in tids, c \in grid(t), c \in grid(u)
      PROVE  t = u
  <2>1. X(c) \in 0..(nx - 1) /\ Z(c) \in 0..(nz - 1)
    BY Axes
  <2>2. /\ t \div ZDIVS \in Nat /\ u \div ZDIVS \in Nat /\ t % ZDIVS \in Nat /\ u % ZDIVS \in Nat
    BY <1>3
  <2>3. /\ Within(X(c), nx, XDIVS, t \div ZDIVS) /\ Within(X(c), nx, XDIVS, u \div ZDIVS)
        /\ Within(Z(c), nz, ZDIVS, t % ZDIVS) /\ Within(Z(c), nz, ZDIVS, u % ZDIVS)
    BY <1>5 DEF grid
  <2>4. t \div ZDIVS = u \div ZDIVS
    BY <2>1, <2>2, <2>3, Numbers, WithinOne
  <2>5. t % ZDIVS = u % ZDIVS
    BY <2>1, <2>2, <2>3, Numbers, WithinOne
  <2> QED BY <1>3, <2>4, <2>5
<1> QED
  BY <1>1, <1>2, <1>4, <1>5

\* Neighbourhood is reflexive and symmetric.
LEMMA NeighboursOf ==
  /\ \A c \in cellIds : c \in Neighbours(c)
  /\ \A c : Neighbours(c) \subseteq cellIds
  /\ \A c, d \in cellIds : d \in Neighbours(c) => c \in Neighbours(d)
<1>1. \A c \in cellIds : X(c) \in Int /\ Z(c) \in Int
  BY Axes
<1>2. \A a, b \in Int : a - a \in -1..1 /\ (a - b \in -1..1 => b - a \in -1..1)
  OBVIOUS
<1> QED
  BY <1>1, <1>2 DEF Neighbours

\* Only the thread of a block comes from a neighbour of an inner cell of it.
LEMMA InnerCell ==
  ASSUME NEW t \in tids, NEW u \in tids, NEW c \in grid(t), NEW d \in grid(u),
         NEW e, e \in Neighbours(c), e \in Neighbours(d), ~border(e)
  PROVE  t = u
<1>1. c \in cellIds /\ d \in cellIds /\ e \in cellIds
  BY Blocks, NeighboursOf
<1>2. c \in Neighbours(e) /\ d \in Neighbours(e)
  BY <1>1, NeighboursOf
<1>3. PICK v \in tids : e \in grid(v)
  BY <1>1, Blocks
<1>4. c \in grid(v) /\ d \in grid(v)
  BY <1>2, <1>3 DEF border
<1> QED
  BY <1>1, <1>3, <1>4, Blocks

-----------------------------------------------------------------------------
(***************************************************************************)
(* How often a structure occurs.                                           *)
(***************************************************************************)
LEMMA OccurrencesFinite ==
  ASSUME NEW seq \in Seq(Nat), NEW s
  PROVE  IsFiniteSet({i \in DOMAIN seq : seq[i] = s}) /\ Occurrences(seq, s) \in Nat
<1> DEFINE D == 1..Len(seq)
           O == {i \in D : seq[i] = s}
<1>1. DOMAIN seq = D /\ Len(seq) \in Nat
  OBVIOUS
<1>2. IsFiniteSet(D)
  BY <1>1, FS_Interval
<1> HIDE DEF D
<1>3. IsFiniteSet(O)
  BY <1>2, FS_Subset
<1> QED
  BY <1>1, <1>3, FS_CardinalityType DEF Occurrences

\* Nothing occurs in an empty sequence.
LEMMA OccurrencesNone == \A s : Occurrences(<< >>, s) = 0
<1> SUFFICES ASSUME NEW s PROVE Occurrences(<< >>, s) = 0
  OBVIOUS
<1>1. {i \in DOMAIN << >> : << >>[i] = s} = {}
  OBVIOUS
<1> QED
  BY <1>1, FS_EmptySet DEF Occurrences

\* One more at the end of a sequence: what goes into a chain.
LEMMA OccurrencesAppend ==
  ASSUME NEW seq \in Seq(Nat), NEW x \in Nat, NEW s
  PROVE  Occurrences(Append(seq, x), s) = Occurrences(seq, s) + IF x = s THEN 1 ELSE 0
<1> DEFINE app == Append(seq, x)
           O == {i \in DOMAIN seq : seq[i] = s}
           A == {i \in DOMAIN app : app[i] = s}
           n == Len(seq) + 1
<1>1. /\ DOMAIN app = DOMAIN seq \cup {n} /\ n \notin DOMAIN seq
      /\ app[n] = x /\ \A i \in DOMAIN seq : app[i] = seq[i]
  OBVIOUS
<1>2. IsFiniteSet(O) /\ n \notin O
  BY <1>1, OccurrencesFinite
<1>3. A = IF x = s THEN O \cup {n} ELSE O
  <2> HIDE DEF app, n
  <2> QED BY <1>1
<1> HIDE DEF O, n
<1>4. CASE x = s
  <2>1. Cardinality(A) = Cardinality(O) + 1
    BY <1>2, <1>3, <1>4, FS_AddElement
  <2> QED BY <1>4, <2>1 DEF Occurrences, O
<1>5. CASE x # s
  <2>1. A = O /\ Cardinality(O) \in Nat
    BY <1>2, <1>3, <1>5, FS_CardinalityType
  <2>2. Occurrences(app, s) = Cardinality(O) /\ Occurrences(seq, s) = Cardinality(O)
    BY <2>1 DEF Occurrences, O
  <2>3. Cardinality(O) = Cardinality(O) + 0
    BY <2>1
  <2> QED BY <1>5, <2>2, <2>3
<1> QED
  BY <1>4, <1>5

\* The occurrences at other places.
LEMMA OccurrencesShifted ==
  ASSUME NEW seq \in Seq(Nat), NEW tail \in Seq(Nat), NEW s,
         Len(seq) = Len(tail) + 1,
         \A i \in 1..Len(tail) : seq[i + 1] = tail[i]
  PROVE  Occurrences(seq, s) = Occurrences(tail, s) + IF seq[1] = s THEN 1 ELSE 0
<1> DEFINE x == seq[1]
           O == {i \in DOMAIN tail : tail[i] = s}
           A == {i \in DOMAIN seq : seq[i] = s}
           B == A \ {1}
           shift == [i \in O |-> i + 1]
<1>1. DOMAIN seq = 1..(Len(tail) + 1) /\ DOMAIN tail = 1..Len(tail) /\ Len(tail) \in Nat
  OBVIOUS
<1>2. IsFiniteSet(O) /\ IsFiniteSet(A)
  BY OccurrencesFinite
<1>3. IsFiniteSet(B)
  <2> HIDE DEF A
  <2> QED BY <1>2, FS_Subset
<1>4. ExistsBijection(O, B)
  <2>1. \A i \in O : i + 1 \in B /\ i \in Int
    BY <1>1
  <2>2. \A i \in B : i - 1 \in O /\ (i - 1) + 1 = i
    BY <1>1
  <2>3. shift \in Bijection(O, B)
    <3> HIDE DEF O, B
    <3>1. shift \in [O -> B]
      BY <2>1
    <3>2. \A a, b \in O : shift[a] = shift[b] => a = b
      BY <2>1
    <3>3. \A b \in B : \E a \in O : shift[a] = b
      BY <2>2
    <3> QED BY <3>1, <3>2, <3>3, Fun_IsBij
  <2> HIDE DEF shift, O, B
  <2> QED BY <2>3 DEF ExistsBijection
<1>5. Cardinality(B) = Cardinality(O) /\ Cardinality(O) \in Nat
  <2> HIDE DEF O, B
  <2> QED BY <1>2, <1>3, <1>4, FS_Bijection, FS_CardinalityType
<1>6. 1 \in DOMAIN seq
  BY <1>1
<1>7. A = IF x = s THEN B \cup {1} ELSE B
  BY <1>6
<1>8. Cardinality(A) = Cardinality(O) + IF x = s THEN 1 ELSE 0
  <2>1. CASE x = s
    <3>1. 1 \notin B
      OBVIOUS
    <3> HIDE DEF A, B, O
    <3> QED BY <1>3, <1>5, <1>7, <2>1, <3>1, FS_AddElement
  <2>2. CASE x # s
    <3> HIDE DEF A, B, O
    <3> QED BY <1>5, <1>7, <2>2
  <2> QED BY <2>1, <2>2
<1> QED
  BY <1>8 DEF Occurrences

\* One less at the beginning: what comes from a pool.
LEMMA OccurrencesTail ==
  ASSUME NEW seq \in Seq(Nat), seq # << >>, NEW s
  PROVE  /\ Head(seq) \in Nat /\ Tail(seq) \in Seq(Nat)
         /\ Occurrences(seq, s) = Occurrences(Tail(seq), s) + IF Head(seq) = s THEN 1 ELSE 0
<1>1. /\ Head(seq) = seq[1] /\ Head(seq) \in Nat
      /\ Tail(seq) \in Seq(Nat) /\ Len(seq) = Len(Tail(seq)) + 1
  OBVIOUS
<1>2. \A i \in 1..Len(Tail(seq)) : seq[i + 1] = Tail(seq)[i]
  OBVIOUS
<1>3. Occurrences(seq, s) = Occurrences(Tail(seq), s) + IF seq[1] = s THEN 1 ELSE 0
  <2> DEFINE tail == Tail(seq)
  <2>1. tail \in Seq(Nat) /\ Len(seq) = Len(tail) + 1 /\ \A i \in 1..Len(tail) : seq[i + 1] = tail[i]
    BY <1>1, <1>2
  <2> HIDE DEF tail
  <2>2. Occurrences(seq, s) = Occurrences(tail, s) + IF seq[1] = s THEN 1 ELSE 0
    BY <2>1, OccurrencesShifted
  <2> QED BY <2>2 DEF tail
<1> QED
  BY <1>1, <1>3

\* One more at the beginning: what goes back into a pool.
LEMMA OccurrencesPush ==
  ASSUME NEW seq \in Seq(Nat), NEW x \in Nat, NEW s
  PROVE  /\ <<x>> \o seq \in Seq(Nat)
         /\ Occurrences(<<x>> \o seq, s) = Occurrences(seq, s) + IF x = s THEN 1 ELSE 0
<1> DEFINE push == <<x>> \o seq
<1>0. <<x>> \in Seq(Nat) /\ Len(<<x>>) = 1 /\ <<x>>[1] = x
  OBVIOUS
<1>1. push \in Seq(Nat) /\ Len(push) = 1 + Len(seq)
      /\ \A i \in 1..(1 + Len(seq)) : push[i] = IF i <= 1 THEN <<x>>[i] ELSE seq[i - 1]
  BY <1>0, ConcatProperties
<1> HIDE DEF push
<1>2. push[1] = x /\ Len(push) = Len(seq) + 1
  BY <1>0, <1>1
<1>3. \A i \in 1..Len(seq) : push[i + 1] = seq[i]
  <2> TAKE i \in 1..Len(seq)
  <2>1. i + 1 \in 1..(1 + Len(seq)) /\ ~(i + 1 <= 1) /\ (i + 1) - 1 = i
    OBVIOUS
  <2> QED BY <1>1, <2>1
<1>4. Occurrences(push, s) = Occurrences(seq, s) + IF x = s THEN 1 ELSE 0
  BY <1>1, <1>2, <1>3, OccurrencesShifted, ZenonT(60)
<1> QED
  BY <1>1, <1>4 DEF push

\* n structures in a row.
InRow(row, n, a) == row \in Seq(Nat) /\ Len(row) = n /\ \A i \in 1..n : row[i] = a + i

\* In a row of consecutive numbers each occurs once: a new block of structures.
LEMMA OccurrencesRow ==
  ASSUME NEW n \in Nat, NEW a \in Nat, NEW s \in Nat, NEW row, InRow(row, n, a)
  PROVE  Occurrences(row, s) = IF s \in (a + 1)..(a + n) THEN 1 ELSE 0
<1> DEFINE O == {i \in DOMAIN row : row[i] = s}
<1>1. DOMAIN row = 1..n /\ \A i \in 1..n : row[i] = a + i
  BY DEF InRow
<1>2. O = IF s \in (a + 1)..(a + n) THEN {s - a} ELSE {}
  BY <1>1
<1>3. Cardinality(O) = IF s \in (a + 1)..(a + n) THEN 1 ELSE 0
  <2> HIDE DEF O
  <2> QED BY <1>2, FS_Singleton, FS_EmptySet
<1> QED
  BY <1>3 DEF Occurrences

-----------------------------------------------------------------------------
\* The pools and chains are sums of numbers.
LEMMA PoolsDefined ==
  ASSUME NEW s, NEW ps \in [tids -> Seq(Nat)]
  PROVE  /\ \A t \in tids : [u \in tids |-> Occurrences(ps[u], s)][t] \in Nat
         /\ Pools(ps, s) \in Nat
<1>1. \A t \in tids : [u \in tids |-> Occurrences(ps[u], s)][t] \in Nat
  BY OccurrencesFinite
<1> QED
  BY <1>1, Finiteness, SumNatural DEF Pools

\* A structure is in the chains a number of times.
LEMMA ChainsDefined ==
  ASSUME NEW s, NEW cs \in [cellIds -> Cells]
  PROVE  /\ \A c \in cellIds : [d \in cellIds |-> Occurrences(cs[d].chain, s)][c] \in Nat
         /\ InChains(cs, s) \in Nat
<1>1. \A c \in cellIds : [d \in cellIds |-> Occurrences(cs[d].chain, s)][c] \in Nat
  <2>1. \A c \in cellIds : cs[c].chain \in Seq(Nat)
    BY DEF Cells
  <2> QED BY <2>1, OccurrencesFinite
<1> QED
  BY <1>1, Finiteness, SumNatural DEF InChains

\* One pool changes.
Elsewhere(ps, qs, t) == t \in tids /\ \A u \in tids : u # t => qs[u] = ps[u]

\* The pool of one thread changes.
LEMMA PoolChanged ==
  ASSUME NEW s, NEW ps \in [tids -> Seq(Nat)], NEW qs \in [tids -> Seq(Nat)],
         NEW t, Elsewhere(ps, qs, t)
  PROVE  Pools(qs, s) = (Pools(ps, s) - Occurrences(ps[t], s)) + Occurrences(qs[t], s)
<1>0. t \in tids /\ \A u \in tids : u # t => qs[u] = ps[u]
  BY DEF Elsewhere
<1> DEFINE f == [u \in tids |-> Occurrences(ps[u], s)]
           g == [u \in tids |-> Occurrences(qs[u], s)]
<1>1. (\A u \in tids : f[u] \in Nat) /\ SumFunctionOnSet(f, tids) \in Nat
  BY PoolsDefined DEF Pools
<1>2. \A u \in tids : g[u] \in Nat
  BY PoolsDefined
<1>3. \A u \in tids : u # t => f[u] = g[u]
  BY <1>0
<1>4. g[t] = Occurrences(qs[t], s) /\ f[t] = Occurrences(ps[t], s)
  BY <1>0
<1> HIDE DEF f, g
<1>5. SumFunctionOnSet(g, tids) = (SumFunctionOnSet(f, tids) - f[t]) + g[t]
  <2>1. IsFiniteSet(tids)
    BY Finiteness
  <2>2. Differ(f, g, tids, t)
    BY <1>0, <1>1, <1>2, <1>3 DEF Differ
  <2> QED BY <2>1, <2>2, SumChanged
<1> QED
  BY <1>4, <1>5 DEF f, g, Pools

\* One chain changes.
OtherChains(cs, ds, c) == c \in cellIds /\ \A d \in cellIds : d # c => ds[d].chain = cs[d].chain

\* The chain of one cell changes.
LEMMA ChainChanged ==
  ASSUME NEW s, NEW cs \in [cellIds -> Cells], NEW ds \in [cellIds -> Cells],
         NEW c, OtherChains(cs, ds, c)
  PROVE  InChains(ds, s) =
           (InChains(cs, s) - Occurrences(cs[c].chain, s)) + Occurrences(ds[c].chain, s)
<1>0. c \in cellIds /\ \A d \in cellIds : d # c => ds[d].chain = cs[d].chain
  BY DEF OtherChains
<1> DEFINE f == [d \in cellIds |-> Occurrences(cs[d].chain, s)]
           g == [d \in cellIds |-> Occurrences(ds[d].chain, s)]
<1>1. (\A d \in cellIds : f[d] \in Nat) /\ SumFunctionOnSet(f, cellIds) \in Nat
  BY ChainsDefined DEF InChains
<1>2. \A d \in cellIds : g[d] \in Nat
  BY ChainsDefined
<1>3. \A d \in cellIds : d # c => f[d] = g[d]
  BY <1>0
<1>4. g[c] = Occurrences(ds[c].chain, s) /\ f[c] = Occurrences(cs[c].chain, s)
  BY <1>0
<1> HIDE DEF f, g
<1>5. SumFunctionOnSet(g, cellIds) = (SumFunctionOnSet(f, cellIds) - f[c]) + g[c]
  <2>1. IsFiniteSet(cellIds)
    BY Finiteness
  <2>2. Differ(f, g, cellIds, c)
    BY <1>0, <1>1, <1>2, <1>3 DEF Differ
  <2> QED BY <2>1, <2>2, SumChanged
<1> QED
  BY <1>4, <1>5 DEF f, g, InChains

\* A structure goes from a pool to whoever asks for it; a new block of them makes
\* more structures known.
LEMMA StructureTaken ==
  ASSUME FluidTypeOK, NEW t \in tids, NEW s, GetCell(t, s)
  PROVE  /\ s \in Nat
         /\ pools' \in [tids -> Seq(Nat)] /\ alloc' \in [tids -> Nat \ {0}] /\ fresh' \in Nat \ {0}
         /\ \A u \in Nat : Pools(pools', u) + (IF s = u THEN 1 ELSE 0) - Known(fresh', u)
                             = Pools(pools, u) - Known(fresh, u)
<1>1. pools \in [tids -> Seq(Nat)] /\ alloc \in [tids -> Nat \ {0}] /\ fresh \in Nat \ {0}
  BY DEF FluidTypeOK
<1>2. CASE pools[t] # << >>
  <2>1. /\ s = Head(pools[t]) /\ pools' = [pools EXCEPT ![t] = Tail(pools[t])]
        /\ alloc' = alloc /\ fresh' = fresh
    BY <1>2 DEF GetCell
  <2>2. s \in Nat /\ Tail(pools[t]) \in Seq(Nat)
    BY <1>1, <1>2, <2>1, OccurrencesTail
  <2>3. pools' \in [tids -> Seq(Nat)] /\ pools'[t] = Tail(pools[t])
        /\ \A v \in tids : v # t => pools'[v] = pools[v]
    BY <1>1, <2>1, <2>2
  <2>4. ASSUME NEW u \in Nat
        PROVE  Pools(pools', u) + (IF s = u THEN 1 ELSE 0) - Known(fresh', u) = Pools(pools, u) - Known(fresh, u)
    <3> DEFINE n == IF s = u THEN 1 ELSE 0
    <3>1. Occurrences(pools[t], u) = Occurrences(pools'[t], u) + n
      BY <1>1, <1>2, <2>1, <2>3, OccurrencesTail
    <3>2. n \in Int
      OBVIOUS
    <3> HIDE DEF n
    <3>3. Occurrences(pools'[t], u) \in Nat
      BY <2>3, OccurrencesFinite
    <3>4. Pools(pools', u) = (Pools(pools, u) - Occurrences(pools[t], u)) + Occurrences(pools'[t], u)
      <4>1. Elsewhere(pools, pools', t)
        BY <2>3 DEF Elsewhere
      <4> QED BY <1>1, <2>3, <4>1, PoolChanged
    <3>5. Known(fresh', u) = Known(fresh, u) /\ Known(fresh, u) \in Int
      BY <2>1 DEF Known
    <3>6. Pools(pools, u) \in Nat
      BY <1>1, PoolsDefined
    <3>7. Pools(pools', u) + n - Known(fresh', u) = Pools(pools, u) - Known(fresh, u)
      BY <3>1, <3>2, <3>3, <3>4, <3>5, <3>6
    <3> QED BY <3>7 DEF n
  <2> QED BY <1>1, <2>1, <2>2, <2>3, <2>4
<1>3. CASE pools[t] = << >>
  <2> DEFINE row == [i \in 1..(alloc[t] - 1) |-> fresh + i]
  <2>1. /\ s = fresh /\ pools' = [pools EXCEPT ![t] = row]
        /\ alloc' = [alloc EXCEPT ![t] = 2 * alloc[t]] /\ fresh' = fresh + alloc[t]
    BY <1>3 DEF GetCell
  <2>2. alloc[t] - 1 \in Nat /\ alloc[t] \in Nat \ {0} /\ 2 * alloc[t] \in Nat \ {0}
    BY <1>1
  <2>3. InRow(row, alloc[t] - 1, fresh)
    <3> DEFINE n == alloc[t] - 1
    <3>1. n \in Nat /\ fresh \in Nat
      BY <1>1, <2>2
    <3> HIDE DEF n
    <3>2. InRow([i \in 1..n |-> fresh + i], n, fresh)
      BY <3>1 DEF InRow
    <3> QED BY <3>2 DEF n
  <2>4. /\ pools' \in [tids -> Seq(Nat)] /\ pools'[t] = row
        /\ \A v \in tids : v # t => pools'[v] = pools[v]
        /\ alloc' \in [tids -> Nat \ {0}] /\ fresh' \in Nat \ {0}
    <3>1. row \in Seq(Nat)
      BY <2>3 DEF InRow
    <3> HIDE DEF row
    <3> QED BY <1>1, <2>1, <2>2, <3>1
  <2>5. ASSUME NEW u \in Nat
        PROVE  Pools(pools', u) + (IF s = u THEN 1 ELSE 0) - Known(fresh', u) = Pools(pools, u) - Known(fresh, u)
    <3> DEFINE n == IF u \in (fresh + 1)..(fresh + (alloc[t] - 1)) THEN 1 ELSE 0
    <3>1. Occurrences(row, u) = n
      <4>1. alloc[t] - 1 \in Nat /\ fresh \in Nat
        BY <1>1, <2>2
      <4> HIDE DEF row
      <4> QED BY <2>3, <4>1, OccurrencesRow
    <3>2. Occurrences(pools[t], u) = 0
      BY <1>3, OccurrencesNone
    <3>3. n \in Int
      OBVIOUS
    <3> HIDE DEF n, row
    <3>4. Occurrences(pools'[t], u) = n /\ Occurrences(pools[t], u) = 0
      BY <2>4, <3>1, <3>2
    <3>5. Pools(pools', u) = (Pools(pools, u) - Occurrences(pools[t], u)) + Occurrences(pools'[t], u)
      <4>1. Elsewhere(pools, pools', t)
        BY <2>4 DEF Elsewhere
      <4> QED BY <1>1, <2>4, <4>1, PoolChanged
    <3>6. Known(fresh', u) = Known(fresh, u) + n + (IF s = u THEN 1 ELSE 0)
      BY <1>1, <2>1, <2>2 DEF Known, n
    <3>7. Pools(pools, u) \in Nat /\ Known(fresh, u) \in Int
      BY <1>1, PoolsDefined DEF Known
    <3> QED BY <3>3, <3>4, <3>5, <3>6, <3>7
  <2> QED BY <1>1, <2>1, <2>4, <2>5
<1> QED
  BY <1>2, <1>3

\* A cell has another structure when it needs one.
LEMMA StructuresGrow ==
  ASSUME NEW n \in Nat
  PROVE  /\ Structures(n) \in Nat
         /\ Structures(n + 1) = Structures(n) + IF NeedsStructure(n) THEN 1 ELSE 0
<1> DEFINE P == PARTICLES_PER_CELL
<1>1. P \in Nat \ {0}
  BY Numbers
<1> HIDE DEF P
<1>2. CASE n = 0
  <2>1. (0 \div P) = 0
    <3>1. 0 = P * 0 + 0 /\ 0 \in 0..(P - 1)
      BY <1>1
    <3> QED BY <1>1, <3>1, DivideUnique
  <2>2. Structures(0) = 0 /\ Structures(0 + 1) = 0 /\ ~NeedsStructure(0)
    BY <2>1 DEF Structures, NeedsStructure, P
  <2> QED BY <1>2, <2>2
<1>3. CASE n # 0
  <2> DEFINE q == (n - 1) \div P
             r == (n - 1) % P
  <2>1. q \in Int /\ r \in 0..(P - 1) /\ n - 1 = P * q + r
    <3>1. n - 1 \in Int
      OBVIOUS
    <3> QED BY <1>1, <3>1, Divide
  <2>2. q >= 0
    <3>1. n - 1 \in 0..(n * P - 1)
      <4>1. (P - 1) * n >= 0
        BY <1>1
      <4>2. (P - 1) * n = n * P - n /\ n * P \in Int
        BY <1>1
      <4> QED BY <1>3, <4>1, <4>2
    <3>2. (n - 1) \div P \in 0..(n - 1)
      <4>1. n \in Nat \ {0}
        BY <1>3
      <4> QED BY <1>1, <3>1, <4>1, Coordinates
    <3> QED BY <3>2
  <2>3. Structures(n) = q /\ Structures(n + 1) = n \div P
    BY <1>3 DEF Structures, P
  <2> HIDE DEF q, r
  <2>4. CASE r = P - 1
    <3>1. n = P * (q + 1) + 0 /\ 0 \in 0..(P - 1) /\ q + 1 \in Int
      BY <1>1, <2>1, <2>4
    <3>2. n \div P = q + 1 /\ n % P = 0
      <4>1. n \in Int
        OBVIOUS
      <4> QED BY <1>1, <3>1, <4>1, DivideUnique
    <3>3. NeedsStructure(n)
      BY <1>3, <3>2 DEF NeedsStructure, P
    <3> QED BY <2>1, <2>2, <2>3, <3>2, <3>3
  <2>5. CASE r # P - 1
    <3>1. n = P * q + (r + 1) /\ r + 1 \in 0..(P - 1)
      <4>1. P * q \in Int
        BY <1>1, <2>1
      <4> QED BY <1>1, <2>1, <2>5, <4>1
    <3>2. n \div P = q /\ n % P = r + 1
      BY <1>1, <2>1, <3>1, DivideUnique
    <3>3. ~NeedsStructure(n)
      BY <2>1, <3>2 DEF NeedsStructure, P
    <3> QED BY <2>1, <2>2, <2>3, <3>2, <3>3
  <2> QED BY <2>4, <2>5
<1> QED
  BY <1>2, <1>3

-----------------------------------------------------------------------------
(***************************************************************************)
(* NoParticle is a phase ahead of a thread that is still in one.               *)
(***************************************************************************)
\* t has not changed the others' place in the frame.
Alone(t) ==
  /\ \A u \in tids : u # t => step'[u] = step[u] /\ passed'[u] = passed[u]
  /\ \A u \in tids : cur'[u].frame = cur[u].frame

\* At the barrier behind a phase nobody passes while somebody is in the phase.
LEMMA Waiting ==
  ASSUME NEW In, NEW next, NEW r \in 0..2, NEW f, Together(step, passed, cur, In, next, r, f), next \notin In,
         NEW t \in tids, Passed(t)
  PROVE  step[t] \in In /\ passed[t] = r
<1>1. PICK u \in tids : step[u] \in In
  BY DEF Together
<1>2. passed[u] = r
  BY <1>1 DEF Together
<1>3. ASSUME step[t] = next, passed[t] = (r + 1) % 3 PROVE FALSE
  <2>1. (((r + 1) % 3) + 2) % 3 = r
    OBVIOUS
  <2> QED BY <1>2, <1>3, <2>1 DEF Passed
<1> QED
  BY <1>3 DEF Together

\* A thread goes on within a phase.
LEMMA StillTogether ==
  ASSUME NEW In, NEW next, NEW r \in 0..2, NEW f, Together(step, passed, cur, In, next, r, f),
         NEW t \in tids, Alone(t), step[t] \in In, next \notin In,
         step'[t] \in In, passed'[t] = passed[t]
  PROVE  Together(step', passed', cur', In, next, r, f)
<1>1. \A u \in tids : /\ cur'[u].frame = f
                      /\ \/ step'[u] \in In /\ passed'[u] = r
                         \/ step'[u] = next /\ passed'[u] = (r + 1) % 3
  BY DEF Together, Alone
<1> QED
  BY <1>1 DEF Together

\* Everybody has arrived at the barrier in front of next.
AllAt(st, ba, cu, next, r, f) ==
  f \in Nat /\ \A u \in tids : st[u] = next /\ ba[u] = r /\ cu[u].frame = f

\* A thread arrives at the barrier; the last one ends the phase.
LEMMA Arrives ==
  ASSUME NEW In, NEW next, NEW r \in 0..2, NEW f, Together(step, passed, cur, In, next, r, f),
         NEW t \in tids, Alone(t), step[t] \in In, next \notin In,
         step'[t] = next, passed'[t] = (passed[t] + 1) % 3
  PROVE  \/ Together(step', passed', cur', In, next, r, f)
         \/ AllAt(step', passed', cur', next, (r + 1) % 3, f) /\ \A u \in tids : u # t => step[u] = next
<1>1. \A u \in tids : /\ cur'[u].frame = f
                      /\ \/ step'[u] \in In /\ passed'[u] = r
                         \/ step'[u] = next /\ passed'[u] = (r + 1) % 3
  BY DEF Together, Alone
<1>2. CASE \E u \in tids : step'[u] \in In
  BY <1>1, <1>2 DEF Together
<1>3. CASE \A u \in tids : step'[u] \notin In
  <2>1. \A u \in tids : step'[u] = next /\ passed'[u] = (r + 1) % 3
    BY <1>1, <1>3
  <2>2. \A u \in tids : u # t => step[u] = next
    BY <2>1 DEF Alone
  <2> QED BY <1>1, <2>1, <2>2 DEF AllAt, Together
<1> QED
  BY <1>2, <1>3

\* When all have arrived the next phase begins.
LEMMA Begins ==
  ASSUME NEW st, NEW ba, NEW cu, NEW In, NEW next, NEW here \in In, NEW r, NEW f,
         AllAt(st, ba, cu, here, r, f)
  PROVE  Together(st, ba, cu, In, next, r, f)
BY Finiteness DEF AllAt, Together

\* What a thread does next is said by its label.
LEMMA ByLabel ==
  ASSUME NEW t \in tids, AdvanceFrameMT(t)
  PROVE  /\ step[t] = "swap" => Swap(t)
         /\ step[t] = "clear" => ClearParticlesMT(t)
         /\ step[t] = "rebuild" => FindSlot(t) \/ NextCell(t) \/ Rebuilt(t)
         /\ step[t] = "file" => TakeSlot(t)
         /\ step[t] = "copy" => CopyParticle(t)
         /\ step[t] = "init" => InitDensitiesAndForcesMT(t)
         /\ step[t] = "densities" => FindPairs(t)
         /\ step[t] = "pair" => ReadDensity(t) \/ AllPairs(t)
         /\ step[t] = "add" => WriteDensity(t)
         /\ step[t] = "advance" => AdvanceParticlesMT(t)
         /\ step[t] \notin {"load", "done"}
         /\ step[t] \in {"swap", "clear", "rebuild", "init", "densities", "advance"} => Passed(t)
<1>1. CASE Swap(t) BY <1>1 DEF Swap
<1>2. CASE ClearParticlesMT(t) BY <1>2 DEF ClearParticlesMT
<1>3. CASE FindSlot(t) BY <1>3 DEF FindSlot
<1>4. CASE TakeSlot(t) BY <1>4 DEF TakeSlot
<1>5. CASE CopyParticle(t) BY <1>5 DEF CopyParticle
<1>6. CASE NextCell(t) BY <1>6 DEF NextCell
<1>7. CASE Rebuilt(t) BY <1>7 DEF Rebuilt
<1>8. CASE InitDensitiesAndForcesMT(t) BY <1>8 DEF InitDensitiesAndForcesMT
<1>9. CASE FindPairs(t) BY <1>9 DEF FindPairs
<1>10. CASE ReadDensity(t) BY <1>10 DEF ReadDensity
<1>11. CASE WriteDensity(t) BY <1>11 DEF WriteDensity
<1>12. CASE AllPairs(t) BY <1>12 DEF AllPairs
<1>13. CASE AdvanceParticlesMT(t) BY <1>13 DEF AdvanceParticlesMT
<1> QED
  BY <1>1, <1>2, <1>3, <1>4, <1>5, <1>6, <1>7, <1>8, <1>9, <1>10, <1>11, <1>12, <1>13
     DEF AdvanceFrameMT, RebuildGridMT, ComputeDensitiesMT

\* A thread that goes on, or arrives at the barrier, and what it leaves alone.
LEMMA GoesOn ==
  ASSUME FluidTypeOK, NEW t \in tids, NEW next \in Labels
  PROVE  /\ Reach(t, next) =>
              /\ step' \in [tids -> Labels] /\ passed' \in [tids -> 0..2]
              /\ step'[t] = next /\ passed'[t] = (passed[t] + 1) % 3
              /\ \A u \in tids : u # t => step'[u] = step[u] /\ passed'[u] = passed[u]
         /\ Continue(t, next) =>
              /\ step' \in [tids -> Labels] /\ passed' \in [tids -> 0..2]
              /\ step'[t] = next /\ passed' = passed
              /\ \A u \in tids : u # t => step'[u] = step[u] /\ passed'[u] = passed[u]
<1>1. step \in [tids -> Labels] /\ passed \in [tids -> 0..2]
  BY DEF FluidTypeOK
<1>2. ASSUME Reach(t, next)
      PROVE  /\ step' \in [tids -> Labels] /\ passed' \in [tids -> 0..2]
             /\ step'[t] = next /\ passed'[t] = (passed[t] + 1) % 3
             /\ \A u \in tids : u # t => step'[u] = step[u] /\ passed'[u] = passed[u]
  <2>1. (passed[t] + 1) % 3 \in 0..2
    BY <1>1
  <2>2. step' = [step EXCEPT ![t] = next] /\ passed' = [passed EXCEPT ![t] = (passed[t] + 1) % 3]
    BY <1>2 DEF Reach
  <2> QED BY <1>1, <2>1, <2>2
<1>3. ASSUME Continue(t, next)
      PROVE  /\ step' \in [tids -> Labels] /\ passed' \in [tids -> 0..2]
             /\ step'[t] = next /\ passed' = passed
             /\ \A u \in tids : u # t => step'[u] = step[u] /\ passed'[u] = passed[u]
  BY <1>1, <1>3 DEF Continue
<1> QED
  BY <1>2, <1>3

-----------------------------------------------------------------------------
(* Swapping and clearing. *)
LEMMA SwapStep ==
  ASSUME FluidTypeOK, Swapping, NEW t \in tids, AdvanceFrameMT(t)
  PROVE  FluidTypeOK' /\ (Swapping' \/ Clearing') /\ loaded' = loaded
<1>1. PICK f \in Nat : Together(step, passed, cur, {"swap"}, "clear", 0, f)
  BY DEF Swapping
<1>2. step[t] = "swap" /\ Swap(t)
  <2>1. step[t] = "swap" \/ step[t] = "clear"
    BY <1>1 DEF Together
  <2>2. Passed(t)
    BY <2>1, ByLabel
  <2>3. step[t] = "swap"
    <3>1. "clear" \notin {"swap"} /\ 0 \in 0..2
      OBVIOUS
    <3>2. step[t] \in {"swap"}
      BY <1>1, <2>2, <3>1, Waiting
    <3> QED BY <3>2
  <2> QED BY <2>3, ByLabel
<1>3. /\ Reach(t, "clear")
      /\ loaded' = loaded /\ pos' = pos /\ pools' = pools /\ alloc' = alloc /\ fresh' = fresh
      /\ poolAbove' = poolAbove /\ mutex' = mutex /\ density' = density /\ cur' = cur
      /\ IF t = 0 THEN cells' = cells2 /\ cells2' = cells ELSE cells' = cells /\ cells2' = cells2
  BY <1>2 DEF Swap, poolVars
<1>4. /\ step' \in [tids -> Labels] /\ passed' \in [tids -> 0..2]
      /\ step'[t] = "clear" /\ passed'[t] = (passed[t] + 1) % 3
      /\ \A u \in tids : u # t => step'[u] = step[u] /\ passed'[u] = passed[u]
  BY <1>3, GoesOn DEF Labels
<1>5. FluidTypeOK'
  BY <1>3, <1>4 DEF FluidTypeOK
<1>6. Alone(t)
  BY <1>3, <1>4 DEF Alone
<1>7. \/ Together(step', passed', cur', {"swap"}, "clear", 0, f)
      \/ AllAt(step', passed', cur', "clear", 1, f) /\ \A u \in tids : u # t => step[u] = "clear"
  <2>1. "clear" \notin {"swap"} /\ 0 \in 0..2 /\ step[t] \in {"swap"}
    BY <1>2
  <2>2. \/ Together(step', passed', cur', {"swap"}, "clear", 0, f)
        \/ AllAt(step', passed', cur', "clear", (0 + 1) % 3, f) /\ \A u \in tids : u # t => step[u] = "clear"
    BY <1>1, <1>4, <1>6, <2>1, Arrives
  <2>3. (0 + 1) % 3 = 1
    OBVIOUS
  <2> QED BY <2>2, <2>3
<1>9. IF step'[0] = "swap" THEN Filled(pools', fresh', cells') /\ Moved(pos', cells')
      ELSE Filled(pools', fresh', cells2') /\ Moved(pos', cells2')
  <2>1. CASE t = 0
    <3>1. Filled(pools, fresh, cells) /\ Moved(pos, cells)
      BY <1>2, <2>1 DEF Swapping
    <3>2. cells2' = cells /\ step'[0] = "clear"
      BY <1>3, <1>4, <2>1
    <3> QED BY <1>3, <3>1, <3>2
  <2>2. CASE t # 0
    <3>1. cells' = cells /\ cells2' = cells2 /\ step'[0] = step[0]
      BY <1>3, <1>4, <2>2, Finiteness
    <3> QED BY <1>3, <3>1 DEF Swapping
  <2> QED BY <2>1, <2>2
<1>10. CASE Together(step', passed', cur', {"swap"}, "clear", 0, f)
  BY <1>3, <1>5, <1>9, <1>10 DEF Swapping
<1>11. CASE AllAt(step', passed', cur', "clear", 1, f)
  <2>1. Together(step', passed', cur', {"clear"}, "rebuild", 1, f)
    BY <1>11, Begins
  <2>2. \A u \in tids : step'[u] = "clear"
    BY <1>11 DEF AllAt
  <2>3. Filled(pools', fresh', cells2') /\ Moved(pos', cells2')
    BY <1>9, <2>2, Finiteness
  <2> QED BY <1>3, <1>5, <2>1, <2>2, <2>3 DEF Clearing
<1> QED
  BY <1>7, <1>10, <1>11

\* What a thread does that arrives at the barrier.
LEMMA Reaches ==
  ASSUME FluidTypeOK, NEW In, NEW next \in Labels, NEW r \in 0..2, NEW f,
         Together(step, passed, cur, In, next, r, f), next \notin In,
         NEW t \in tids, step[t] \in In, Reach(t, next),
         \A u \in tids : cur'[u].frame = cur[u].frame
  PROVE  /\ step' \in [tids -> Labels] /\ passed' \in [tids -> 0..2] /\ step'[t] = next
         /\ \A u \in tids : u # t => step'[u] = step[u]
         /\ \/ Together(step', passed', cur', In, next, r, f)
            \/ /\ AllAt(step', passed', cur', next, (r + 1) % 3, f)
               /\ \A u \in tids : u # t => step[u] = next
<1>1. /\ step' \in [tids -> Labels] /\ passed' \in [tids -> 0..2]
      /\ step'[t] = next /\ passed'[t] = (passed[t] + 1) % 3
      /\ \A u \in tids : u # t => step'[u] = step[u] /\ passed'[u] = passed[u]
  BY GoesOn
<1>2. Alone(t)
  BY <1>1 DEF Alone
<1> QED
  BY <1>1, <1>2, Arrives

\* The local variables of t change.
LEMMA LocalsChanged ==
  ASSUME FluidTypeOK, NEW t \in tids, NEW new \in Locals,
         cur' = [cur EXCEPT ![t] = new], new.frame = cur[t].frame
  PROVE  /\ cur' \in [tids -> Locals] /\ cur'[t] = new
         /\ \A u \in tids : u # t => cur'[u] = cur[u]
         /\ \A u \in tids : cur'[u].frame = cur[u].frame
BY DEF FluidTypeOK

\* An empty cell holds nothing.
LEMMA EmptyCell ==
  /\ emptyCell \in Cells /\ emptyCell.n = 0 /\ emptyCell.p = << >> /\ emptyCell.chain = << >>
  /\ Structures(0) = 0
BY DEF emptyCell, Cells, Structures

\* Once all cells are cleared nothing has been filed.
LEMMA RebuildBegins ==
  /\ FluidTypeOK
  /\ \E g : AllAt(step, passed, cur, "rebuild", 2, g)
  /\ \A u \in tids : Cleared(u)
  /\ Filled(pools, fresh, cells2) /\ Moved(pos, cells2)
  => Rebuilding
<1> SUFFICES ASSUME FluidTypeOK, NEW f, AllAt(step, passed, cur, "rebuild", 2, f),
                    \A t \in tids : Cleared(t),
                    Filled(pools, fresh, cells2), Moved(pos, cells2)
             PROVE  Rebuilding
  OBVIOUS
<1>1. f \in Nat /\ \A t \in tids : step[t] = "rebuild" /\ cur[t].c = 1 /\ cur[t].j = 0
  BY DEF AllAt, Cleared
<1>2. \A c \in cellIds : cells[c] = emptyCell
  BY Blocks DEF Cleared
<1>3. \E g \in Nat : Together(step, passed, cur, InRebuild, "init", 2, g)
  <2>1. "rebuild" \in InRebuild
    BY DEF InRebuild
  <2>2. Together(step, passed, cur, InRebuild, "init", 2, f)
    BY <2>1, Begins
  <2> QED BY <1>1, <2>2
<1>4. cells2 \in [cellIds -> Cells] /\ cells \in [cellIds -> Cells]
  BY DEF FluidTypeOK
<1>5. \A c \in cellIds : cells2[c].n \in Nat /\ cells2[c].chain \in Seq(Nat)
  BY <1>4 DEF Cells
<1>6. \A t \in tids : Cursor(t)
  <2> TAKE t \in tids
  <2>1. IsFiniteSet(grid(t)) /\ Cardinality(grid(t)) \in Nat
    BY Blocks, FS_CardinalityType
  <2>2. 1 <= Cardinality(grid(t)) => Source(t) \in cellIds
    <3> SUFFICES ASSUME 1 <= Cardinality(grid(t)) PROVE Source(t) \in cellIds
      OBVIOUS
    <3>1. grid(t) \subseteq Int
      <4>1. grid(t) \subseteq cellIds /\ cellIds \subseteq Nat
        BY Blocks, Finiteness
      <4>2. Nat \subseteq Int
        OBVIOUS
      <4> QED BY <4>1, <4>2, Zenon
    <3>2. 0 \in 0..(Cardinality(grid(t)) - 1)
      BY <2>1
    <3>3. \E c \in grid(t) : Rank(grid(t), c) = 0
      BY <2>1, <3>1, <3>2, Ranks
    <3>4. \E c \in grid(t) : Cardinality({d \in grid(t) : d < c}) = cur[t].c - 1
      <4>1. \A c : Rank(grid(t), c) = Cardinality({d \in grid(t) : d < c})
        BY DEF Rank
      <4>2. cur[t].c - 1 = 0
        BY <1>1
      <4> QED BY <3>3, <4>1, <4>2
    <3>5. Source(t) \in grid(t)
      BY <3>4 DEF Source, Visit
    <3> QED BY <3>5, Blocks
  <2> QED BY <1>1, <1>5, <2>1, <2>2 DEF Cursor
<1>7. \A c \in cellIds : Read(c) = 0
  <2> TAKE c \in cellIds
  <2> DEFINE t == Owner(c)
  <2>1. t \in tids
    BY Blocks DEF Owner
  <2>2. Before(t, c) \in Nat
    <3>1. IsFiniteSet({d \in grid(t) : d < c})
      BY <2>1, Blocks, FS_Subset
    <3> QED BY <3>1, FS_CardinalityType DEF Before
  <2> HIDE DEF t
  <2>3. ~(Before(t, c) + 1 < cur[t].c)
    BY <1>1, <2>1, <2>2
  <2> QED BY <1>1, <2>1, <2>3 DEF Read, t
<1>8. \A q \in Particles : Placed(q)
  BY <1>2, <1>7, EmptyCell DEF Placed, Filed
<1>9. \A d \in cellIds : Slots(d)
  <2> TAKE d \in cellIds
  <2>1. cells[d].n = 0 /\ Len(cells[d].p) = 0 /\ Len(cells[d].chain) = Structures(cells[d].n)
    BY <1>2, EmptyCell
  <2> QED BY <2>1 DEF Slots
<1>10. ASSUME NEW s \in Nat
       PROVE  Pools(pools, s) + InChains(cells, s) + InOld(s) = Known(fresh, s)
  <2>1. InChains(cells, s) = 0
    <3> DEFINE g == [c \in cellIds |-> Occurrences(cells[c].chain, s)]
    <3>1. \A c \in cellIds : g[c] = 0
      BY <1>2, EmptyCell, OccurrencesNone
    <3> HIDE DEF g
    <3>2. SumFunctionOnSet(g, cellIds) = 0
      BY <3>1, Finiteness, SumZero
    <3> QED BY <3>2 DEF g, InChains
  <2>2. InOld(s) = InChains(cells2, s)
    <3>1. ASSUME NEW c \in cellIds PROVE Kept(c, s) = Occurrences(cells2[c].chain, s)
      <4>1. Returned(c) = 0
        <5>1. CASE cells2[c].n = 0
          <6>1. Len(cells2[c].chain) = 0
            BY <5>1, EmptyCell DEF Filled, Full
          <6> QED BY <1>7, <5>1, <6>1 DEF Returned
        <5>2. CASE cells2[c].n # 0
          BY <1>7, <5>2, Numbers DEF Returned
        <5> QED BY <5>1, <5>2
      <4>2. \A m \in DOMAIN cells2[c].chain : 0 < m
        BY <1>5
      <4>3. {m \in DOMAIN cells2[c].chain : Returned(c) < m /\ cells2[c].chain[m] = s}
              = {m \in DOMAIN cells2[c].chain : cells2[c].chain[m] = s}
        BY <4>1, <4>2
      <4> QED BY <4>3 DEF Kept, Occurrences
    <3>2. [c \in cellIds |-> Kept(c, s)] = [c \in cellIds |-> Occurrences(cells2[c].chain, s)]
      BY <3>1
    <3> QED BY <3>2 DEF InOld, InChains
  <2>3. Pools(pools, s) + InChains(cells2, s) = Known(fresh, s)
    BY DEF Filled, Conserved
  <2>4. Pools(pools, s) \in Nat /\ InChains(cells2, s) \in Nat
    BY <1>4, PoolsDefined, ChainsDefined DEF FluidTypeOK
  <2> QED BY <2>1, <2>2, <2>3, <2>4
<1> QED
  BY <1>1, <1>3, <1>6, <1>8, <1>9, <1>10 DEF Rebuilding, Refiled, Filled, Apart

\* ClearParticlesMT.
LEMMA ClearStep ==
  ASSUME FluidTypeOK, Clearing, NEW t \in tids, AdvanceFrameMT(t)
  PROVE  FluidTypeOK' /\ (Clearing' \/ Rebuilding') /\ loaded' = loaded
<1>1. PICK f \in Nat : Together(step, passed, cur, {"clear"}, "rebuild", 1, f)
  BY DEF Clearing
<1>2. "rebuild" \notin {"clear"} /\ 1 \in 0..2 /\ "rebuild" \in Labels
  BY DEF Labels
<1>3. step[t] = "clear" /\ ClearParticlesMT(t)
  <2>1. step[t] = "clear" \/ step[t] = "rebuild"
    BY <1>1 DEF Together
  <2>2. Passed(t)
    BY <2>1, ByLabel
  <2>3. step[t] \in {"clear"}
    BY <1>1, <1>2, <2>2, Waiting
  <2> QED BY <2>3, ByLabel
<1> DEFINE new == [cur[t] EXCEPT !.c = 1, !.j = 0]
<1>4. /\ Reach(t, "rebuild")
      /\ cells' = [c \in cellIds |-> IF c \in grid(t) THEN emptyCell ELSE cells[c]]
      /\ cur' = [cur EXCEPT ![t] = new]
      /\ loaded' = loaded /\ pos' = pos /\ cells2' = cells2 /\ pools' = pools /\ alloc' = alloc
      /\ fresh' = fresh /\ poolAbove' = poolAbove /\ mutex' = mutex /\ density' = density
  BY <1>3 DEF ClearParticlesMT, poolVars
<1>5. new \in Locals /\ new.frame = cur[t].frame /\ new.c = 1 /\ new.j = 0
  BY DEF FluidTypeOK, Locals
<1> HIDE DEF new
<1>6. /\ cur' \in [tids -> Locals] /\ cur'[t] = new
      /\ \A u \in tids : u # t => cur'[u] = cur[u]
      /\ \A u \in tids : cur'[u].frame = cur[u].frame
  BY <1>4, <1>5, LocalsChanged
<1>7. /\ step' \in [tids -> Labels] /\ passed' \in [tids -> 0..2] /\ step'[t] = "rebuild"
      /\ \A u \in tids : u # t => step'[u] = step[u]
      /\ \/ Together(step', passed', cur', {"clear"}, "rebuild", 1, f)
         \/ AllAt(step', passed', cur', "rebuild", (1 + 1) % 3, f)
  <2>1. step[t] \in {"clear"} /\ Reach(t, "rebuild") /\ \A u \in tids : cur'[u].frame = cur[u].frame
    BY <1>3, <1>4, <1>6
  <2> QED BY <1>1, <1>2, <2>1, Reaches
<1>8. FluidTypeOK'
  <2>1. cells' \in [cellIds -> Cells]
    BY <1>4, EmptyCell DEF FluidTypeOK
  <2> QED BY <1>4, <1>6, <1>7, <2>1 DEF FluidTypeOK
<1>9. Filled(pools', fresh', cells2') /\ Moved(pos', cells2')
  BY <1>4 DEF Clearing
<1>10. \A u \in tids : step'[u] = "rebuild" => Cleared(u)'
  <2> TAKE u \in tids
  <2>1. CASE u = t
    BY <1>4, <1>5, <1>6, <2>1, Blocks DEF Cleared
  <2>2. CASE u # t
    <3> HAVE step'[u] = "rebuild"
    <3>1. Cleared(u)
      BY <1>7, <2>2 DEF Clearing
    <3> QED BY <1>4, <1>6, <2>2, <3>1, Blocks DEF Cleared
  <2> QED BY <2>1, <2>2
<1>11. CASE Together(step', passed', cur', {"clear"}, "rebuild", 1, f)
  BY <1>4, <1>8, <1>9, <1>10, <1>11 DEF Clearing
<1>12. CASE AllAt(step', passed', cur', "rebuild", (1 + 1) % 3, f)
  <2>1. (/\ FluidTypeOK
         /\ \E g : AllAt(step, passed, cur, "rebuild", 2, g)
         /\ \A u \in tids : Cleared(u)
         /\ Filled(pools, fresh, cells2) /\ Moved(pos, cells2)
         => Rebuilding)'
    BY RebuildBegins, PTL
  <2>2. AllAt(step', passed', cur', "rebuild", 2, f)
    <3>1. (1 + 1) % 3 = 2
      OBVIOUS
    <3> QED BY <1>12, <3>1
  <2>3. \A u \in tids : Cleared(u)'
    BY <1>10, <2>2 DEF AllAt
  <2> QED BY <1>4, <1>8, <1>9, <2>1, <2>2, <2>3
<1> QED
  BY <1>7, <1>11, <1>12

-----------------------------------------------------------------------------
(***************************************************************************)
(* Pairs of near particles.                                                *)
(***************************************************************************)
\* What is known of the cells when all particles are filed.
InCells ==
  /\ cells \in [cellIds -> Cells] /\ pos \in [Particles -> cellIds]
  /\ Full(cells, Particles) /\ AllSettled(pos, cells)

\* A particle is in the cell it should be in.
LEMMA Found ==
  ASSUME InCells, NEW q \in Particles
  PROVE  \E j \in 1..Len(cells[pos[q]].p) : Once(cells, q, pos[q], j)
<1>0. PICK c \in cellIds : \E j \in 1..Len(cells[c].p) : Once(cells, q, c, j)
  BY DEF InCells, Full
<1>1. PICK j \in 1..Len(cells[c].p) : Once(cells, q, c, j)
  BY <1>0
<1>2. cells[c].p[j] = q
  BY <1>1 DEF Once
<1>3. PICK t \in tids : c \in grid(t)
  BY Blocks
<1>4. pos[q] = c
  BY <1>2, <1>3 DEF InCells, AllSettled, Settled
<1> QED
  BY <1>1, <1>4

\* There are not more particles in a cell than there are.
LEMMA CellsBounded ==
  ASSUME NEW cs \in [cellIds -> Cells], Full(cs, Particles), NEW c \in cellIds
  PROVE  cs[c].n \in Nat /\ cs[c].n = Len(cs[c].p) /\ cs[c].n <= numParticles
<1> DEFINE p == cs[c].p
           S == 1..Len(p)
<1>1. cs[c].n \in Nat /\ cs[c].n = Len(p) /\ Len(p) \in Nat
  BY DEF Full, Cells
<1>2. \A j \in S : p[j] \in Particles
  BY DEF Full
<1>3. \A i, j \in S : p[i] = p[j] => i = j
  <2> SUFFICES ASSUME NEW i \in S, NEW j \in S, p[i] = p[j] PROVE i = j
    OBVIOUS
  <2>1. PICK d \in cellIds : \E k \in 1..Len(cs[d].p) : Once(cs, p[i], d, k)
    BY <1>2 DEF Full
  <2> QED BY <2>1 DEF Once
<1>4. Cardinality(S) = Len(p) /\ IsFiniteSet(S)
  BY <1>1, FS_Interval
<1>5. IsFiniteSet(Particles) /\ Cardinality(Particles) = numParticles
  BY Numbers, FS_Interval DEF Particles
<1> DEFINE f == [i \in S |-> p[i]]
<1>6. f \in Injection(S, Particles)
  <2> HIDE DEF S, p
  <2>1. f \in [S -> Particles]
    BY <1>2
  <2>2. \A a, b \in S : f[a] = f[b] => a = b
    BY <1>3
  <2> QED BY <2>1, <2>2, Fun_IsInj
<1> HIDE DEF f, S
<1>7. Cardinality(S) <= Cardinality(Particles)
  BY <1>5, <1>6, FS_Injection DEF ExistsInjection
<1>8. Len(p) <= numParticles
  BY <1>4, <1>5, <1>7
<1> HIDE DEF p
<1>9. cs[c].n <= numParticles
  BY <1>1, <1>8
<1> QED
  BY <1>1, <1>9 DEF p

\* What a pair is made of.
LEMMA PairType ==
  ASSUME InCells, NEW t \in tids, NEW pr \in PairsOf(t)
  PROVE  /\ pr = <<pr[1], pr[2], pr[3], pr[4]>>
         /\ pr[1] \in grid(t) /\ pr[1] \in cellIds /\ pr[3] \in Neighbours(pr[1]) /\ pr[3] \in cellIds
         /\ pr[3] < pr[1] \/ pr[3] = pr[1]
         /\ pr[2] \in Nat /\ pr[4] \in Nat
         /\ pr[2] + 1 \in 1..Len(cells[pr[1]].p) /\ pr[4] + 1 \in 1..Len(cells[pr[3]].p)
         /\ Address(pr[3], pr[4]) < Address(pr[1], pr[2])
         /\ FirstOf(pr) \in Particles /\ SecondOf(pr) \in Particles
         /\ pr \in Quadruples
<1>1. grid(t) \subseteq cellIds /\ cellIds \subseteq Nat
  BY Blocks, Finiteness
<1>2. pr \in grid(t) \X (0..numParticles-1) \X cellIds \X (0..numParticles-1)
  BY DEF PairsOf
<1>3. /\ pr = <<pr[1], pr[2], pr[3], pr[4]>>
      /\ pr[1] \in grid(t) /\ pr[2] \in 0..(numParticles-1)
      /\ pr[3] \in cellIds /\ pr[4] \in 0..(numParticles-1)
  BY <1>2
<1>4. /\ pr[3] \in NeighCells(pr[1])
      /\ pr[2] < cells[pr[1]].n /\ pr[4] < cells[pr[3]].n
      /\ Address(pr[3], pr[4]) < Address(pr[1], pr[2])
  BY DEF PairsOf
<1>5. pr[1] \in cellIds
  BY <1>1, <1>3
<1>6. pr[3] \in Neighbours(pr[1]) /\ (pr[3] < pr[1] \/ pr[3] = pr[1])
  BY <1>4, <1>5, NeighboursOf DEF NeighCells
<1>7. pr[2] \in Nat /\ pr[4] \in Nat
  BY <1>3
<1>8. /\ cells[pr[1]].n = Len(cells[pr[1]].p) /\ cells[pr[3]].n = Len(cells[pr[3]].p)
      /\ cells[pr[1]].n \in Nat /\ cells[pr[3]].n \in Nat
  BY <1>3, <1>5, CellsBounded DEF InCells
<1>9. pr[2] + 1 \in 1..Len(cells[pr[1]].p) /\ pr[4] + 1 \in 1..Len(cells[pr[3]].p)
  <2> DEFINE i == pr[2]
             j == pr[4]
             m == Len(cells[pr[1]].p)
             n == Len(cells[pr[3]].p)
  <2>1. i \in Nat /\ j \in Nat /\ m \in Nat /\ n \in Nat /\ i < m /\ j < n
    BY <1>4, <1>7, <1>8
  <2> HIDE DEF i, j, m, n
  <2>2. i + 1 \in 1..m /\ j + 1 \in 1..n
    BY <2>1
  <2> QED BY <2>2 DEF i, j, m, n
<1>10. FirstOf(pr) \in Particles /\ SecondOf(pr) \in Particles
  BY <1>3, <1>5, <1>9 DEF InCells, Full, FirstOf, SecondOf
<1>11. pr \in Quadruples
  BY <1>3, <1>5, <1>7 DEF Quadruples
<1> QED
  BY <1>3, <1>4, <1>5, <1>6, <1>7, <1>9, <1>10, <1>11

\* Where a particle is, and it is nowhere else.
LEMMA StoredOnce ==
  ASSUME NEW Q, NEW cs, Full(cs, Q), NEW c \in cellIds, NEW i \in 1..Len(cs[c].p),
         NEW d \in cellIds, NEW j \in 1..Len(cs[d].p), cs[c].p[i] = cs[d].p[j]
  PROVE  c = d /\ i = j
<1>1. cs[c].p[i] \in Q
  BY DEF Full
<1>2. PICK e \in cellIds : \E k \in 1..Len(cs[e].p) : Once(cs, cs[c].p[i], e, k)
  BY <1>1 DEF Full
<1> QED
  BY <1>2 DEF Once

\* No two slots hold the same particle.
LEMMA Unique ==
  ASSUME InCells, NEW c \in cellIds, NEW i \in 1..Len(cells[c].p),
         NEW d \in cellIds, NEW j \in 1..Len(cells[d].p), cells[c].p[i] = cells[d].p[j]
  PROVE  c = d /\ i = j
BY StoredOnce DEF InCells

\* A slot holds a particle of its cell.
LEMMA SettledAt ==
  ASSUME InCells, NEW c \in cellIds, NEW i \in 1..Len(cells[c].p)
  PROVE  pos[cells[c].p[i]] = c
BY Blocks DEF InCells, AllSettled, Settled

\* An address is a number.
LEMMA AddressIn ==
  ASSUME FluidTypeOK, Full(cells, Particles), NEW c \in cellIds, NEW j \in Nat, j < cells[c].n
  PROVE  Address(c, j) \in Int
<1> DEFINE P == PARTICLES_PER_CELL
           s == StructureOf(cells[c], j)
<1>1. P \in Nat \ {0} /\ c \in Nat /\ Cardinality(cellIds) \in Nat /\ fresh \in Nat
  BY Numbers, Finiteness, FS_CardinalityType DEF FluidTypeOK
<1> HIDE DEF P
<1>2. /\ cells[c].n \in Nat /\ cells[c].chain \in Seq(Nat)
      /\ Len(cells[c].chain) = Structures(cells[c].n)
  BY DEF FluidTypeOK, Full, Cells
<1>3. s \in Nat
  <2>1. CASE j < P
    BY <2>1 DEF StructureOf, P
  <2>2. CASE ~(j < P)
    <3>1. j \div P \in Int /\ P \div P = 1
      <4>1. P = P * 1 + 0 /\ 0 \in 0..(P - 1) /\ P \in Int
        BY <1>1
      <4>2. P \div P = 1
        BY <1>1, <4>1, DivideUnique
      <4>3. j \in Int
        OBVIOUS
      <4> QED BY <1>1, <4>2, <4>3, Divide
    <3>2. P \div P <= j \div P
      BY <1>1, <2>2, DivideMonotonic
    <3>3. j \div P <= (cells[c].n - 1) \div P
      <4>1. cells[c].n - 1 \in Int /\ j <= cells[c].n - 1 /\ j \in Int
        BY <1>2
      <4> QED BY <1>1, <4>1, DivideMonotonic
    <3>4. Len(cells[c].chain) = (cells[c].n - 1) \div P
      BY <1>2 DEF Structures, P
    <3>5. Len(cells[c].chain) \in Nat
      BY <1>2
    <3>6. j \div P \in 1..Len(cells[c].chain)
      BY <3>1, <3>2, <3>3, <3>4, <3>5
    <3>7. s = cells[c].chain[j \div P]
      BY <2>2 DEF StructureOf, P
    <3> HIDE DEF s
    <3> QED BY <1>2, <3>6, <3>7
  <2> QED BY <2>1, <2>2
<1>4. j % P \in Int
  <2>1. j \in Int
    OBVIOUS
  <2> QED BY <1>1, <2>1, Divide
<1> DEFINE structure == IF s = 0 THEN c
                        ELSE IF poolAbove THEN Cardinality(cellIds) + s ELSE s - fresh
<1>5. Address(c, j) = structure * P + (j % P)
  BY DEF Address, P
<1> HIDE DEF s
<1>6. structure \in Int
  BY <1>1, <1>3
<1> HIDE DEF structure
<1> QED
  BY <1>1, <1>4, <1>5, <1>6

\* A pair consists of two different near particles.
LEMMA PairNear ==
  ASSUME FluidTypeOK, InCells, NEW t \in tids, NEW pr \in PairsOf(t)
  PROVE  /\ FirstOf(pr) # SecondOf(pr)
         /\ FirstOf(pr) \in Near(SecondOf(pr)) /\ SecondOf(pr) \in Near(FirstOf(pr))
<1>1. /\ pr[1] \in cellIds /\ pr[3] \in Neighbours(pr[1]) /\ pr[3] \in cellIds
      /\ pr[2] \in Nat /\ pr[4] \in Nat
      /\ pr[2] + 1 \in 1..Len(cells[pr[1]].p) /\ pr[4] + 1 \in 1..Len(cells[pr[3]].p)
      /\ Address(pr[3], pr[4]) < Address(pr[1], pr[2])
      /\ FirstOf(pr) \in Particles /\ SecondOf(pr) \in Particles
  BY PairType
<1>2. FirstOf(pr) # SecondOf(pr)
  <2> SUFFICES ASSUME FirstOf(pr) = SecondOf(pr) PROVE FALSE
    OBVIOUS
  <2>1. pr[1] = pr[3] /\ pr[2] + 1 = pr[4] + 1
    <3>1. cells[pr[1]].p[pr[2] + 1] = cells[pr[3]].p[pr[4] + 1]
      BY DEF FirstOf, SecondOf
    <3> DEFINE c == pr[1]
               i == pr[2] + 1
               d == pr[3]
               j == pr[4] + 1
    <3>2. /\ c \in cellIds /\ i \in 1..Len(cells[c].p) /\ d \in cellIds /\ j \in 1..Len(cells[d].p)
          /\ cells[c].p[i] = cells[d].p[j]
      BY <1>1, <3>1
    <3> HIDE DEF c, i, d, j
    <3>3. c = d /\ i = j
      BY <3>2, Unique
    <3> QED BY <3>3 DEF c, i, d, j
  <2>2. pr[2] = pr[4]
    BY <1>1, <2>1
  <2>3. Address(pr[1], pr[2]) < Address(pr[1], pr[2])
    BY <1>1, <2>1, <2>2
  <2>4. pr[2] < cells[pr[1]].n
    BY DEF PairsOf
  <2>5. Address(pr[1], pr[2]) \in Int
    BY <1>1, <2>4, AddressIn DEF InCells
  <2> QED BY <2>3, <2>5
<1>3. pos[FirstOf(pr)] = pr[1] /\ pos[SecondOf(pr)] = pr[3]
  BY <1>1, SettledAt DEF FirstOf, SecondOf
<1>4. pr[1] \in Neighbours(pr[3])
  BY <1>1, NeighboursOf
<1> QED
  BY <1>1, <1>2, <1>3, <1>4 DEF Near

\* The lower of two cells has the lower addresses.
LEMMA AddressOrder ==
  ASSUME NEW P \in Nat \ {0}, NEW c \in Nat, NEW d \in Nat, NEW i \in 0..(P - 1), NEW j \in 0..(P - 1),
         d < c \/ (d = c /\ j < i)
  PROVE  d * P + j < c * P + i
<1>1. CASE d = c
  BY <1>1
<1>2. CASE d < c
  <2>1. (d + 1) * P <= c * P
    <3>1. PICK k \in Nat : c = (d + 1) + k
      <4>1. c - (d + 1) \in Nat /\ c = (d + 1) + (c - (d + 1))
        BY <1>2
      <4> QED BY <4>1
    <3>2. c * P = (d + 1) * P + k * P /\ k * P \in Nat
      BY <3>1
    <3> QED BY <3>2
  <2>2. (d + 1) * P = d * P + P /\ d * P \in Nat /\ c * P \in Nat
    OBVIOUS
  <2> QED BY <2>1, <2>2
<1> QED
  BY <1>1, <1>2

\* The particles of a pair are paired with each other.
LEMMA PairPaired ==
  ASSUME FluidTypeOK, InCells, NEW t \in tids, NEW pr \in PairsOf(t)
  PROVE  FirstOf(pr) \in Paired(SecondOf(pr)) /\ SecondOf(pr) \in Paired(FirstOf(pr))
<1>1. FirstOf(pr) \in Particles /\ SecondOf(pr) \in Particles
  BY PairType
<1>2. {SecondOf(pr), FirstOf(pr)} = {FirstOf(pr), SecondOf(pr)}
  OBVIOUS
<1> QED
  BY <1>1, <1>2 DEF Paired

\* Particle m of cell a is q.
Slot(a, m, q) == a \in cellIds /\ m \in Nat /\ m + 1 \in 1..Len(cells[a].p) /\ cells[a].p[m + 1] = q

\* A particle is in one slot.
LEMMA InOne ==
  ASSUME InCells, NEW a, NEW m, NEW b, NEW n, NEW q, Slot(a, m, q), Slot(b, n, q)
  PROVE  a = b /\ m = n
<1> DEFINE x == m + 1
           y == n + 1
<1>1. /\ a \in cellIds /\ b \in cellIds /\ m \in Nat /\ n \in Nat
      /\ x \in 1..Len(cells[a].p) /\ y \in 1..Len(cells[b].p) /\ cells[a].p[x] = cells[b].p[y]
  BY DEF Slot
<1> HIDE DEF x, y
<1>2. a = b /\ x = y
  BY <1>1, Unique
<1> QED
  BY <1>1, <1>2 DEF x, y

\* ... and of no other.
LEMMA PairUnique ==
  ASSUME FluidTypeOK, InCells, NEW t \in tids, NEW u \in tids, NEW pr \in PairsOf(t), NEW qr \in PairsOf(u),
         \/ FirstOf(pr) = FirstOf(qr) /\ SecondOf(pr) = SecondOf(qr)
         \/ FirstOf(pr) = SecondOf(qr) /\ SecondOf(pr) = FirstOf(qr)
  PROVE  t = u /\ pr = qr
<1> DEFINE c == pr[1]
           i == pr[2]
           d == pr[3]
           j == pr[4]
           e == qr[1]
           k == qr[2]
           f == qr[3]
           l == qr[4]
<1>1. /\ pr = <<c, i, d, j>> /\ c \in grid(t) /\ c \in cellIds /\ d \in cellIds /\ i \in Nat /\ j \in Nat
      /\ i + 1 \in 1..Len(cells[c].p) /\ j + 1 \in 1..Len(cells[d].p)
      /\ Address(d, j) < Address(c, i)
  BY PairType
<1>2. /\ qr = <<e, k, f, l>> /\ e \in grid(u) /\ e \in cellIds /\ f \in cellIds /\ k \in Nat /\ l \in Nat
      /\ k + 1 \in 1..Len(cells[e].p) /\ l + 1 \in 1..Len(cells[f].p)
      /\ Address(f, l) < Address(e, k)
  BY PairType
<1>3. /\ FirstOf(pr) = cells[c].p[i + 1] /\ SecondOf(pr) = cells[d].p[j + 1]
      /\ FirstOf(qr) = cells[e].p[k + 1] /\ SecondOf(qr) = cells[f].p[l + 1]
  BY DEF FirstOf, SecondOf
<1>4. i < cells[c].n /\ j < cells[d].n
  BY DEF PairsOf
<1> HIDE DEF c, i, d, j, e, k, f, l
<1>5. /\ Slot(c, i, FirstOf(pr)) /\ Slot(d, j, SecondOf(pr))
      /\ Slot(e, k, FirstOf(qr)) /\ Slot(f, l, SecondOf(qr))
  BY <1>1, <1>2, <1>3 DEF Slot
<1>6. CASE FirstOf(pr) = FirstOf(qr) /\ SecondOf(pr) = SecondOf(qr)
  <2>1. c = e /\ i = k
    BY <1>5, <1>6, InOne
  <2>2. d = f /\ j = l
    BY <1>5, <1>6, InOne
  <2> QED BY <1>1, <1>2, <2>1, <2>2, Blocks
<1>7. CASE FirstOf(pr) = SecondOf(qr) /\ SecondOf(pr) = FirstOf(qr)
  <2>1. c = f /\ i = l
    BY <1>5, <1>7, InOne
  <2>2. d = e /\ j = k
    BY <1>5, <1>7, InOne
  <2>3. Address(c, i) \in Int /\ Address(d, j) \in Int
    BY <1>1, <1>4, AddressIn DEF InCells
  <2> QED BY <1>1, <1>2, <2>1, <2>2, <2>3
<1> QED
  BY <1>6, <1>7

\* The pairs depend on the cells only.
LEMMA SamePairs ==
  ASSUME cells' = cells, poolAbove' = poolAbove, fresh' = fresh
  PROVE  /\ \A t : PairsOf(t)' = PairsOf(t)
         /\ \A pr : FirstOf(pr)' = FirstOf(pr) /\ SecondOf(pr)' = SecondOf(pr)
<1>1. \A c, j : StructureOf(cells[c], j)' = StructureOf(cells[c], j)
  BY DEF StructureOf
<1>2. \A c, j : Address(c, j)' = Address(c, j)
  BY <1>1 DEF Address
<1>3. \A c : NeighCells(c)' = NeighCells(c)
  BY DEF NeighCells
<1>4. ASSUME NEW t PROVE PairsOf(t)' = PairsOf(t)
  BY <1>2, <1>3 DEF PairsOf
<1> QED
  BY <1>4 DEF FirstOf, SecondOf

\* So does who is paired with whom.
LEMMA SamePaired ==
  ASSUME cells' = cells, poolAbove' = poolAbove, fresh' = fresh
  PROVE  \A q : Paired(q)' = Paired(q)
BY SamePairs DEF Paired

\* What a thread has still to count.
LEMMA SamePending ==
  ASSUME cells' = cells, poolAbove' = poolAbove, fresh' = fresh,
         NEW t, step'[t] = step[t], cur'[t] = cur[t]
  PROVE  \A q, r : Pending(t, q, r)' = Pending(t, q, r)
<1>1. Pair(t)' = Pair(t)
  BY DEF Pair
<1> QED
  BY <1>1, SamePairs DEF Pending

\* The order of q and r is still open: r has not been added to q.
Open(T, at, q, r) ==
  \E pr \in T :
     \/ q = FirstOf(pr) /\ r = SecondOf(pr) /\ ~(pr = Choice(T) /\ at = 2)
     \/ q = SecondOf(pr) /\ r = FirstOf(pr)

\* The pair a thread is at is one of those it has still to count.
LEMMA PairChosen ==
  ASSUME NEW t
  PROVE  /\ Pair(t) = Choice(cur[t].todo)
         /\ cur[t].todo # {} => Pair(t) \in cur[t].todo
BY ChoiceIn DEF Pair, Choice

\* What a thread between two pairs has still to count.
LEMMA PendingIn ==
  ASSUME NEW t, step[t] \in {"pair", "add"}
  PROVE  \A q, r : Pending(t, q, r) <=> Open(cur[t].todo, cur[t].at, q, r)
BY PairChosen DEF Pending, Open

\* The same after a step.
LEMMA PendingInNext ==
  ASSUME cells' = cells, poolAbove' = poolAbove, fresh' = fresh,
         NEW t, step'[t] \in {"pair", "add"}
  PROVE  \A q, r : Pending(t, q, r)' <=> Open(cur'[t].todo, cur'[t].at, q, r)
<1>1. Pair(t)' = Choice(cur'[t].todo)
  BY DEF Pair, Choice
<1> QED
  BY <1>1, SamePairs DEF Pending, Open

\* At the first pair both orders of every pair are open.
LEMMA OpenBegin ==
  \A T, q, r : Open(T, 1, q, r) <=> \E pr \in T : {q, r} = {FirstOf(pr), SecondOf(pr)}
<1> SUFFICES ASSUME NEW T, NEW q, NEW r
             PROVE  Open(T, 1, q, r) <=> \E pr \in T : {q, r} = {FirstOf(pr), SecondOf(pr)}
  OBVIOUS
<1>1. \A a, b : {q, r} = {a, b} <=> (q = a /\ r = b) \/ (q = b /\ r = a)
  OBVIOUS
<1>2. \A pr : {q, r} = {FirstOf(pr), SecondOf(pr)}
                 <=> (q = FirstOf(pr) /\ r = SecondOf(pr)) \/ (q = SecondOf(pr) /\ r = FirstOf(pr))
  BY <1>1
<1>3. ~(1 = 2)
  OBVIOUS
<1> QED
  BY <1>2, <1>3 DEF Open

\* One of a pair has been updated, and then the other.
LEMMA OpenNext ==
  ASSUME FluidTypeOK, InCells, NEW t \in tids, NEW T, T \subseteq PairsOf(t), T # {}
  PROVE  LET pr == Choice(T)
         IN  /\ \A q, r : /\ Open(T, 2, q, r) <=> Open(T, 1, q, r) /\ ~(q = FirstOf(pr) /\ r = SecondOf(pr))
                          /\ Open(T \ {pr}, 1, q, r)
                               <=> Open(T, 2, q, r) /\ ~(q = SecondOf(pr) /\ r = FirstOf(pr))
             /\ Open(T, 1, FirstOf(pr), SecondOf(pr))
             /\ Open(T, 2, SecondOf(pr), FirstOf(pr))
<1> DEFINE pr == Choice(T)
<1>1. pr \in T /\ pr \in PairsOf(t)
  BY ChoiceIn
<1> HIDE DEF pr
<1>2. FirstOf(pr) # SecondOf(pr)
  BY <1>1, PairNear
<1>3. \A qr \in T : /\ FirstOf(pr) = FirstOf(qr) /\ SecondOf(pr) = SecondOf(qr) => pr = qr
                    /\ ~(FirstOf(pr) = SecondOf(qr) /\ SecondOf(pr) = FirstOf(qr))
  <2> TAKE qr \in T
  <2>1. qr \in PairsOf(t)
    OBVIOUS
  <2>2. FirstOf(pr) = FirstOf(qr) /\ SecondOf(pr) = SecondOf(qr) => pr = qr
    BY <1>1, <2>1, PairUnique
  <2>3. FirstOf(pr) = SecondOf(qr) /\ SecondOf(pr) = FirstOf(qr) => pr = qr
    BY <1>1, <2>1, PairUnique
  <2> QED BY <1>2, <2>2, <2>3
<1>4. \A U, at, q, r :
        Open(U, at, q, r) <=> \E qr \in U :
          \/ q = FirstOf(qr) /\ r = SecondOf(qr) /\ ~(qr = Choice(U) /\ at = 2)
          \/ q = SecondOf(qr) /\ r = FirstOf(qr)
  BY DEF Open
<1>5. ASSUME NEW q, NEW r
      PROVE  Open(T, 2, q, r) <=> Open(T, 1, q, r) /\ ~(q = FirstOf(pr) /\ r = SecondOf(pr))
  <2>1. Open(T, 2, q, r) <=> \E qr \in T :
          \/ q = FirstOf(qr) /\ r = SecondOf(qr) /\ qr # pr
          \/ q = SecondOf(qr) /\ r = FirstOf(qr)
    BY DEF Open, pr
  <2>2. Open(T, 1, q, r) <=> \E qr \in T :
          \/ q = FirstOf(qr) /\ r = SecondOf(qr)
          \/ q = SecondOf(qr) /\ r = FirstOf(qr)
    BY DEF Open
  <2> QED BY <1>3, <2>1, <2>2
<1>6. ASSUME NEW q, NEW r
      PROVE  Open(T \ {pr}, 1, q, r) <=> Open(T, 2, q, r) /\ ~(q = SecondOf(pr) /\ r = FirstOf(pr))
  <2>1. Open(T, 2, q, r) <=> \E qr \in T :
          \/ q = FirstOf(qr) /\ r = SecondOf(qr) /\ qr # pr
          \/ q = SecondOf(qr) /\ r = FirstOf(qr)
    BY DEF Open, pr
  <2>2. Open(T \ {pr}, 1, q, r) <=> \E qr \in T \ {pr} :
          \/ q = FirstOf(qr) /\ r = SecondOf(qr)
          \/ q = SecondOf(qr) /\ r = FirstOf(qr)
    BY DEF Open
  <2>3. ASSUME NEW qr \in T, qr # pr, q = SecondOf(pr), r = FirstOf(pr)
        PROVE  ~(q = FirstOf(qr) /\ r = SecondOf(qr)) /\ ~(q = SecondOf(qr) /\ r = FirstOf(qr))
    BY <1>3, <2>3
  <2> QED BY <1>1, <2>1, <2>2, <2>3
<1>7. Open(T, 1, FirstOf(pr), SecondOf(pr))
  BY <1>1 DEF Open
<1>8. Open(T, 2, SecondOf(pr), FirstOf(pr))
  BY <1>1 DEF Open
<1> QED
  BY <1>5, <1>6, <1>7, <1>8 DEF pr

\* No other thread counts a pair of t.
LEMMA NotElsewhere ==
  ASSUME FluidTypeOK, InCells, NEW t \in tids, NEW u \in tids, u # t, NEW pr \in PairsOf(t),
         step[u] \in {"pair", "add"} => cur[u].todo \subseteq PairsOf(u)
  PROVE  ~Pending(u, FirstOf(pr), SecondOf(pr)) /\ ~Pending(u, SecondOf(pr), FirstOf(pr))
<1>1. ASSUME NEW qr \in PairsOf(u)
      PROVE  /\ ~(FirstOf(pr) = FirstOf(qr) /\ SecondOf(pr) = SecondOf(qr))
             /\ ~(FirstOf(pr) = SecondOf(qr) /\ SecondOf(pr) = FirstOf(qr))
  <2>1. ~(FirstOf(pr) = FirstOf(qr) /\ SecondOf(pr) = SecondOf(qr))
    BY PairUnique
  <2>2. ~(FirstOf(pr) = SecondOf(qr) /\ SecondOf(pr) = FirstOf(qr))
    BY PairUnique
  <2> QED BY <2>1, <2>2
<1>2. \A q, r, a, b : {q, r} = {a, b} => (q = a /\ r = b) \/ (q = b /\ r = a)
  OBVIOUS
<1>3. CASE step[u] = "densities"
  <2>1. step[u] \notin {"pair", "add"}
    BY <1>3
  <2> QED BY <1>1, <1>2, <2>1 DEF Pending
<1>4. CASE step[u] \in {"pair", "add"}
  <2>1. step[u] # "densities"
    BY <1>4
  <2> QED BY <1>1, <1>4, <2>1 DEF Pending
<1> QED
  BY <1>3, <1>4 DEF Pending

-----------------------------------------------------------------------------
(* Counting. *)
\* What a thread does that goes on within a phase.
LEMMA Continues ==
  ASSUME FluidTypeOK, NEW In, NEW stop, NEW r \in 0..2, NEW f,
         Together(step, passed, cur, In, stop, r, f), stop \notin In,
         NEW t \in tids, step[t] \in In, NEW next \in Labels, next \in In, Continue(t, next),
         \A u \in tids : cur'[u].frame = cur[u].frame
  PROVE  /\ step' \in [tids -> Labels] /\ passed' \in [tids -> 0..2] /\ step'[t] = next
         /\ \A u \in tids : u # t => step'[u] = step[u]
         /\ Together(step', passed', cur', In, stop, r, f)
<1>1. /\ step' \in [tids -> Labels] /\ passed' \in [tids -> 0..2]
      /\ step'[t] = next /\ passed' = passed
      /\ \A u \in tids : u # t => step'[u] = step[u] /\ passed'[u] = passed[u]
  BY GoesOn
<1>2. Alone(t)
  BY <1>1 DEF Alone
<1>3. Together(step', passed', cur', In, stop, r, f)
  BY <1>1, <1>2, StillTogether
<1> QED
  BY <1>1, <1>3

\* A particle is paired with finitely many.
LEMMA PairedFinite ==
  /\ IsFiniteSet(Particles)
  /\ \A q : Paired(q) \subseteq Particles /\ IsFiniteSet(Paired(q))
<1>1. IsFiniteSet(Particles)
  BY Numbers, FS_Interval DEF Particles
<1>2. \A q : Paired(q) \subseteq Particles
  BY DEF Paired
<1> QED
  BY <1>1, <1>2, FS_Subset

\* When all densities are zero nothing has been counted.
LEMMA CountBegins ==
  /\ FluidTypeOK
  /\ \E g : AllAt(step, passed, cur, "densities", 1, g)
  /\ Filled(pools, fresh, cells) /\ AllSettled(pos, cells)
  /\ \A q \in Particles : density[q] = 0
  => Counting
<1> SUFFICES ASSUME FluidTypeOK, NEW f, AllAt(step, passed, cur, "densities", 1, f),
                    Filled(pools, fresh, cells), AllSettled(pos, cells),
                    \A q \in Particles : density[q] = 0
             PROVE  Counting
  OBVIOUS
<1>1. \A t \in tids : step[t] = "densities"
  BY DEF AllAt
<1>2. \E g \in Nat : Together(step, passed, cur, InDensities, "advance", 1, g)
  <2>1. "densities" \in InDensities
    BY DEF InDensities
  <2>2. Together(step, passed, cur, InDensities, "advance", 1, f)
    BY <2>1, Begins
  <2> QED BY <2>2 DEF AllAt
<1>3. ASSUME NEW q \in Particles PROVE density[q] = Cardinality(Counted(q))
  <2>2. ASSUME NEW r \in Paired(q) PROVE \E t \in tids : Pending(t, q, r)
    <3>1. PICK t \in tids : \E pr \in PairsOf(t) : {q, r} = {FirstOf(pr), SecondOf(pr)}
      BY DEF Paired
    <3> QED BY <1>1, <3>1 DEF Pending
  <2>3. Counted(q) = {}
    BY <2>2 DEF Counted
  <2> QED BY <2>3, FS_EmptySet
<1> QED
  BY <1>1, <1>2, <1>3 DEF Counting

\* When every pair is counted the densities are those of the pairs.
LEMMA AdvanceBegins ==
  /\ FluidTypeOK
  /\ \E g : AllAt(step, passed, cur, "advance", 2, g)
  /\ Filled(pools, fresh, cells) /\ AllSettled(pos, cells)
  /\ \A q \in Particles : density[q] = Cardinality(Paired(q))
  => Advancing
<1> SUFFICES ASSUME FluidTypeOK, NEW f, AllAt(step, passed, cur, "advance", 2, f),
                    Filled(pools, fresh, cells), AllSettled(pos, cells),
                    \A q \in Particles : density[q] = Cardinality(Paired(q))
             PROVE  Advancing
  OBVIOUS
<1>1. f \in Nat /\ \A t \in tids : step[t] = "advance" /\ cur[t].frame = f /\ passed[t] = 2
  BY DEF AllAt
<1>2. \E t \in tids : step[t] = "advance"
  BY <1>1, Finiteness
<1>3. Moved(pos, cells)
  <2>1. ASSUME NEW c \in cellIds, NEW j \in 1..Len(cells[c].p) PROVE pos[cells[c].p[j]] \in Neighbours(c)
    <3>1. PICK t \in tids : c \in grid(t)
      BY Blocks
    <3>2. pos[cells[c].p[j]] = c
      BY <3>1 DEF AllSettled, Settled
    <3> QED BY <3>2, NeighboursOf
  <2> QED BY <2>1 DEF Moved
<1>4. \A t \in tids : Settled(pos, cells, t)
  BY DEF AllSettled
<1> QED
  BY <1>1, <1>2, <1>3, <1>4 DEF Advancing

\* FindPairs.
LEMMA FindPairsStep ==
  ASSUME FluidTypeOK, Counting, NEW t \in tids, step[t] = "densities", FindPairs(t)
  PROVE  FluidTypeOK' /\ Counting' /\ loaded' = loaded
<1>1. PICK f \in Nat : Together(step, passed, cur, InDensities, "advance", 1, f)
  BY DEF Counting
<1> DEFINE new == [cur[t] EXCEPT !.todo = PairsOf(t), !.at = 1]
<1>2. /\ Continue(t, "pair") /\ cur' = [cur EXCEPT ![t] = new]
      /\ loaded' = loaded /\ pos' = pos /\ cells' = cells /\ cells2' = cells2 /\ pools' = pools
      /\ alloc' = alloc /\ fresh' = fresh /\ poolAbove' = poolAbove /\ mutex' = mutex
      /\ density' = density
  BY DEF FindPairs, poolVars
<1>3. InCells
  BY DEF InCells, Counting, Filled, FluidTypeOK
<1>4. new \in Locals /\ new.frame = cur[t].frame /\ new.todo = PairsOf(t) /\ new.at = 1
  <2>1. PairsOf(t) \subseteq Quadruples
    BY <1>3, PairType
  <2>2. cur[t] \in Locals
    BY DEF FluidTypeOK
  <2> QED BY <2>1, <2>2 DEF Locals
<1> HIDE DEF new
<1>5. /\ cur' \in [tids -> Locals] /\ cur'[t] = new
      /\ \A u \in tids : u # t => cur'[u] = cur[u]
      /\ \A u \in tids : cur'[u].frame = cur[u].frame
  BY <1>2, <1>4, LocalsChanged
<1>6. /\ step' \in [tids -> Labels] /\ passed' \in [tids -> 0..2] /\ step'[t] = "pair"
      /\ \A u \in tids : u # t => step'[u] = step[u]
      /\ Together(step', passed', cur', InDensities, "advance", 1, f)
  <2>1. /\ "advance" \notin InDensities /\ step[t] \in InDensities /\ "pair" \in InDensities
        /\ "pair" \in Labels /\ 1 \in 0..2
    BY DEF InDensities, Labels
  <2> QED BY <1>1, <1>2, <1>5, <2>1, Continues
<1>7. FluidTypeOK'
  BY <1>2, <1>5, <1>6 DEF FluidTypeOK
<1>8. \A u \in tids : \A q, r : Pending(u, q, r)' <=> Pending(u, q, r)
  <2> TAKE u \in tids
  <2> TAKE q, r
  <2>1. CASE u # t
    BY <1>2, <1>5, <1>6, <2>1, SamePending
  <2>2. CASE u = t
    <3>1. Pending(t, q, r)' <=> Open(PairsOf(t), 1, q, r)
      <4>1. step'[t] \in {"pair", "add"}
        BY <1>6
      <4> QED BY <1>2, <1>4, <1>5, <4>1, PendingInNext
    <3>2. Pending(t, q, r) <=> \E pr \in PairsOf(t) : {q, r} = {FirstOf(pr), SecondOf(pr)}
      BY DEF Pending
    <3> QED BY <2>2, <3>1, <3>2, OpenBegin
  <2> QED BY <2>1, <2>2
<1>9. \A q : Paired(q)' = Paired(q)
  BY <1>2, SamePaired
<1>10. \A q : Counted(q)' = Counted(q)
  BY <1>8, <1>9 DEF Counted
<1>11. Filled(pools', fresh', cells') /\ AllSettled(pos', cells')
  BY <1>2 DEF Counting
<1>12. \A u \in tids : step'[u] \in {"pair", "add"} =>
          cur'[u].todo \subseteq PairsOf(u)' /\ (cur'[u].todo = {} => cur'[u].at = 1)
  BY <1>2, <1>4, <1>5, <1>6, SamePairs DEF Counting
<1>13. \A u \in tids : step'[u] = "add" => step[u] = "add" /\ cur'[u] = cur[u] /\ u # t
  <2> SUFFICES ASSUME NEW u \in tids, step'[u] = "add"
               PROVE  step[u] = "add" /\ cur'[u] = cur[u] /\ u # t
    OBVIOUS
  <2>1. u # t
    BY <1>6
  <2> QED BY <1>5, <1>6, <2>1
<1>14. ASSUME NEW u \in tids, cur'[u] = cur[u]
       PROVE  At(u)' = At(u) /\ Updated(u)' = Updated(u) /\ (Adding(u) => Adding(u)')
  <2>1. At(u)' = At(u)
    BY <1>14 DEF At, Pair
  <2>2. Updated(u)' = Updated(u)
    BY <1>2, <2>1 DEF Updated
  <2> QED BY <1>2, <1>14, <2>1, <2>2 DEF Adding
<1>15. \A u \in tids : step'[u] = "add" => Adding(u)'
  BY <1>13, <1>14 DEF Counting
<1>16. \A u, v \in tids : u # v /\ step'[u] = "add" /\ step'[v] = "add" => At(u)' # At(v)'
  BY <1>13, <1>14 DEF Counting
<1>17. \A q \in Particles : density'[q] = Cardinality(Counted(q)')
  BY <1>2, <1>10 DEF Counting
<1> QED
  BY <1>2, <1>6, <1>7, <1>11, <1>12, <1>15, <1>16, <1>17 DEF Counting

\* The particle a thread is at is in its block or next to it.
LEMMA AtPlace ==
  ASSUME FluidTypeOK, InCells, NEW t \in tids, cur[t].todo \subseteq PairsOf(t), cur[t].todo # {}
  PROVE  /\ At(t) = [c |-> At(t).c, i |-> At(t).i]
         /\ Slot(At(t).c, At(t).i, Updated(t)) /\ Updated(t) \in Particles
         /\ \E c \in grid(t) : At(t).c \in Neighbours(c)
         /\ Updated(t) = IF cur[t].at = 1 THEN FirstOf(Pair(t)) ELSE SecondOf(Pair(t))
<1> DEFINE pr == Pair(t)
<1>1. pr \in PairsOf(t)
  BY PairChosen
<1>2. /\ pr[1] \in grid(t) /\ pr[1] \in cellIds /\ pr[3] \in Neighbours(pr[1]) /\ pr[3] \in cellIds
      /\ pr[2] \in Nat /\ pr[4] \in Nat
      /\ pr[2] + 1 \in 1..Len(cells[pr[1]].p) /\ pr[4] + 1 \in 1..Len(cells[pr[3]].p)
      /\ FirstOf(pr) \in Particles /\ SecondOf(pr) \in Particles
  BY <1>1, PairType
<1> HIDE DEF pr
<1>3. CASE cur[t].at = 1
  <2>1. At(t) = [c |-> pr[1], i |-> pr[2]]
    BY <1>3 DEF At, pr
  <2>2. At(t).c = pr[1] /\ At(t).i = pr[2]
    BY <2>1
  <2>3. Updated(t) = FirstOf(pr)
    BY <2>2 DEF Updated, FirstOf
  <2>4. pr[1] \in Neighbours(pr[1])
    BY <1>2, NeighboursOf
  <2>5. Slot(At(t).c, At(t).i, Updated(t))
    BY <1>2, <2>2, <2>3 DEF Slot, FirstOf
  <2> QED BY <1>2, <1>3, <2>1, <2>2, <2>3, <2>4, <2>5 DEF pr
<1>4. CASE cur[t].at # 1
  <2>1. At(t) = [c |-> pr[3], i |-> pr[4]]
    BY <1>4 DEF At, pr
  <2>2. At(t).c = pr[3] /\ At(t).i = pr[4]
    BY <2>1
  <2>3. Updated(t) = SecondOf(pr)
    BY <2>2 DEF Updated, SecondOf
  <2>4. Slot(At(t).c, At(t).i, Updated(t))
    BY <1>2, <2>2, <2>3 DEF Slot, SecondOf
  <2> QED BY <1>2, <1>4, <2>1, <2>2, <2>3, <2>4 DEF pr
<1> QED
  BY <1>3, <1>4

\* ReadDensity: with the mutex, or alone at the cell.
LEMMA ReadDensityStep ==
  ASSUME FluidTypeOK, Counting, NEW t \in tids, ReadDensity(t)
  PROVE  FluidTypeOK' /\ Counting' /\ loaded' = loaded
<1>1. PICK f \in Nat : Together(step, passed, cur, InDensities, "advance", 1, f)
  BY DEF Counting
<1> DEFINE new == [cur[t] EXCEPT !.reg = density[Updated(t)]]
           c == At(t).c
           i == At(t).i
<1>2. /\ step[t] = "pair" /\ cur[t].todo # {} /\ Lock(c, i)
      /\ Continue(t, "add") /\ cur' = [cur EXCEPT ![t] = new]
      /\ loaded' = loaded /\ pos' = pos /\ cells' = cells /\ cells2' = cells2 /\ pools' = pools
      /\ alloc' = alloc /\ fresh' = fresh /\ poolAbove' = poolAbove
      /\ density' = density
  BY DEF ReadDensity, poolVars
<1>3. InCells
  BY DEF InCells, Counting, Filled, FluidTypeOK
<1>4. cur[t].todo \subseteq PairsOf(t)
  BY <1>2 DEF Counting
<1>5. /\ At(t) = [c |-> c, i |-> i] /\ c \in cellIds /\ i \in Nat /\ Updated(t) \in Particles
      /\ \E b \in grid(t) : c \in Neighbours(b)
  BY <1>2, <1>3, <1>4, AtPlace DEF Slot
<1>6. /\ new \in Locals /\ new.frame = cur[t].frame /\ new.todo = cur[t].todo /\ new.at = cur[t].at
      /\ new.reg = density[Updated(t)]
  <2>1. cur[t] \in Locals /\ density[Updated(t)] \in Int
    BY <1>5 DEF FluidTypeOK
  <2> QED BY <2>1 DEF Locals
<1>7. /\ mutex' \subseteq cellIds \X Nat
      /\ \A m \in mutex : m \in mutex'
      /\ border(c) => <<c, i>> \notin mutex /\ <<c, i>> \in mutex'
  BY <1>2, <1>5 DEF Lock, Locked, FluidTypeOK
<1> HIDE DEF new, c, i
<1>8. /\ cur' \in [tids -> Locals] /\ cur'[t] = new
      /\ \A u \in tids : u # t => cur'[u] = cur[u]
      /\ \A u \in tids : cur'[u].frame = cur[u].frame
  BY <1>2, <1>6, LocalsChanged
<1>9. /\ step' \in [tids -> Labels] /\ passed' \in [tids -> 0..2] /\ step'[t] = "add"
      /\ \A u \in tids : u # t => step'[u] = step[u]
      /\ Together(step', passed', cur', InDensities, "advance", 1, f)
  <2>1. /\ "advance" \notin InDensities /\ step[t] \in InDensities /\ "add" \in InDensities
        /\ "add" \in Labels /\ 1 \in 0..2
    BY <1>2 DEF InDensities, Labels
  <2> QED BY <1>1, <1>2, <1>8, <2>1, Continues
<1>10. FluidTypeOK'
  BY <1>2, <1>7, <1>8, <1>9 DEF FluidTypeOK
<1>11. \A u \in tids : \A q, r : Pending(u, q, r)' <=> Pending(u, q, r)
  <2> TAKE u \in tids
  <2> TAKE q, r
  <2>1. CASE u # t
    BY <1>2, <1>8, <1>9, <2>1, SamePending
  <2>2. CASE u = t
    <3>1. Pending(t, q, r)' <=> Open(cur[t].todo, cur[t].at, q, r)
      <4>1. step'[t] \in {"pair", "add"}
        BY <1>9
      <4> QED BY <1>2, <1>6, <1>8, <4>1, PendingInNext
    <3>2. Pending(t, q, r) <=> Open(cur[t].todo, cur[t].at, q, r)
      <4>1. step[t] \in {"pair", "add"}
        BY <1>2
      <4> QED BY <4>1, PendingIn
    <3> QED BY <2>2, <3>1, <3>2
  <2> QED BY <2>1, <2>2
<1>12. \A q : Paired(q)' = Paired(q)
  BY <1>2, SamePaired
<1>13. \A q : Counted(q)' = Counted(q)
  BY <1>11, <1>12 DEF Counted
<1>14. Filled(pools', fresh', cells') /\ AllSettled(pos', cells')
  BY <1>2 DEF Counting
<1>15. \A u \in tids : step'[u] \in {"pair", "add"} =>
          cur'[u].todo \subseteq PairsOf(u)' /\ (cur'[u].todo = {} => cur'[u].at = 1)
  <2> TAKE u \in tids
  <2>1. CASE u = t
    BY <1>2, <1>4, <1>6, <1>8, <2>1, SamePairs
  <2>2. CASE u # t
    BY <1>2, <1>8, <1>9, <2>2, SamePairs DEF Counting
  <2> QED BY <2>1, <2>2
<1>16. At(t)' = At(t) /\ Updated(t)' = Updated(t)
  <2>1. Pair(t)' = Pair(t)
    BY <1>6, <1>8 DEF Pair
  <2>2. At(t)' = At(t)
    BY <1>6, <1>8, <2>1 DEF At
  <2> QED BY <1>2, <2>2 DEF Updated
<1>17. \A u \in tids : u # t => At(u)' = At(u) /\ Updated(u)' = Updated(u)
  BY <1>2, <1>8 DEF At, Pair, Updated
<1>18. \A u \in tids : step'[u] = "add" => Adding(u)'
  <2> TAKE u \in tids
  <2> HAVE step'[u] = "add"
  <2>1. CASE u = t
    <3>1. At(t)'.c = c /\ At(t)'.i = i
      BY <1>16 DEF c, i
    <3> QED BY <1>2, <1>6, <1>7, <1>8, <1>16, <2>1, <3>1 DEF Adding
  <2>2. CASE u # t
    <3>1. Adding(u)
      BY <1>9, <2>2 DEF Counting
    <3> QED BY <1>2, <1>7, <1>8, <1>17, <2>2, <3>1 DEF Adding
  <2> QED BY <2>1, <2>2
<1>19. \A u \in tids : u # t /\ step[u] = "add" => At(u) # At(t)
  <2> SUFFICES ASSUME NEW u \in tids, u # t, step[u] = "add", At(u) = At(t) PROVE FALSE
    OBVIOUS
  <2>1. Adding(u) /\ cur[u].todo \subseteq PairsOf(u)
    BY DEF Counting
  <2>2. At(u).c = c /\ At(u).i = i
    BY DEF c, i
  <2>3. CASE border(c)
    <3>1. <<c, i>> \in mutex
      BY <2>1, <2>2, <2>3 DEF Adding
    <3> QED BY <1>7, <2>3, <3>1
  <2>4. CASE ~border(c)
    <3>1. \E b \in grid(u) : c \in Neighbours(b)
      <4>1. cur[u].todo # {}
        BY <2>1 DEF Adding
      <4> QED BY <1>3, <2>1, <2>2, <4>1, AtPlace
    <3> QED BY <1>5, <2>4, <3>1, InnerCell
  <2> QED BY <2>3, <2>4
<1>20. \A u, v \in tids : u # v /\ step'[u] = "add" /\ step'[v] = "add" => At(u)' # At(v)'
  <2> SUFFICES ASSUME NEW u \in tids, NEW v \in tids, u # v, step'[u] = "add", step'[v] = "add"
               PROVE  At(u)' # At(v)'
    OBVIOUS
  <2>1. CASE u = t
    BY <1>9, <1>16, <1>17, <1>19, <2>1
  <2>2. CASE v = t
    BY <1>9, <1>16, <1>17, <1>19, <2>2
  <2>3. CASE u # t /\ v # t
    <3>1. At(u) # At(v)
      BY <1>9, <2>3 DEF Counting
    <3> QED BY <1>17, <2>3, <3>1
  <2> QED BY <2>1, <2>2, <2>3
<1>21. \A q \in Particles : density'[q] = Cardinality(Counted(q)')
  BY <1>2, <1>13 DEF Counting
<1> QED
  BY <1>2, <1>9, <1>10, <1>14, <1>15, <1>18, <1>20, <1>21 DEF Counting

\* WriteDensity: what was read is still the density, so one more is counted.
LEMMA WriteDensityStep ==
  ASSUME FluidTypeOK, Counting, NEW t \in tids, WriteDensity(t)
  PROVE  FluidTypeOK' /\ Counting' /\ loaded' = loaded
<1>1. PICK f \in Nat : Together(step, passed, cur, InDensities, "advance", 1, f)
  BY DEF Counting
<1> DEFINE T == cur[t].todo
           pr == Pair(t)
           new == [cur[t] EXCEPT !.at = 3 - cur[t].at,
                                 !.todo = IF cur[t].at = 2 THEN T \ {pr} ELSE T]
           c == At(t).c
           i == At(t).i
<1>q. PICK q0 : q0 = Updated(t)
  OBVIOUS
<1>r. PICK r0 : r0 = IF cur[t].at = 1 THEN SecondOf(pr) ELSE FirstOf(pr)
  OBVIOUS
<1>2. /\ step[t] = "add" /\ density' = [density EXCEPT ![q0] = cur[t].reg + 1] /\ Unlock(c, i)
      /\ Continue(t, "pair") /\ cur' = [cur EXCEPT ![t] = new]
      /\ loaded' = loaded /\ pos' = pos /\ cells' = cells /\ cells2' = cells2 /\ pools' = pools
      /\ alloc' = alloc /\ fresh' = fresh /\ poolAbove' = poolAbove
  BY <1>q DEF WriteDensity, poolVars
<1>3. InCells
  BY DEF InCells, Counting, Filled, FluidTypeOK
<1>4. T \subseteq PairsOf(t) /\ T # {} /\ cur[t].reg = density[q0]
  BY <1>2, <1>q DEF Counting, Adding
<1>5. /\ At(t) = [c |-> c, i |-> i] /\ Slot(c, i, q0) /\ q0 \in Particles
      /\ q0 = IF cur[t].at = 1 THEN FirstOf(pr) ELSE SecondOf(pr)
  BY <1>3, <1>4, <1>q, AtPlace
<1>6. pr = Choice(T) /\ pr \in T /\ pr \in PairsOf(t)
  BY <1>4, PairChosen
<1>7. cur[t] \in Locals /\ cur[t].at \in {1, 2} /\ T \subseteq Quadruples
  BY DEF FluidTypeOK, Locals
<1>8. /\ new \in Locals /\ new.frame = cur[t].frame
      /\ new.todo = IF cur[t].at = 2 THEN T \ {pr} ELSE T
      /\ new.at = 3 - cur[t].at
  <2>1. 3 - cur[t].at \in {1, 2} /\ (IF cur[t].at = 2 THEN T \ {pr} ELSE T) \in SUBSET Quadruples
    BY <1>7
  <2> HIDE DEF T, pr
  <2> QED BY <1>7, <2>1 DEF Locals
<1>9. r0 \in Paired(q0)
  BY <1>3, <1>5, <1>6, <1>r, PairPaired
<1> HIDE DEF new, c, i, pr, T
<1>10. /\ cur' \in [tids -> Locals] /\ cur'[t] = new
       /\ \A u \in tids : u # t => cur'[u] = cur[u]
       /\ \A u \in tids : cur'[u].frame = cur[u].frame
  BY <1>2, <1>8, LocalsChanged
<1>11. /\ step' \in [tids -> Labels] /\ passed' \in [tids -> 0..2] /\ step'[t] = "pair"
       /\ \A u \in tids : u # t => step'[u] = step[u]
       /\ Together(step', passed', cur', InDensities, "advance", 1, f)
  <2>1. /\ "advance" \notin InDensities /\ step[t] \in InDensities /\ "pair" \in InDensities
        /\ "pair" \in Labels /\ 1 \in 0..2
    BY <1>2 DEF InDensities, Labels
  <2> QED BY <1>1, <1>2, <1>10, <2>1, Continues
<1>12. /\ density' \in [Particles -> Int] /\ density'[q0] = density[q0] + 1
       /\ \A q \in Particles : q # q0 => density'[q] = density[q]
  <2>1. cur[t].reg \in Int /\ density \in [Particles -> Int]
    BY <1>7 DEF FluidTypeOK, Locals
  <2> QED BY <1>2, <1>4, <1>5, <2>1
<1>13. mutex' \subseteq cellIds \X Nat /\ \A m \in mutex : m # <<c, i>> => m \in mutex'
  BY <1>2 DEF Unlock, FluidTypeOK
<1>14. FluidTypeOK'
  BY <1>2, <1>10, <1>11, <1>12, <1>13 DEF FluidTypeOK
(* The order of q0 and r0 is no longer open. *)
<1>15. \A q, r : Open(new.todo, new.at, q, r) <=> Open(T, cur[t].at, q, r) /\ ~(q = q0 /\ r = r0)
  <2>1. CASE cur[t].at = 1
    <3>1. new.todo = T /\ new.at = 2 /\ q0 = FirstOf(pr) /\ r0 = SecondOf(pr)
      BY <1>5, <1>8, <1>r, <2>1
    <3> QED BY <1>3, <1>4, <1>6, <2>1, <3>1, OpenNext
  <2>2. CASE cur[t].at = 2
    <3>1. new.todo = T \ {pr} /\ new.at = 1 /\ q0 = SecondOf(pr) /\ r0 = FirstOf(pr)
      BY <1>5, <1>8, <1>r, <2>2
    <3> QED BY <1>3, <1>4, <1>6, <2>2, <3>1, OpenNext
  <2> QED BY <1>7, <2>1, <2>2
<1>16. Pending(t, q0, r0)
  <2>1. Open(T, cur[t].at, q0, r0)
    <3>1. CASE cur[t].at = 1
      <4>1. q0 = FirstOf(pr) /\ r0 = SecondOf(pr)
        BY <1>5, <1>r, <3>1
      <4> QED BY <1>3, <1>4, <1>6, <3>1, <4>1, OpenNext
    <3>2. CASE cur[t].at = 2
      <4>1. q0 = SecondOf(pr) /\ r0 = FirstOf(pr)
        BY <1>5, <1>r, <3>2
      <4> QED BY <1>3, <1>4, <1>6, <3>2, <4>1, OpenNext
    <3> QED BY <1>7, <3>1, <3>2
  <2>2. step[t] \in {"pair", "add"}
    BY <1>2
  <2> QED BY <2>1, <2>2, PendingIn DEF T
<1>17. \A u \in tids : u # t => ~Pending(u, q0, r0)
  <2> SUFFICES ASSUME NEW u \in tids, u # t PROVE ~Pending(u, q0, r0)
    OBVIOUS
  <2>1. step[u] \in {"pair", "add"} => cur[u].todo \subseteq PairsOf(u)
    BY DEF Counting
  <2>2. ~Pending(u, FirstOf(pr), SecondOf(pr)) /\ ~Pending(u, SecondOf(pr), FirstOf(pr))
    BY <1>3, <1>6, <2>1, NotElsewhere
  <2> QED BY <1>5, <1>r, <2>2
<1>18. \A u \in tids : \A q, r : Pending(u, q, r)' <=> Pending(u, q, r) /\ ~(q = q0 /\ r = r0)
  <2> TAKE u \in tids
  <2> TAKE q, r
  <2>1. CASE u # t
    <3>1. Pending(u, q, r)' <=> Pending(u, q, r)
      BY <1>2, <1>10, <1>11, <2>1, SamePending
    <3> QED BY <1>17, <2>1, <3>1
  <2>2. CASE u = t
    <3>1. Pending(t, q, r)' <=> Open(new.todo, new.at, q, r)
      <4>1. step'[t] \in {"pair", "add"}
        BY <1>11
      <4> QED BY <1>2, <1>10, <4>1, PendingInNext
    <3>2. Pending(t, q, r) <=> Open(T, cur[t].at, q, r)
      <4>1. step[t] \in {"pair", "add"}
        BY <1>2
      <4> QED BY <4>1, PendingIn DEF T
    <3> QED BY <1>15, <2>2, <3>1, <3>2
  <2> QED BY <2>1, <2>2
<1>19. \A q : Paired(q)' = Paired(q)
  BY <1>2, SamePaired
<1>20. \A q : q # q0 => Counted(q)' = Counted(q)
  BY <1>18, <1>19 DEF Counted
<1>21. Counted(q0)' = Counted(q0) \cup {r0} /\ r0 \notin Counted(q0)
  <2>1. \A r : r \in Counted(q0) <=> r \in Paired(q0) /\ \A u \in tids : ~Pending(u, q0, r)
    BY DEF Counted
  <2>2. \A r : r \in Counted(q0)' <=> r \in Paired(q0)' /\ \A u \in tids : ~Pending(u, q0, r)'
    BY DEF Counted
  <2>3. \A r : r \in Counted(q0)' <=> r \in Paired(q0) /\ \A u \in tids : ~Pending(u, q0, r) \/ r = r0
    BY <1>18, <1>19, <2>2
  <2>4. r0 \notin Counted(q0)
    BY <1>16, <2>1
  <2>5. \A r : r \in Counted(q0)' <=> r \in Counted(q0) \/ r = r0
    BY <1>9, <2>1, <2>3
  <2>6. \A r : r \in Counted(q0)' <=> r \in Counted(q0) \cup {r0}
    BY <2>5
  <2> QED BY <2>4, <2>6
<1>22. ASSUME NEW q \in Particles PROVE density'[q] = Cardinality(Counted(q)')
  <2>1. density[q] = Cardinality(Counted(q))
    BY DEF Counting
  <2>2. CASE q # q0
    BY <1>12, <1>20, <2>1, <2>2
  <2>3. CASE q = q0
    <3>1. IsFiniteSet(Counted(q0))
      BY PairedFinite, FS_Subset DEF Counted
    <3>2. Cardinality(Counted(q0) \cup {r0}) = Cardinality(Counted(q0)) + 1
      BY <1>21, <3>1, FS_AddElement
    <3>3. density'[q0] = Cardinality(Counted(q0) \cup {r0})
      BY <1>12, <2>1, <2>3, <3>2
    <3>4. density'[q0] = Cardinality(Counted(q0)')
      BY <1>21, <3>3
    <3> QED BY <2>3, <3>4
  <2> QED BY <2>2, <2>3
<1>23. Filled(pools', fresh', cells') /\ AllSettled(pos', cells')
  BY <1>2 DEF Counting
<1>24. \A u \in tids : step'[u] \in {"pair", "add"} =>
          cur'[u].todo \subseteq PairsOf(u)' /\ (cur'[u].todo = {} => cur'[u].at = 1)
  <2> TAKE u \in tids
  <2>1. CASE u = t
    <3>1. new.todo \subseteq PairsOf(t)
      BY <1>4, <1>8
    <3>2. new.todo = {} => new.at = 1
      BY <1>4, <1>7, <1>8
    <3> QED BY <1>2, <1>10, <2>1, <3>1, <3>2, SamePairs
  <2>2. CASE u # t
    BY <1>2, <1>10, <1>11, <2>2, SamePairs DEF Counting
  <2> QED BY <2>1, <2>2
<1>25. \A u \in tids : u # t => At(u)' = At(u) /\ Updated(u)' = Updated(u)
  BY <1>2, <1>10 DEF At, Pair, Updated
<1>26. \A u \in tids : step'[u] = "add" => u # t /\ step[u] = "add"
  BY <1>11
<1>27. \A u \in tids : step'[u] = "add" => Adding(u)'
  <2> SUFFICES ASSUME NEW u \in tids, step'[u] = "add" PROVE Adding(u)'
    OBVIOUS
  <2>1. u # t /\ step[u] = "add"
    BY <1>26
  <2>2. Adding(u) /\ cur[u].todo \subseteq PairsOf(u) /\ At(u) # At(t)
    BY <1>2, <2>1 DEF Counting
  <2>3. /\ At(u) = [c |-> At(u).c, i |-> At(u).i] /\ Slot(At(u).c, At(u).i, Updated(u))
        /\ Updated(u) \in Particles
    BY <1>3, <2>2, AtPlace DEF Adding
  <2>4. At(u).c # c \/ At(u).i # i
    BY <1>5, <2>2, <2>3
  <2>5. Updated(u) # q0
    BY <1>3, <1>5, <2>3, <2>4, InOne
  <2>6. density'[Updated(u)] = density[Updated(u)]
    BY <1>12, <2>3, <2>5
  <2>7. cur'[u] = cur[u] /\ At(u)' = At(u) /\ Updated(u)' = Updated(u)
    BY <1>10, <1>25, <2>1
  <2>8. border(At(u).c) => <<At(u).c, At(u).i>> \in mutex'
    <3>1. <<At(u).c, At(u).i>> # <<c, i>>
      BY <2>4
    <3> QED BY <1>13, <2>2, <3>1 DEF Adding
  <2> QED BY <2>2, <2>6, <2>7, <2>8 DEF Adding
<1>28. \A u, v \in tids : u # v /\ step'[u] = "add" /\ step'[v] = "add" => At(u)' # At(v)'
  BY <1>25, <1>26 DEF Counting
<1> QED
  BY <1>2, <1>11, <1>14, <1>22, <1>23, <1>24, <1>27, <1>28 DEF Counting

\* AllPairs.
LEMMA AllPairsStep ==
  ASSUME FluidTypeOK, Counting, NEW t \in tids, AllPairs(t)
  PROVE  FluidTypeOK' /\ (Counting' \/ Advancing') /\ loaded' = loaded
<1>1. PICK f \in Nat : Together(step, passed, cur, InDensities, "advance", 1, f)
  BY DEF Counting
<1>2. /\ step[t] = "pair" /\ cur[t].todo = {} /\ Reach(t, "advance") /\ cur' = cur
      /\ loaded' = loaded /\ pos' = pos /\ cells' = cells /\ cells2' = cells2 /\ pools' = pools
      /\ alloc' = alloc /\ fresh' = fresh /\ poolAbove' = poolAbove /\ mutex' = mutex
      /\ density' = density
  BY DEF AllPairs, poolVars
<1>3. /\ step' \in [tids -> Labels] /\ passed' \in [tids -> 0..2] /\ step'[t] = "advance"
      /\ \A u \in tids : u # t => step'[u] = step[u]
      /\ \/ Together(step', passed', cur', InDensities, "advance", 1, f)
         \/ AllAt(step', passed', cur', "advance", (1 + 1) % 3, f)
  <2>1. /\ "advance" \notin InDensities /\ step[t] \in InDensities
        /\ "advance" \in Labels /\ 1 \in 0..2 /\ \A u \in tids : cur'[u].frame = cur[u].frame
    BY <1>2 DEF InDensities, Labels
  <2> QED BY <1>1, <1>2, <2>1, Reaches
<1>4. FluidTypeOK'
  BY <1>2, <1>3 DEF FluidTypeOK
<1>5. \A u \in tids : \A q, r : Pending(u, q, r)' <=> Pending(u, q, r)
  <2> TAKE u \in tids
  <2> TAKE q, r
  <2>1. CASE u # t
    BY <1>2, <1>3, <2>1, SamePending
  <2>2. CASE u = t
    <3>1. ~Pending(t, q, r)'
      <4>1. step'[t] # "densities" /\ step'[t] \notin {"pair", "add"}
        BY <1>3
      <4> QED BY <4>1 DEF Pending
    <3>2. ~Pending(t, q, r)
      <4>1. step[t] # "densities"
        BY <1>2
      <4> QED BY <1>2, <4>1 DEF Pending
    <3> QED BY <2>2, <3>1, <3>2
  <2> QED BY <2>1, <2>2
<1>6. \A q : Paired(q)' = Paired(q)
  BY <1>2, SamePaired
<1>7. \A q : Counted(q)' = Counted(q)
  BY <1>5, <1>6 DEF Counted
<1>8. Filled(pools', fresh', cells') /\ AllSettled(pos', cells')
  BY <1>2 DEF Counting
<1>9. \A q \in Particles : density'[q] = Cardinality(Counted(q)')
  BY <1>2, <1>7 DEF Counting
<1>10. CASE Together(step', passed', cur', InDensities, "advance", 1, f)
  <2>1. \A u \in tids : step'[u] \in {"pair", "add"} => step[u] = step'[u]
    BY <1>3
  <2>2. \A u \in tids : step'[u] \in {"pair", "add"} =>
          cur'[u].todo \subseteq PairsOf(u)' /\ (cur'[u].todo = {} => cur'[u].at = 1)
    BY <1>2, <2>1, SamePairs DEF Counting
  <2>3. \A u \in tids : At(u)' = At(u) /\ Updated(u)' = Updated(u)
    BY <1>2 DEF At, Pair, Updated
  <2>4. \A u \in tids : Adding(u) => Adding(u)'
    BY <1>2, <2>3 DEF Adding
  <2>5. \A u \in tids : step'[u] = "add" => step[u] = "add"
    BY <1>3
  <2>6. \A u \in tids : step'[u] = "add" => Adding(u)'
    BY <2>4, <2>5 DEF Counting
  <2>7. \A u, v \in tids : u # v /\ step'[u] = "add" /\ step'[v] = "add" => At(u)' # At(v)'
    BY <2>3, <2>5 DEF Counting
  <2> QED BY <1>2, <1>4, <1>8, <1>9, <1>10, <2>2, <2>6, <2>7 DEF Counting
<1>11. CASE AllAt(step', passed', cur', "advance", (1 + 1) % 3, f)
  <2>1. AllAt(step', passed', cur', "advance", 2, f)
    <3>1. (1 + 1) % 3 = 2
      OBVIOUS
    <3> QED BY <1>11, <3>1
  <2>2. \A u \in tids : \A q, r : ~Pending(u, q, r)'
    <3>1. \A u \in tids : step'[u] # "densities" /\ step'[u] \notin {"pair", "add"}
      BY <2>1 DEF AllAt
    <3> QED BY <3>1 DEF Pending
  <2>3. \A q : Counted(q)' = Paired(q)'
    BY <2>2 DEF Counted
  <2>4. \A q \in Particles : density'[q] = Cardinality(Paired(q)')
    BY <1>9, <2>3
  <2>5. (/\ FluidTypeOK
         /\ \E g : AllAt(step, passed, cur, "advance", 2, g)
         /\ Filled(pools, fresh, cells) /\ AllSettled(pos, cells)
         /\ \A q \in Particles : density[q] = Cardinality(Paired(q))
         => Advancing)'
    BY AdvanceBegins, PTL
  <2> QED BY <1>2, <1>4, <1>8, <2>1, <2>4, <2>5
<1> QED
  BY <1>3, <1>10, <1>11

\* ComputeDensitiesMT.
LEMMA CountStep ==
  ASSUME FluidTypeOK, Counting, NEW t \in tids, AdvanceFrameMT(t)
  PROVE  FluidTypeOK' /\ (Counting' \/ Advancing') /\ loaded' = loaded
<1>1. PICK f \in Nat : Together(step, passed, cur, InDensities, "advance", 1, f)
  BY DEF Counting
<1>2. step[t] \in InDensities
  <2>1. step[t] \in InDensities \/ step[t] = "advance"
    BY <1>1 DEF Together
  <2>2. CASE step[t] = "advance"
    <3>1. Passed(t)
      BY <2>2, ByLabel
    <3>2. "advance" \notin InDensities /\ 1 \in 0..2
      BY DEF InDensities
    <3> QED BY <1>1, <3>1, <3>2, Waiting
  <2> QED BY <2>1, <2>2
<1>3. CASE step[t] = "densities"
  BY <1>3, ByLabel, FindPairsStep
<1>4. CASE step[t] = "pair"
  <2>1. ReadDensity(t) \/ AllPairs(t)
    BY <1>4, ByLabel
  <2> QED BY <2>1, ReadDensityStep, AllPairsStep
<1>5. CASE step[t] = "add"
  BY <1>5, ByLabel, WriteDensityStep
<1> QED
  BY <1>2, <1>3, <1>4, <1>5 DEF InDensities

-----------------------------------------------------------------------------
(* The densities are set to zero. *)
LEMMA InitStep ==
  ASSUME FluidTypeOK, Initialising, NEW t \in tids, AdvanceFrameMT(t)
  PROVE  FluidTypeOK' /\ (Initialising' \/ Counting') /\ loaded' = loaded
<1>1. PICK f \in Nat : Together(step, passed, cur, {"init"}, "densities", 0, f)
  BY DEF Initialising
<1>2. "densities" \notin {"init"} /\ 0 \in 0..2 /\ "densities" \in Labels
  BY DEF Labels
<1>3. step[t] = "init" /\ InitDensitiesAndForcesMT(t)
  <2>1. step[t] = "init" \/ step[t] = "densities"
    BY <1>1 DEF Together
  <2>2. Passed(t)
    BY <2>1, ByLabel
  <2>3. step[t] \in {"init"}
    BY <1>1, <1>2, <2>2, Waiting
  <2> QED BY <2>3, ByLabel
<1>4. /\ Reach(t, "densities") /\ cur' = cur
      /\ density' = [q \in Particles |-> IF \E c \in grid(t) : Holds(c, q) THEN 0 ELSE density[q]]
      /\ loaded' = loaded /\ pos' = pos /\ cells' = cells /\ cells2' = cells2 /\ pools' = pools
      /\ alloc' = alloc /\ fresh' = fresh /\ poolAbove' = poolAbove /\ mutex' = mutex
  BY <1>3 DEF InitDensitiesAndForcesMT, poolVars
<1>5. /\ step' \in [tids -> Labels] /\ passed' \in [tids -> 0..2] /\ step'[t] = "densities"
      /\ \A u \in tids : u # t => step'[u] = step[u]
      /\ \/ Together(step', passed', cur', {"init"}, "densities", 0, f)
         \/ AllAt(step', passed', cur', "densities", (0 + 1) % 3, f)
  <2>1. step[t] \in {"init"} /\ Reach(t, "densities") /\ \A u \in tids : cur'[u].frame = cur[u].frame
    BY <1>3, <1>4
  <2> QED BY <1>1, <1>2, <2>1, Reaches
<1>6. FluidTypeOK'
  <2>1. density' \in [Particles -> Int]
    BY <1>4 DEF FluidTypeOK
  <2> QED BY <1>4, <1>5, <2>1 DEF FluidTypeOK
<1>7. Filled(pools', fresh', cells') /\ AllSettled(pos', cells')
  BY <1>4 DEF Initialising
<1>8. InCells
  BY DEF InCells, Initialising, Filled, FluidTypeOK
<1>9. ASSUME NEW u \in tids, step'[u] = "densities", NEW q \in Particles, pos[q] \in grid(u)
      PROVE  density'[q] = 0
  <2>1. CASE u = t
    <3>1. PICK j \in 1..Len(cells[pos[q]].p) : Once(cells, q, pos[q], j)
      BY <1>8, Found
    <3>2. pos[q] \in cellIds
      BY <1>8 DEF InCells
    <3>3. DOMAIN cells[pos[q]].p = 1..Len(cells[pos[q]].p)
      BY <3>2 DEF FluidTypeOK, Cells
    <3>4. cells[pos[q]].p[j] = q
      BY <3>1, <3>2 DEF Once
    <3>5. Holds(pos[q], q)
      BY <3>3, <3>4 DEF Holds
    <3> QED BY <1>4, <1>9, <2>1, <3>5
  <2>2. CASE u # t
    <3>1. density[q] = 0
      BY <1>5, <1>9, <2>2 DEF Initialising
    <3> QED BY <1>4, <3>1
  <2> QED BY <2>1, <2>2
<1>10. CASE Together(step', passed', cur', {"init"}, "densities", 0, f)
  BY <1>4, <1>6, <1>7, <1>9, <1>10 DEF Initialising
<1>11. CASE AllAt(step', passed', cur', "densities", (0 + 1) % 3, f)
  <2>1. AllAt(step', passed', cur', "densities", 1, f)
    <3>1. (0 + 1) % 3 = 1
      OBVIOUS
    <3> QED BY <1>11, <3>1
  <2>2. \A q \in Particles : density'[q] = 0
    <3> TAKE q \in Particles
    <3>1. PICK u \in tids : pos[q] \in grid(u)
      BY <1>8, Blocks DEF InCells
    <3>2. step'[u] = "densities"
      BY <2>1 DEF AllAt
    <3> QED BY <1>9, <3>1, <3>2
  <2>3. (/\ FluidTypeOK
         /\ \E g : AllAt(step, passed, cur, "densities", 1, g)
         /\ Filled(pools, fresh, cells) /\ AllSettled(pos, cells)
         /\ \A q \in Particles : density[q] = 0
         => Counting)'
    BY CountBegins, PTL
  <2> QED BY <1>4, <1>6, <1>7, <2>1, <2>2, <2>3
<1> QED
  BY <1>5, <1>10, <1>11

-----------------------------------------------------------------------------
(* The particles move. *)
LEMMA AdvanceStep ==
  ASSUME FluidTypeOK, Advancing, NEW t \in tids, AdvanceFrameMT(t)
  PROVE  FluidTypeOK' /\ (Advancing' \/ Swapping' \/ Finished') /\ loaded' = loaded
<1> DEFINE Next(f) == IF f < Frames THEN "swap" ELSE "done"
<1>1. PICK f \in Nat :
        /\ \E u \in tids : step[u] = "advance"
        /\ \A u \in tids :
             \/ step[u] = "advance" /\ cur[u].frame = f /\ passed[u] = 2
             \/ step[u] = Next(f) /\ cur[u].frame = f + 1 /\ passed[u] = 0
  BY DEF Advancing
<1>2. Next(f) \in {"swap", "done"}
  OBVIOUS
<1> HIDE DEF Next
<1>3. step[t] = "advance" /\ AdvanceParticlesMT(t) /\ cur[t].frame = f /\ passed[t] = 2
  <2>1. step[t] \in {"advance", "swap", "done"}
    BY <1>1, <1>2
  <2>2. step[t] = "advance" \/ step[t] = "swap"
    BY <2>1, ByLabel
  <2>3. Passed(t)
    BY <2>2, ByLabel
  <2>4. ASSUME passed[t] = 0 PROVE FALSE
    <3>1. PICK u \in tids : step[u] = "advance"
      BY <1>1
    <3>2. passed[u] = 2
      BY <1>1, <1>2, <3>1
    <3>3. (0 + 2) % 3 = 2
      OBVIOUS
    <3> QED BY <2>3, <2>4, <3>2, <3>3 DEF Passed
  <2>5. step[t] = "advance" /\ cur[t].frame = f /\ passed[t] = 2
    BY <1>1, <2>4
  <2> QED BY <2>5, ByLabel
<1> DEFINE mine == {q \in Particles : \E c \in grid(t) : Holds(c, q)}
           new == [cur[t] EXCEPT !.frame = cur[t].frame + 1]
<1>4. /\ Reach(t, Next(f)) /\ cur' = [cur EXCEPT ![t] = new]
      /\ loaded' = loaded /\ cells' = cells /\ cells2' = cells2 /\ pools' = pools
      /\ alloc' = alloc /\ fresh' = fresh /\ poolAbove' = poolAbove /\ mutex' = mutex
      /\ density' = density
  BY <1>3 DEF AdvanceParticlesMT, poolVars, Next
<1>5. PICK to \in [mine -> cellIds] :
        /\ \A q \in mine : to[q] \in Neighbours(pos[q])
        /\ pos' = [q \in Particles |-> IF q \in mine THEN to[q] ELSE pos[q]]
  BY <1>3 DEF AdvanceParticlesMT
<1>6. pos' \in [Particles -> cellIds]
  <2> HIDE DEF mine
  <2> QED BY <1>5 DEF FluidTypeOK
<1>7. new \in Locals /\ new.frame = f + 1
  <2>1. cur[t] \in Locals
    BY DEF FluidTypeOK
  <2> QED BY <1>3, <2>1 DEF Locals
<1> HIDE DEF new
<1>8. /\ cur' \in [tids -> Locals] /\ cur'[t] = new
      /\ \A u \in tids : u # t => cur'[u] = cur[u]
  BY <1>4, <1>7 DEF FluidTypeOK
<1>9. /\ step' \in [tids -> Labels] /\ passed' \in [tids -> 0..2]
      /\ step'[t] = Next(f) /\ passed'[t] = 0
      /\ \A u \in tids : u # t => step'[u] = step[u] /\ passed'[u] = passed[u]
  <2>1. Next(f) \in Labels /\ (2 + 1) % 3 = 0
    BY <1>2 DEF Labels
  <2> QED BY <1>3, <1>4, <2>1, GoesOn
<1>10. FluidTypeOK'
  BY <1>4, <1>6, <1>8, <1>9 DEF FluidTypeOK
<1>11. Full(cells, Particles) /\ Filled(pools', fresh', cells')
  BY <1>4 DEF Advancing, Filled
<1>12. ASSUME NEW c \in cellIds, NEW j \in 1..Len(cells[c].p)
       PROVE  /\ c \in grid(t) => pos'[cells[c].p[j]] \in Neighbours(c)
              /\ c \notin grid(t) => pos'[cells[c].p[j]] = pos[cells[c].p[j]]
  <2>1. cells[c].p[j] \in Particles
    BY <1>11 DEF Full
  <2>2. \A d \in cellIds : DOMAIN cells[d].p = 1..Len(cells[d].p)
    BY DEF FluidTypeOK, Cells
  <2>3. CASE c \in grid(t)
    <3>1. Holds(c, cells[c].p[j])
      BY <2>2 DEF Holds
    <3>2. cells[c].p[j] \in mine
      BY <2>1, <2>3, <3>1
    <3>3. pos[cells[c].p[j]] = c
      BY <1>3, <2>3 DEF Advancing, Settled
    <3> QED BY <1>5, <2>1, <2>3, <3>2, <3>3
  <2>4. CASE c \notin grid(t)
    <3>1. cells[c].p[j] \notin mine
      <4> SUFFICES ASSUME NEW d \in grid(t), Holds(d, cells[c].p[j]) PROVE FALSE
        OBVIOUS
      <4>1. d \in cellIds
        BY Blocks
      <4>2. PICK k \in 1..Len(cells[d].p) : cells[d].p[k] = cells[c].p[j]
        BY <2>2, <4>1 DEF Holds
      <4>3. c = d
        BY <1>11, <4>1, <4>2, StoredOnce
      <4> QED BY <2>4, <4>3
    <3> QED BY <1>5, <2>1, <2>4, <3>1
  <2> QED BY <2>3, <2>4
<1>13. Moved(pos', cells')
  <2>1. ASSUME NEW c \in cellIds, NEW j \in 1..Len(cells[c].p)
        PROVE  pos'[cells[c].p[j]] \in Neighbours(c)
    <3>1. pos[cells[c].p[j]] \in Neighbours(c)
      BY DEF Advancing, Moved
    <3> QED BY <1>12, <3>1
  <2> QED BY <1>4, <2>1 DEF Moved
<1>14. ASSUME NEW u \in tids, u # t, step[u] = "advance" PROVE Settled(pos', cells', u)
  <2>1. ASSUME NEW c \in grid(u), NEW j \in 1..Len(cells[c].p)
        PROVE  pos'[cells[c].p[j]] = c
    <3>1. c \in cellIds /\ c \notin grid(t)
      BY <1>14, Blocks
    <3>2. pos[cells[c].p[j]] = c
      BY <1>14 DEF Advancing, Settled
    <3> QED BY <1>12, <3>1, <3>2
  <2> QED BY <1>4, <2>1 DEF Settled
<1>15. CASE \E u \in tids : u # t /\ step[u] = "advance"
  <2>1. \E u \in tids : step'[u] = "advance"
    BY <1>9, <1>15
  <2>2. \A u \in tids :
             \/ step'[u] = "advance" /\ cur'[u].frame = f /\ passed'[u] = 2
             \/ step'[u] = Next(f) /\ cur'[u].frame = f + 1 /\ passed'[u] = 0
    BY <1>1, <1>7, <1>8, <1>9
  <2>3. step'[t] # "advance"
    BY <1>2, <1>9
  <2>4. \A u \in tids : step'[u] = "advance" => Settled(pos', cells', u)
    BY <1>9, <1>14, <2>3
  <2> QED BY <1>4, <1>10, <1>11, <1>13, <2>1, <2>2, <2>3, <2>4 DEF Advancing, Next
<1>16. CASE \A u \in tids : u # t => step[u] # "advance"
  <2>1. AllAt(step', passed', cur', Next(f), 0, f + 1)
    BY <1>1, <1>7, <1>8, <1>9, <1>16 DEF AllAt
  <2>2. CASE Next(f) = "swap"
    <3>1. Together(step', passed', cur', {"swap"}, "clear", 0, f + 1)
      BY <2>1, <2>2, Begins
    <3>2. step'[0] = "swap" /\ f + 1 \in Nat
      BY <2>1, <2>2, Finiteness DEF AllAt
    <3> QED BY <1>4, <1>10, <1>11, <1>13, <3>1, <3>2 DEF Swapping
  <2>3. CASE Next(f) = "done"
    BY <1>4, <1>10, <2>1, <2>3 DEF AllAt, Finished
  <2> QED BY <1>2, <2>2, <2>3
<1> QED
  BY <1>15, <1>16

-----------------------------------------------------------------------------
(* Loading. *)
\* The cell st is cell with q in slot j.
HasStored(st, cell, j, q) ==
  /\ st \in Cells /\ st.n = cell.n /\ st.chain = cell.chain
  /\ j < Len(cell.p) => Len(st.p) = Len(cell.p)
  /\ j >= Len(cell.p) => Len(st.p) = j + 1
  /\ \A i \in 1..Len(st.p) :
        st.p[i] = IF i = j + 1 THEN q ELSE IF i <= Len(cell.p) THEN cell.p[i] ELSE NoParticle

\* What is in a cell after a particle has been stored in a slot.
LEMMA StoredCell ==
  ASSUME NEW cell \in Cells, NEW j \in Nat, NEW q \in Particles \cup {NoParticle}
  PROVE  HasStored(Stored(cell, j, q), cell, j, q)
<1> DEFINE n == IF j < Len(cell.p) THEN Len(cell.p) ELSE j + 1
           p == [i \in 1..n |-> IF i = j + 1 THEN q ELSE IF i <= Len(cell.p) THEN cell.p[i] ELSE NoParticle]
<1>1. cell.n \in Nat /\ cell.p \in Seq(Particles \cup {NoParticle}) /\ cell.chain \in Seq(Nat)
      /\ Len(cell.p) \in Nat
  BY DEF Cells
<1>2. n \in Nat
  BY <1>1
<1>3. \A i \in 1..n : p[i] \in Particles \cup {NoParticle}
  BY <1>1
<1>4. p \in Seq(Particles \cup {NoParticle}) /\ Len(p) = n
  <2> HIDE DEF n
  <2>1. p \in [1..n -> Particles \cup {NoParticle}]
    BY <1>3
  <2> HIDE DEF p
  <2> QED BY <1>2, <2>1
<1>5. Stored(cell, j, q) = [cell EXCEPT !.p = p]
  BY DEF Stored
<1>6. /\ [cell EXCEPT !.p = p] = [n |-> cell.n, p |-> p, chain |-> cell.chain]
  <2> HIDE DEF p
  <2> QED BY DEF Cells
<1> HIDE DEF p
<1>7. Stored(cell, j, q) \in Cells /\ Stored(cell, j, q).p = p
      /\ Stored(cell, j, q).n = cell.n /\ Stored(cell, j, q).chain = cell.chain
  BY <1>1, <1>4, <1>5, <1>6 DEF Cells
<1>8. j < Len(cell.p) => n = Len(cell.p)
  BY <1>1
<1>9. j >= Len(cell.p) => n = j + 1
  BY <1>1
<1> QED
  BY <1>4, <1>7, <1>8, <1>9 DEF p, HasStored

\* One more particle, behind the others.
Added(cs, ds, c, q) ==
  /\ c \in cellIds /\ \A d \in cellIds : d # c => ds[d] = cs[d]
  /\ ds[c].n = Len(ds[c].p) /\ Len(ds[c].chain) = Structures(ds[c].n)
  /\ Len(ds[c].p) = Len(cs[c].p) + 1 /\ ds[c].p[Len(cs[c].p) + 1] = q
  /\ \A i \in 1..Len(cs[c].p) : ds[c].p[i] = cs[c].p[i]

\* One more particle is stored, the others where they were.
LEMMA FullAdded ==
  ASSUME NEW cs \in [cellIds -> Cells], NEW ds, NEW Q, Full(cs, Q), NEW q, q \notin Q,
         NEW c, Added(cs, ds, c, q)
  PROVE  /\ Full(ds, Q \cup {q})
         /\ \A d \in cellIds : \A k \in 1..Len(ds[d].p) :
              \/ d = c /\ ds[d].p[k] = q
              \/ k \in 1..Len(cs[d].p) /\ ds[d].p[k] = cs[d].p[k] /\ cs[d].p[k] \in Q
<1> DEFINE m == Len(cs[c].p) + 1
<1>1. c \in cellIds /\ \A d \in cellIds : Len(cs[d].p) \in Nat
  BY DEF Added, Cells
<1>2. m \in Nat
  BY <1>1
<1>3. \A d \in cellIds : d # c => ds[d] = cs[d]
  BY DEF Added
<1>4. Len(ds[c].p) = m /\ ds[c].p[m] = q /\ \A i \in 1..(m - 1) : ds[c].p[i] = cs[c].p[i]
  <2>1. m - 1 = Len(cs[c].p)
    BY <1>1
  <2> QED BY <2>1 DEF Added
<1>5. Len(cs[c].p) = m - 1
  BY <1>1
<1> HIDE DEF m
<1>6. ASSUME NEW d \in cellIds, NEW k \in 1..Len(ds[d].p)
      PROVE  \/ d = c /\ k = m /\ ds[d].p[k] = q
             \/ /\ ~(d = c /\ k = m) /\ k \in 1..Len(cs[d].p)
                /\ ds[d].p[k] = cs[d].p[k] /\ cs[d].p[k] \in Q
  <2>1. CASE d # c
    BY <1>3, <2>1 DEF Full
  <2>2. CASE d = c /\ k = m
    BY <1>4, <2>2
  <2>3. CASE d = c /\ k # m
    <3>1. k \in 1..(m - 1)
      BY <1>2, <1>4, <2>3
    <3> QED BY <1>4, <1>5, <2>3, <3>1 DEF Full
  <2> QED BY <2>1, <2>2, <2>3
<1>7. ASSUME NEW x \in Q PROVE \E d \in cellIds : \E k \in 1..Len(ds[d].p) : Once(ds, x, d, k)
  <2>1. PICK d \in cellIds : \E k \in 1..Len(cs[d].p) : Once(cs, x, d, k)
    BY DEF Full
  <2>2. PICK k \in 1..Len(cs[d].p) : Once(cs, x, d, k)
    BY <2>1
  <2>3. k \in 1..Len(ds[d].p) /\ ds[d].p[k] = cs[d].p[k]
    <3>1. CASE d # c
      BY <1>3, <3>1
    <3>2. CASE d = c
      BY <1>2, <1>4, <1>5, <3>2
    <3> QED BY <3>1, <3>2
  <2>4. ASSUME NEW e \in cellIds, NEW l \in 1..Len(ds[e].p)
        PROVE  ds[e].p[l] = x <=> e = d /\ l = k
    <3>1. CASE e = c /\ l = m /\ ds[e].p[l] = q
      <4>1. ds[e].p[l] # x
        BY <3>1
      <4>2. ~(e = d /\ l = k)
        BY <1>2, <1>5, <3>1
      <4> QED BY <4>1, <4>2
    <3>2. CASE l \in 1..Len(cs[e].p) /\ ds[e].p[l] = cs[e].p[l]
      BY <2>2, <3>2 DEF Once
    <3> QED BY <1>6, <3>1, <3>2
  <2> QED BY <2>3, <2>4 DEF Once
<1>8. \E d \in cellIds : \E k \in 1..Len(ds[d].p) : Once(ds, q, d, k)
  <2>1. m \in 1..Len(ds[c].p)
    BY <1>1, <1>2, <1>4, <1>5
  <2>2. \A e \in cellIds : \A l \in 1..Len(ds[e].p) : ds[e].p[l] = q <=> e = c /\ l = m
    BY <1>4, <1>6
  <2>3. Once(ds, q, c, m)
    BY <1>1, <2>1, <2>2 DEF Once
  <2> QED BY <1>1, <2>1, <2>3
<1>9. \A d \in cellIds : /\ ds[d].n = Len(ds[d].p) /\ Len(ds[d].chain) = Structures(ds[d].n)
                         /\ \A k \in 1..Len(ds[d].p) : ds[d].p[k] \in Q \cup {q}
  <2> TAKE d \in cellIds
  <2>1. ds[d].n = Len(ds[d].p) /\ Len(ds[d].chain) = Structures(ds[d].n)
    <3>1. CASE d = c
      BY <3>1 DEF Added
    <3>2. CASE d # c
      BY <1>3, <3>2 DEF Full
    <3> QED BY <3>1, <3>2
  <2>2. \A k \in 1..Len(ds[d].p) : ds[d].p[k] \in Q \cup {q}
    BY <1>6
  <2> QED BY <2>1, <2>2
<1> QED
  BY <1>6, <1>7, <1>8, <1>9 DEF Full

\* The pools hold the structures from 1 on, one after the other.
LEMMA FirstPools ==
  ASSUME NEW ps, ps = [t \in tids |-> [i \in 1..PoolCells |-> PoolCells * t + i]]
  PROVE  /\ ps \in [tids -> Seq(Nat)] /\ PoolCells * Cardinality(tids) + 1 \in Nat \ {0}
         /\ \A s \in Nat : Pools(ps, s) = Known(PoolCells * Cardinality(tids) + 1, s)
<1> DEFINE M == PoolCells
           T == XDIVS * ZDIVS
<1>1. M \in Nat \ {0} /\ T \in Nat \ {0} /\ tids = 0..(T - 1)
  BY Numbers DEF tids
<1>2. Cardinality(tids) = T
  <2>1. 0 \in Int /\ T - 1 \in Int
    BY <1>1
  <2>2. Cardinality(tids) = IF 0 > T - 1 THEN 0 ELSE (T - 1) - 0 + 1
    BY <1>1, <2>1, FS_Interval
  <2> HIDE DEF T
  <2> QED BY <1>1, <2>2
<1> DEFINE row(t) == [i \in 1..M |-> M * t + i]
<1>3. ps = [t \in tids |-> row(t)]
  OBVIOUS
<1> HIDE DEF M, T
<1>4. ASSUME NEW t \in tids PROVE M * t \in Nat /\ InRow(row(t), M, M * t)
  <2>1. M * t \in Nat
    BY <1>1
  <2>2. row(t) \in [1..M -> Nat]
    BY <1>1, <2>1
  <2>3. row(t) \in Seq(Nat) /\ Len(row(t)) = M
    BY <1>1, <2>2
  <2>4. \A i \in 1..M : row(t)[i] = M * t + i
    OBVIOUS
  <2> HIDE DEF row
  <2> QED BY <2>1, <2>3, <2>4 DEF InRow
<1> HIDE DEF row
<1>5. ps \in [tids -> Seq(Nat)] /\ \A t \in tids : ps[t] = row(t)
  BY <1>3, <1>4 DEF InRow
<1>6. M * T \in Nat
  BY <1>1
<1>7. ASSUME NEW s \in Nat PROVE Pools(ps, s) = Known(M * T + 1, s)
  <2> DEFINE g == [t \in tids |-> Occurrences(ps[t], s)]
  <2>1. \A t \in tids : g[t] = IF s \in (M * t + 1)..(M * t + M) THEN 1 ELSE 0
    <3> TAKE t \in tids
    <3>1. M \in Nat /\ M * t \in Nat /\ InRow(ps[t], M, M * t)
      BY <1>1, <1>4, <1>5
    <3>2. Occurrences(ps[t], s) = IF s \in (M * t + 1)..(M * t + M) THEN 1 ELSE 0
      BY <3>1, OccurrencesRow
    <3> QED BY <3>2
  <2> HIDE DEF g
  <2>2. Pools(ps, s) = SumFunctionOnSet(g, tids)
    BY DEF Pools, g
  <2>3. CASE s \in 1..(M * T)
    <3> DEFINE x == s - 1
               t == x \div M
               r == x % M
    <3>1. x \in 0..(T * M - 1)
      <4>1. T * M = M * T
        BY <1>1
      <4> QED BY <1>6, <2>3, <4>1
    <3>2. t \in 0..(T - 1) /\ r \in 0..(M - 1) /\ x = t * M + r
      <4> HIDE DEF x
      <4> QED BY <1>1, <3>1, Coordinates
    <3> HIDE DEF t, r
    <3>3. t \in tids /\ t \in Nat /\ r \in 0..(M - 1) /\ s = M * t + (r + 1)
      <4>1. t * M = M * t /\ M * t \in Int
        BY <1>1, <3>2
      <4> QED BY <1>1, <3>2, <4>1
    <3>4. g[t] = 1
      <4>1. M * t \in Int
        BY <1>1, <3>3
      <4>2. s \in (M * t + 1)..(M * t + M)
        <5> HIDE DEF x
        <5> QED BY <1>1, <3>3, <4>1
      <4> QED BY <2>1, <3>3, <4>2
    <3>5. ASSUME NEW u \in tids, u # t PROVE g[u] = 0
      <4>1. s \notin (M * u + 1)..(M * u + M)
        <5> SUFFICES ASSUME s \in (M * u + 1)..(M * u + M) PROVE FALSE
          OBVIOUS
        <5>1. u \in Nat /\ M * u \in Int /\ M * t \in Int
          BY <1>1, <3>3
        <5>2. PICK v \in 0..(M - 1) : s - 1 = M * u + v
          <6>1. s - 1 = M * u + (s - 1 - M * u) /\ s - 1 - M * u \in 0..(M - 1)
            BY <1>1, <5>1
          <6> QED BY <6>1
        <5>3. s - 1 = M * t + r
          BY <1>1, <3>3, <5>1
        <5>4. s - 1 \in Int
          OBVIOUS
        <5>5. (s - 1) \div M = u
          <6>1. u \in Int /\ v \in 0..(M - 1) /\ s - 1 \in Int /\ M \in Nat \ {0}
            BY <1>1, <5>1, <5>4
          <6>2. s - 1 = M * u + v
            BY <5>2
          <6> QED BY <6>1, <6>2, DivideUnique
        <5>6. (s - 1) \div M = t
          BY <1>1, <3>3, <5>3, <5>4, DivideUnique
        <5> QED BY <3>5, <5>5, <5>6
      <4> QED BY <2>1, <4>1
    <3>6. SumFunctionOnSet(g, tids) = g[t]
      <4>1. g[t] \in Int
        BY <3>4
      <4> QED BY <3>3, <3>5, <4>1, Finiteness, SumSingle
    <3> QED BY <1>6, <2>2, <2>3, <3>4, <3>6 DEF Known
  <2>4. CASE s \notin 1..(M * T)
    <3>1. ASSUME NEW t \in tids PROVE g[t] = 0
      <4>1. s \notin (M * t + 1)..(M * t + M)
        <5>1. M * t \in Nat /\ M * t + M <= M * T
          <6>1. PICK k \in Nat : T = t + 1 + k
            <7>1. T - (t + 1) \in Nat /\ T = t + 1 + (T - (t + 1))
              BY <1>1
            <7> QED BY <7>1
          <6>2. M * T = M * t + M + M * k /\ M * k \in Nat /\ M * t \in Nat
            BY <1>1, <6>1
          <6> QED BY <1>1, <6>2
        <5> QED BY <1>1, <1>6, <2>4, <5>1
      <4> QED BY <2>1, <4>1
    <3>2. SumFunctionOnSet(g, tids) = 0
      BY <3>1, Finiteness, SumZero
    <3> QED BY <1>6, <2>2, <2>4, <3>2 DEF Known
  <2> QED BY <2>3, <2>4
<1>8. M * T + 1 \in Nat \ {0}
  BY <1>6
<1> QED
  BY <1>2, <1>5, <1>7, <1>8 DEF M

\* The initial states.
LEMMA BeginsLoading == fluidInit => FluidInv
<1> SUFFICES ASSUME fluidInit PROVE FluidInv
  OBVIOUS
<1>1. /\ loaded = 0 /\ pos = [q \in Particles |-> 0]
      /\ cells = [c \in cellIds |-> emptyCell] /\ cells2 = [c \in cellIds |-> emptyCell]
      /\ pools = [t \in tids |-> [i \in 1..PoolCells |-> PoolCells * t + i]]
      /\ alloc = [t \in tids |-> PoolCells] /\ fresh = PoolCells * Cardinality(tids) + 1
      /\ poolAbove \in BOOLEAN /\ mutex = {} /\ density = [q \in Particles |-> 0]
      /\ step = [t \in tids |-> "load"] /\ passed = [t \in tids |-> 0]
      /\ cur = [t \in tids |-> [frame |-> 1, c |-> 1, j |-> 0, np |-> 0, at |-> 1,
                                todo |-> {}, reg |-> 0]]
  BY DEF fluidInit
<1>2. /\ pools \in [tids -> Seq(Nat)] /\ fresh \in Nat \ {0}
      /\ \A s \in Nat : Pools(pools, s) = Known(fresh, s)
  BY <1>1, FirstPools
<1>3. numParticles \in Nat /\ PoolCells \in Nat \ {0} /\ 0 \in cellIds
  BY Numbers, Finiteness
<1>4. FluidTypeOK
  <2>1. [frame |-> 1, c |-> 1, j |-> 0, np |-> 0, at |-> 1, todo |-> {}, reg |-> 0] \in Locals
    BY DEF Locals
  <2>2. step \in [tids -> Labels]
    BY <1>1 DEF Labels
  <2> QED BY <1>1, <1>2, <1>3, <2>1, <2>2, EmptyCell DEF FluidTypeOK
<1>5. \A c \in cellIds : cells[c] = emptyCell
  BY <1>1
<1>6. Full(cells, 1..loaded)
  <2>1. 1..loaded = {}
    BY <1>1
  <2>2. Len(emptyCell.p) = 0 /\ Len(emptyCell.chain) = 0
    BY EmptyCell
  <2> QED BY <1>5, <2>1, <2>2, EmptyCell DEF Full
<1>7. AllSettled(pos, cells)
  <2>1. \A c \in cellIds : 1..Len(cells[c].p) = {}
    <3>1. Len(emptyCell.p) = 0
      BY EmptyCell
    <3> QED BY <1>5, <3>1
  <2> QED BY <2>1, Blocks DEF AllSettled, Settled
<1>8. Conserved(pools, fresh, cells)
  <2>1. ASSUME NEW s \in Nat PROVE Pools(pools, s) + InChains(cells, s) = Known(fresh, s)
    <3>1. InChains(cells, s) = 0
      <4> DEFINE g == [c \in cellIds |-> Occurrences(cells[c].chain, s)]
      <4>1. \A c \in cellIds : g[c] = 0
        BY <1>5, EmptyCell, OccurrencesNone
      <4> HIDE DEF g
      <4>2. SumFunctionOnSet(g, cellIds) = 0
        BY <4>1, Finiteness, SumZero
      <4> QED BY <4>2 DEF g, InChains
    <3>2. Pools(pools, s) = Known(fresh, s)
      BY <1>2
    <3>3. Known(fresh, s) \in Int
      BY DEF Known
    <3> QED BY <3>1, <3>2, <3>3
  <2> QED BY <2>1 DEF Conserved
<1>9. loaded < numParticles \/ numParticles = 0
  BY <1>1, <1>3
<1>10. \A t \in tids : step[t] = "load" /\ passed[t] = 0 /\ cur[t].frame = 1
  BY <1>1
<1> QED
  BY <1>4, <1>6, <1>7, <1>8, <1>9, <1>10 DEF FluidInv, Loading

\* Another particle is stored in the cell c, with a structure if need be.
Gains(cs, ds, c, q, s, more) ==
  /\ c \in cellIds
  /\ ds = [cs EXCEPT ![c] =
             IF more THEN [Stored(cs[c], cs[c].n, q) EXCEPT !.chain = Append(@, s), !.n = @ + 1]
                     ELSE [Stored(cs[c], cs[c].n, q) EXCEPT !.n = @ + 1]]
  /\ more = NeedsStructure(cs[c].n)
  /\ more => s \in Nat

\* A cell with one more particle, with and without another structure.
LEMMA CellGrows ==
  ASSUME NEW cell \in Cells, NEW s
  PROVE  /\ [cell EXCEPT !.chain = Append(@, s), !.n = @ + 1]
              = [n |-> cell.n + 1, p |-> cell.p, chain |-> Append(cell.chain, s)]
         /\ [cell EXCEPT !.n = @ + 1] = [n |-> cell.n + 1, p |-> cell.p, chain |-> cell.chain]
<1> DEFINE w == Append(cell.chain, s)
           v == cell.n + 1
<1>1. [cell EXCEPT !.chain = Append(@, s), !.n = @ + 1] = [cell EXCEPT !.chain = w, !.n = v]
  BY DEF Cells
<1>2. [cell EXCEPT !.n = @ + 1] = [n |-> v, p |-> cell.p, chain |-> cell.chain]
  BY DEF Cells
<1> HIDE DEF v, w
<1>3. [cell EXCEPT !.chain = w, !.n = v] = [[cell EXCEPT !.chain = w] EXCEPT !.n = v]
  OBVIOUS
<1>4. [cell EXCEPT !.chain = w] = [n |-> cell.n, p |-> cell.p, chain |-> w]
  BY DEF Cells
<1>5. [[n |-> cell.n, p |-> cell.p, chain |-> w] EXCEPT !.n = v] = [n |-> v, p |-> cell.p, chain |-> w]
  OBVIOUS
<1>6. [cell EXCEPT !.chain = Append(@, s), !.n = @ + 1] = [n |-> v, p |-> cell.p, chain |-> w]
  BY <1>1, <1>3, <1>4, <1>5
<1> QED
  BY <1>2, <1>6 DEF v, w

\* What InitSim does to a cell.
LEMMA LoadedCell ==
  ASSUME NEW cs \in [cellIds -> Cells], NEW ds, NEW Q, Full(cs, Q), NEW q \in Particles,
         NEW c, NEW s, NEW more \in BOOLEAN, Gains(cs, ds, c, q, s, more)
  PROVE  /\ ds \in [cellIds -> Cells] /\ Added(cs, ds, c, q) /\ OtherChains(cs, ds, c)
         /\ ds[c].chain = IF more THEN Append(cs[c].chain, s) ELSE cs[c].chain
<1> DEFINE cell == cs[c]
           n == cell.n
           st == Stored(cell, n, q)
           chain == IF more THEN Append(cell.chain, s) ELSE cell.chain
           new == [n |-> n + 1, p |-> st.p, chain |-> chain]
<1>1. /\ cell \in Cells /\ n \in Nat /\ n = Len(cell.p) /\ cell.chain \in Seq(Nat)
      /\ Len(cell.chain) = Structures(n) /\ c \in cellIds
  BY DEF Full, Cells, Gains
<1>2. /\ st \in Cells /\ st.n = n /\ st.chain = cell.chain
      /\ Len(st.p) = n + 1
      /\ \A i \in 1..(n + 1) :
           st.p[i] = IF i = n + 1 THEN q ELSE IF i <= n THEN cell.p[i] ELSE NoParticle
  <2>2. HasStored(st, cell, n, q)
    <3>1. q \in Particles \cup {NoParticle}
      OBVIOUS
    <3> HIDE DEF cell, n
    <3> QED BY <1>1, <3>1, StoredCell
  <2>3. Len(cell.p) = n /\ n \in Nat /\ ~(n < n) /\ n >= n
    BY <1>1
  <2> HIDE DEF st, n, cell
  <2>4. st \in Cells /\ st.n = cell.n /\ st.chain = cell.chain /\ Len(st.p) = n + 1
    BY <2>2, <2>3 DEF HasStored
  <2>5. \A i \in 1..(n + 1) :
           st.p[i] = IF i = n + 1 THEN q ELSE IF i <= n THEN cell.p[i] ELSE NoParticle
    BY <2>2, <2>3, <2>4 DEF HasStored
  <2> QED BY <2>4, <2>5 DEF n
<1>3. /\ chain \in Seq(Nat) /\ Len(chain) = Structures(n + 1)
  <2>1. Structures(n) \in Nat /\ Structures(n + 1) = Structures(n) + IF NeedsStructure(n) THEN 1 ELSE 0
    BY <1>1, StructuresGrow
  <2>2. more = NeedsStructure(n) /\ (more => s \in Nat)
    BY DEF Gains
  <2>3. CASE more
    <3>1. Append(cell.chain, s) \in Seq(Nat) /\ Len(Append(cell.chain, s)) = Len(cell.chain) + 1
      BY <1>1, <2>2, <2>3
    <3>2. Structures(n + 1) = Structures(n) + 1
      BY <2>1, <2>2, <2>3
    <3> QED BY <1>1, <2>3, <3>1, <3>2
  <2>4. CASE ~more
    <3>1. Structures(n + 1) = Structures(n)
      BY <2>1, <2>2, <2>4
    <3> QED BY <1>1, <2>4, <3>1
  <2> QED BY <2>3, <2>4
<1>4. ds = [cs EXCEPT ![c] = new]
  <2>1. st \in Cells /\ st.n = n /\ st.chain = cell.chain
    BY <1>2
  <2>2. [st EXCEPT !.chain = Append(@, s), !.n = @ + 1]
          = [n |-> st.n + 1, p |-> st.p, chain |-> Append(st.chain, s)]
    <3> HIDE DEF st, n
    <3> QED BY <2>1, CellGrows
  <2>3. [st EXCEPT !.n = @ + 1] = [n |-> st.n + 1, p |-> st.p, chain |-> st.chain]
    <3> HIDE DEF st, n
    <3> QED BY <2>1, CellGrows
  <2>4. ds = [cs EXCEPT ![c] = IF more THEN [st EXCEPT !.chain = Append(@, s), !.n = @ + 1]
                                       ELSE [st EXCEPT !.n = @ + 1]]
    BY DEF Gains
  <2> HIDE DEF st, n, cell
  <2> QED BY <2>1, <2>2, <2>3, <2>4
<1>5. new \in Cells
  <2> HIDE DEF st, n, chain
  <2> QED BY <1>1, <1>2, <1>3 DEF Cells
<1> HIDE DEF st, chain
<1>6. new.n = n + 1 /\ new.p = st.p /\ new.chain = chain
  OBVIOUS
<1> HIDE DEF new
<1>7. /\ ds \in [cellIds -> Cells] /\ ds[c] = new /\ \A d \in cellIds : d # c => ds[d] = cs[d]
  BY <1>1, <1>4, <1>5
<1>8. Added(cs, ds, c, q)
  <2>1. ds[c].n = Len(ds[c].p) /\ Len(ds[c].chain) = Structures(ds[c].n)
    BY <1>2, <1>3, <1>6, <1>7
  <2>2. Len(ds[c].p) = Len(cs[c].p) + 1 /\ ds[c].p[Len(cs[c].p) + 1] = q
    BY <1>1, <1>2, <1>6, <1>7
  <2>3. \A i \in 1..Len(cs[c].p) : ds[c].p[i] = cs[c].p[i]
    <3>1. \A i \in 1..n : st.p[i] = cell.p[i]
      <4> HIDE DEF n, cell
      <4> QED BY <1>1, <1>2
    <3> QED BY <1>1, <1>6, <1>7, <3>1
  <2> QED BY <1>1, <1>7, <2>1, <2>2, <2>3 DEF Added
<1> QED
  BY <1>1, <1>6, <1>7, <1>8 DEF OtherChains, chain

\* InitSim: a particle more; the last one starts the threads.
LEMMA LoadStep ==
  ASSUME FluidTypeOK, Loading, InitSim
  PROVE  FluidTypeOK' /\ (Loading' \/ (loaded' = numParticles /\ Swapping'))
<1> DEFINE turn == SumFunction([d \in cellIds |-> Len(cells[d].chain)]) % Cardinality(tids)
<1>q. PICK q : q = loaded + 1
  OBVIOUS
<1>1. loaded \in Nat /\ numParticles \in Nat /\ q \in Particles /\ q \notin 1..loaded
      /\ (1..loaded) \cup {q} = 1..q /\ q <= numParticles /\ loaded' = q
  <2>1. loaded \in 0..numParticles /\ loaded < numParticles /\ loaded' = q
    BY <1>q DEF FluidTypeOK, InitSim
  <2> QED BY <1>q, <2>1, Numbers DEF Particles
<1>2. turn \in tids
  <2> DEFINE g == [d \in cellIds |-> Len(cells[d].chain)]
             T == XDIVS * ZDIVS
  <2>1. \A d \in cellIds : g[d] \in Int
    BY DEF FluidTypeOK, Cells
  <2>2. SumFunction(g) = SumFunctionOnSet(g, cellIds)
    <3>1. DOMAIN g = cellIds
      OBVIOUS
    <3> HIDE DEF g
    <3> QED BY <3>1, SumOfFunction
  <2> HIDE DEF g
  <2>3. SumFunction(g) \in Int
    BY <2>1, <2>2, Finiteness, SumType
  <2>4. T \in Nat \ {0} /\ tids = 0..(T - 1)
    BY Numbers DEF tids
  <2>5. Cardinality(tids) = T
    <3>1. 0 \in Int /\ T - 1 \in Int
      BY <2>4
    <3>2. Cardinality(tids) = IF 0 > T - 1 THEN 0 ELSE (T - 1) - 0 + 1
      BY <2>4, <3>1, FS_Interval
    <3> HIDE DEF T
    <3> QED BY <2>4, <3>2
  <2> HIDE DEF T
  <2>6. SumFunction(g) % T \in 0..(T - 1)
    BY <2>3, <2>4, Divide
  <2> QED BY <2>4, <2>5, <2>6 DEF g
<1> HIDE DEF turn
<1>3. PICK c \in cellIds :
        /\ pos' = [pos EXCEPT ![loaded'] = c]
        /\ IF NeedsStructure(cells[c].n)
             THEN \E s \in 1..fresh :
                     /\ GetCell(turn, s)
                     /\ cells' = [cells EXCEPT ![c] =
                          [Stored(cells[c], cells[c].n, loaded') EXCEPT
                             !.chain = Append(@, s), !.n = @ + 1]]
             ELSE /\ cells' = [cells EXCEPT ![c] =
                       [Stored(cells[c], cells[c].n, loaded') EXCEPT !.n = @ + 1]]
                  /\ UNCHANGED <<pools, alloc, fresh>>
  BY DEF InitSim, turn
<1> DEFINE more == NeedsStructure(cells[c].n)
<1>4. more \in BOOLEAN
  BY DEF NeedsStructure
<1>5. cells \in [cellIds -> Cells] /\ Full(cells, 1..loaded)
  BY DEF FluidTypeOK, Loading
<1>6. \E s : /\ Gains(cells, cells', c, q, s, more)
             /\ IF more THEN GetCell(turn, s) ELSE UNCHANGED <<pools, alloc, fresh>>
  <2>1. CASE more
    <3>1. PICK s \in 1..fresh :
                     /\ GetCell(turn, s)
                     /\ cells' = [cells EXCEPT ![c] =
                          [Stored(cells[c], cells[c].n, q) EXCEPT !.chain = Append(@, s), !.n = @ + 1]]
      BY <1>1, <1>3, <2>1
    <3>2. s \in Nat
      BY <1>2, <3>1, StructureTaken
    <3>3. Gains(cells, cells', c, q, s, more)
      BY <2>1, <3>1, <3>2 DEF Gains
    <3> QED BY <2>1, <3>1, <3>3
  <2>2. CASE ~more
    <3>1. Gains(cells, cells', c, q, 0, more)
      BY <1>1, <1>3, <2>2 DEF Gains
    <3> QED BY <1>3, <2>2, <3>1
  <2> QED BY <2>1, <2>2
<1>7. PICK s : /\ Gains(cells, cells', c, q, s, more)
               /\ IF more THEN GetCell(turn, s) ELSE UNCHANGED <<pools, alloc, fresh>>
  BY <1>6
<1> HIDE DEF more
<1>8. /\ cells' \in [cellIds -> Cells] /\ Added(cells, cells', c, q) /\ OtherChains(cells, cells', c)
      /\ cells'[c].chain = IF more THEN Append(cells[c].chain, s) ELSE cells[c].chain
  BY <1>1, <1>4, <1>5, <1>7, LoadedCell
<1>9. /\ Full(cells', 1..q)
      /\ \A d \in cellIds : \A k \in 1..Len(cells'[d].p) :
           \/ d = c /\ cells'[d].p[k] = q
           \/ k \in 1..Len(cells[d].p) /\ cells'[d].p[k] = cells[d].p[k] /\ cells[d].p[k] \in 1..loaded
  <2>1. /\ Full(cells', (1..loaded) \cup {q})
        /\ \A d \in cellIds : \A k \in 1..Len(cells'[d].p) :
             \/ d = c /\ cells'[d].p[k] = q
             \/ k \in 1..Len(cells[d].p) /\ cells'[d].p[k] = cells[d].p[k] /\ cells[d].p[k] \in 1..loaded
    <3>1. PICK Q : Q = 1..loaded
      OBVIOUS
    <3>2. Full(cells, Q) /\ q \notin Q
      BY <1>1, <1>5, <3>1
    <3>3. cells \in [cellIds -> Cells] /\ Added(cells, cells', c, q)
      BY <1>5, <1>8
    <3>4. /\ Full(cells', Q \cup {q})
          /\ \A d \in cellIds : \A k \in 1..Len(cells'[d].p) :
               \/ d = c /\ cells'[d].p[k] = q
               \/ k \in 1..Len(cells[d].p) /\ cells'[d].p[k] = cells[d].p[k] /\ cells[d].p[k] \in Q
      BY <3>2, <3>3, FullAdded
    <3>5. Full(cells', (1..loaded) \cup {q})
      BY <3>1, <3>4
    <3>6. ASSUME NEW d \in cellIds, NEW k \in 1..Len(cells'[d].p)
          PROVE  \/ d = c /\ cells'[d].p[k] = q
                 \/ k \in 1..Len(cells[d].p) /\ cells'[d].p[k] = cells[d].p[k] /\ cells[d].p[k] \in 1..loaded
      BY <3>1, <3>4
    <3> QED BY <3>5, <3>6
  <2> QED BY <1>1, <2>1
<1>10. pos' \in [Particles -> cellIds] /\ pos'[q] = c /\ \A r \in Particles : r # q => pos'[r] = pos[r]
  BY <1>1, <1>3 DEF FluidTypeOK
<1>11. AllSettled(pos', cells')
  <2>1. ASSUME NEW t \in tids, NEW d \in grid(t), NEW k \in 1..Len(cells'[d].p)
        PROVE  pos'[cells'[d].p[k]] = d
    <3>1. d \in cellIds
      BY Blocks
    <3>2. CASE d = c /\ cells'[d].p[k] = q
      BY <1>10, <3>2
    <3>3. CASE k \in 1..Len(cells[d].p) /\ cells'[d].p[k] = cells[d].p[k] /\ cells[d].p[k] \in 1..loaded
      <4>1. pos[cells[d].p[k]] = d
        BY <3>3 DEF Loading, AllSettled, Settled
      <4>2. cells[d].p[k] \in Particles /\ cells[d].p[k] # q
        BY <1>1, <3>3 DEF Particles
      <4> QED BY <1>10, <3>3, <4>1, <4>2
    <3> QED BY <1>9, <3>1, <3>2, <3>3
  <2> QED BY <2>1 DEF AllSettled, Settled
<1>12. /\ pools' \in [tids -> Seq(Nat)] /\ alloc' \in [tids -> Nat \ {0}] /\ fresh' \in Nat \ {0}
       /\ Conserved(pools', fresh', cells')
  <2>1. pools \in [tids -> Seq(Nat)] /\ alloc \in [tids -> Nat \ {0}] /\ fresh \in Nat \ {0}
    BY DEF FluidTypeOK
  <2>2. \A u \in Nat : InChains(cells', u) =
          (InChains(cells, u) - Occurrences(cells[c].chain, u)) + Occurrences(cells'[c].chain, u)
    BY <1>5, <1>8, ChainChanged
  <2>3. \A u \in Nat : Pools(pools, u) + InChains(cells, u) = Known(fresh, u)
    BY DEF Loading, Conserved
  <2>4. cells[c].chain \in Seq(Nat)
    BY <1>5 DEF Cells
  <2>5. CASE more
    <3>1. /\ s \in Nat
          /\ pools' \in [tids -> Seq(Nat)] /\ alloc' \in [tids -> Nat \ {0}] /\ fresh' \in Nat \ {0}
          /\ \A u \in Nat : Pools(pools', u) + (IF s = u THEN 1 ELSE 0) - Known(fresh', u)
                             = Pools(pools, u) - Known(fresh, u)
      BY <1>2, <1>7, <2>5, StructureTaken
    <3>2. ASSUME NEW u \in Nat PROVE Pools(pools', u) + InChains(cells', u) = Known(fresh', u)
      <4> DEFINE n == IF s = u THEN 1 ELSE 0
      <4>1. Occurrences(cells'[c].chain, u) = Occurrences(cells[c].chain, u) + n
        BY <1>8, <2>4, <2>5, <3>1, OccurrencesAppend
      <4>2. Pools(pools', u) + n - Known(fresh', u) = Pools(pools, u) - Known(fresh, u)
        BY <3>1
      <4>3. n \in Int
        OBVIOUS
      <4> HIDE DEF n
      <4>4. InChains(cells', u) = (InChains(cells, u) - Occurrences(cells[c].chain, u)) + Occurrences(cells'[c].chain, u)
        BY <2>2
      <4>5. Pools(pools, u) + InChains(cells, u) = Known(fresh, u)
        BY <2>3
      <4>6. Pools(pools, u) \in Nat /\ Pools(pools', u) \in Nat /\ InChains(cells, u) \in Nat
        BY <1>5, <2>1, <3>1, PoolsDefined, ChainsDefined
      <4>7. Known(fresh, u) \in Int /\ Known(fresh', u) \in Int
        BY DEF Known
      <4>8. Occurrences(cells[c].chain, u) \in Nat
        BY <2>4, OccurrencesFinite
      <4> QED BY <4>1, <4>2, <4>3, <4>4, <4>5, <4>6, <4>7, <4>8
    <3> QED BY <3>1, <3>2 DEF Conserved
  <2>6. CASE ~more
    <3>1. pools' = pools /\ alloc' = alloc /\ fresh' = fresh
      BY <1>7, <2>6
    <3>2. ASSUME NEW u \in Nat PROVE InChains(cells', u) = InChains(cells, u)
      <4>1. InChains(cells, u) \in Nat
        BY <1>5, ChainsDefined
      <4>2. Occurrences(cells[c].chain, u) \in Nat
        BY <2>4, OccurrencesFinite
      <4>3. cells'[c].chain = cells[c].chain
        BY <1>8, <2>6
      <4>4. InChains(cells', u) = (InChains(cells, u) - Occurrences(cells[c].chain, u)) + Occurrences(cells[c].chain, u)
        BY <2>2, <4>3
      <4> QED BY <4>1, <4>2, <4>4
    <3> QED BY <2>1, <2>3, <3>1, <3>2 DEF Conserved
  <2> QED BY <2>5, <2>6
<1>13. /\ cells2' = cells2 /\ poolAbove' = poolAbove /\ mutex' = mutex
       /\ density' = density /\ cur' = cur /\ passed' = passed
       /\ step' = IF q = numParticles THEN [t \in tids |-> "swap"] ELSE step
  BY <1>1 DEF InitSim
<1>14. step' \in [tids -> Labels]
  BY <1>13 DEF FluidTypeOK, Labels
<1>15. FluidTypeOK'
  <2>1. loaded' \in 0..numParticles
    BY <1>1
  <2> QED BY <1>8, <1>10, <1>12, <1>13, <1>14, <2>1 DEF FluidTypeOK
<1>16. CASE q = numParticles
  <2>1. Full(cells', Particles)
    BY <1>9, <1>16 DEF Particles
  <2>2. Together(step', passed', cur', {"swap"}, "clear", 0, 1)
    <3>1. \A t \in tids : step'[t] = "swap" /\ passed'[t] = 0 /\ cur'[t].frame = 1
      BY <1>13, <1>16 DEF Loading
    <3> QED BY <3>1, Finiteness DEF Together
  <2>3. Moved(pos', cells')
    <3>1. ASSUME NEW d \in cellIds, NEW k \in 1..Len(cells'[d].p) PROVE pos'[cells'[d].p[k]] \in Neighbours(d)
      <4>1. PICK t \in tids : d \in grid(t)
        BY Blocks
      <4>2. pos'[cells'[d].p[k]] = d
        BY <1>11, <4>1 DEF AllSettled, Settled
      <4> QED BY <4>2, NeighboursOf
    <3> QED BY <3>1 DEF Moved
  <2>4. step'[0] = "swap"
    BY <1>13, <1>16, Finiteness
  <2> QED BY <1>1, <1>12, <1>15, <1>16, <2>1, <2>2, <2>3, <2>4 DEF Swapping, Filled
<1>17. CASE q # numParticles
  <2>1. loaded' < numParticles
    BY <1>1, <1>17
  <2>2. Full(cells', 1..loaded')
    BY <1>1, <1>9
  <2> QED BY <1>11, <1>12, <1>13, <1>15, <1>17, <2>1, <2>2 DEF Loading
<1> QED
  BY <1>16, <1>17

-----------------------------------------------------------------------------
(* How far the blocks have been read. *)
LEMMA Order ==
  ASSUME NEW t \in tids
  PROVE  /\ Cardinality(grid(t)) \in Nat
         /\ \A c \in grid(t) : Owner(c) = t /\ Before(t, c) \in 0..(Cardinality(grid(t)) - 1)
         /\ \A c, d \in grid(t) : Before(t, c) = Before(t, d) => c = d
         /\ \A r \in 0..(Cardinality(grid(t)) - 1) : \E c \in grid(t) : Before(t, c) = r
<1>1. IsFiniteSet(grid(t)) /\ grid(t) \subseteq cellIds /\ Cardinality(grid(t)) \in Nat
  BY Blocks, FS_CardinalityType
<1>2. grid(t) \subseteq Int
  <2>1. cellIds \subseteq Nat /\ Nat \subseteq Int
    BY Finiteness
  <2> QED BY <1>1, <2>1, Zenon
<1>3. \A c : Rank(grid(t), c) = Before(t, c)
  BY DEF Rank, Before
<1>4. /\ \A c \in grid(t) : Rank(grid(t), c) \in 0..(Cardinality(grid(t)) - 1)
      /\ \A c, d \in grid(t) : Rank(grid(t), c) = Rank(grid(t), d) => c = d
      /\ \A r \in 0..(Cardinality(grid(t)) - 1) : \E c \in grid(t) : Rank(grid(t), c) = r
  BY <1>1, <1>2, Ranks
<1>5. \A c \in grid(t) : Owner(c) = t
  <2> TAKE c \in grid(t)
  <2>1. \A u \in tids : c \in grid(u) <=> u = t
    BY <1>1, Blocks
  <2> QED BY <2>1 DEF Owner
<1> QED
  BY <1>1, <1>3, <1>4, <1>5

\* A block is walked through cell by cell.
LEMMA Visiting ==
  ASSUME NEW t \in tids, NEW i \in 1..Cardinality(grid(t))
  PROVE  Visit(t, i) \in grid(t) /\ Visit(t, i) \in cellIds /\ Before(t, Visit(t, i)) + 1 = i
<1>1. Cardinality(grid(t)) \in Nat
  BY Order
<1>2. i - 1 \in 0..(Cardinality(grid(t)) - 1) /\ i \in Nat
  BY <1>1
<1>3. \E c \in grid(t) : Before(t, c) = i - 1
  BY <1>2, Order
<1>4. \E c \in grid(t) : Cardinality({d \in grid(t) : d < c}) = i - 1
  BY <1>3 DEF Before
<1>5. Visit(t, i) \in grid(t) /\ Before(t, Visit(t, i)) = i - 1
  BY <1>4 DEF Visit, Before
<1> QED
  BY <1>2, <1>5, Blocks

\* The cell a thread reads from is the one its index says.
LEMMA Walking ==
  ASSUME NEW t \in tids, cur[t].c \in 1..Cardinality(grid(t))
  PROVE  Source(t) \in grid(t) /\ Source(t) \in cellIds /\ Before(t, Source(t)) + 1 = cur[t].c
<1>1. PICK i \in 1..Cardinality(grid(t)) : i = cur[t].c
  OBVIOUS
<1>2. Source(t) = Visit(t, i)
  BY <1>1 DEF Source
<1> QED
  BY <1>1, <1>2, Visiting

\* How much of a cell has been read, before and after a step.
LEMMA ReadOf ==
  ASSUME NEW t \in tids, NEW c \in grid(t)
  PROVE  /\ Read(c) = IF step[t] = "init" \/ Before(t, c) + 1 < cur[t].c THEN cells2[c].n
                      ELSE IF Before(t, c) + 1 = cur[t].c THEN cur[t].j ELSE 0
         /\ Read(c)' = IF step'[t] = "init" \/ Before(t, c) + 1 < cur'[t].c THEN cells2'[c].n
                       ELSE IF Before(t, c) + 1 = cur'[t].c THEN cur'[t].j ELSE 0
<1>1. Owner(c) = t
  BY Order
<1> QED
  BY <1>1 DEF Read

\* t has a particle to file.
Reads(t) == cur[t].c <= Cardinality(grid(t)) /\ cur[t].j < cells2[Source(t)].n

\* A thread that has a particle to file: where it is and where it goes.
LEMMA Reading ==
  ASSUME FluidTypeOK, Refiled, NEW t \in tids, step[t] \in InRebuild, Reads(t)
  PROVE  /\ Source(t) \in grid(t) /\ Source(t) \in cellIds /\ Before(t, Source(t)) + 1 = cur[t].c
         /\ cells2[Source(t)].n = Len(cells2[Source(t)].p) /\ cells2[Source(t)].n \in Nat
         /\ cur[t].j \in Nat /\ cur[t].j + 1 \in 1..Len(cells2[Source(t)].p)
         /\ Particle(t) \in Particles /\ Particle(t) = cells2[Source(t)].p[cur[t].j + 1]
         /\ Destination(t) \in Neighbours(Source(t)) /\ Destination(t) \in cellIds
         /\ Read(Source(t)) = cur[t].j
<1>1. Cursor(t)
  BY DEF Refiled
<1>2. cur[t].c \in 1..Cardinality(grid(t)) /\ cur[t].j \in Nat
  <2>1. cur[t].c \in Nat /\ cur[t].j \in Nat
    BY DEF FluidTypeOK, Locals
  <2>2. Cardinality(grid(t)) \in Nat
    BY Order
  <2> QED BY <1>1, <2>1, <2>2 DEF Cursor, Reads
<1>3. Source(t) \in grid(t) /\ Source(t) \in cellIds /\ Before(t, Source(t)) + 1 = cur[t].c
  BY <1>2, Walking
<1> DEFINE c == Source(t)
           j == cur[t].j + 1
<1>4. cells2[c].n = Len(cells2[c].p) /\ cells2[c].n \in Nat
  BY <1>3 DEF Refiled, Full, FluidTypeOK, Cells
<1>5. j \in 1..Len(cells2[c].p)
  BY <1>2, <1>4 DEF Reads
<1>6. Particle(t) = cells2[c].p[j]
  BY DEF Particle
<1>7. Read(c) = cur[t].j
  <2>1. step[t] # "init"
    BY DEF InRebuild
  <2>2. ~(Before(t, c) + 1 < cur[t].c)
    BY <1>2, <1>3
  <2> HIDE DEF c
  <2> QED BY <1>3, <2>1, <2>2, ReadOf DEF c
<1> HIDE DEF c, j
<1>8. cells2[c].p[j] \in Particles /\ pos[cells2[c].p[j]] \in Neighbours(c)
  BY <1>3, <1>5 DEF Refiled, Full, Moved, c
<1>9. Destination(t) \in Neighbours(c) /\ Destination(t) \in cellIds
  BY <1>6, <1>8, NeighboursOf DEF Destination
<1> QED
  BY <1>2, <1>3, <1>4, <1>5, <1>6, <1>7, <1>8, <1>9 DEF c, j

\* A thread that files or copies has a particle.
LEMMA Busy ==
  ASSUME FluidTypeOK, Refiled, NEW t \in tids, step[t] \in {"file", "copy"}
  PROVE  step[t] \in InRebuild /\ Reads(t)
BY DEF Refiled, InRebuild, Cursor, Reads

\* Two threads file into the same cell only if it is a border cell.
LEMMA InnerDestination ==
  ASSUME FluidTypeOK, Refiled, NEW t \in tids, step[t] \in InRebuild, Reads(t),
         NEW u \in tids, step[u] \in InRebuild, Reads(u),
         Destination(t) = Destination(u), ~border(Destination(t))
  PROVE  t = u
<1>1. Source(t) \in grid(t) /\ Destination(t) \in Neighbours(Source(t))
  BY Reading
<1>2. Source(u) \in grid(u) /\ Destination(u) \in Neighbours(Source(u))
  BY Reading
<1> QED
  BY <1>1, <1>2, InnerCell

\* What has been read and returned depends on how far the threads are.
LEMMA SameRead ==
  ASSUME cells2' = cells2, \A c \in cellIds : Read(c)' = Read(c)
  PROVE  /\ \A q : Filed(q)' = Filed(q)
         /\ \A s : InOld(s)' = InOld(s)
<1>1. \A q : Filed(q)' = Filed(q)
  BY DEF Filed
<1>2. \A c \in cellIds : Returned(c)' = Returned(c)
  BY DEF Returned
<1>3. ASSUME NEW s PROVE InOld(s)' = InOld(s)
  <2>1. \A c \in cellIds : Kept(c, s)' = Kept(c, s)
    BY <1>2 DEF Kept
  <2>2. [c \in cellIds |-> Kept(c, s)'] = [c \in cellIds |-> Kept(c, s)]
    BY <2>1
  <2> QED BY <2>2 DEF InOld
<1> QED
  BY <1>1, <1>3

\* A thread that stays where it is has read as much as before.
LEMMA SameProgress ==
  ASSUME cells2' = cells2,
         \A u \in tids : /\ cur'[u].c = cur[u].c /\ cur'[u].j = cur[u].j
                         /\ step'[u] = "init" <=> step[u] = "init"
  PROVE  \A c \in cellIds : Read(c)' = Read(c)
<1> TAKE c \in cellIds
<1>1. PICK t \in tids : c \in grid(t)
  BY Blocks
<1> QED
  BY <1>1, ReadOf

-----------------------------------------------------------------------------
(* Filing. *)
\* A thread that stays where it is has the same particle.
LEMMA SameDestination ==
  ASSUME cells2' = cells2, pos' = pos, NEW u, cur'[u].c = cur[u].c, cur'[u].j = cur[u].j
  PROVE  /\ Source(u)' = Source(u) /\ Destination(u)' = Destination(u) /\ Particle(u)' = Particle(u)
<1>1. Source(u)' = Source(u)
  BY DEF Source
<1>2. Particle(u)' = Particle(u)
  BY <1>1 DEF Particle
<1> QED
  BY <1>1, <1>2 DEF Destination

\* FindSlot: the mutex keeps the others from the same cell.
LEMMA FindSlotStep ==
  ASSUME FluidTypeOK, Rebuilding, NEW t \in tids, FindSlot(t)
  PROVE  FluidTypeOK' /\ Rebuilding' /\ loaded' = loaded
<1>1. PICK f \in Nat : Together(step, passed, cur, InRebuild, "init", 2, f)
  BY DEF Rebuilding
<1> DEFINE new == [cur[t] EXCEPT !.np = cells[Destination(t)].n]
<1>2. /\ step[t] = "rebuild" /\ Reads(t) /\ Lock(Destination(t), 0)
      /\ Continue(t, "file") /\ cur' = [cur EXCEPT ![t] = new]
      /\ loaded' = loaded /\ pos' = pos /\ cells' = cells /\ cells2' = cells2 /\ pools' = pools
      /\ alloc' = alloc /\ fresh' = fresh /\ poolAbove' = poolAbove
      /\ density' = density
  BY DEF FindSlot, poolVars, Reads
<1>3. Refiled /\ step[t] \in InRebuild
  BY <1>2 DEF Rebuilding, InRebuild
<1>4. PICK d \in cellIds : d = Destination(t)
  BY <1>2, <1>3, Reading
<1>5. /\ new \in Locals /\ new.frame = cur[t].frame /\ new.c = cur[t].c /\ new.j = cur[t].j
      /\ new.np = cells[d].n
  <2>1. cur[t] \in Locals /\ cells[d].n \in Nat
    BY DEF FluidTypeOK, Cells
  <2> QED BY <1>4, <2>1 DEF Locals
<1>6. /\ mutex' \subseteq cellIds \X Nat
      /\ \A m \in mutex : m \in mutex'
      /\ border(d) => <<d, 0>> \notin mutex /\ <<d, 0>> \in mutex'
  <2>1. <<d, 0>> \in cellIds \X Nat
    OBVIOUS
  <2> QED BY <1>2, <1>4, <2>1 DEF Lock, Locked, FluidTypeOK
<1> HIDE DEF new
<1>7. /\ cur' \in [tids -> Locals] /\ cur'[t] = new
      /\ \A u \in tids : u # t => cur'[u] = cur[u]
      /\ \A u \in tids : cur'[u].frame = cur[u].frame
  BY <1>2, <1>5, LocalsChanged
<1>8. /\ step' \in [tids -> Labels] /\ passed' \in [tids -> 0..2] /\ step'[t] = "file"
      /\ \A u \in tids : u # t => step'[u] = step[u]
      /\ Together(step', passed', cur', InRebuild, "init", 2, f)
  <2>1. /\ "init" \notin InRebuild /\ "file" \in InRebuild
        /\ "file" \in Labels /\ 2 \in 0..2
    BY DEF InRebuild, Labels
  <2> QED BY <1>1, <1>2, <1>3, <1>7, <2>1, Continues
<1>9. FluidTypeOK'
  BY <1>2, <1>6, <1>7, <1>8 DEF FluidTypeOK
<1>10. \A u \in tids : cur'[u].c = cur[u].c /\ cur'[u].j = cur[u].j
  BY <1>5, <1>7
<1>11. \A u \in tids : Source(u)' = Source(u) /\ Destination(u)' = Destination(u)
  BY <1>2, <1>10, SameDestination
<1>12. \A u \in tids : step'[u] = "init" <=> step[u] = "init"
  BY <1>2, <1>8
<1>13. \A c \in cellIds : Read(c)' = Read(c)
  BY <1>2, <1>10, <1>12, SameProgress
<1>14. (\A q : Filed(q)' = Filed(q)) /\ (\A s : InOld(s)' = InOld(s))
  BY <1>2, <1>13, SameRead
<1>15. \A u \in tids : step'[u] = "copy" <=> step[u] = "copy" /\ u # t
  BY <1>2, <1>8
<1>16. \A e, k : Reserved(e, k)' <=> Reserved(e, k)
  <2> TAKE e, k
  <2>1. \A u \in tids : (step'[u] = "copy" /\ Destination(u)' = e /\ cur'[u].np = k - 1)
                          <=> (step[u] = "copy" /\ Destination(u) = e /\ cur[u].np = k - 1)
    BY <1>2, <1>7, <1>11, <1>15
  <2> QED BY <2>1 DEF Reserved
<1>17. \A e \in cellIds : Slots(e)'
  <2> TAKE e \in cellIds
  <2>1. Slots(e)
    BY <1>3 DEF Refiled
  <2> QED BY <1>2, <1>16, <2>1 DEF Slots
<1>18. \A u \in tids : step'[u] \in InRebuild => Cursor(u)'
  <2> TAKE u \in tids
  <2> HAVE step'[u] \in InRebuild
  <2>1. Cursor(u) /\ (u = t => cur[u].c <= Cardinality(grid(u)) /\ cur[u].j < cells2[Source(u)].n)
    <3>1. step[u] \in InRebuild
      BY <1>3, <1>8
    <3> QED BY <1>2, <1>3, <3>1 DEF Refiled, Reads
  <2>2. u # t => step'[u] = step[u]
    BY <1>8
  <2> QED BY <1>2, <1>10, <1>11, <2>1, <2>2 DEF Cursor
<1>19. \A u \in tids : step'[u] = "file" => Filing(u)'
  <2> TAKE u \in tids
  <2> HAVE step'[u] = "file"
  <2>1. CASE u = t
    BY <1>2, <1>4, <1>5, <1>6, <1>7, <1>11, <2>1 DEF Filing
  <2>2. CASE u # t
    <3>1. Filing(u)
      BY <1>3, <1>8, <2>2 DEF Refiled
    <3> QED BY <1>2, <1>6, <1>7, <1>11, <2>2, <3>1 DEF Filing
  <2> QED BY <2>1, <2>2
<1>20. \A u \in tids : step'[u] = "copy" => Copying(u)'
  <2> TAKE u \in tids
  <2> HAVE step'[u] = "copy"
  <2>1. u # t /\ Copying(u)
    BY <1>3, <1>15 DEF Refiled
  <2> QED BY <1>2, <1>7, <1>11, <2>1 DEF Copying
<1>21. ASSUME NEW u \in tids, u # t, step[u] = "file", Destination(u) = d PROVE FALSE
  <2>1. Filing(u)
    BY <1>3, <1>21 DEF Refiled
  <2>2. ~border(d)
    BY <1>6, <1>21, <2>1 DEF Filing
  <2>3. step[u] \in InRebuild /\ Reads(u)
    BY <1>3, <1>21, Busy
  <2> QED BY <1>2, <1>3, <1>4, <1>21, <2>2, <2>3, InnerDestination
<1>22. \A u, v \in tids : u # v => Apart(u, v)'
  <2> TAKE u, v \in tids
  <2> HAVE u # v
  <2>1. Apart(u, v)
    BY <1>3 DEF Refiled
  <2>2. ~(step'[u] = "file" /\ step'[v] = "file" /\ Destination(u)' = Destination(v)')
    <3>1. CASE u = t
      BY <1>4, <1>8, <1>11, <1>21, <3>1
    <3>2. CASE v = t
      BY <1>4, <1>8, <1>11, <1>21, <3>2
    <3>3. CASE u # t /\ v # t
      BY <1>8, <1>11, <2>1, <3>3 DEF Apart
    <3> QED BY <3>1, <3>2, <3>3
  <2>3. step'[u] = "copy" /\ step'[v] = "copy" =>
          Destination(u)' # Destination(v)' \/ cur'[u].np # cur'[v].np
    BY <1>7, <1>11, <1>15, <2>1 DEF Apart
  <2> QED BY <2>2, <2>3 DEF Apart
<1>23. \A q \in Particles : Placed(q)'
  <2> TAKE q \in Particles
  <2>1. Placed(q)
    BY <1>3 DEF Refiled
  <2> QED BY <1>2, <1>14, <2>1 DEF Placed
<1>24. \A s \in Nat : Pools(pools', s) + InChains(cells', s) + InOld(s)' = Known(fresh', s)
  BY <1>2, <1>3, <1>14 DEF Refiled
<1>25. Full(cells2', Particles) /\ Moved(pos', cells2')
  BY <1>2, <1>3 DEF Refiled
<1>26. Refiled'
  BY <1>17, <1>18, <1>19, <1>20, <1>22, <1>23, <1>24, <1>25 DEF Refiled
<1> QED
  BY <1>2, <1>8, <1>9, <1>26 DEF Rebuilding

\* A thread is elsewhere but neither files nor copies: everything else stays.
LEMMA Onwards ==
  ASSUME FluidTypeOK, Refiled, NEW t \in tids, step[t] = "rebuild",
         /\ pos' = pos /\ cells' = cells /\ cells2' = cells2 /\ pools' = pools
         /\ fresh' = fresh /\ mutex' = mutex,
         \A u \in tids : u # t => step'[u] = step[u] /\ cur'[u] = cur[u],
         step'[t] \notin {"file", "copy"},
         step'[t] \in InRebuild => Cursor(t)',
         \A c \in grid(t) : Read(c)' = Read(c)
  PROVE  Refiled'
<1>1. \A u \in tids : u # t => Source(u)' = Source(u) /\ Destination(u)' = Destination(u)
  BY SameDestination
<1>2. \A c \in cellIds : Read(c)' = Read(c)
  <2> TAKE c \in cellIds
  <2>1. PICK u \in tids : c \in grid(u)
    BY Blocks
  <2>2. CASE u = t
    BY <2>1, <2>2
  <2>3. CASE u # t
    BY <2>1, <2>3, ReadOf
  <2> QED BY <2>2, <2>3
<1>3. (\A q : Filed(q)' = Filed(q)) /\ (\A s : InOld(s)' = InOld(s))
  BY <1>2, SameRead
<1>4. \A u \in tids : step'[u] \in {"file", "copy"} => u # t /\ step'[u] = step[u]
  BY DEF InRebuild
<1>5. \A e, k : Reserved(e, k)' <=> Reserved(e, k)
  <2> TAKE e, k
  <2>1. \A u \in tids : (step'[u] = "copy" /\ Destination(u)' = e /\ cur'[u].np = k - 1)
                          <=> (step[u] = "copy" /\ Destination(u) = e /\ cur[u].np = k - 1)
    BY <1>1, <1>4
  <2> QED BY <2>1 DEF Reserved
<1>6. \A e \in cellIds : Slots(e)'
  <2> TAKE e \in cellIds
  <2>1. Slots(e)
    BY DEF Refiled
  <2> QED BY <1>5, <2>1 DEF Slots
<1>7. \A u \in tids : step'[u] \in InRebuild => Cursor(u)'
  <2> TAKE u \in tids
  <2> HAVE step'[u] \in InRebuild
  <2>1. CASE u # t
    <3>1. Cursor(u) /\ step'[u] = step[u] /\ cur'[u] = cur[u]
      BY <2>1 DEF Refiled
    <3> QED BY <1>1, <2>1, <3>1 DEF Cursor
  <2> QED BY <2>1
<1>8. \A u \in tids : step'[u] = "file" => Filing(u)'
  <2> TAKE u \in tids
  <2> HAVE step'[u] = "file"
  <2>1. u # t /\ Filing(u)
    BY <1>4 DEF Refiled
  <2> QED BY <1>1, <2>1 DEF Filing
<1>9. \A u \in tids : step'[u] = "copy" => Copying(u)'
  <2> TAKE u \in tids
  <2> HAVE step'[u] = "copy"
  <2>1. u # t /\ Copying(u)
    BY <1>4 DEF Refiled
  <2> QED BY <1>1, <2>1 DEF Copying
<1>10. \A u, v \in tids : u # v => Apart(u, v)'
  <2> TAKE u, v \in tids
  <2> HAVE u # v
  <2>1. Apart(u, v)
    BY DEF Refiled
  <2> QED BY <1>1, <1>4, <2>1 DEF Apart
<1>11. \A q \in Particles : Placed(q)'
  <2> TAKE q \in Particles
  <2>1. Placed(q)
    BY DEF Refiled
  <2> QED BY <1>3, <2>1 DEF Placed
<1>12. \A s \in Nat : Pools(pools', s) + InChains(cells', s) + InOld(s)' = Known(fresh', s)
  BY <1>3 DEF Refiled
<1>13. Full(cells2', Particles) /\ Moved(pos', cells2')
  BY DEF Refiled
<1> QED
  BY <1>6, <1>7, <1>8, <1>9, <1>10, <1>11, <1>12, <1>13 DEF Refiled

\* NextCell.
LEMMA NextCellStep ==
  ASSUME FluidTypeOK, Rebuilding, NEW t \in tids, NextCell(t)
  PROVE  FluidTypeOK' /\ Rebuilding' /\ loaded' = loaded
<1>1. PICK f \in Nat : Together(step, passed, cur, InRebuild, "init", 2, f)
  BY DEF Rebuilding
<1> DEFINE new == [cur[t] EXCEPT !.c = cur[t].c + 1, !.j = 0]
<1>2. /\ step[t] = "rebuild" /\ cur[t].c <= Cardinality(grid(t)) /\ cur[t].j = cells2[Source(t)].n
      /\ cur' = [cur EXCEPT ![t] = new]
      /\ loaded' = loaded /\ pos' = pos /\ cells' = cells /\ cells2' = cells2 /\ pools' = pools
      /\ alloc' = alloc /\ fresh' = fresh /\ poolAbove' = poolAbove /\ mutex' = mutex
      /\ density' = density /\ step' = step /\ passed' = passed
  BY DEF NextCell, poolVars
<1>3. Refiled /\ step[t] \in InRebuild
  BY <1>2 DEF Rebuilding, InRebuild
<1>4. /\ cur[t].c \in Nat /\ Cardinality(grid(t)) \in Nat
      /\ cur[t].c \in 1..Cardinality(grid(t))
  <2>1. cur[t].c \in Nat /\ Cardinality(grid(t)) \in Nat
    BY Order DEF FluidTypeOK, Locals
  <2>2. Cursor(t)
    BY <1>3 DEF Refiled
  <2> QED BY <1>2, <2>1, <2>2 DEF Cursor
<1>5. new \in Locals /\ new.frame = cur[t].frame /\ new.c = cur[t].c + 1 /\ new.j = 0
  <2>1. cur[t] \in Locals /\ cur[t].c + 1 \in Nat
    BY <1>4 DEF FluidTypeOK
  <2> QED BY <2>1 DEF Locals
<1> HIDE DEF new
<1>6. /\ cur' \in [tids -> Locals] /\ cur'[t] = new
      /\ \A u \in tids : u # t => cur'[u] = cur[u]
      /\ \A u \in tids : cur'[u].frame = cur[u].frame
  BY <1>2, <1>5, LocalsChanged
<1>7. FluidTypeOK'
  BY <1>2, <1>6 DEF FluidTypeOK
<1>8. Together(step', passed', cur', InRebuild, "init", 2, f)
  BY <1>1, <1>2, <1>6 DEF Together
<1>9. ASSUME NEW c \in grid(t) PROVE Read(c)' = Read(c)
  <2>1. step[t] # "init"
    BY <1>2
  <2>2. Before(t, c) \in Nat
    <3>1. Before(t, c) \in 0..(Cardinality(grid(t)) - 1)
      BY Order
    <3> QED BY <3>1
  <2>3. Source(t) \in grid(t) /\ Before(t, Source(t)) + 1 = cur[t].c
    BY <1>4, Walking
  <2>4. Before(t, c) + 1 = cur[t].c => c = Source(t)
    <3>1. Before(t, Source(t)) \in 0..(Cardinality(grid(t)) - 1)
      BY <2>3, Order
    <3>2. Before(t, c) + 1 = cur[t].c => Before(t, c) = Before(t, Source(t))
      BY <1>4, <2>2, <2>3, <3>1
    <3> QED BY <2>3, <3>2, Order
  <2>5. CASE Before(t, c) + 1 < cur[t].c
    <3>1. Before(t, c) + 1 < cur'[t].c
      BY <1>4, <1>5, <1>6, <2>2, <2>5
    <3> QED BY <1>2, <2>5, <3>1, ReadOf
  <2>6. CASE Before(t, c) + 1 = cur[t].c
    <3>1. Before(t, c) + 1 < cur'[t].c
      BY <1>4, <1>5, <1>6, <2>2, <2>6
    <3>2. Read(c)' = cells2[c].n
      BY <1>2, <3>1, ReadOf
    <3>3. ~(Before(t, c) + 1 < cur[t].c)
      BY <1>4, <2>6
    <3>4. Read(c) = cur[t].j
      BY <2>1, <2>6, <3>3, ReadOf
    <3> QED BY <1>2, <2>4, <2>6, <3>2, <3>4
  <2>7. CASE Before(t, c) + 1 > cur[t].c
    <3>1. /\ ~(Before(t, c) + 1 < cur[t].c) /\ Before(t, c) + 1 # cur[t].c
          /\ ~(Before(t, c) + 1 < cur'[t].c)
      BY <1>4, <1>5, <1>6, <2>2, <2>7
    <3>2. Read(c) = 0
      BY <2>1, <3>1, ReadOf
    <3>3. step'[t] # "init" /\ cur'[t].j = 0
      BY <1>2, <1>5, <1>6, <2>1
    <3>4. Read(c)' = 0
      BY <3>1, <3>3, ReadOf
    <3> QED BY <3>2, <3>4
  <2> QED BY <1>4, <2>2, <2>5, <2>6, <2>7
<1>10. Cursor(t)'
  <2>1. cur'[t].c \in 1..(Cardinality(grid(t)) + 1) /\ cur'[t].j = 0 /\ step'[t] = "rebuild"
    BY <1>2, <1>4, <1>5, <1>6
  <2>2. cur'[t].c <= Cardinality(grid(t)) => cur'[t].j <= cells2'[Source(t)'].n
    <3> HAVE cur'[t].c <= Cardinality(grid(t))
    <3>1. PICK i \in 1..Cardinality(grid(t)) : i = cur'[t].c
      BY <1>4, <2>1
    <3>2. Source(t)' \in cellIds
      <4>1. Source(t)' = Visit(t, i)
        BY <3>1 DEF Source
      <4> QED BY <4>1, Visiting
    <3>3. cells2'[Source(t)'].n \in Nat
      BY <1>7, <3>2 DEF FluidTypeOK, Cells
    <3> QED BY <2>1, <3>3
  <2> QED BY <2>1, <2>2 DEF Cursor
<1>11. Refiled'
  BY <1>2, <1>3, <1>6, <1>9, <1>10, Onwards
<1> QED
  BY <1>2, <1>7, <1>8, <1>11 DEF Rebuilding

\* All particles have been filed.
LEMMA InitBegins ==
  /\ FluidTypeOK
  /\ \E g : AllAt(step, passed, cur, "init", 0, g)
  /\ Refiled
  => Initialising
<1> SUFFICES ASSUME FluidTypeOK, NEW f, AllAt(step, passed, cur, "init", 0, f), Refiled
             PROVE  Initialising
  OBVIOUS
<1>1. f \in Nat /\ \A t \in tids : step[t] = "init"
  BY DEF AllAt
<1>2. Together(step, passed, cur, {"init"}, "densities", 0, f)
  BY Begins
<1>3. Full(cells2, Particles)
  BY DEF Refiled
<1>4. ASSUME NEW c \in cellIds PROVE Read(c) = cells2[c].n
  <2>1. PICK t \in tids : c \in grid(t)
    BY Blocks
  <2> QED BY <1>1, <2>1, ReadOf
<1>5. ASSUME NEW q \in Particles PROVE Filed(q)
  <2>1. PICK c \in cellIds : \E j \in 1..Len(cells2[c].p) : Once(cells2, q, c, j)
    BY <1>3 DEF Full
  <2>2. PICK j \in 1..Len(cells2[c].p) : Once(cells2, q, c, j)
    BY <2>1
  <2>3. cells2[c].p[j] = q
    BY <2>2 DEF Once
  <2>4. Read(c) = Len(cells2[c].p)
    BY <1>3, <1>4 DEF Full
  <2> QED BY <2>3, <2>4 DEF Filed
<1>6. ASSUME NEW q \in Particles
      PROVE  \E j \in 1..Len(cells[pos[q]].p) : Once(cells, q, pos[q], j)
  BY <1>5 DEF Refiled, Placed
<1>7. ASSUME NEW c \in cellIds
      PROVE  /\ cells[c].n = Len(cells[c].p) /\ Len(cells[c].chain) = Structures(cells[c].n)
             /\ \A j \in 1..Len(cells[c].p) : cells[c].p[j] \in Particles
  <2>1. Slots(c)
    BY DEF Refiled
  <2>2. /\ cells[c].n \in Nat /\ Len(cells[c].p) \in Nat
        /\ \A j \in 1..Len(cells[c].p) : cells[c].p[j] \in Particles \cup {NoParticle}
    BY DEF FluidTypeOK, Cells
  <2>3. \A k : ~Reserved(c, k)
    <3>1. \A t \in tids : step[t] # "copy"
      BY <1>1
    <3> QED BY <3>1 DEF Reserved
  <2>4. \A k \in 1..cells[c].n : k <= Len(cells[c].p) /\ cells[c].p[k] # NoParticle
    BY <2>1, <2>3 DEF Slots
  <2>5. cells[c].n = Len(cells[c].p)
    <3>1. cells[c].n # 0 => cells[c].n \in 1..cells[c].n
      BY <2>2
    <3>2. cells[c].n <= Len(cells[c].p)
      BY <2>2, <2>4, <3>1
    <3> QED BY <2>1, <2>2, <3>2 DEF Slots
  <2> QED BY <2>1, <2>2, <2>4, <2>5 DEF Slots
<1>8. pos \in [Particles -> cellIds]
  BY DEF FluidTypeOK
<1>9. Full(cells, Particles)
  BY <1>6, <1>7, <1>8 DEF Full
<1>10. AllSettled(pos, cells)
  <2>1. ASSUME NEW t \in tids, NEW c \in grid(t), NEW k \in 1..Len(cells[c].p)
        PROVE  pos[cells[c].p[k]] = c
    <3>1. c \in cellIds
      BY Blocks
    <3>2. cells[c].p[k] \in Particles
      BY <1>7, <3>1
    <3>3. PICK j \in 1..Len(cells[pos[cells[c].p[k]]].p) : Once(cells, cells[c].p[k], pos[cells[c].p[k]], j)
      BY <1>6, <3>2
    <3> QED BY <3>1, <3>3 DEF Once
  <2> QED BY <2>1 DEF AllSettled, Settled
<1>11. Conserved(pools, fresh, cells)
  <2>1. ASSUME NEW s \in Nat PROVE Pools(pools, s) + InChains(cells, s) = Known(fresh, s)
    <3> DEFINE g == [c \in cellIds |-> Kept(c, s)]
    <3>1. \A c \in cellIds : g[c] = 0
      <4> TAKE c \in cellIds
      <4>1. Returned(c) = Len(cells2[c].chain)
        BY <1>4 DEF Returned
      <4>2. cells2[c].chain \in Seq(Nat)
        BY DEF FluidTypeOK, Cells
      <4>3. {m \in DOMAIN cells2[c].chain : Returned(c) < m /\ cells2[c].chain[m] = s} = {}
        BY <4>1, <4>2
      <4> QED BY <4>3, FS_EmptySet DEF Kept
    <3> HIDE DEF g
    <3>2. SumFunctionOnSet(g, cellIds) = 0
      BY <3>1, Finiteness, SumZero
    <3>3. InOld(s) = 0
      BY <3>2 DEF g, InOld
    <3>4. Pools(pools, s) + InChains(cells, s) + InOld(s) = Known(fresh, s)
      BY DEF Refiled
    <3>5. Pools(pools, s) \in Nat /\ InChains(cells, s) \in Nat
      BY PoolsDefined, ChainsDefined DEF FluidTypeOK
    <3> QED BY <3>3, <3>4, <3>5
  <2> QED BY <2>1 DEF Conserved
<1> QED
  BY <1>1, <1>2, <1>9, <1>10, <1>11 DEF Initialising, Filled

\* Rebuilt: the last thread leaves all particles filed.
LEMMA RebuiltStep ==
  ASSUME FluidTypeOK, Rebuilding, NEW t \in tids, Rebuilt(t)
  PROVE  FluidTypeOK' /\ (Rebuilding' \/ Initialising') /\ loaded' = loaded
<1>1. PICK f \in Nat : Together(step, passed, cur, InRebuild, "init", 2, f)
  BY DEF Rebuilding
<1>2. /\ step[t] = "rebuild" /\ cur[t].c > Cardinality(grid(t)) /\ Reach(t, "init") /\ cur' = cur
      /\ loaded' = loaded /\ pos' = pos /\ cells' = cells /\ cells2' = cells2 /\ pools' = pools
      /\ alloc' = alloc /\ fresh' = fresh /\ poolAbove' = poolAbove /\ mutex' = mutex
      /\ density' = density
  BY DEF Rebuilt, poolVars
<1>3. Refiled /\ step[t] \in InRebuild
  BY <1>2 DEF Rebuilding, InRebuild
<1>4. /\ step' \in [tids -> Labels] /\ passed' \in [tids -> 0..2] /\ step'[t] = "init"
      /\ \A u \in tids : u # t => step'[u] = step[u]
      /\ \/ Together(step', passed', cur', InRebuild, "init", 2, f)
         \/ AllAt(step', passed', cur', "init", (2 + 1) % 3, f)
  <2>1. /\ "init" \notin InRebuild /\ "init" \in Labels /\ 2 \in 0..2
        /\ \A u \in tids : cur'[u].frame = cur[u].frame
    BY <1>2 DEF InRebuild, Labels
  <2> QED BY <1>1, <1>2, <1>3, <2>1, Reaches
<1>5. FluidTypeOK'
  BY <1>2, <1>4 DEF FluidTypeOK
<1>6. ASSUME NEW c \in grid(t) PROVE Read(c)' = Read(c)
  <2>1. Before(t, c) + 1 < cur[t].c
    <3>1. Before(t, c) \in 0..(Cardinality(grid(t)) - 1) /\ Cardinality(grid(t)) \in Nat
      BY Order
    <3>2. cur[t].c \in Nat
      BY DEF FluidTypeOK, Locals
    <3> QED BY <1>2, <3>1, <3>2
  <2> QED BY <1>2, <1>4, <2>1, ReadOf
<1>7. Refiled'
  <2>1. "init" \notin {"file", "copy"} /\ "init" \notin InRebuild
    BY DEF InRebuild
  <2> QED BY <1>2, <1>3, <1>4, <1>6, <2>1, Onwards
<1>8. CASE Together(step', passed', cur', InRebuild, "init", 2, f)
  BY <1>2, <1>5, <1>7, <1>8 DEF Rebuilding
<1>9. CASE AllAt(step', passed', cur', "init", (2 + 1) % 3, f)
  <2>1. AllAt(step', passed', cur', "init", 0, f)
    <3>1. (2 + 1) % 3 = 0
      OBVIOUS
    <3> QED BY <1>9, <3>1
  <2>2. (/\ FluidTypeOK
         /\ \E g : AllAt(step, passed, cur, "init", 0, g)
         /\ Refiled
         => Initialising)'
    BY InitBegins, PTL
  <2> QED BY <1>2, <1>5, <1>7, <2>1, <2>2
<1> QED
  BY <1>4, <1>8, <1>9

\* A cell with another number of particles ...
LEMMA Widened ==
  ASSUME NEW cell \in Cells, NEW v
  PROVE  [cell EXCEPT !.n = v] = [n |-> v, p |-> cell.p, chain |-> cell.chain]
BY DEF Cells

\* ... and with another chain.
LEMMA Chained ==
  ASSUME NEW cell \in Cells, NEW w
  PROVE  [cell EXCEPT !.chain = w] = [n |-> cell.n, p |-> cell.p, chain |-> w]
BY DEF Cells

\* Another place is reserved in the cell d, with a structure if need be.
LEMMA PlaceTaken ==
  ASSUME NEW cs \in [cellIds -> Cells], NEW d \in cellIds, NEW s
  PROVE  /\ [cs EXCEPT ![d].chain = Append(@, s), ![d].n = @ + 1]
              = [cs EXCEPT ![d] = [n |-> cs[d].n + 1, p |-> cs[d].p, chain |-> Append(cs[d].chain, s)]]
         /\ [cs EXCEPT ![d].n = @ + 1]
              = [cs EXCEPT ![d] = [n |-> cs[d].n + 1, p |-> cs[d].p, chain |-> cs[d].chain]]
<1>1. PICK cell \in Cells : cell = cs[d]
  OBVIOUS
<1>2. PICK v : v = cell.n + 1
  OBVIOUS
<1>3. PICK w : w = Append(cell.chain, s)
  OBVIOUS
<1>4. [cs EXCEPT ![d].chain = Append(@, s), ![d].n = @ + 1] = [cs EXCEPT ![d].chain = w, ![d].n = v]
  BY <1>1, <1>2, <1>3 DEF Cells
<1>5. [cs EXCEPT ![d].n = @ + 1] = [cs EXCEPT ![d] = [cell EXCEPT !.n = v]]
  BY <1>1, <1>2
<1>6. [cs EXCEPT ![d].chain = w] = [cs EXCEPT ![d] = [cell EXCEPT !.chain = w]]
  BY <1>1
<1>7. PICK r : r = [n |-> cell.n, p |-> cell.p, chain |-> w]
  OBVIOUS
<1>8. [cs EXCEPT ![d].chain = w, ![d].n = v] = [[cs EXCEPT ![d] = r] EXCEPT ![d].n = v]
  <2>1. [cs EXCEPT ![d].chain = w, ![d].n = v] = [[cs EXCEPT ![d].chain = w] EXCEPT ![d].n = v]
    OBVIOUS
  <2>2. [cell EXCEPT !.chain = w] = r
    BY <1>7, Chained
  <2> QED BY <1>6, <2>1, <2>2
<1>9. [[cs EXCEPT ![d] = r] EXCEPT ![d].n = v] = [cs EXCEPT ![d] = [r EXCEPT !.n = v]]
  OBVIOUS
<1>10. [r EXCEPT !.n = v] = [n |-> v, p |-> cell.p, chain |-> w]
  BY <1>7
<1>11. [cell EXCEPT !.n = v] = [n |-> v, p |-> cell.p, chain |-> cell.chain]
  BY Widened
<1>12. [cs EXCEPT ![d].n = @ + 1] = [cs EXCEPT ![d] = [n |-> v, p |-> cell.p, chain |-> cell.chain]]
  BY <1>5, <1>11
<1>13. [cs EXCEPT ![d].chain = Append(@, s), ![d].n = @ + 1] = [cs EXCEPT ![d] = [n |-> v, p |-> cell.p, chain |-> w]]
  BY <1>4, <1>8, <1>9, <1>10
<1> QED
  BY <1>1, <1>2, <1>3, <1>12, <1>13

\* The structures that have not been returned are counted.
LEMMA OldDefined ==
  ASSUME FluidTypeOK, NEW s
  PROVE  /\ \A c \in cellIds : Kept(c, s) \in Nat
         /\ InOld(s) \in Nat /\ \A c \in cellIds : Kept(c, s) <= InOld(s)
<1>1. ASSUME NEW c \in cellIds PROVE Kept(c, s) \in Nat
  <2>1. cells2[c].chain \in Seq(Nat)
    BY DEF FluidTypeOK, Cells
  <2>2. IsFiniteSet(DOMAIN cells2[c].chain)
    <3>1. DOMAIN cells2[c].chain = 1..Len(cells2[c].chain) /\ Len(cells2[c].chain) \in Nat
      BY <2>1
    <3>2. IsFiniteSet(1..Len(cells2[c].chain))
      BY <3>1, FS_Interval
    <3> QED BY <3>1, <3>2
  <2>3. IsFiniteSet({m \in DOMAIN cells2[c].chain : Returned(c) < m /\ cells2[c].chain[m] = s})
    BY <2>2, FS_Subset
  <2> QED BY <2>3, FS_CardinalityType DEF Kept
<1> DEFINE g == [c \in cellIds |-> Kept(c, s)]
<1>2. \A c \in cellIds : g[c] \in Nat /\ g[c] = Kept(c, s)
  BY <1>1
<1>3. InOld(s) = SumFunctionOnSet(g, cellIds)
  BY DEF InOld
<1> HIDE DEF g
<1>4. SumFunctionOnSet(g, cellIds) \in Nat /\ \A c \in cellIds : g[c] <= SumFunctionOnSet(g, cellIds)
  BY <1>2, Finiteness, SumNatural
<1> QED
  BY <1>1, <1>2, <1>3, <1>4

\* TakeSlot: the slot is reserved before the mutex is released.
LEMMA TakeSlotStep ==
  ASSUME FluidTypeOK, Rebuilding, NEW t \in tids, TakeSlot(t)
  PROVE  FluidTypeOK' /\ Rebuilding' /\ loaded' = loaded
<1>1. PICK f \in Nat : Together(step, passed, cur, InRebuild, "init", 2, f)
  BY DEF Rebuilding
<1>2. Refiled /\ step[t] = "file" /\ step[t] \in InRebuild /\ Reads(t)
  <2>1. step[t] = "file" /\ Refiled
    BY DEF TakeSlot, Rebuilding
  <2> QED BY <2>1, Busy
<1>3. PICK d \in cellIds : d = Destination(t)
  BY <1>2, Reading
<1>0. PICK n : n = cells[d].n
  OBVIOUS
<1>4. /\ cells \in [cellIds -> Cells] /\ n \in Nat /\ cells[d].p \in Seq(Particles \cup {NoParticle})
      /\ cells[d].chain \in Seq(Nat) /\ Len(cells[d].p) \in Nat
      /\ Len(cells[d].chain) = Structures(n) /\ Len(cells[d].p) <= n
  <2>1. Slots(d)
    BY <1>2 DEF Refiled
  <2> QED BY <1>0, <2>1 DEF FluidTypeOK, Cells, Slots
<1>5. Filing(t) /\ cur[t].np = n
  BY <1>0, <1>2, <1>3 DEF Refiled, Filing
<1> DEFINE more == NeedsStructure(n)
           chain(s) == IF more THEN Append(cells[d].chain, s) ELSE cells[d].chain
<1>6. PICK s : /\ IF more THEN GetCell(t, s) ELSE UNCHANGED <<pools, alloc, fresh>>
               /\ cells' = [cells EXCEPT ![d] = [n |-> n + 1, p |-> cells[d].p, chain |-> chain(s)]]
  <2>1. CASE more
    <3>1. PICK s : GetCell(t, s) /\ cells' = [cells EXCEPT ![d].chain = Append(@, s), ![d].n = @ + 1]
      BY <1>3, <1>5, <2>1 DEF TakeSlot
    <3>2. cells' = [cells EXCEPT ![d] = [n |-> n + 1, p |-> cells[d].p, chain |-> chain(s)]]
      BY <1>0, <1>4, <2>1, <3>1, PlaceTaken
    <3> QED BY <2>1, <3>1, <3>2
  <2>2. CASE ~more
    <3>1. cells' = [cells EXCEPT ![d].n = @ + 1] /\ UNCHANGED <<pools, alloc, fresh>>
      BY <1>3, <1>5, <2>2 DEF TakeSlot
    <3>2. cells' = [cells EXCEPT ![d] = [n |-> n + 1, p |-> cells[d].p, chain |-> chain(0)]]
      BY <1>0, <1>4, <2>2, <3>1, PlaceTaken
    <3> QED BY <2>2, <3>1, <3>2
  <2> QED BY <2>1, <2>2
<1>7. /\ Unlock(d, 0) /\ Continue(t, "copy") /\ cur' = cur
      /\ loaded' = loaded /\ pos' = pos /\ cells2' = cells2 /\ poolAbove' = poolAbove
      /\ density' = density
  BY <1>3 DEF TakeSlot
<1>8. more => s \in Nat
  BY <1>6, StructureTaken
<1>9. chain(s) \in Seq(Nat) /\ Len(chain(s)) = Structures(n + 1)
  <2>1. Structures(n) \in Nat /\ Structures(n + 1) = Structures(n) + IF NeedsStructure(n) THEN 1 ELSE 0
    BY <1>4, StructuresGrow
  <2>2. CASE more
    <3>1. Append(cells[d].chain, s) \in Seq(Nat) /\ Len(Append(cells[d].chain, s)) = Len(cells[d].chain) + 1
      BY <1>4, <1>8, <2>2
    <3>2. Structures(n + 1) = Structures(n) + 1
      BY <2>1, <2>2
    <3> QED BY <1>4, <2>2, <3>1, <3>2
  <2>3. CASE ~more
    <3>1. Structures(n + 1) = Structures(n)
      BY <2>1, <2>3
    <3> QED BY <1>4, <2>3, <3>1
  <2> QED BY <2>2, <2>3
<1>10. /\ cells' \in [cellIds -> Cells]
       /\ cells'[d].n = n + 1 /\ cells'[d].p = cells[d].p /\ cells'[d].chain = chain(s)
       /\ \A e \in cellIds : e # d => cells'[e] = cells[e]
  <2> DEFINE new == [n |-> n + 1, p |-> cells[d].p, chain |-> chain(s)]
  <2>1. new \in Cells /\ new.n = n + 1 /\ new.p = cells[d].p /\ new.chain = chain(s)
    <3> HIDE DEF chain
    <3> QED BY <1>4, <1>9 DEF Cells
  <2>2. cells' = [cells EXCEPT ![d] = new]
    BY <1>6
  <2> HIDE DEF new
  <2>3. cells' \in [cellIds -> Cells] /\ cells'[d] = new /\ \A e \in cellIds : e # d => cells'[e] = cells[e]
    BY <1>4, <2>1, <2>2
  <2> QED BY <2>1, <2>3
<1>11. \A e \in cellIds : cells'[e].p = cells[e].p
  BY <1>10
<1>12. cells[d].n = n
  BY <1>0
<1>13. /\ step' \in [tids -> Labels] /\ passed' \in [tids -> 0..2] /\ step'[t] = "copy"
       /\ \A u \in tids : u # t => step'[u] = step[u]
       /\ Together(step', passed', cur', InRebuild, "init", 2, f)
  <2>1. /\ "init" \notin InRebuild /\ "copy" \in InRebuild
        /\ "copy" \in Labels /\ 2 \in 0..2 /\ \A u \in tids : cur'[u].frame = cur[u].frame
    BY <1>7 DEF InRebuild, Labels
  <2> QED BY <1>1, <1>2, <1>7, <2>1, Continues
<1>14. mutex' \subseteq cellIds \X Nat /\ \A m \in mutex : m # <<d, 0>> => m \in mutex'
  BY <1>7 DEF Unlock, FluidTypeOK
<1>15. /\ pools' \in [tids -> Seq(Nat)] /\ alloc' \in [tids -> Nat \ {0}] /\ fresh' \in Nat \ {0}
       /\ \A x \in Nat : Pools(pools', x) + InChains(cells', x) - Known(fresh', x)
                           = Pools(pools, x) + InChains(cells, x) - Known(fresh, x)
  <2>1. pools \in [tids -> Seq(Nat)] /\ alloc \in [tids -> Nat \ {0}] /\ fresh \in Nat \ {0}
    BY DEF FluidTypeOK
  <2>2. OtherChains(cells, cells', d)
    BY <1>10 DEF OtherChains
  <2>3. \A x \in Nat : InChains(cells', x) =
          (InChains(cells, x) - Occurrences(cells[d].chain, x)) + Occurrences(cells'[d].chain, x)
    BY <1>4, <1>10, <2>2, ChainChanged
  <2>4. CASE more
    <3>1. /\ s \in Nat
          /\ pools' \in [tids -> Seq(Nat)] /\ alloc' \in [tids -> Nat \ {0}] /\ fresh' \in Nat \ {0}
          /\ \A x \in Nat : Pools(pools', x) + (IF s = x THEN 1 ELSE 0) - Known(fresh', x)
                             = Pools(pools, x) - Known(fresh, x)
      BY <1>6, <2>4, StructureTaken
    <3>2. ASSUME NEW x \in Nat
          PROVE  Pools(pools', x) + InChains(cells', x) - Known(fresh', x)
                   = Pools(pools, x) + InChains(cells, x) - Known(fresh, x)
      <4> DEFINE i == IF s = x THEN 1 ELSE 0
      <4>1. Occurrences(cells'[d].chain, x) = Occurrences(cells[d].chain, x) + i
        BY <1>4, <1>10, <2>4, <3>1, OccurrencesAppend
      <4>2. Pools(pools', x) + i - Known(fresh', x) = Pools(pools, x) - Known(fresh, x)
        BY <3>1
      <4>3. i \in Int
        OBVIOUS
      <4> HIDE DEF i
      <4>4. InChains(cells', x) = (InChains(cells, x) - Occurrences(cells[d].chain, x)) + Occurrences(cells'[d].chain, x)
        BY <2>3
      <4>5. Pools(pools, x) \in Nat /\ Pools(pools', x) \in Nat /\ InChains(cells, x) \in Nat
        BY <1>4, <2>1, <3>1, PoolsDefined, ChainsDefined
      <4>6. Known(fresh, x) \in Int /\ Known(fresh', x) \in Int
        BY DEF Known
      <4>7. Occurrences(cells[d].chain, x) \in Nat
        BY <1>4, OccurrencesFinite
      <4> HIDE DEF more
      <4> QED BY <4>1, <4>2, <4>3, <4>4, <4>5, <4>6, <4>7
    <3> QED BY <3>1, <3>2
  <2>5. CASE ~more
    <3>1. pools' = pools /\ alloc' = alloc /\ fresh' = fresh
      BY <1>6, <2>5
    <3>2. ASSUME NEW x \in Nat PROVE InChains(cells', x) = InChains(cells, x)
      <4>1. InChains(cells, x) \in Nat
        BY <1>4, ChainsDefined
      <4>2. Occurrences(cells[d].chain, x) \in Nat
        BY <1>4, OccurrencesFinite
      <4>3. cells'[d].chain = cells[d].chain
        BY <1>10, <2>5
      <4>4. InChains(cells', x) = (InChains(cells, x) - Occurrences(cells[d].chain, x)) + Occurrences(cells[d].chain, x)
        BY <2>3, <4>3
      <4> QED BY <4>1, <4>2, <4>4
    <3> QED BY <2>1, <3>1, <3>2
  <2> QED BY <2>4, <2>5
<1>16. FluidTypeOK'
  BY <1>7, <1>10, <1>13, <1>14, <1>15 DEF FluidTypeOK
<1>17. \A u \in tids : Source(u)' = Source(u) /\ Destination(u)' = Destination(u)
  BY <1>7, SameDestination
<1>18. \A u \in tids : step'[u] = "init" <=> step[u] = "init"
  BY <1>2, <1>13
<1>19. (\A q : Filed(q)' = Filed(q)) /\ (\A x : InOld(x)' = InOld(x))
  <2>1. \A c \in cellIds : Read(c)' = Read(c)
    BY <1>7, <1>18, SameProgress
  <2> QED BY <1>7, <2>1, SameRead
<1>20. \A u \in tids : step[u] = "copy" => step'[u] = "copy" /\ u # t
  BY <1>2, <1>13
<1>21. \A e, k : Reserved(e, k) => Reserved(e, k)'
  BY <1>7, <1>17, <1>20 DEF Reserved
<1>22. \A e \in cellIds : Slots(e)'
  <2> TAKE e \in cellIds
  <2>1. Slots(e)
    BY <1>2 DEF Refiled
  <2>2. CASE e # d
    BY <1>10, <1>21, <2>1, <2>2 DEF Slots
  <2>3. CASE e = d
    <3>1. Len(cells'[d].p) <= n + 1 /\ Len(cells'[d].chain) = Structures(n + 1)
      BY <1>4, <1>9, <1>10
    <3>2. Reserved(d, n + 1)'
      <4>1. cur'[t].np = (n + 1) - 1
        BY <1>4, <1>5, <1>7
      <4> QED BY <1>3, <1>13, <1>17, <4>1 DEF Reserved
    <3>3. ASSUME NEW k \in 1..(n + 1)
          PROVE  Reserved(d, k)' \/ (k <= Len(cells'[d].p) /\ cells'[d].p[k] # NoParticle)
      <4>1. CASE k = n + 1
        BY <3>2, <4>1
      <4>2. CASE k # n + 1
        <5>1. k \in 1..cells[d].n
          BY <1>4, <1>12, <4>2
        <5>2. Reserved(d, k) \/ (k <= Len(cells[d].p) /\ cells[d].p[k] # NoParticle)
          BY <2>1, <2>3, <5>1 DEF Slots
        <5> QED BY <1>10, <1>21, <5>2
      <4> QED BY <4>1, <4>2
    <3> QED BY <1>10, <2>3, <3>1, <3>3 DEF Slots
  <2> QED BY <2>2, <2>3
<1>23. \A u \in tids : step'[u] \in InRebuild => Cursor(u)'
  <2> TAKE u \in tids
  <2> HAVE step'[u] \in InRebuild
  <2>1. Cursor(u) /\ (u = t => cur[u].c <= Cardinality(grid(u)) /\ cur[u].j < cells2[Source(u)].n)
    <3>1. step[u] \in InRebuild
      BY <1>2, <1>13
    <3> QED BY <1>2, <3>1 DEF Refiled, Reads
  <2>2. u # t => step'[u] = step[u]
    BY <1>13
  <2> QED BY <1>7, <1>17, <2>1, <2>2 DEF Cursor
<1>24. \A u \in tids : step'[u] = "file" => Filing(u)'
  <2> SUFFICES ASSUME NEW u \in tids, step'[u] = "file" PROVE Filing(u)'
    OBVIOUS
  <2>1. u # t /\ step[u] = "file" /\ Filing(u)
    BY <1>2, <1>13 DEF Refiled
  <2>2. Destination(u) # d
    BY <1>2, <1>3, <2>1 DEF Refiled, Apart
  <2>3. Destination(u) \in cellIds
    <3>1. step[u] \in InRebuild /\ Reads(u)
      BY <1>2, <2>1, Busy
    <3> QED BY <1>2, <3>1, Reading
  <2>4. cells'[Destination(u)].n = cells[Destination(u)].n
    BY <1>10, <2>2, <2>3
  <2>5. <<Destination(u), 0>> # <<d, 0>>
    BY <2>2
  <2> QED BY <1>7, <1>14, <1>17, <2>1, <2>4, <2>5 DEF Filing
<1>25. \A u \in tids : step'[u] = "copy" => Copying(u)'
  <2> SUFFICES ASSUME NEW u \in tids, step'[u] = "copy" PROVE Copying(u)'
    OBVIOUS
  <2>1. CASE u = t
    <3>1. cur'[t].np = n /\ Destination(t)' = d
      BY <1>3, <1>5, <1>7, <1>17
    <3>2. n < n + 1 /\ ~(n + 1 <= Len(cells[d].p))
      BY <1>4
    <3> QED BY <1>10, <2>1, <3>1, <3>2 DEF Copying
  <2>2. CASE u # t
    <3>1. step[u] = "copy" /\ Copying(u)
      BY <1>2, <1>13, <2>2 DEF Refiled
    <3>2. Destination(u) \in cellIds
      <4>1. step[u] \in InRebuild /\ Reads(u)
        BY <1>2, <3>1, Busy
      <4> QED BY <1>2, <4>1, Reading
    <3>3. cur[u].np \in Nat
      BY DEF FluidTypeOK, Locals
    <3>4. cur[u].np < cells'[Destination(u)].n
      <4>1. cur[u].np < cells[Destination(u)].n
        BY <3>1 DEF Copying
      <4>2. CASE Destination(u) = d
        <5>1. cur[u].np < n /\ cells'[Destination(u)].n = n + 1
          BY <1>10, <1>12, <4>1, <4>2
        <5> QED BY <1>4, <3>3, <5>1
      <4>3. CASE Destination(u) # d
        BY <1>10, <3>2, <4>1, <4>3
      <4> QED BY <4>2, <4>3
    <3> QED BY <1>7, <1>11, <1>17, <3>1, <3>2, <3>4 DEF Copying
  <2> QED BY <2>1, <2>2
<1>26. ASSUME NEW u \in tids, u # t, step[u] = "copy", Destination(u) = d PROVE cur[u].np # n
  <2>1. Copying(u)
    BY <1>2, <1>26 DEF Refiled
  <2>2. cur[u].np < n
    BY <1>12, <1>26, <2>1 DEF Copying
  <2> QED BY <1>4, <2>2
<1>27. \A u, v \in tids : u # v => Apart(u, v)'
  <2> SUFFICES ASSUME NEW u \in tids, NEW v \in tids, u # v PROVE Apart(u, v)'
    OBVIOUS
  <2>1. Apart(u, v)
    BY <1>2 DEF Refiled
  <2>2. step'[u] = "file" /\ step'[v] = "file" => Destination(u)' # Destination(v)'
    <3> HAVE step'[u] = "file" /\ step'[v] = "file"
    <3>1. step[u] = "file" /\ step[v] = "file"
      BY <1>2, <1>13
    <3> QED BY <1>17, <2>1, <3>1 DEF Apart
  <2>3. ~(step'[u] = "copy" /\ step'[v] = "copy" /\ Destination(u)' = Destination(v)' /\ cur'[u].np = cur'[v].np)
    <3>1. CASE u = t
      BY <1>3, <1>5, <1>7, <1>13, <1>17, <1>26, <2>1, <3>1
    <3>2. CASE v = t
      BY <1>3, <1>5, <1>7, <1>13, <1>17, <1>26, <2>1, <3>2
    <3>3. CASE u # t /\ v # t
      BY <1>7, <1>13, <1>17, <2>1, <3>3 DEF Apart
    <3> QED BY <3>1, <3>2, <3>3
  <2> QED BY <2>2, <2>3 DEF Apart
<1>28. \A q \in Particles : Placed(q)'
  <2> TAKE q \in Particles
  <2>1. Placed(q) /\ pos[q] \in cellIds
    BY <1>2 DEF Refiled, FluidTypeOK
  <2>2. \A c, j : Once(cells, q, c, j) => Once(cells', q, c, j)
    BY <1>11 DEF Once
  <2> QED BY <1>7, <1>11, <1>19, <2>1, <2>2 DEF Placed
<1>29. ASSUME NEW x \in Nat PROVE Pools(pools', x) + InChains(cells', x) + InOld(x)' = Known(fresh', x)
  <2>0. PICK a, b, c, e : /\ a = Pools(pools, x) /\ b = Pools(pools', x)
                          /\ c = InChains(cells, x) /\ e = InChains(cells', x)
    OBVIOUS
  <2>00. PICK k, l, o : k = Known(fresh, x) /\ l = Known(fresh', x) /\ o = InOld(x)
    OBVIOUS
  <2>1. Pools(pools, x) + InChains(cells, x) + InOld(x) = Known(fresh, x)
    BY <1>2 DEF Refiled
  <2>2. InOld(x)' = InOld(x)
    BY <1>19
  <2>3. Pools(pools', x) + InChains(cells', x) - Known(fresh', x)
          = Pools(pools, x) + InChains(cells, x) - Known(fresh, x)
    BY <1>15
  <2>4. /\ Pools(pools, x) \in Nat /\ Pools(pools', x) \in Nat
        /\ InChains(cells, x) \in Nat /\ InChains(cells', x) \in Nat
    BY <1>4, <1>10, <1>15, PoolsDefined, ChainsDefined DEF FluidTypeOK
  <2>5. Known(fresh, x) \in Int /\ Known(fresh', x) \in Int
    BY DEF Known
  <2>6. InOld(x) \in Int
    BY OldDefined
  <2>7. a \in Int /\ b \in Int /\ c \in Int /\ e \in Int /\ k \in Int /\ l \in Int /\ o \in Int
    BY <2>0, <2>00, <2>4, <2>5, <2>6
  <2>8. a + c + o = k /\ b + e - l = a + c - k
    BY <2>0, <2>00, <2>1, <2>3
  <2>9. b + e + o = l
    BY <2>7, <2>8
  <2> QED BY <2>0, <2>00, <2>2, <2>9
<1>30. Full(cells2', Particles) /\ Moved(pos', cells2')
  BY <1>2, <1>7 DEF Refiled
<1>31. Refiled'
  BY <1>22, <1>23, <1>24, <1>25, <1>27, <1>28, <1>29, <1>30 DEF Refiled
<1> QED
  BY <1>7, <1>13, <1>16, <1>31 DEF Rebuilding

-----------------------------------------------------------------------------
(* Copying. *)
\* The structures that have been returned when j of the n particles are read.
Back(n, j) ==
  IF j = n THEN Structures(n)
  ELSE IF j < PARTICLES_PER_CELL THEN 0 ELSE (j \div PARTICLES_PER_CELL) - 1

\* The particle j is the last one of a structure of the chain.
Leaves(n, j) ==
  j >= PARTICLES_PER_CELL /\ (j % PARTICLES_PER_CELL = PARTICLES_PER_CELL - 1 \/ j + 1 = n)

\* A structure is returned at the particle that leaves it, and only there.
LEMMA BackSteps ==
  ASSUME NEW n \in Nat, NEW j \in Nat, j < n
  PROVE  /\ Back(n, j) \in Nat
         /\ j >= PARTICLES_PER_CELL =>
              j \div PARTICLES_PER_CELL = Back(n, j) + 1 /\ Back(n, j) + 1 \in 1..Structures(n)
         /\ Leaves(n, j) => Back(n, j + 1) = Back(n, j) + 1
         /\ ~Leaves(n, j) => Back(n, j + 1) = Back(n, j)
<1> DEFINE P == PARTICLES_PER_CELL
<1>1. P \in Nat \ {0}
  BY Numbers
<1>2. PICK q, r : q = j \div P /\ r = j % P
  OBVIOUS
<1>3. q \in Int /\ r \in 0..(P - 1) /\ j = P * q + r
  BY <1>1, <1>2, Divide
<1>4. PICK q2, r2 : q2 = (j + 1) \div P /\ r2 = (j + 1) % P
  OBVIOUS
<1>5. PICK k : k = (n - 1) \div P
  OBVIOUS
<1>6. /\ k \in Int /\ Structures(n) = k
      /\ q <= k
  <2>1. n - 1 \in Int /\ j <= n - 1 /\ n # 0
    OBVIOUS
  <2>2. (n - 1) \div P \in Int /\ j \div P <= (n - 1) \div P
    BY <1>1, <2>1, Divide, DivideMonotonic
  <2> QED BY <1>2, <1>5, <2>1, <2>2 DEF Structures
<1>7. r = P - 1 => q2 = q + 1
  <2> HAVE r = P - 1
  <2>1. q + 1 \in Int /\ 0 \in 0..(P - 1) /\ j + 1 = P * (q + 1) + 0
    <3>1. P * (q + 1) = P * q + P
      BY <1>1, <1>3
    <3>2. P * q \in Int
      BY <1>1, <1>3
    <3> QED BY <1>1, <1>3, <3>1, <3>2
  <2> HIDE DEF P
  <2> QED BY <1>1, <1>4, <2>1, DivideUnique
<1>8. r # P - 1 => q2 = q
  <2> HAVE r # P - 1
  <2>1. r + 1 \in 0..(P - 1) /\ j + 1 = P * q + (r + 1) /\ j + 1 \in Int
    <3>1. P * q \in Int
      BY <1>1, <1>3
    <3> QED BY <1>1, <1>3, <3>1
  <2> DEFINE a == j + 1
             b == r + 1
  <2>2. a \in Int /\ b \in 0..(P - 1) /\ a = P * q + b
    BY <2>1
  <2> HIDE DEF P, a, b
  <2>3. a \div P = q
    BY <1>1, <1>3, <2>2, DivideUnique
  <2> QED BY <1>4, <2>3 DEF a
<1>9. /\ j >= P => q >= 1
      /\ j < P => q = 0 /\ r = j
  <2>1. j \in 0..(P - 1) => q = 0 /\ r = j
    <3> HAVE j \in 0..(P - 1)
    <3>1. j = P * 0 + j /\ 0 \in Int /\ j \in Int
      BY <1>1
    <3> QED BY <1>1, <1>2, <3>1, DivideUnique
  <2>2. j >= P => q >= 1
    <3> HAVE j >= P
    <3>1. P \div P <= j \div P
      BY <1>1, DivideMonotonic
    <3>2. P \div P = 1
      <4>1. P = P * 1 + 0 /\ 0 \in 0..(P - 1) /\ P \in Int /\ 1 \in Int
        BY <1>1
      <4> QED BY <1>1, <4>1, DivideUnique
    <3> QED BY <1>2, <3>1, <3>2
  <2> QED BY <1>1, <2>1, <2>2
<1>10. Back(n, j) = IF j < P THEN 0 ELSE q - 1
  BY <1>2 DEF Back
<1>11. Back(n, j + 1) = IF j + 1 = n THEN k ELSE IF j + 1 < P THEN 0 ELSE q2 - 1
  BY <1>4, <1>6 DEF Back
<1>12. j + 1 = n => k = q
  BY <1>2, <1>5
<1>13. Leaves(n, j) <=> j >= P /\ (r = P - 1 \/ j + 1 = n)
  BY <1>2 DEF Leaves
<1> HIDE DEF P
<1>14. Back(n, j) \in Nat
  BY <1>1, <1>3, <1>9, <1>10
<1>15. j >= P => q = Back(n, j) + 1 /\ Back(n, j) + 1 \in 1..Structures(n)
  BY <1>1, <1>3, <1>6, <1>9, <1>10
<1>16. Leaves(n, j) => Back(n, j + 1) = Back(n, j) + 1
  <2> HAVE Leaves(n, j)
  <2>1. CASE j + 1 = n
    BY <1>1, <1>3, <1>10, <1>11, <1>12, <1>13, <2>1
  <2>2. CASE j + 1 # n
    BY <1>1, <1>3, <1>7, <1>10, <1>11, <1>13, <2>2
  <2> QED BY <2>1, <2>2
<1>17. ~Leaves(n, j) => Back(n, j + 1) = Back(n, j)
  <2> HAVE ~Leaves(n, j)
  <2>1. CASE j < P
    <3>1. q = 0 /\ r = j /\ Back(n, j) = 0
      BY <1>9, <1>10, <2>1
    <3>2. CASE j + 1 = n
      BY <1>11, <1>12, <3>1, <3>2
    <3>3. CASE j + 1 # n /\ j + 1 < P
      BY <1>11, <3>1, <3>3
    <3>4. CASE j + 1 # n /\ ~(j + 1 < P)
      <4>1. r = P - 1
        BY <1>1, <2>1, <3>1, <3>4
      <4> QED BY <1>7, <1>11, <3>1, <3>4, <4>1
    <3> QED BY <3>2, <3>3, <3>4
  <2>2. CASE ~(j < P)
    BY <1>1, <1>3, <1>8, <1>10, <1>11, <1>13, <2>2
  <2> QED BY <2>1, <2>2
<1> QED
  BY <1>2, <1>14, <1>15, <1>16, <1>17 DEF P

\* The structures of a chain from number m on that are s.
Rest(chain, m, s) == Cardinality({k \in DOMAIN chain : m < k /\ chain[k] = s})

\* One structure less is left in a chain.
LEMMA RestLoses ==
  ASSUME NEW chain \in Seq(Nat), NEW m \in Nat, m + 1 \in 1..Len(chain), NEW s
  PROVE  /\ Rest(chain, m, s) \in Nat
         /\ Rest(chain, m, s) = Rest(chain, m + 1, s) + IF chain[m + 1] = s THEN 1 ELSE 0
<1> DEFINE A == {k \in DOMAIN chain : m < k /\ chain[k] = s}
           B == {k \in DOMAIN chain : m + 1 < k /\ chain[k] = s}
<1>1. DOMAIN chain = 1..Len(chain) /\ Len(chain) \in Nat
  OBVIOUS
<1>2. IsFiniteSet(A) /\ IsFiniteSet(B)
  <2>1. IsFiniteSet(1..Len(chain))
    BY <1>1, FS_Interval
  <2> QED BY <1>1, <2>1, FS_Subset
<1>3. Cardinality(A) \in Nat /\ Cardinality(B) \in Nat
  BY <1>2, FS_CardinalityType
<1>4. \A k \in 1..Len(chain) : m < k <=> k = m + 1 \/ m + 1 < k
  BY <1>1
<1>5. CASE chain[m + 1] = s
  <2>1. A = B \cup {m + 1} /\ m + 1 \notin B
    BY <1>1, <1>4, <1>5
  <2>2. Cardinality(A) = Cardinality(B) + 1
    <3> HIDE DEF A, B
    <3> QED BY <1>2, <2>1, FS_AddElement
  <2> QED BY <1>3, <1>5, <2>2 DEF Rest
<1>6. CASE chain[m + 1] # s
  <2>1. A = B
    BY <1>1, <1>4, <1>6
  <2>2. Rest(chain, m, s) = Cardinality(A) /\ Rest(chain, m + 1, s) = Cardinality(B)
    BY DEF Rest
  <2> HIDE DEF A, B
  <2> QED BY <1>3, <1>6, <2>1, <2>2
<1> QED BY <1>5, <1>6

\* No structure that is still in a chain is 0, which stands for none.
LEMMA NoNull ==
  ASSUME FluidTypeOK, Refiled, NEW c \in cellIds, NEW m \in 1..Len(cells2[c].chain), Returned(c) < m
  PROVE  cells2[c].chain[m] # 0
<1>1. Pools(pools, 0) + InChains(cells, 0) + InOld(0) = 0
  <2>1. Known(fresh, 0) = 0
    BY DEF Known
  <2> QED BY <2>1 DEF Refiled
<1>2. /\ Pools(pools, 0) \in Nat /\ InChains(cells, 0) \in Nat
      /\ InOld(0) \in Nat /\ Kept(c, 0) \in Nat /\ Kept(c, 0) <= InOld(0)
  BY OldDefined, PoolsDefined, ChainsDefined DEF FluidTypeOK
<1>3. Kept(c, 0) = 0
  BY <1>1, <1>2
<1> DEFINE A == {k \in DOMAIN cells2[c].chain : Returned(c) < k /\ cells2[c].chain[k] = 0}
<1>4. cells2[c].chain \in Seq(Nat)
  BY DEF FluidTypeOK, Cells
<1>5. IsFiniteSet(A)
  <2>1. DOMAIN cells2[c].chain = 1..Len(cells2[c].chain) /\ Len(cells2[c].chain) \in Nat
    BY <1>4
  <2>2. IsFiniteSet(DOMAIN cells2[c].chain)
    BY <2>1, FS_Interval
  <2> QED BY <2>2, FS_Subset
<1>6. A = {}
  <2>1. Cardinality(A) = 0
    BY <1>3 DEF Kept
  <2> HIDE DEF A
  <2> QED BY <1>5, <2>1, FS_EmptySet
<1> QED
  BY <1>4, <1>6

\* A thread that copies has read one more particle of the cell it is at.
LEMMA OneMoreRead ==
  ASSUME FluidTypeOK, Refiled, NEW t \in tids, CopyParticle(t)
  PROVE  \A c \in cellIds : Read(c)' = IF c = Source(t) THEN cur[t].j + 1 ELSE Read(c)
<1>1. /\ step[t] = "copy" /\ Continue(t, "rebuild") /\ cur' = [cur EXCEPT ![t].j = @ + 1]
      /\ cells2' = cells2
  BY DEF CopyParticle
<1>2. step[t] \in InRebuild /\ Reads(t)
  BY <1>1, Busy
<1>3. /\ Source(t) \in grid(t) /\ Before(t, Source(t)) + 1 = cur[t].c /\ cur[t].c \in Nat
  BY <1>2, Reading DEF FluidTypeOK, Locals
<1>4. /\ cur'[t].j = cur[t].j + 1 /\ cur'[t].c = cur[t].c
      /\ \A u \in tids : u # t => cur'[u] = cur[u] /\ step'[u] = step[u]
      /\ step'[t] = "rebuild"
  <2>1. cur \in [tids -> Locals] /\ step \in [tids -> Labels]
    BY DEF FluidTypeOK
  <2> QED BY <1>1, <2>1 DEF Locals, Continue
<1> TAKE c \in cellIds
<1>5. PICK u \in tids : c \in grid(u)
  BY Blocks
<1>6. CASE u # t
  <2>1. c # Source(t)
    BY <1>3, <1>5, <1>6, Blocks
  <2> QED BY <1>1, <1>4, <1>5, <1>6, <2>1, ReadOf
<1>7. CASE u = t
  <2>1. step[t] # "init" /\ step'[t] # "init"
    BY <1>1, <1>4
  <2>2. Before(t, c) \in 0..(Cardinality(grid(t)) - 1) /\ Before(t, Source(t)) \in 0..(Cardinality(grid(t)) - 1)
    BY <1>3, <1>5, <1>7, Order
  <2>3. CASE c = Source(t)
    <3>1. Before(t, c) + 1 = cur'[t].c /\ ~(Before(t, c) + 1 < cur'[t].c)
      BY <1>3, <1>4, <2>2, <2>3
    <3> QED BY <1>4, <1>5, <1>7, <2>1, <2>3, <3>1, ReadOf
  <2>4. CASE c # Source(t)
    <3>1. Before(t, c) # Before(t, Source(t))
      BY <1>3, <1>5, <1>7, <2>4, Order
    <3>2. Before(t, c) + 1 # cur[t].c
      BY <1>3, <2>2, <3>1
    <3> QED BY <1>1, <1>4, <1>5, <1>7, <2>1, <2>4, <3>2, ReadOf
  <2> QED BY <2>3, <2>4
<1> QED BY <1>6, <1>7

\* What has been returned, in terms of what has been read.
LEMMA ReturnedIs ==
  ASSUME Full(cells2, Particles), NEW c \in cellIds
  PROVE  /\ Returned(c) = Back(cells2[c].n, Read(c))
         /\ \A s : Kept(c, s) = Rest(cells2[c].chain, Returned(c), s)
BY DEF Full, Returned, Back, Kept, Rest

\* CopyParticle: a structure leaves the old chain exactly when it enters the pool.
LEMMA StructureReturned ==
  ASSUME FluidTypeOK, Refiled, NEW t \in tids, CopyParticle(t)
  PROVE  /\ pools' \in [tids -> Seq(Nat)]
         /\ \A x \in Nat : Pools(pools', x) + InOld(x)' = Pools(pools, x) + InOld(x)
<1>1. step[t] = "copy" /\ cells2' = cells2
  BY DEF CopyParticle
<1>2. step[t] \in InRebuild /\ Reads(t)
  BY <1>1, Busy
<1>3. PICK c \in cellIds : c = Source(t)
  BY <1>2, Reading
<1>4. PICK j, n : j = cur[t].j /\ n = cells2[c].n
  OBVIOUS
<1>5. j \in Nat /\ n \in Nat /\ j < n /\ Read(c) = j
  BY <1>2, <1>3, <1>4, Reading DEF Reads
<1>6. Full(cells2, Particles)
  BY DEF Refiled
<1>7. PICK chain : chain = cells2[c].chain
  OBVIOUS
<1>8. chain \in Seq(Nat) /\ Len(chain) = Structures(n)
  BY <1>4, <1>6, <1>7 DEF FluidTypeOK, Cells, Full
<1>9. PICK m : m = Back(n, j)
  OBVIOUS
<1>10. m \in Nat /\ Returned(c) = m
  BY <1>4, <1>5, <1>6, <1>9, BackSteps, ReturnedIs
<1>11. \A e \in cellIds : Read(e)' = IF e = c THEN j + 1 ELSE Read(e)
  BY <1>3, <1>4, OneMoreRead
<1>12. \A e \in cellIds : /\ Returned(e) = Back(cells2[e].n, Read(e))
                           /\ \A s : Kept(e, s) = Rest(cells2[e].chain, Returned(e), s)
  BY <1>6, ReturnedIs
<1>13. \A e \in cellIds : /\ Returned(e)' = Back(cells2[e].n, Read(e)')
                           /\ \A s : Kept(e, s)' = Rest(cells2[e].chain, Returned(e)', s)
  BY <1>1, <1>6 DEF Full, Returned, Back, Kept, Rest
<1>14. \A e \in cellIds : e # c => \A s : Kept(e, s)' = Kept(e, s)
  BY <1>11, <1>12, <1>13
<1>15. \A s : /\ Kept(c, s) = Rest(chain, m, s)
              /\ Kept(c, s)' = Rest(chain, Back(n, j + 1), s)
  BY <1>4, <1>7, <1>10, <1>11, <1>12, <1>13
<1>16. /\ pools \in [tids -> Seq(Nat)]
       /\ pools' = IF StructureOf(cells2[c], j) # 0 /\ ReadLast(cells2[c], j)
                     THEN [pools EXCEPT ![t] = <<StructureOf(cells2[c], j)>> \o @]
                     ELSE pools
  BY <1>3, <1>4 DEF FluidTypeOK, CopyParticle
<1>17. PICK y : y = StructureOf(cells2[c], j)
  OBVIOUS
<1>18. CASE Leaves(n, j)
  <2>1. m + 1 \in 1..Len(chain) /\ j \div PARTICLES_PER_CELL = m + 1 /\ Back(n, j + 1) = m + 1
        /\ ~(j < PARTICLES_PER_CELL) /\ ReadLast(cells2[c], j)
    <3>1. PARTICLES_PER_CELL \in Nat
      BY Numbers
    <3>2. j >= PARTICLES_PER_CELL
      BY <1>18 DEF Leaves
    <3>3. ReadLast(cells2[c], j)
      BY <1>4, <1>18 DEF Leaves, ReadLast
    <3> QED BY <1>5, <1>8, <1>9, <1>18, <3>1, <3>2, <3>3, BackSteps
  <2>2. y = chain[m + 1] /\ y \in Nat
    BY <1>7, <1>8, <1>17, <2>1 DEF StructureOf
  <2>3. y # 0
    <3>1. m < m + 1
      BY <1>10
    <3> QED BY <1>7, <1>10, <2>1, <2>2, <3>1, NoNull
  <2>4. pools' = [pools EXCEPT ![t] = <<y>> \o @]
    BY <1>16, <1>17, <2>1, <2>3
  <2>5. pools[t] \in Seq(Nat)
    BY <1>16
  <2>6. <<y>> \o pools[t] \in Seq(Nat) /\ \A s : Occurrences(<<y>> \o pools[t], s) = Occurrences(pools[t], s) + IF y = s THEN 1 ELSE 0
    BY <2>2, <2>5, OccurrencesPush
  <2>7. pools' \in [tids -> Seq(Nat)] /\ pools'[t] = <<y>> \o pools[t]
    BY <1>16, <2>4, <2>6
  <2>8. Elsewhere(pools, pools', t)
    BY <1>16, <2>4 DEF Elsewhere
  <2>9. ASSUME NEW x \in Nat PROVE Pools(pools', x) + InOld(x)' = Pools(pools, x) + InOld(x)
    <3>1. PICK i : i = IF y = x THEN 1 ELSE 0
      OBVIOUS
    <3>2. Kept(c, x) = Kept(c, x)' + i
      BY <1>8, <1>10, <1>15, <2>1, <2>2, <3>1, RestLoses
    <3>3. Pools(pools', x) = (Pools(pools, x) - Occurrences(pools[t], x)) + Occurrences(pools'[t], x)
      BY <1>16, <2>7, <2>8, PoolChanged, ZenonT(60)
    <3>4. Occurrences(pools'[t], x) = Occurrences(pools[t], x) + i
      BY <2>6, <2>7, <3>1
    <3>5. Pools(pools, x) \in Nat /\ Occurrences(pools[t], x) \in Nat /\ i \in Int
      <4>1. Pools(pools, x) \in Nat
        BY <1>16, PoolsDefined
      <4>2. Occurrences(pools[t], x) \in Nat
        BY <2>5, OccurrencesFinite
      <4> QED BY <3>1, <4>1, <4>2
    <3>6. Pools(pools', x) = Pools(pools, x) + i
      BY <3>3, <3>4, <3>5
    <3>7. PICK g, h : g = [e \in cellIds |-> Kept(e, x)] /\ h = [e \in cellIds |-> Kept(e, x)']
      OBVIOUS
    <3>8. InOld(x) = SumFunctionOnSet(g, cellIds) /\ InOld(x)' = SumFunctionOnSet(h, cellIds)
      BY <3>7 DEF InOld
    <3>9. \A e \in cellIds : Kept(e, x) \in Nat
      BY OldDefined
    <3>10. Kept(c, x)' \in Int
      <4>1. Kept(c, x) \in Int
        BY <3>9
      <4>2. Kept(c, x)' = Rest(chain, m + 1, x)
        BY <1>15, <2>1
      <4>3. DOMAIN chain = 1..Len(chain) /\ Len(chain) \in Nat
        BY <1>8
      <4>4. IsFiniteSet(DOMAIN chain)
        BY <4>3, FS_Interval
      <4>5. IsFiniteSet({k \in DOMAIN chain : m + 1 < k /\ chain[k] = x})
        BY <4>4, FS_Subset
      <4>6. Cardinality({k \in DOMAIN chain : m + 1 < k /\ chain[k] = x}) \in Nat
        BY <4>5, FS_CardinalityType
      <4> QED BY <4>2, <4>6 DEF Rest
    <3>11. Differ(g, h, cellIds, c) /\ g[c] = Kept(c, x) /\ h[c] = Kept(c, x)'
      <4>1. \A e \in cellIds : g[e] = Kept(e, x) /\ h[e] = Kept(e, x)'
        BY <3>7
      <4>2. \A e \in cellIds : e # c => Kept(e, x)' = Kept(e, x)
        BY <1>14
      <4> QED BY <3>9, <3>10, <4>1, <4>2 DEF Differ
    <3>12. InOld(x)' = (InOld(x) - Kept(c, x)) + Kept(c, x)'
      BY <3>8, <3>11, Finiteness, SumChanged
    <3>13. InOld(x) \in Int /\ Kept(c, x) \in Int
      BY <3>9, OldDefined
    <3>14. InOld(x)' = InOld(x) - i
      BY <3>2, <3>5, <3>10, <3>12, <3>13
    <3> QED BY <3>5, <3>6, <3>13, <3>14
  <2> QED BY <2>7, <2>9
<1>19. CASE ~Leaves(n, j)
  <2>1. Back(n, j + 1) = m
    BY <1>5, <1>9, <1>19, BackSteps
  <2>2. y = 0 \/ ~ReadLast(cells2[c], j)
    <3>1. PARTICLES_PER_CELL \in Nat
      BY Numbers
    <3>2. j < PARTICLES_PER_CELL \/ j >= PARTICLES_PER_CELL
      BY <1>5, <3>1
    <3>3. j < PARTICLES_PER_CELL => y = 0
      BY <1>17 DEF StructureOf
    <3>4. j >= PARTICLES_PER_CELL => ~ReadLast(cells2[c], j)
      BY <1>4, <1>19 DEF Leaves, ReadLast
    <3> QED BY <3>2, <3>3, <3>4
  <2>3. pools' = pools
    BY <1>16, <1>17, <2>2
  <2>4. ASSUME NEW x \in Nat PROVE InOld(x)' = InOld(x)
    <3>1. \A e \in cellIds : Kept(e, x)' = Kept(e, x)
      BY <1>14, <1>15, <2>1
    <3>2. [e \in cellIds |-> Kept(e, x)'] = [e \in cellIds |-> Kept(e, x)]
      BY <3>1
    <3> QED BY <3>2 DEF InOld
  <2> QED BY <1>16, <2>3, <2>4
<1> QED BY <1>18, <1>19

\* Between cs and ds, q is stored in slot j of the cell d.
Put(cs, ds, d, j, q) ==
  /\ d \in cellIds /\ \A e \in cellIds : e # d => ds[e] = cs[e]
  /\ HasStored(ds[d], cs[d], j, q)
  /\ j + 1 <= Len(cs[d].p) => cs[d].p[j + 1] = NoParticle

\* k is a slot of the cell c with r in it.
InSlot(cs, c, k, r) == k \in 1..Len(cs[c].p) /\ cs[c].p[k] = r

\* In a slot where nobody was: only q is new, and nobody is lost.
LEMMA OthersStay ==
  ASSUME NEW cs \in [cellIds -> Cells], NEW ds, NEW d, NEW j \in Nat, NEW q \in Particles,
         Put(cs, ds, d, j, q)
  PROVE  /\ InSlot(ds, d, j + 1, q)
         /\ \A e \in cellIds, k \in Nat : InSlot(ds, e, k, q) => InSlot(cs, e, k, q) \/ (e = d /\ k = j + 1)
         /\ \A e \in cellIds, k \in Nat, r \in Particles : r # q => (InSlot(ds, e, k, r) <=> InSlot(cs, e, k, r))
<1>1. /\ d \in cellIds /\ \A e \in cellIds : e # d => ds[e] = cs[e]
      /\ j + 1 <= Len(cs[d].p) => cs[d].p[j + 1] = NoParticle
  BY DEF Put
<1>2. PICK p, pp : p = cs[d].p /\ pp = ds[d].p
  OBVIOUS
<1>3. Len(p) \in Nat
  BY <1>1, <1>2 DEF Cells
<1>4. /\ j < Len(p) => Len(pp) = Len(p)
      /\ j >= Len(p) => Len(pp) = j + 1
      /\ \A i \in 1..Len(pp) : pp[i] = IF i = j + 1 THEN q ELSE IF i <= Len(p) THEN p[i] ELSE NoParticle
  BY <1>2 DEF Put, HasStored
<1>5. Len(pp) \in Nat /\ j + 1 \in 1..Len(pp) /\ Len(p) <= Len(pp)
  BY <1>3, <1>4
<1>6. NoParticle \notin Particles
  BY DEF NoParticle, Particles
<1>7. \A r \in Particles, k \in Nat : r # q => (InSlot(ds, d, k, r) <=> InSlot(cs, d, k, r))
  <2> SUFFICES ASSUME NEW r \in Particles, NEW k \in Nat, r # q
               PROVE  InSlot(ds, d, k, r) <=> InSlot(cs, d, k, r)
    OBVIOUS
  <2>1. ASSUME k \in 1..Len(pp), pp[k] = r PROVE k \in 1..Len(p) /\ p[k] = r
    <3>1. k # j + 1 /\ k <= Len(p) /\ p[k] = r
      BY <1>4, <1>6, <2>1
    <3> QED BY <1>3, <2>1, <3>1
  <2>2. ASSUME k \in 1..Len(p), p[k] = r PROVE k \in 1..Len(pp) /\ pp[k] = r
    <3>1. k # j + 1
      <4>1. ASSUME k = j + 1 PROVE FALSE
        <5>1. j + 1 <= Len(p)
          BY <1>3, <2>2, <4>1
        <5>2. p[k] = NoParticle
          BY <1>1, <1>2, <4>1, <5>1
        <5> QED BY <1>6, <2>2, <5>2
      <4> QED BY <4>1
    <3>2. k \in 1..Len(pp) /\ k <= Len(p)
      BY <1>3, <1>5, <2>2
    <3> QED BY <1>4, <2>2, <3>1, <3>2
  <2> QED BY <1>2, <2>1, <2>2 DEF InSlot
<1>8. InSlot(ds, d, j + 1, q)
  <2>1. pp[j + 1] = q
    BY <1>4, <1>5
  <2> QED BY <1>2, <1>5, <2>1 DEF InSlot
<1>9. \A k \in Nat : InSlot(ds, d, k, q) => InSlot(cs, d, k, q) \/ k = j + 1
  <2> SUFFICES ASSUME NEW k \in Nat, k \in 1..Len(pp), pp[k] = q, k # j + 1
               PROVE  k \in 1..Len(p) /\ p[k] = q
    BY <1>2 DEF InSlot
  <2>1. k <= Len(p) /\ p[k] = q
    BY <1>4, <1>6
  <2> QED BY <1>3, <2>1
<1>10. \A e \in cellIds : \A k, r : e # d => (InSlot(ds, e, k, r) <=> InSlot(cs, e, k, r))
  BY <1>1 DEF InSlot
<1> QED
  BY <1>7, <1>8, <1>9, <1>10

\* Being stored once, slot by slot.
LEMMA OnceAt ==
  ASSUME NEW cs \in [cellIds -> Cells], NEW q
  PROVE  /\ \A c \in cellIds, j \in Nat : Once(cs, q, c, j) <=>
              /\ InSlot(cs, c, j, q)
              /\ \A d \in cellIds, k \in Nat : InSlot(cs, d, k, q) => d = c /\ k = j
         /\ (\A d \in cellIds : \A k \in 1..Len(cs[d].p) : cs[d].p[k] # q)
              <=> \A d \in cellIds, k \in Nat : ~InSlot(cs, d, k, q)
         /\ \A c \in cellIds : \A j : InSlot(cs, c, j, q) => j \in Nat
<1>1. \A c \in cellIds : Len(cs[c].p) \in Nat
  BY DEF Cells
<1>2. \A c \in cellIds : \A k \in 1..Len(cs[c].p) : k \in Nat
  BY <1>1
<1> QED
  BY <1>2 DEF Once, InSlot

\* No more has been read of a cell than is in it.
LEMMA ReadBounded ==
  ASSUME FluidTypeOK, Refiled, \A u \in tids : step[u] \in InRebuild \/ step[u] = "init",
         NEW c \in cellIds
  PROVE  Read(c) \in 0..cells2[c].n /\ cells2[c].n = Len(cells2[c].p) /\ cells2[c].n \in Nat
<1>1. cells2[c].n = Len(cells2[c].p) /\ cells2[c].n \in Nat
  BY DEF Refiled, Full, FluidTypeOK, Cells
<1>2. PICK t \in tids : c \in grid(t)
  BY Blocks
<1>3. Read(c) = IF step[t] = "init" \/ Before(t, c) + 1 < cur[t].c THEN cells2[c].n
                ELSE IF Before(t, c) + 1 = cur[t].c THEN cur[t].j ELSE 0
  BY <1>2, ReadOf
<1>4. CASE step[t] # "init" /\ Before(t, c) + 1 = cur[t].c
  <2>1. Before(t, c) \in 0..(Cardinality(grid(t)) - 1) /\ Cardinality(grid(t)) \in Nat
    BY <1>2, Order
  <2>2. cur[t].c \in 1..Cardinality(grid(t)) /\ cur[t].j \in Nat
    BY <1>4, <2>1 DEF FluidTypeOK, Locals
  <2>3. Source(t) \in grid(t) /\ Before(t, Source(t)) + 1 = cur[t].c
    BY <2>2, Walking
  <2>4. Before(t, Source(t)) \in 0..(Cardinality(grid(t)) - 1)
    BY <2>3, Order
  <2>5. Before(t, Source(t)) = Before(t, c)
    BY <1>4, <2>1, <2>3, <2>4
  <2>6. Source(t) = c
    BY <1>2, <2>3, <2>5, Order
  <2>7. Cursor(t)
    BY <1>4 DEF Refiled
  <2>8. cur[t].j <= cells2[c].n
    BY <2>2, <2>6, <2>7 DEF Cursor
  <2> QED BY <1>1, <1>3, <1>4, <2>1, <2>2, <2>8
<1>5. CASE ~(step[t] # "init" /\ Before(t, c) + 1 = cur[t].c)
  BY <1>1, <1>3, <1>5
<1> QED BY <1>1, <1>4, <1>5

\* The structures that have not been returned are a number.
LEMMA OldNumbers == FluidTypeOK => \A s : InOld(s) \in Nat
BY OldDefined

\* CopyParticle: the particle goes into a slot reserved for it.
LEMMA CopyParticleStep ==
  ASSUME FluidTypeOK, Rebuilding, NEW t \in tids, CopyParticle(t)
  PROVE  FluidTypeOK' /\ Rebuilding' /\ loaded' = loaded
<1>1. PICK f \in Nat : Together(step, passed, cur, InRebuild, "init", 2, f)
  BY DEF Rebuilding
<1>2. /\ step[t] = "copy" /\ Refiled /\ Continue(t, "rebuild")
      /\ cur' = [cur EXCEPT ![t].j = @ + 1]
      /\ loaded' = loaded /\ pos' = pos /\ cells2' = cells2 /\ alloc' = alloc /\ fresh' = fresh
      /\ poolAbove' = poolAbove /\ mutex' = mutex /\ density' = density
  BY DEF CopyParticle, Rebuilding
<1>3. step[t] \in InRebuild /\ Reads(t)
  BY <1>2, Busy
<1>4. PICK d \in cellIds : d = Destination(t)
  BY <1>2, <1>3, Reading
<1>5. PICK c \in cellIds : c = Source(t)
  BY <1>2, <1>3, Reading
<1>6. PICK q \in Particles : q = Particle(t)
  BY <1>2, <1>3, Reading
<1>7. PICK np, j : np = cur[t].np /\ j = cur[t].j
  OBVIOUS
<1>8. /\ np \in Nat /\ j \in Nat /\ j < cells2[c].n /\ cells2[c].n \in Nat
      /\ cells2[c].n = Len(cells2[c].p) /\ j + 1 \in 1..Len(cells2[c].p)
      /\ cells2[c].p[j + 1] = q /\ Read(c) = j /\ pos[q] = d
      /\ cur[t].c <= Cardinality(grid(t))
  <2>1. np \in Nat
    BY <1>7 DEF FluidTypeOK, Locals
  <2>2. pos[q] = d
    BY <1>4, <1>6 DEF Destination
  <2> QED BY <1>2, <1>3, <1>5, <1>6, <1>7, <2>1, <2>2, Reading DEF Reads
<1>9. cells \in [cellIds -> Cells]
  BY DEF FluidTypeOK
<1>10. Copying(t) /\ np < cells[d].n /\ (np + 1 <= Len(cells[d].p) => cells[d].p[np + 1] = NoParticle)
  BY <1>2, <1>4, <1>7 DEF Refiled, Copying
<1>11. /\ cells' \in [cellIds -> Cells] /\ Put(cells, cells', d, np, q)
       /\ cells'[d].n = cells[d].n /\ cells'[d].chain = cells[d].chain
  <2>1. cells' = [cells EXCEPT ![d] = Stored(cells[d], np, q)]
    BY <1>4, <1>6, <1>7 DEF CopyParticle
  <2>2. cells[d] \in Cells
    BY <1>9
  <2>3. HasStored(Stored(cells[d], np, q), cells[d], np, q)
    BY <1>8, <2>2, StoredCell
  <2>4. Stored(cells[d], np, q) \in Cells
    BY <2>3 DEF HasStored
  <2>5. /\ cells' \in [cellIds -> Cells] /\ cells'[d] = Stored(cells[d], np, q)
        /\ \A e \in cellIds : e # d => cells'[e] = cells[e]
    BY <1>9, <2>1, <2>4
  <2> QED BY <1>10, <2>3, <2>5 DEF Put, HasStored
<1>12. \A e \in cellIds : cells'[e].n = cells[e].n /\ cells'[e].chain = cells[e].chain
  BY <1>11 DEF Put
<1>13. PICK new : new = [cur[t] EXCEPT !.j = j + 1]
  OBVIOUS
<1>14. /\ new \in Locals /\ new.frame = cur[t].frame /\ new.c = cur[t].c /\ new.j = j + 1
       /\ new.np = np
  <2>1. cur[t] \in Locals /\ j + 1 \in Nat
    BY <1>8 DEF FluidTypeOK
  <2> QED BY <1>7, <1>13, <2>1 DEF Locals
<1>15. /\ cur' \in [tids -> Locals] /\ cur'[t] = new
       /\ \A u \in tids : u # t => cur'[u] = cur[u]
       /\ \A u \in tids : cur'[u].frame = cur[u].frame
  <2>1. cur' = [cur EXCEPT ![t] = new]
    BY <1>2, <1>7, <1>13
  <2> QED BY <1>14, <2>1, LocalsChanged
<1>16. /\ step' \in [tids -> Labels] /\ passed' \in [tids -> 0..2] /\ step'[t] = "rebuild"
       /\ \A u \in tids : u # t => step'[u] = step[u]
       /\ Together(step', passed', cur', InRebuild, "init", 2, f)
  <2>1. /\ "init" \notin InRebuild /\ "rebuild" \in InRebuild
        /\ "rebuild" \in Labels /\ 2 \in 0..2
    BY DEF InRebuild, Labels
  <2> QED BY <1>1, <1>2, <1>3, <1>15, <2>1, Continues
<1>17. /\ pools' \in [tids -> Seq(Nat)]
       /\ \A x \in Nat : Pools(pools', x) + InOld(x)' = Pools(pools, x) + InOld(x)
  BY <1>2, StructureReturned
<1>18. FluidTypeOK'
  BY <1>2, <1>11, <1>15, <1>16, <1>17 DEF FluidTypeOK
<1>19. \A u \in tids : u # t => Source(u)' = Source(u) /\ Destination(u)' = Destination(u)
  BY <1>2, <1>15, SameDestination
<1>20. \A e \in cellIds : Read(e)' = IF e = c THEN j + 1 ELSE Read(e)
  BY <1>2, <1>5, <1>7, OneMoreRead
<1>21. \A r : Filed(r)' <=> Filed(r) \/ r = q
  <2>1. 1..(j + 1) = (1..j) \cup {j + 1}
    BY <1>8
  <2>2. \A r, e : e \in cellIds => ((\E i \in 1..Read(e)' : cells2[e].p[i] = r)
                     <=> (\E i \in 1..Read(e) : cells2[e].p[i] = r) \/ (e = c /\ r = q))
    BY <1>8, <1>20, <2>1
  <2> QED BY <1>2, <2>2, ZenonT(60) DEF Filed
<1>22. ~Filed(q)
  <2>1. ASSUME NEW e \in cellIds, NEW i \in 1..Read(e), cells2[e].p[i] = q PROVE FALSE
    <3>1. \A u \in tids : step[u] \in InRebuild \/ step[u] = "init"
      BY <1>1 DEF Together
    <3>2. Read(e) \in 0..cells2[e].n /\ cells2[e].n = Len(cells2[e].p) /\ cells2[e].n \in Nat
      BY <1>2, <3>1, ReadBounded
    <3>3. i \in 1..Len(cells2[e].p)
      BY <3>2
    <3>4. PICK k : k = j + 1
      OBVIOUS
    <3>5. k \in 1..Len(cells2[c].p) /\ cells2[e].p[i] = cells2[c].p[k] /\ Full(cells2, Particles)
      BY <1>2, <1>8, <2>1, <3>4 DEF Refiled
    <3>6. e = c /\ i = k
      BY <3>3, <3>5, StoredOnce
    <3> QED BY <1>8, <3>4, <3>6
  <2> QED BY <2>1 DEF Filed
<1>23. /\ InSlot(cells', d, np + 1, q)
       /\ \A e \in cellIds, k \in Nat : InSlot(cells', e, k, q) => InSlot(cells, e, k, q) \/ (e = d /\ k = np + 1)
       /\ \A e \in cellIds, k \in Nat, r \in Particles : r # q => (InSlot(cells', e, k, r) <=> InSlot(cells, e, k, r))
  <2>1. np \in Nat
    BY <1>8
  <2>2. Put(cells, cells', d, np, q)
    BY <1>11
  <2> QED BY <1>9, <2>1, <2>2, OthersStay
<1>24. \A r \in Particles : Placed(r)'
  <2> TAKE r \in Particles
  <2>1. Placed(r) /\ pos[r] \in cellIds
    BY <1>2 DEF Refiled, FluidTypeOK
  <2>2. CASE r = q
    <3>1. \A e \in cellIds, k \in Nat : ~InSlot(cells, e, k, q)
      BY <1>9, <1>22, <2>1, <2>2, OnceAt DEF Placed
    <3>2. \A e \in cellIds, k \in Nat : InSlot(cells', e, k, q) => e = d /\ k = np + 1
      BY <1>23, <3>1
    <3>3. PICK k : k = np + 1
      OBVIOUS
    <3>4. k \in Nat
      BY <1>8, <3>3
    <3>5. Once(cells', q, d, k)
      BY <1>11, <1>23, <3>2, <3>3, <3>4, OnceAt
    <3>6. k \in 1..Len(cells'[d].p)
      BY <1>23, <3>3 DEF InSlot
    <3> QED BY <1>2, <1>8, <1>21, <2>2, <3>5, <3>6 DEF Placed
  <2>3. CASE r # q /\ Filed(r)
    <3>1. PICK k \in 1..Len(cells[pos[r]].p) : Once(cells, r, pos[r], k)
      BY <2>1, <2>3 DEF Placed
    <3>2. k \in Nat
      BY <1>9, <2>1, <3>1 DEF Cells
    <3>3. InSlot(cells, pos[r], k, r) /\ \A e \in cellIds, i \in Nat : InSlot(cells, e, i, r) => e = pos[r] /\ i = k
      BY <1>9, <2>1, <3>1, <3>2, OnceAt
    <3>4. InSlot(cells', pos[r], k, r) /\ \A e \in cellIds, i \in Nat : InSlot(cells', e, i, r) => e = pos[r] /\ i = k
      BY <1>23, <2>1, <2>3, <3>2, <3>3
    <3>5. Once(cells', r, pos[r], k)
      BY <1>11, <2>1, <3>2, <3>4, OnceAt
    <3>6. k \in 1..Len(cells'[pos[r]].p)
      BY <3>4 DEF InSlot
    <3> QED BY <1>2, <1>21, <2>3, <3>5, <3>6 DEF Placed
  <2>4. CASE r # q /\ ~Filed(r)
    <3>1. \A e \in cellIds, k \in Nat : ~InSlot(cells, e, k, r)
      BY <1>9, <2>1, <2>4, OnceAt DEF Placed
    <3>2. \A e \in cellIds, k \in Nat : ~InSlot(cells', e, k, r)
      BY <1>23, <2>4, <3>1
    <3>3. \A e \in cellIds : \A k \in 1..Len(cells'[e].p) : cells'[e].p[k] # r
      BY <1>11, <3>2, OnceAt
    <3> QED BY <1>21, <2>4, <3>3 DEF Placed
  <2> QED BY <2>2, <2>3, <2>4
<1>25. /\ np < Len(cells[d].p) => Len(cells'[d].p) = Len(cells[d].p)
       /\ np >= Len(cells[d].p) => Len(cells'[d].p) = np + 1
       /\ \A i \in 1..Len(cells'[d].p) :
            cells'[d].p[i] = IF i = np + 1 THEN q ELSE IF i <= Len(cells[d].p) THEN cells[d].p[i] ELSE NoParticle
       /\ Len(cells[d].p) \in Nat /\ cells[d].n \in Nat /\ Slots(d) /\ NoParticle # q
  <2>1. NoParticle # q
    BY DEF NoParticle, Particles
  <2>2. Len(cells[d].p) \in Nat /\ cells[d].n \in Nat
    BY <1>9 DEF Cells
  <2>3. Slots(d)
    BY <1>2 DEF Refiled
  <2> QED BY <1>11, <2>1, <2>2, <2>3 DEF Put, HasStored
<1>26. \A u \in tids : u # t => (step'[u] = "copy" <=> step[u] = "copy")
  BY <1>16
<1>27. \A e \in cellIds, k \in Nat : Reserved(e, k) => Reserved(e, k)' \/ (e = d /\ k = np + 1)
  <2> SUFFICES ASSUME NEW e \in cellIds, NEW k \in Nat, Reserved(e, k)
               PROVE  Reserved(e, k)' \/ (e = d /\ k = np + 1)
    OBVIOUS
  <2>1. PICK u \in tids : step[u] = "copy" /\ Destination(u) = e /\ cur[u].np = k - 1
    BY DEF Reserved
  <2>2. CASE u = t
    BY <1>4, <1>7, <1>8, <2>1, <2>2
  <2>3. CASE u # t
    BY <1>15, <1>19, <1>26, <2>1, <2>3 DEF Reserved
  <2> QED BY <2>2, <2>3
<1>28. \A e \in cellIds : Slots(e)'
  <2> TAKE e \in cellIds
  <2>1. Slots(e) /\ cells[e].n \in Nat
    <3>1. cells[e].n \in Nat
      BY <1>9 DEF Cells
    <3> QED BY <1>2, <3>1 DEF Refiled
  <2>2. CASE e # d
    <3>1. cells'[e] = cells[e]
      BY <1>11, <2>2 DEF Put
    <3>2. \A k \in 1..cells[e].n : Reserved(e, k) => Reserved(e, k)'
      BY <1>27, <2>1, <2>2
    <3> QED BY <2>1, <3>1, <3>2 DEF Slots
  <2>3. CASE e = d
    <3>1. Len(cells'[d].p) <= cells'[d].n
      <4>1. Len(cells[d].p) <= cells[d].n
        BY <1>25 DEF Slots
      <4> QED BY <1>8, <1>10, <1>11, <1>25, <4>1
    <3>2. Len(cells'[d].chain) = Structures(cells'[d].n)
      BY <1>11, <1>25 DEF Slots
    <3>3. ASSUME NEW k \in 1..cells[d].n
          PROVE  Reserved(d, k)' \/ (k <= Len(cells'[d].p) /\ cells'[d].p[k] # NoParticle)
      <4>1. CASE k = np + 1
        <5>1. k \in 1..Len(cells'[d].p) /\ cells'[d].p[k] = q
          BY <1>23, <4>1 DEF InSlot
        <5>2. k <= Len(cells'[d].p)
          BY <5>1
        <5> QED BY <1>25, <5>1, <5>2
      <4>2. CASE k # np + 1
        <5>1. k \in Nat
          BY <1>25
        <5>2. CASE Reserved(d, k)
          BY <1>27, <4>2, <5>1, <5>2
        <5>3. CASE k <= Len(cells[d].p) /\ cells[d].p[k] # NoParticle
          <6>1. k <= Len(cells'[d].p) /\ k \in 1..Len(cells'[d].p)
            BY <1>8, <1>25, <5>3
          <6>2. cells'[d].p[k] = cells[d].p[k]
            BY <1>25, <4>2, <5>3, <6>1
          <6> QED BY <5>3, <6>1, <6>2
        <5> QED BY <1>25, <5>2, <5>3 DEF Slots
      <4> QED BY <4>1, <4>2
    <3> QED BY <1>11, <2>3, <3>1, <3>2, <3>3 DEF Slots
  <2> QED BY <2>2, <2>3
<1>29. \A u \in tids : step'[u] \in InRebuild => Cursor(u)'
  <2> SUFFICES ASSUME NEW u \in tids, step'[u] \in InRebuild PROVE Cursor(u)'
    OBVIOUS
  <2>1. CASE u = t
    <3>1. cur'[t].c = cur[t].c /\ cur'[t].j = j + 1
      BY <1>14, <1>15
    <3>2. Source(t)' = c
      BY <1>2, <1>5, <3>1 DEF Source
    <3>3. Cursor(t)
      BY <1>2, <1>3 DEF Refiled
    <3>4. j + 1 <= cells2[c].n
      BY <1>8
    <3> QED BY <1>2, <1>8, <1>16, <2>1, <3>1, <3>2, <3>3, <3>4 DEF Cursor
  <2>2. CASE u # t
    <3>1. Cursor(u) /\ step'[u] = step[u]
      BY <1>2, <1>16, <2>2 DEF Refiled
    <3> QED BY <1>2, <1>15, <1>19, <2>2, <3>1 DEF Cursor
  <2> QED BY <2>1, <2>2
<1>30. \A u \in tids : step'[u] = "file" => Filing(u)'
  <2> SUFFICES ASSUME NEW u \in tids, step'[u] = "file" PROVE Filing(u)'
    OBVIOUS
  <2>1. u # t /\ step[u] = "file" /\ Filing(u)
    BY <1>2, <1>16 DEF Refiled
  <2>2. Destination(u) \in cellIds
    <3>1. step[u] \in InRebuild /\ Reads(u)
      BY <1>2, <2>1, Busy
    <3> QED BY <1>2, <3>1, Reading
  <2>3. cells'[Destination(u)].n = cells[Destination(u)].n
    BY <1>12, <2>2
  <2> QED BY <1>2, <1>15, <1>19, <2>1, <2>3 DEF Filing
<1>31. \A u \in tids : step'[u] = "copy" => Copying(u)'
  <2> SUFFICES ASSUME NEW u \in tids, step'[u] = "copy" PROVE Copying(u)'
    OBVIOUS
  <2>1. u # t /\ step[u] = "copy" /\ Copying(u)
    BY <1>2, <1>16 DEF Refiled
  <2>2. PICK e \in cellIds : e = Destination(u)
    <3>1. step[u] \in InRebuild /\ Reads(u)
      BY <1>2, <2>1, Busy
    <3> QED BY <1>2, <3>1, Reading
  <2>3. PICK m : m = cur[u].np
    OBVIOUS
  <2>4. m \in Nat /\ m < cells[e].n /\ (m + 1 <= Len(cells[e].p) => cells[e].p[m + 1] = NoParticle)
    BY <2>1, <2>2, <2>3 DEF Copying, FluidTypeOK, Locals
  <2>5. m + 1 <= Len(cells'[e].p) => cells'[e].p[m + 1] = NoParticle
    <3>1. CASE e # d
      <4>1. cells'[e] = cells[e]
        BY <1>11, <3>1 DEF Put
      <4> QED BY <2>4, <4>1
    <3>2. CASE e = d
      <4>1. Apart(t, u)
        BY <1>2, <2>1 DEF Refiled
      <4>2. m # np
        BY <1>2, <1>4, <1>7, <2>1, <2>2, <2>3, <3>2, <4>1 DEF Apart
      <4>3. m + 1 # np + 1
        BY <1>8, <2>4, <4>2
      <4> HAVE m + 1 <= Len(cells'[e].p)
      <4>4. m + 1 \in 1..Len(cells'[d].p)
        <5>1. Len(cells'[d].p) \in Nat
          BY <1>11 DEF Cells
        <5> QED BY <2>4, <3>2, <5>1
      <4>5. cells'[d].p[m + 1] = IF m + 1 <= Len(cells[d].p) THEN cells[d].p[m + 1] ELSE NoParticle
        BY <1>25, <4>3, <4>4
      <4> QED BY <2>4, <3>2, <4>5
    <3> QED BY <3>1, <3>2
  <2>6. cur'[u].np = m /\ Destination(u)' = e /\ cells'[e].n = cells[e].n
    BY <1>12, <1>15, <1>19, <2>1, <2>2, <2>3
  <2> QED BY <2>4, <2>5, <2>6 DEF Copying
<1>32. \A u, v \in tids : u # v => Apart(u, v)'
  <2> SUFFICES ASSUME NEW u \in tids, NEW v \in tids, u # v PROVE Apart(u, v)'
    OBVIOUS
  <2>1. Apart(u, v)
    BY <1>2 DEF Refiled
  <2>2. CASE u = t \/ v = t
    BY <1>16, <2>2 DEF Apart
  <2>3. CASE u # t /\ v # t
    BY <1>15, <1>16, <1>19, <2>1, <2>3 DEF Apart
  <2> QED BY <2>2, <2>3
<1>33. ASSUME NEW x \in Nat PROVE Pools(pools', x) + InChains(cells', x) + InOld(x)' = Known(fresh', x)
  <2>1. Pools(pools, x) + InChains(cells, x) + InOld(x) = Known(fresh, x)
    BY <1>2 DEF Refiled
  <2>2. InChains(cells', x) = InChains(cells, x)
    <3>1. [e \in cellIds |-> Occurrences(cells'[e].chain, x)] = [e \in cellIds |-> Occurrences(cells[e].chain, x)]
      BY <1>12
    <3> QED BY <3>1 DEF InChains
  <2>3. Pools(pools', x) + InOld(x)' = Pools(pools, x) + InOld(x)
    BY <1>17
  <2>4. PICK a, b, g, h, o : /\ a = Pools(pools, x) /\ b = Pools(pools', x)
                             /\ g = InChains(cells, x) /\ h = Known(fresh, x) /\ o = InOld(x)
    OBVIOUS
  <2>5. a \in Int /\ b \in Int /\ g \in Int /\ o \in Int
    <3>1. a \in Int /\ b \in Int /\ g \in Int
      <4>1. pools \in [tids -> Seq(Nat)]
        BY DEF FluidTypeOK
      <4>2. Pools(pools, x) \in Nat /\ Pools(pools', x) \in Nat
        BY <1>17, <4>1, PoolsDefined
      <4>3. InChains(cells, x) \in Nat
        BY <1>9, ChainsDefined
      <4> QED BY <2>4, <4>2, <4>3
    <3> QED BY <2>4, <3>1, OldDefined
  <2>6. InOld(x)' \in Int
    <3>1. (FluidTypeOK => \A s : InOld(s) \in Nat)'
      BY OldNumbers, PTL
    <3> QED BY <1>18, <3>1
  <2> QED BY <1>2, <2>1, <2>2, <2>3, <2>4, <2>5, <2>6
<1>34. Full(cells2', Particles) /\ Moved(pos', cells2')
  BY <1>2 DEF Refiled
<1>35. Refiled'
  BY <1>24, <1>28, <1>29, <1>30, <1>31, <1>32, <1>33, <1>34 DEF Refiled
<1> QED
  BY <1>2, <1>16, <1>18, <1>35 DEF Rebuilding

-----------------------------------------------------------------------------
(* All phases. *)
\* RebuildGridMT.
LEMMA RebuildStep ==
  ASSUME FluidTypeOK, Rebuilding, NEW t \in tids, AdvanceFrameMT(t)
  PROVE  FluidTypeOK' /\ (Rebuilding' \/ Initialising') /\ loaded' = loaded
<1>1. PICK f \in Nat : Together(step, passed, cur, InRebuild, "init", 2, f)
  BY DEF Rebuilding
<1>2. step[t] \in InRebuild
  <2>1. step[t] \in InRebuild \/ step[t] = "init"
    BY <1>1 DEF Together
  <2>2. CASE step[t] = "init"
    <3>1. Passed(t)
      BY <2>2, ByLabel
    <3>2. "init" \notin InRebuild /\ 2 \in 0..2
      BY DEF InRebuild
    <3> QED BY <1>1, <3>1, <3>2, Waiting
  <2> QED BY <2>1, <2>2
<1>3. CASE step[t] = "rebuild"
  <2>1. FindSlot(t) \/ NextCell(t) \/ Rebuilt(t)
    BY <1>3, ByLabel
  <2> QED BY <2>1, FindSlotStep, NextCellStep, RebuiltStep
<1>4. CASE step[t] = "file"
  BY <1>4, ByLabel, TakeSlotStep
<1>5. CASE step[t] = "copy"
  BY <1>5, ByLabel, CopyParticleStep
<1> QED
  BY <1>2, <1>3, <1>4, <1>5 DEF InRebuild

-----------------------------------------------------------------------------
(* The invariant. *)
LEMMA Preserved == FluidInv /\ [FluidNext]_fluidVars => FluidInv'
<1> SUFFICES ASSUME FluidInv, [FluidNext]_fluidVars PROVE FluidInv'
  OBVIOUS
<1>1. FluidTypeOK /\ loaded \in Nat /\ numParticles \in Nat
  BY Numbers DEF FluidInv, FluidTypeOK
<1>2. CASE UNCHANGED fluidVars
  <2> USE <1>2 DEF fluidVars
  <2>1. FluidTypeOK'
    BY <1>1 DEF FluidTypeOK
  <2>2. Loading => Loading'
    BY DEF Loading
  <2>3. Swapping => Swapping'
    BY DEF Swapping
  <2>4. Clearing => Clearing'
    BY DEF Clearing, Cleared
  <2>5. Rebuilding => Rebuilding'
    <3> HAVE Rebuilding
    <3>1. \E f \in Nat : Together(step', passed', cur', InRebuild, "init", 2, f)
      BY DEF Rebuilding
    <3>2. \A u : Source(u)' = Source(u) /\ Destination(u)' = Destination(u)
      BY SameDestination
    <3>3. \A c \in cellIds : Read(c)' = Read(c)
      BY SameProgress
    <3>4. (\A q : Filed(q)' = Filed(q)) /\ (\A s : InOld(s)' = InOld(s))
      BY <3>3, SameRead
    <3>5. Refiled
      BY DEF Rebuilding
    <3>6. \A t \in tids : Cursor(t)' <=> Cursor(t)
      BY <3>2 DEF Cursor
    <3>7. \A t \in tids : Filing(t)' <=> Filing(t)
      BY <3>2 DEF Filing
    <3>8. \A t \in tids : Copying(t)' <=> Copying(t)
      BY <3>2 DEF Copying
    <3>9. \A t, u \in tids : Apart(t, u)' <=> Apart(t, u)
      BY <3>2 DEF Apart
    <3>10. \A d, k : Reserved(d, k)' <=> Reserved(d, k)
      BY <3>2 DEF Reserved
    <3>11. \A d \in cellIds : Slots(d)' <=> Slots(d)
      BY <3>10 DEF Slots
    <3>12. \A q \in Particles : Placed(q)' <=> Placed(q)
      BY <3>4 DEF Placed
    <3>13. Full(cells2', Particles) /\ Moved(pos', cells2')
      BY <3>5 DEF Refiled
    <3>14. Refiled'
      BY <3>4, <3>5, <3>6, <3>7, <3>8, <3>9, <3>11, <3>12, <3>13 DEF Refiled
    <3> QED BY <3>1, <3>14 DEF Rebuilding
  <2>6. Initialising => Initialising'
    BY DEF Initialising
  <2>7. Counting => Counting'
    <3> HAVE Counting
    <3>1. cells' = cells /\ pos' = pos /\ step' = step /\ cur' = cur /\ density' = density
          /\ poolAbove' = poolAbove /\ fresh' = fresh /\ mutex' = mutex /\ passed' = passed /\ pools' = pools
      OBVIOUS
    <3>2. \A t \in tids : PairsOf(t)' = PairsOf(t)
      BY SamePairs
    <3>3. \A t \in tids : Adding(t)' <=> Adding(t)
      BY <3>1 DEF Adding, Updated, At, Pair
    <3>4. \A t \in tids : At(t)' = At(t)
      BY <3>1 DEF At, Pair
    <3>5. \A q : Paired(q)' = Paired(q)
      BY <3>1, SamePaired
    <3>6. \A t \in tids : \A q, r : Pending(t, q, r)' = Pending(t, q, r)
      BY <3>1, SamePending
    <3>7. \A q : Counted(q)' = Counted(q)
      BY <3>5, <3>6 DEF Counted
    <3>9. Filled(pools', fresh', cells') /\ AllSettled(pos', cells')
      BY <3>1 DEF Counting
    <3>10. \E f \in Nat : Together(step', passed', cur', InDensities, "advance", 1, f)
      BY <3>1 DEF Counting
    <3> QED BY <3>1, <3>2, <3>3, <3>4, <3>7, <3>9, <3>10 DEF Counting
  <2>8. Advancing => Advancing'
    <3>1. \A q : Paired(q)' = Paired(q)
      BY SamePaired
    <3> QED BY <3>1 DEF Advancing
  <2>9. Finished => Finished'
    BY DEF Finished
  <2> QED BY <2>1, <2>2, <2>3, <2>4, <2>5, <2>6, <2>7, <2>8, <2>9 DEF FluidInv
<1>3. CASE InitSim
  <2>1. loaded < numParticles
    BY <1>3 DEF InitSim
  <2>2. Loading
    BY <1>1, <2>1 DEF FluidInv
  <2> QED BY <1>1, <1>3, <2>2, LoadStep DEF FluidInv
<1>4. ASSUME NEW t \in tids, AdvanceFrameMT(t) PROVE FluidInv'
  <2>1. step[t] \notin {"load", "done"}
    BY <1>4, ByLabel
  <2>2. ~Loading /\ ~Finished
    BY <2>1 DEF Loading, Finished
  <2>3. loaded = numParticles
    BY <2>2 DEF FluidInv
  <2>4. CASE Swapping
    BY <1>1, <1>4, <2>3, <2>4, SwapStep DEF FluidInv
  <2>5. CASE Clearing
    BY <1>1, <1>4, <2>3, <2>5, ClearStep DEF FluidInv
  <2>6. CASE Rebuilding
    BY <1>1, <1>4, <2>3, <2>6, RebuildStep DEF FluidInv
  <2>7. CASE Initialising
    BY <1>1, <1>4, <2>3, <2>7, InitStep DEF FluidInv
  <2>8. CASE Counting
    BY <1>1, <1>4, <2>3, <2>8, CountStep DEF FluidInv
  <2>9. CASE Advancing
    BY <1>1, <1>4, <2>3, <2>9, AdvanceStep DEF FluidInv
  <2> QED BY <2>2, <2>4, <2>5, <2>6, <2>7, <2>8, <2>9 DEF FluidInv
<1> QED
  BY <1>2, <1>3, <1>4 DEF FluidNext

\* FluidInv holds in every state: the argument in steps is Preserved, above.
THEOREM FluidInvariant == FluidSpec => []FluidInv
<1>1. fluidInit => FluidInv
  BY BeginsLoading
<1>2. FluidInv /\ [FluidNext]_fluidVars => FluidInv'
  BY Preserved
<1> QED
  BY <1>1, <1>2, PTL DEF FluidSpec

\* Which phase it is, told by where all threads are.
LEMMA WhereAllAre ==
  ASSUME FluidInv
  PROVE  /\ AllDo("init") => Initialising
         /\ AllDo("advance") => Advancing
<1>1. PICK t \in tids : TRUE
  BY Finiteness
<1>2. \A In, next, r, f : Together(step, passed, cur, In, next, r, f) => \E u \in tids : step[u] \in In
  BY DEF Together
<1>3. ASSUME AllDo("init") PROVE Initialising
  <2>1. \A u \in tids : step[u] = "init"
    BY <1>3 DEF AllDo
  <2>2. ~Loading /\ ~Finished
    BY <1>1, <2>1 DEF Loading, Finished
  <2>3. ~Swapping /\ ~Clearing
    BY <1>2, <2>1 DEF Swapping, Clearing
  <2>4. ~Rebuilding
    BY <1>2, <2>1 DEF Rebuilding, InRebuild
  <2>5. ~Counting
    BY <1>2, <2>1 DEF Counting, InDensities
  <2>6. ~Advancing
    BY <2>1 DEF Advancing
  <2> QED BY <2>2, <2>3, <2>4, <2>5, <2>6 DEF FluidInv
<1>4. ASSUME AllDo("advance") PROVE Advancing
  <2>1. \A u \in tids : step[u] = "advance"
    BY <1>4 DEF AllDo
  <2>2. ~Loading /\ ~Finished
    BY <1>1, <2>1 DEF Loading, Finished
  <2>3. ~Swapping /\ ~Clearing
    BY <1>2, <2>1 DEF Swapping, Clearing
  <2>4. ~Rebuilding
    BY <1>2, <2>1 DEF Rebuilding, InRebuild
  <2>5. ~Counting
    BY <1>2, <2>1 DEF Counting, InDensities
  <2>6. ~Initialising
    BY <1>2, <2>1 DEF Initialising
  <2> QED BY <2>2, <2>3, <2>4, <2>5, <2>6 DEF FluidInv
<1> QED
  BY <1>3, <1>4

\* While some thread files a particle all are rebuilding the grid.
LEMMA WhereOneFiles ==
  ASSUME FluidInv, NEW t \in tids, step[t] \in {"file", "copy"}
  PROVE  FluidTypeOK /\ Refiled
<1>1. \A In, next, r, f : Together(step, passed, cur, In, next, r, f) => step[t] \in In \/ step[t] = next
  BY DEF Together
<1>2. ~Loading /\ ~Finished
  BY DEF Loading, Finished
<1>3. ~Swapping /\ ~Clearing /\ ~Initialising
  BY <1>1 DEF Swapping, Clearing, Initialising
<1>4. ~Counting
  BY <1>1 DEF Counting, InDensities
<1>5. ~Advancing
  BY DEF Advancing
<1> QED
  BY <1>2, <1>3, <1>4, <1>5 DEF FluidInv, Rebuilding

\* What is in use is in the pools or in the chains of the new cells.
LEMMA UsesAre == \A s : Uses(s) = Pools(pools, s) + InChains(cells, s)
<1> TAKE s
<1>1. SumFunction([t \in tids |-> Occurrences(pools[t], s)]) = Pools(pools, s)
  <2>1. DOMAIN [t \in tids |-> Occurrences(pools[t], s)] = tids
    OBVIOUS
  <2> QED BY <2>1, SumOfFunction DEF Pools
<1>2. SumFunction([c \in cellIds |-> Occurrences(cells[c].chain, s)]) = InChains(cells, s)
  <2>1. DOMAIN [c \in cellIds |-> Occurrences(cells[c].chain, s)] = cellIds
    OBVIOUS
  <2> QED BY <2>1, SumOfFunction DEF InChains
<1> QED BY <1>1, <1>2 DEF Uses

\* The grid is rebuilt when the invariant holds and nobody is filing.
LEMMA RebuiltThen == FluidInv => GridRebuilt
<1> SUFFICES ASSUME FluidInv, AllDo("init") PROVE
       /\ \A q \in Particles : \E j \in 1..numParticles : StoredAt(q) = {<<pos[q], j>>}
       /\ \A c \in cellIds : cells[c].n = Len(cells[c].p)
       /\ \A s \in 1..fresh-1 : Uses(s) = 1
  BY DEF GridRebuilt
<1>1. Initialising /\ FluidTypeOK
  BY WhereAllAre DEF FluidInv
<1>2. /\ Full(cells, Particles) /\ Conserved(pools, fresh, cells) /\ AllSettled(pos, cells)
      /\ cells \in [cellIds -> Cells] /\ pools \in [tids -> Seq(Nat)]
  BY <1>1 DEF Initialising, Filled, FluidTypeOK
<1>3. \A c \in cellIds : cells[c].n = Len(cells[c].p) /\ Len(cells[c].p) \in Nat /\ Len(cells[c].p) <= numParticles
  <2> TAKE c \in cellIds
  <2>1. cells[c].n \in Nat /\ cells[c].n = Len(cells[c].p) /\ cells[c].n <= numParticles
    BY <1>2, CellsBounded
  <2> QED BY <2>1
<1>4. ASSUME NEW q \in Particles PROVE \E j \in 1..numParticles : StoredAt(q) = {<<pos[q], j>>}
  <2>1. InCells
    BY <1>1, <1>2 DEF InCells, FluidTypeOK
  <2>2. PICK j \in 1..Len(cells[pos[q]].p) : Once(cells, q, pos[q], j)
    BY <2>1, Found
  <2>3. pos[q] \in cellIds
    BY <1>1 DEF FluidTypeOK
  <2>4. numParticles \in Nat
    BY Numbers
  <2>5. j \in 1..numParticles
    BY <1>3, <2>3, <2>4
  <2>6. ASSUME NEW c \in cellIds, NEW k \in 1..numParticles
        PROVE  k <= Len(cells[c].p) /\ cells[c].p[k] = q <=> c = pos[q] /\ k = j
    <3>1. k <= Len(cells[c].p) <=> k \in 1..Len(cells[c].p)
      BY <1>3, <2>4
    <3>2. \A i \in 1..Len(cells[c].p) : cells[c].p[i] = q <=> c = pos[q] /\ i = j
      BY <2>2 DEF Once
    <3> QED BY <2>2, <3>1, <3>2
  <2>7. StoredAt(q) = {<<pos[q], j>>}
    BY <2>3, <2>5, <2>6 DEF StoredAt
  <2> QED BY <2>5, <2>7
<1>5. ASSUME NEW s \in 1..fresh-1 PROVE Uses(s) = 1
  <2>1. fresh \in Nat /\ s \in Nat
    BY <1>1 DEF FluidTypeOK
  <2>2. Pools(pools, s) + InChains(cells, s) = 1
    BY <1>2, <2>1 DEF Conserved, Known
  <2>3. Uses(s) = Pools(pools, s) + InChains(cells, s)
    BY UsesAre
  <2> QED BY <2>2, <2>3
<1> QED
  BY <1>3, <1>4, <1>5

\* RebuildGridMT loses no particle, stores none twice and files each in the
\* cell it has moved to, whatever the threads do at the same time; and no
\* structure of the pools is lost or used twice, although it is returned to
\* the pool of another thread than took it (cellpool.cpp).
THEOREM GridCorrect == FluidSpec => []GridRebuilt
BY RebuiltThen, FluidInvariant, PTL

\* The structure a thread reads from is still in the old chain, so nowhere else.
LEMMA ReadThen == FluidInv => ReadBeforeReuse
<1> SUFFICES ASSUME FluidInv, NEW t \in tids, step[t] \in {"file", "copy"}
             PROVE  /\ cur[t].j \div PARTICLES_PER_CELL <= Len(cells2[Source(t)].chain)
                    /\ StructureOf(cells2[Source(t)], cur[t].j) # 0 =>
                          Uses(StructureOf(cells2[Source(t)], cur[t].j)) = 0
  BY DEF ReadBeforeReuse
<1> DEFINE P == PARTICLES_PER_CELL
           c == Source(t)
           j == cur[t].j
           n == cells2[c].n
           chain == cells2[c].chain
           m == j \div P
           s == StructureOf(cells2[c], j)
<1>1. FluidTypeOK /\ Refiled
  BY WhereOneFiles
<1>2. /\ c \in cellIds /\ n = Len(cells2[c].p) /\ n \in Nat /\ j \in Nat
      /\ j + 1 \in 1..Len(cells2[c].p) /\ Read(c) = j
  BY <1>1, Busy, Reading
<1>3. P \in Nat \ {0}
  BY Numbers
<1>4. chain \in Seq(Nat) /\ Len(chain) = Structures(n)
  BY <1>1, <1>2 DEF Refiled, Full, FluidTypeOK, Cells
<1> HIDE DEF c, j
<1>5. j < n /\ n # 0 /\ n - 1 \in Int /\ j <= n - 1
  <2> HIDE DEF n
  <2> QED BY <1>2
<1>6. m \in Int /\ m <= Len(chain)
  <2>1. Len(chain) = (n - 1) \div P
    BY <1>4, <1>5 DEF Structures
  <2> HIDE DEF P, n, chain
  <2>2. j \in Int
    BY <1>2
  <2>3. j \div P <= (n - 1) \div P
    BY <1>3, <1>5, <2>2, DivideMonotonic
  <2> QED BY <1>3, <2>1, <2>2, <2>3, Divide
<1>7. ASSUME s # 0 PROVE Uses(s) = 0
  <2>1. ~(j < P) /\ s = chain[m]
    BY <1>7 DEF StructureOf
  <2>2. 1 <= m
    <3> HIDE DEF P
    <3>1. P = P * 1 + 0 /\ 0 \in 0..(P - 1) /\ P \in Int /\ j \in Int /\ P <= j
      BY <1>2, <1>3, <2>1
    <3>2. P \div P = 1
      BY <1>3, <3>1, DivideUnique
    <3>3. P \div P <= j \div P
      BY <1>3, <3>1, DivideMonotonic
    <3> QED BY <3>2, <3>3
  <2>3. Returned(c) = m - 1
    <3>1. Read(c) # cells2[c].n /\ ~(Read(c) < P) /\ Read(c) \div P = m
      BY <1>2, <1>5, <2>1
    <3> HIDE DEF m
    <3> QED BY <3>1 DEF Returned
  <2> DEFINE K == {k \in DOMAIN chain : Returned(c) < k /\ chain[k] = s}
  <2>4. m \in K
    <3>1. DOMAIN chain = 1..Len(chain) /\ Len(chain) \in Nat
      BY <1>4
    <3> HIDE DEF chain, m, s
    <3>2. m \in DOMAIN chain /\ Returned(c) < m
      BY <1>6, <2>2, <2>3, <3>1
    <3> QED BY <2>1, <3>2
  <2>5. IsFiniteSet(K)
    <3>1. DOMAIN chain = 1..Len(chain) /\ Len(chain) \in Nat
      BY <1>4
    <3> HIDE DEF chain
    <3>2. IsFiniteSet(DOMAIN chain)
      BY <3>1, FS_Interval
    <3> QED BY <3>2, FS_Subset
  <2>6. s \in Nat
    <3>1. m \in 1..Len(chain)
      BY <1>4, <1>6, <2>2
    <3> HIDE DEF chain, m, s
    <3> QED BY <1>4, <2>1, <3>1
  <2>7. Kept(c, s) = Cardinality(K)
    BY DEF Kept
  <2> HIDE DEF K, s, m, chain
  <2>8. Kept(c, s) \in Nat /\ Kept(c, s) # 0
    <3>1. Cardinality(K) # 0 /\ Cardinality(K) \in Nat
      BY <2>4, <2>5, FS_EmptySet, FS_CardinalityType
    <3> QED BY <2>7, <3>1
  <2>9. InOld(s) \in Nat /\ Kept(c, s) <= InOld(s) /\ Pools(pools, s) \in Nat /\ InChains(cells, s) \in Nat
    BY <1>1, <1>2, OldDefined, PoolsDefined, ChainsDefined DEF FluidTypeOK
  <2>10. Pools(pools, s) + InChains(cells, s) + InOld(s) = Known(fresh, s) /\ Known(fresh, s) \in {0, 1}
    BY <1>1, <2>6 DEF Refiled, Known
  <2>11. Pools(pools, s) + InChains(cells, s) = 0
    BY <2>8, <2>9, <2>10
  <2> QED BY <2>11, UsesAre
<1> QED
  BY <1>6, <1>7 DEF c, j

\* While a thread copies a particle out of an old chain, no thread has got the
\* structure it is in from a pool (RebuildGridMT reads it without a mutex).
THEOREM ReadIntact == FluidSpec => []ReadBeforeReuse
BY ReadThen, FluidInvariant, PTL

-----------------------------------------------------------------------------
(***************************************************************************)
(* Which near particles are paired: addresses.  Two particles never have   *)
(* the same address, because no structure is in two places (Conserved).    *)
(***************************************************************************)
\* A structure is in one place of one chain, and it is one of those there are.
LEMMA ChainsApart ==
  ASSUME FluidTypeOK, Conserved(pools, fresh, cells), NEW c \in cellIds, NEW d \in cellIds,
         NEW m \in 1..Len(cells[c].chain), NEW n \in 1..Len(cells[d].chain),
         cells[c].chain[m] = cells[d].chain[n]
  PROVE  /\ c = d /\ m = n
         /\ cells[c].chain[m] \in Nat /\ 0 < cells[c].chain[m] /\ cells[c].chain[m] < fresh
<1>0. cells[c].chain \in Seq(Nat) /\ cells[d].chain \in Seq(Nat)
  BY DEF FluidTypeOK, Cells
<1>1. PICK s : s = cells[c].chain[m]
  OBVIOUS
<1>s. s \in Nat /\ s = cells[d].chain[n]
  BY <1>0, <1>1
<1> DEFINE g == [e \in cellIds |-> Occurrences(cells[e].chain, s)]
           A(e) == {i \in DOMAIN cells[e].chain : cells[e].chain[i] = s}
<1>2. (\A e \in cellIds : g[e] \in Nat) /\ InChains(cells, s) \in Nat /\ Pools(pools, s) \in Nat
  BY ChainsDefined, PoolsDefined DEF FluidTypeOK
<1>z. \A e \in cellIds : g[e] \in Int
  <2> HIDE DEF g
  <2> QED BY <1>2
<1>3. Known(fresh, s) \in {0, 1} /\ Pools(pools, s) + InChains(cells, s) = Known(fresh, s)
  BY <1>s DEF Known, Conserved
<1>4. InChains(cells, s) = SumFunctionOnSet(g, cellIds) /\ InChains(cells, s) <= 1
  BY <1>2, <1>3 DEF InChains
<1>5. m \in A(c) /\ n \in A(d)
  <2>1. DOMAIN cells[c].chain = 1..Len(cells[c].chain) /\ DOMAIN cells[d].chain = 1..Len(cells[d].chain)
    BY <1>0
  <2> QED BY <2>1, <1>1, <1>s
<1>6. ASSUME NEW e \in {c, d} PROVE IsFiniteSet(A(e)) /\ g[e] = Cardinality(A(e)) /\ g[e] >= 1
  <2>1. IsFiniteSet(A(e)) /\ Cardinality(A(e)) = Occurrences(cells[e].chain, s)
    BY <1>0, OccurrencesFinite DEF Occurrences
  <2>2. A(e) # {}
    BY <1>5
  <2>3. g[e] = Cardinality(A(e)) /\ g[e] \in Nat
    BY <1>2, <2>1
  <2> HIDE DEF A, g
  <2>4. Cardinality(A(e)) # 0
    BY <2>1, <2>2, FS_EmptySet
  <2> QED BY <2>1, <2>3, <2>4
<1> HIDE DEF g
<1>7. c = d
  <2> SUFFICES ASSUME c # d PROVE FALSE
    OBVIOUS
  <2> DEFINE rest == SumFunctionOnSet(g, cellIds \ {c})
  <2>1. IsFiniteSet(cellIds) /\ IsFiniteSet(cellIds \ {c}) /\ d \in cellIds \ {c}
    BY Finiteness, FS_Subset
  <2>2. SumFunctionOnSet(g, cellIds) = g[c] + rest
    BY <1>z, <2>1, SumRemove
  <2>3. rest \in Nat /\ g[d] <= rest
    BY <1>2, <2>1, SumNatural
  <2> HIDE DEF rest
  <2> QED BY <1>2, <1>4, <1>6, <2>2, <2>3
<1>8. m = n
  <2>1. g[c] <= SumFunctionOnSet(g, cellIds)
    BY <1>2, Finiteness, SumNatural
  <2>2. Cardinality(A(c)) = 1 /\ IsFiniteSet(A(c))
    BY <1>2, <1>4, <1>6, <2>1
  <2>3. m \in A(c) /\ n \in A(c)
    BY <1>5, <1>7
  <2> HIDE DEF A
  <2> QED BY <2>2, <2>3, FS_Singleton
<1>9. 0 < s /\ s < fresh
  <2>1. g[c] <= SumFunctionOnSet(g, cellIds)
    BY <1>2, Finiteness, SumNatural
  <2>2. Known(fresh, s) = 1
    BY <1>2, <1>3, <1>4, <1>6, <2>1
  <2>3. s \in 1..(fresh - 1) /\ fresh \in Nat
    BY <2>2 DEF Known, FluidTypeOK
  <2> QED BY <2>3
<1> QED
  BY <1>1, <1>s, <1>7, <1>8, <1>9

\* The structure of particle j: none in the head, else the one the chain has there.
LEMMA StructureIs ==
  ASSUME FluidTypeOK, InCells, Conserved(pools, fresh, cells),
         NEW c \in cellIds, NEW j \in Nat, j < cells[c].n
  PROVE  LET s == StructureOf(cells[c], j)
         IN  /\ j < PARTICLES_PER_CELL => s = 0
             /\ ~(j < PARTICLES_PER_CELL) =>
                   /\ j \div PARTICLES_PER_CELL \in 1..Len(cells[c].chain)
                   /\ s = cells[c].chain[j \div PARTICLES_PER_CELL]
                   /\ s \in Nat /\ 0 < s /\ s < fresh
<1> DEFINE P == PARTICLES_PER_CELL
           s == StructureOf(cells[c], j)
           m == j \div P
<1>1. P \in Nat \ {0} /\ j \in Int
  BY Numbers
<1>2. /\ cells[c].n \in Nat /\ Len(cells[c].chain) \in Nat
      /\ Len(cells[c].chain) = Structures(cells[c].n)
  BY DEF FluidTypeOK, InCells, Full, Cells
<1>3. j < P => s = 0
  BY DEF StructureOf
<1>4. ASSUME ~(j < P) PROVE m \in 1..Len(cells[c].chain) /\ s = cells[c].chain[m]
  <2> HIDE DEF P
  <2>1. m \in Int /\ P \div P = 1
    <3>1. P = P * 1 + 0 /\ 0 \in 0..(P - 1) /\ P \in Int
      BY <1>1
    <3>2. P \div P = 1
      BY <1>1, <3>1, DivideUnique
    <3> QED BY <1>1, <3>2, Divide
  <2>2. P \div P <= m
    BY <1>1, <1>4, DivideMonotonic
  <2>3. m <= (cells[c].n - 1) \div P
    <3>1. cells[c].n - 1 \in Int /\ j <= cells[c].n - 1
      BY <1>1, <1>2
    <3> QED BY <1>1, <3>1, DivideMonotonic
  <2>4. Len(cells[c].chain) = (cells[c].n - 1) \div P
    BY <1>2 DEF Structures, P
  <2>5. s = cells[c].chain[m]
    BY <1>4 DEF StructureOf, P
  <2> HIDE DEF m, s
  <2> QED BY <1>2, <2>1, <2>2, <2>3, <2>4, <2>5
<1> HIDE DEF P, s, m
<1>5. ASSUME ~(j < P) PROVE s \in Nat /\ 0 < s /\ s < fresh
  BY <1>4, <1>5, ChainsApart
<1> QED
  BY <1>3, <1>4, <1>5 DEF P, s, m

\* No two particles have the same address.
LEMMA AddressesApart ==
  ASSUME FluidTypeOK, InCells, Conserved(pools, fresh, cells),
         NEW c \in cellIds, NEW i \in Nat, i < cells[c].n,
         NEW d \in cellIds, NEW j \in Nat, j < cells[d].n, Address(c, i) = Address(d, j)
  PROVE  c = d /\ i = j
<1> DEFINE P == PARTICLES_PER_CELL
           N == Cardinality(cellIds)
           s == StructureOf(cells[c], i)
           u == StructureOf(cells[d], j)
           place(e, v) == IF v = 0 THEN e ELSE IF poolAbove THEN N + v ELSE v - fresh
<1>1. P \in Nat \ {0} /\ fresh \in Nat /\ i \in Int /\ j \in Int
  BY Numbers DEF FluidTypeOK
<1>2. N \in Nat /\ c \in 0..(N - 1) /\ d \in 0..(N - 1)
  <2>1. nx * nz \in Nat
    BY Numbers
  <2> DEFINE k == nx * nz
  <2>2. cellIds = 0..(k - 1)
    BY DEF cellIds
  <2>3. Cardinality(0..(k - 1)) = k
    <3> HIDE DEF k
    <3>1. k \in Nat
      BY <2>1 DEF k
    <3>2. 0 \in Int /\ k - 1 \in Int
      BY <3>1
    <3>3. Cardinality(0..(k - 1)) = IF 0 > k - 1 THEN 0 ELSE (k - 1) - 0 + 1
      BY <3>2, FS_Interval
    <3> QED BY <3>1, <3>3
  <2> HIDE DEF k
  <2> QED BY <2>1, <2>2, <2>3 DEF k
<1>3. /\ i < P => s = 0
      /\ ~(i < P) => /\ i \div P \in 1..Len(cells[c].chain) /\ s = cells[c].chain[i \div P]
                     /\ s \in Nat /\ 0 < s /\ s < fresh
  BY StructureIs
<1>4. /\ j < P => u = 0
      /\ ~(j < P) => /\ j \div P \in 1..Len(cells[d].chain) /\ u = cells[d].chain[j \div P]
                     /\ u \in Nat /\ 0 < u /\ u < fresh
  BY StructureIs
<1>5. Address(c, i) = place(c, s) * P + (i % P) /\ Address(d, j) = place(d, u) * P + (j % P)
  BY DEF Address
<1> HIDE DEF P, N, s, u
<1>b. PICK b \in Int : /\ b = N \/ b = 0 - fresh
                      /\ \A e, v \in Nat : place(e, v) = IF v = 0 THEN e ELSE v + b
  <2>1. CASE poolAbove
    <3>1. \A e, v \in Nat : place(e, v) = IF v = 0 THEN e ELSE v + N
      BY <1>2, <2>1
    <3>2. N \in Int
      BY <1>2
    <3> HIDE DEF place
    <3> QED BY <3>1, <3>2
  <2>2. CASE ~poolAbove
    <3>1. \A e, v \in Nat : place(e, v) = IF v = 0 THEN e ELSE v + (0 - fresh)
      BY <1>1, <2>2
    <3>2. 0 - fresh \in Int
      BY <1>1
    <3> HIDE DEF place
    <3> QED BY <3>1, <3>2
  <2> QED BY <2>1, <2>2
<1>c. c \in Nat /\ d \in Nat /\ s \in Nat /\ u \in Nat
  BY <1>2, <1>3, <1>4
<1>d. /\ place(c, s) = IF s = 0 THEN c ELSE s + b
      /\ place(d, u) = IF u = 0 THEN d ELSE u + b
  BY <1>b, <1>c
<1>e. /\ i < P => s = 0
      /\ ~(i < P) => s # 0 /\ 0 < s /\ s < fresh
      /\ j < P => u = 0
      /\ ~(j < P) => u # 0 /\ 0 < u /\ u < fresh
  BY <1>3, <1>4, <1>c
<1> HIDE DEF place
<1>6. place(c, s) \in Int /\ place(d, u) \in Int
  BY <1>b, <1>c, <1>d
<1>7. i % P \in 0..(P - 1) /\ j % P \in 0..(P - 1)
  BY <1>1, Divide
<1>8. place(c, s) = place(d, u) /\ i % P = j % P
  <2> DEFINE pc == place(c, s)
             pd == place(d, u)
             v  == i % P
             w  == j % P
  <2>1. pc \in Int /\ pd \in Int /\ v \in 0..(P - 1) /\ w \in 0..(P - 1)
    BY <1>6, <1>7
  <2>2. pc * P + v = pd * P + w
    BY <1>5
  <2> HIDE DEF pc, pd, v, w
  <2>3. P * pc + v \in Int /\ P * pc + v = P * pd + w
    BY <1>1, <2>1, <2>2
  <2>4. (P * pc + v) \div P = pc /\ (P * pc + v) % P = v
    BY <1>1, <2>1, <2>3, DivideUnique
  <2>5. (P * pc + v) \div P = pd /\ (P * pc + v) % P = w
    BY <1>1, <2>1, <2>3, DivideUnique
  <2>6. pc = pd /\ v = w
    BY <2>4, <2>5
  <2> QED BY <2>6 DEF pc, pd, v, w
<1>9. CASE i < P /\ j < P
  <2>1. c = d
    BY <1>3, <1>4, <1>8, <1>9, <1>d
  <2>2. i = P * 0 + i /\ i \in 0..(P - 1) /\ j = P * 0 + j /\ j \in 0..(P - 1)
    BY <1>1, <1>9
  <2>3. i % P = i /\ j % P = j
    BY <1>1, <2>2, DivideUnique
  <2> QED BY <1>8, <2>1, <2>3
<1>10. CASE ~(i < P) /\ ~(j < P)
  <2>1. s = u
    <3>1. s # 0 /\ u # 0
      BY <1>10, <1>e
    <3>2. s + b = u + b
      BY <1>8, <1>d, <3>1
    <3> QED BY <1>b, <1>c, <3>2
  <2>2. c = d /\ i \div P = j \div P
    BY <1>3, <1>4, <1>10, <2>1, ChainsApart
  <2>3. i = P * (i \div P) + (i % P) /\ j = P * (j \div P) + (j % P)
    BY <1>1, Divide
  <2> QED BY <1>8, <2>2, <2>3
<1>11. CASE (i < P) # (j < P)
  <2>1. CASE i < P /\ ~(j < P)
    <3>1. c = u + b /\ 0 < u /\ u < fresh
      BY <1>8, <1>d, <1>e, <2>1
    <3> QED BY <1>1, <1>2, <1>b, <1>c, <3>1
  <2>2. CASE ~(i < P) /\ j < P
    <3>1. d = s + b /\ 0 < s /\ s < fresh
      BY <1>8, <1>d, <1>e, <2>2
    <3> QED BY <1>1, <1>2, <1>b, <1>c, <3>1
  <2> QED BY <1>11, <2>1, <2>2
<1> QED
  BY <1>9, <1>10, <1>11

\* The number of a particle is that of the slot it is in.
LEMMA NumberIs ==
  ASSUME FluidTypeOK, InCells, NEW q \in Particles
  PROVE  /\ Slot(pos[q], NumberOf(q), q) /\ NumberOf(q) \in 0..(numParticles - 1)
         /\ NumberOf(q) \in Nat /\ NumberOf(q) < cells[pos[q]].n
         /\ AddressOf(q) \in Int
<1> DEFINE c == pos[q]
<1>1. c \in cellIds
  BY DEF InCells
<1>2. PICK k \in 1..Len(cells[c].p) : Once(cells, q, c, k)
  BY Found
<1>3. cells[c].n \in Nat /\ cells[c].n = Len(cells[c].p) /\ cells[c].n <= numParticles
  BY <1>1, CellsBounded DEF InCells
<1>4. numParticles \in Nat
  BY Numbers
<1>5. cells[c].p[k] = q
  BY <1>1, <1>2 DEF Once
<1> DEFINE j == k - 1
<1>6. j \in 0..(numParticles - 1) /\ j + 1 = k /\ j < Len(cells[c].p)
  BY <1>3, <1>4
<1> HIDE DEF j
<1>7. \E i \in 0..(numParticles - 1) : i < Len(cells[c].p) /\ cells[c].p[i + 1] = q
  BY <1>5, <1>6
<1> DEFINE n == NumberOf(q)
<1>8. n \in 0..(numParticles - 1) /\ n < Len(cells[c].p) /\ cells[c].p[n + 1] = q
  BY <1>7 DEF NumberOf
<1> HIDE DEF n, c
<1>9. n \in Nat /\ n + 1 \in 1..Len(cells[c].p) /\ n < cells[c].n
  BY <1>3, <1>8
<1>10. Address(c, n) \in Int
  BY <1>1, <1>9, AddressIn DEF InCells
<1> QED
  BY <1>1, <1>8, <1>9, <1>10 DEF Slot, AddressOf, n, c

\* Two near particles are a pair of the thread of the one that looks for the other.
LEMMA PairOrdered ==
  ASSUME FluidTypeOK, InCells, NEW q \in Particles, NEW r \in Particles,
         pos[r] \in Neighbours(pos[q]), pos[r] < pos[q] \/ pos[r] = pos[q],
         AddressOf(r) < AddressOf(q)
  PROVE  r \in Paired(q) /\ q \in Paired(r)
<1> DEFINE c == pos[q]
           i == NumberOf(q)
           d == pos[r]
           j == NumberOf(r)
           pr == <<c, i, d, j>>
<1>1. /\ Slot(c, i, q) /\ i \in 0..(numParticles - 1) /\ i < cells[c].n
      /\ Slot(d, j, r) /\ j \in 0..(numParticles - 1) /\ j < cells[d].n /\ j \in Nat
  BY NumberIs
<1>2. Address(d, j) < Address(c, i)
  BY DEF AddressOf
<1>3. d \in Neighbours(c) /\ (d < c \/ d = c)
  OBVIOUS
<1> HIDE DEF c, i, d, j
<1>4. c \in cellIds /\ d \in cellIds /\ cells[c].p[i + 1] = q /\ cells[d].p[j + 1] = r
  BY <1>1 DEF Slot
<1>5. PICK t \in tids : c \in grid(t)
  BY <1>4, Blocks
<1>6. d \in NeighCells(c)
  <2>1. cells[d].n \in Nat
    BY <1>4, CellsBounded DEF InCells
  <2>2. cells[d].n # 0
    BY <1>1, <2>1
  <2> QED BY <1>3, <2>2 DEF NeighCells
<1>7. pr[1] = c /\ pr[2] = i /\ pr[3] = d /\ pr[4] = j
  OBVIOUS
<1>8. pr \in grid(t) \X (0..numParticles-1) \X cellIds \X (0..numParticles-1)
  BY <1>1, <1>4, <1>5
<1> HIDE DEF pr
<1>9. pr \in PairsOf(t)
  BY <1>1, <1>2, <1>6, <1>7, <1>8 DEF PairsOf
<1>10. FirstOf(pr) = q /\ SecondOf(pr) = r
  BY <1>4, <1>7 DEF FirstOf, SecondOf
<1> QED
  BY <1>9, <1>10, PairPaired

\* Where the two of a pair are, and how their addresses compare.
LEMMA PairPlaces ==
  ASSUME FluidTypeOK, InCells, NEW t \in tids, NEW pr \in PairsOf(t)
  PROVE  LET q == FirstOf(pr)
             r == SecondOf(pr)
         IN  /\ pos[r] < pos[q] \/ pos[r] = pos[q]
             /\ AddressOf(r) < AddressOf(q)
<1> DEFINE q == FirstOf(pr)
           r == SecondOf(pr)
<1>1. /\ pr[1] \in cellIds /\ pr[3] \in cellIds /\ (pr[3] < pr[1] \/ pr[3] = pr[1])
      /\ pr[2] \in Nat /\ pr[4] \in Nat
      /\ pr[2] + 1 \in 1..Len(cells[pr[1]].p) /\ pr[4] + 1 \in 1..Len(cells[pr[3]].p)
      /\ Address(pr[3], pr[4]) < Address(pr[1], pr[2])
      /\ q \in Particles /\ r \in Particles
  BY PairType
<1>2. Slot(pr[1], pr[2], q) /\ Slot(pr[3], pr[4], r)
  BY <1>1 DEF Slot, FirstOf, SecondOf
<1> HIDE DEF q, r
<1>3. Slot(pos[q], NumberOf(q), q) /\ Slot(pos[r], NumberOf(r), r)
  BY <1>1, NumberIs
<1>4. pr[1] = pos[q] /\ pr[2] = NumberOf(q)
  BY <1>2, <1>3, InOne
<1>5. pr[3] = pos[r] /\ pr[4] = NumberOf(r)
  BY <1>2, <1>3, InOne
<1>6. Address(pr[1], pr[2]) = AddressOf(q) /\ Address(pr[3], pr[4]) = AddressOf(r)
  BY <1>4, <1>5 DEF AddressOf
<1> QED
  BY <1>1, <1>4, <1>5, <1>6 DEF q, r

\* A particle is paired with the near ones but those that are missed.
LEMMA PairedExactly ==
  ASSUME FluidTypeOK, InCells, Conserved(pools, fresh, cells), NEW q \in Particles
  PROVE  Paired(q) = Near(q) \ Missed(q)
<1>0. \A a \in Particles : pos[a] \in Nat /\ AddressOf(a) \in Int
  <2> TAKE a \in Particles
  <2>1. pos[a] \in cellIds /\ AddressOf(a) \in Int
    BY NumberIs DEF InCells
  <2> QED BY <2>1, Finiteness
<1>1. ASSUME NEW r \in Paired(q) PROVE r \in Near(q) \ Missed(q)
  <2>1. PICK t \in tids : \E pr \in PairsOf(t) : {q, r} = {FirstOf(pr), SecondOf(pr)}
    BY DEF Paired
  <2>2. PICK pr \in PairsOf(t) : {q, r} = {FirstOf(pr), SecondOf(pr)}
    BY <2>1
  <2>3. \/ q = FirstOf(pr) /\ r = SecondOf(pr)
        \/ q = SecondOf(pr) /\ r = FirstOf(pr)
    BY <2>2
  <2>4. r \in Near(q) /\ r \in Particles
    BY <2>3, PairNear, PairType
  <2>5. \/ (pos[r] < pos[q] \/ pos[r] = pos[q]) /\ AddressOf(r) < AddressOf(q)
        \/ (pos[q] < pos[r] \/ pos[q] = pos[r]) /\ AddressOf(q) < AddressOf(r)
    BY <2>3, PairPlaces
  <2>6. ~(pos[q] < pos[r] /\ AddressOf(r) < AddressOf(q)) /\ ~(pos[r] < pos[q] /\ AddressOf(q) < AddressOf(r))
    BY <1>0, <2>4, <2>5
  <2> QED BY <2>4, <2>6 DEF Missed
<1>2. ASSUME NEW r \in Near(q) \ Missed(q) PROVE r \in Paired(q)
  <2>1. r \in Particles /\ r # q /\ pos[r] \in Neighbours(pos[q]) /\ pos[q] \in cellIds /\ pos[r] \in cellIds
    BY DEF Near, InCells
  <2>2. pos[q] \in Neighbours(pos[r])
    BY <2>1, NeighboursOf
  <2>3. ~(pos[q] < pos[r] /\ AddressOf(r) < AddressOf(q)) /\ ~(pos[r] < pos[q] /\ AddressOf(q) < AddressOf(r))
    BY DEF Missed
  <2>4. AddressOf(q) # AddressOf(r)
    <3> SUFFICES ASSUME AddressOf(q) = AddressOf(r) PROVE FALSE
      OBVIOUS
    <3>1. /\ Slot(pos[q], NumberOf(q), q) /\ NumberOf(q) \in Nat /\ NumberOf(q) < cells[pos[q]].n
          /\ Slot(pos[r], NumberOf(r), r) /\ NumberOf(r) \in Nat /\ NumberOf(r) < cells[pos[r]].n
      BY <2>1, NumberIs
    <3>2. pos[q] = pos[r] /\ NumberOf(q) = NumberOf(r)
      BY <2>1, <3>1, AddressesApart DEF AddressOf
    <3> QED BY <2>1, <3>1, <3>2 DEF Slot
  <2>5. CASE (pos[r] < pos[q] \/ pos[r] = pos[q]) /\ AddressOf(r) < AddressOf(q)
    BY <2>1, <2>5, PairOrdered
  <2>6. CASE (pos[q] < pos[r] \/ pos[q] = pos[r]) /\ AddressOf(q) < AddressOf(r)
    BY <2>1, <2>2, <2>6, PairOrdered
  <2> QED BY <1>0, <2>1, <2>3, <2>4, <2>5, <2>6
<1> QED
  BY <1>1, <1>2

\* In the heads of cells the addresses are in the order of the cells.
LEMMA HeadsInOrder ==
  ASSUME FluidTypeOK, InCells, NEW q \in Particles, NEW r \in Particles, InHead(q), InHead(r),
         pos[q] < pos[r]
  PROVE  AddressOf(q) < AddressOf(r)
<1> DEFINE P == PARTICLES_PER_CELL
<1>1. ASSUME NEW a \in {q, r}
      PROVE  /\ AddressOf(a) = pos[a] * P + NumberOf(a) /\ NumberOf(a) \in 0..(P - 1)
             /\ pos[a] \in Nat
  <2> DEFINE c == pos[a]
             j == NumberOf(a)
  <2>1. P \in Nat \ {0} /\ j \in Nat /\ c \in cellIds
    BY NumberIs, Numbers DEF InCells
  <2>2. j < P
    BY DEF InHead
  <2>3. AddressOf(a) = Address(c, j)
    BY DEF AddressOf
  <2> HIDE DEF c, j
  <2>4. StructureOf(cells[c], j) = 0
    BY <2>2 DEF StructureOf
  <2>5. Address(c, j) = c * P + (j % P)
    BY <2>4 DEF Address
  <2> HIDE DEF P
  <2>6. j = P * 0 + j /\ j \in 0..(P - 1)
    BY <2>1, <2>2
  <2>7. j % P = j
    BY <2>1, <2>6, DivideUnique
  <2>8. c \in Nat
    BY <2>1, Finiteness
  <2> QED BY <2>3, <2>5, <2>6, <2>7, <2>8 DEF c, j
<1>2. P \in Nat \ {0}
  BY Numbers
<1> HIDE DEF P
<1>3. /\ AddressOf(q) = pos[q] * P + NumberOf(q) /\ NumberOf(q) \in 0..(P - 1) /\ pos[q] \in Nat
      /\ AddressOf(r) = pos[r] * P + NumberOf(r) /\ NumberOf(r) \in 0..(P - 1) /\ pos[r] \in Nat
  BY <1>1
<1>4. pos[q] * P + NumberOf(q) < pos[r] * P + NumberOf(r)
  BY <1>2, <1>3, AddressOrder
<1> QED
  BY <1>3, <1>4

\* The densities are exact when the invariant holds and nobody is counting.
LEMMA ExactThen == FluidInv => DensitiesExact
<1> SUFFICES ASSUME FluidInv, AllDo("advance"), NEW q \in Particles
             PROVE  /\ density[q] = Cardinality(Near(q) \ Missed(q))
                    /\ \A r \in Missed(q) : ~(InHead(q) /\ InHead(r))
  BY DEF DensitiesExact
<1>1. Advancing /\ FluidTypeOK
  BY WhereAllAre DEF FluidInv
<1>2. \A t \in tids : step[t] = "advance"
  BY DEF AllDo
<1>3. InCells /\ Conserved(pools, fresh, cells)
  BY <1>1, <1>2 DEF InCells, Advancing, Filled, AllSettled, FluidTypeOK
<1>4. density[q] = Cardinality(Paired(q))
  BY <1>1, <1>2 DEF Advancing
<1>5. density[q] = Cardinality(Near(q) \ Missed(q))
  BY <1>1, <1>3, <1>4, PairedExactly
<1>6. ASSUME NEW r \in Missed(q), InHead(q), InHead(r) PROVE FALSE
  <2>1. /\ r \in Particles
        /\ \/ pos[q] < pos[r] /\ AddressOf(r) < AddressOf(q)
           \/ pos[r] < pos[q] /\ AddressOf(q) < AddressOf(r)
    BY DEF Missed, Near
  <2>2. AddressOf(q) \in Int /\ AddressOf(r) \in Int
    BY <1>1, <1>3, <2>1, NumberIs
  <2>3. CASE pos[q] < pos[r] /\ AddressOf(r) < AddressOf(q)
    <3>1. AddressOf(q) < AddressOf(r)
      BY <1>1, <1>3, <1>6, <2>1, <2>3, HeadsInOrder
    <3> QED BY <2>2, <2>3, <3>1
  <2>4. CASE pos[r] < pos[q] /\ AddressOf(q) < AddressOf(r)
    <3>1. AddressOf(r) < AddressOf(q)
      BY <1>1, <1>3, <1>6, <2>1, <2>4, HeadsInOrder
    <3> QED BY <2>2, <2>4, <3>1
  <2> QED BY <2>1, <2>3, <2>4
<1> QED
  BY <1>5, <1>6

\* ComputeDensitiesMT loses no update of a density, although the threads add to
\* those of each other's particles: whether or not cells have overflowed, each
\* density is the number of near particles but those missed for their addresses,
\* and particles in the heads of cells do not miss each other.
THEOREM DensitiesCorrect == FluidSpec => []DensitiesExact
BY ExactThen, FluidInvariant, PTL
=============================================================================
