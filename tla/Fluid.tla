------------------------------- MODULE Fluid -------------------------------
(***************************************************************************)
(* AdvanceFrameMT of fluidanimate: what every thread does in a frame, a    *)
(* barrier after each phase.  Thread 0 swaps the arrays of cells; every    *)
(* thread clears its block of the new one, files the particles of its      *)
(* block of the old one, adds up the densities of its block, and moves the *)
(* particles of its block.                                                 *)
(***************************************************************************)
EXTENDS FluidGrid

\* NoParticle is still on the way to the barrier that t has reached.
Passed(t) == \A u \in tids : passed[u] # (passed[t] + 2) % 3

\* The phase of t is over: the barrier behind it.
Reach(t, next) ==
  /\ step' = [step EXCEPT ![t] = next]
  /\ passed' = [passed EXCEPT ![t] = (@ + 1) % 3]

\* The phase goes on.
Continue(t, next) == step' = [step EXCEPT ![t] = next] /\ UNCHANGED passed

Swap(t) ==
  /\ step[t] = "swap" /\ Passed(t)
  /\ IF t = 0 THEN cells' = cells2 /\ cells2' = cells ELSE UNCHANGED <<cells, cells2>>
  /\ Reach(t, "clear")
  /\ UNCHANGED <<loaded, pos, poolVars, mutex, density, cur>>

ClearParticlesMT(t) ==
  /\ step[t] = "clear" /\ Passed(t)
  /\ cells' = [c \in cellIds |-> IF c \in grid(t) THEN emptyCell ELSE cells[c]]
  /\ cur' = [cur EXCEPT ![t].c = 1, ![t].j = 0]
  /\ Reach(t, "rebuild")
  /\ UNCHANGED <<loaded, pos, cells2, poolVars, mutex, density>>

-----------------------------------------------------------------------------
(* RebuildGridMT, particle by particle. *)
Source(t) == Visit(t, cur[t].c)
Particle(t) == cells2[Source(t)].p[cur[t].j + 1]
Destination(t) == pos[Particle(t)]

\* Faulty variant: no cell is locked while a particle is filed.
NeverLocked(c) == FALSE

Locked(c) == border(c)

Lock(c, m) == IF Locked(c) THEN <<c, m>> \notin mutex /\ mutex' = mutex \cup {<<c, m>>}
                           ELSE UNCHANGED mutex

Unlock(c, m) == mutex' = mutex \ {<<c, m>>}

\* The mutex and the number of particles in the destination.
FindSlot(t) ==
  /\ step[t] = "rebuild" /\ Passed(t)
  /\ cur[t].c <= Cardinality(grid(t)) /\ cur[t].j < cells2[Source(t)].n
  /\ Lock(Destination(t), 0)
  /\ cur' = [cur EXCEPT ![t].np = cells[Destination(t)].n]
  /\ Continue(t, "file")
  /\ UNCHANGED <<loaded, pos, cells, cells2, poolVars, density>>

\* A structure from the own pool if need be, and one more particle.
TakeSlot(t) ==
  /\ step[t] = "file"
  /\ LET d == Destination(t) IN
     /\ IF NeedsStructure(cur[t].np)
          THEN \E s \in 1..fresh :
                 /\ GetCell(t, s)
                 /\ cells' = [cells EXCEPT ![d].chain = Append(@, s), ![d].n = @ + 1]
          ELSE /\ cells' = [cells EXCEPT ![d].n = @ + 1]
               /\ UNCHANGED <<pools, alloc, fresh>>
     /\ Unlock(d, 0)
  /\ Continue(t, "copy")
  /\ UNCHANGED <<loaded, pos, cells2, poolAbove, density, cur>>

\* Faulty variant: the pointer to the structure is not moved along the chain.
HeadOnly(cell, j) == 0

\* The structure the source particle j is in, 0 for the head of the cell.
StructureOf(cell, j) ==
  IF j < PARTICLES_PER_CELL THEN 0 ELSE cell.chain[j \div PARTICLES_PER_CELL]

\* Faulty variant: the structure at the end of a chain is returned only if full.
ReadLastFull(cell, j) == j % PARTICLES_PER_CELL = PARTICLES_PER_CELL - 1

\* Faulty variant: a structure is returned when its first particle has been read.
ReadFirst(cell, j) == j % PARTICLES_PER_CELL = 0

(* Particle j is the last one in its structure: the next is in another one, *)
(* or there is none.                                                        *)
ReadLast(cell, j) ==
  j % PARTICLES_PER_CELL = PARTICLES_PER_CELL - 1 \/ j + 1 = cell.n

(* Copied without the mutex; a structure that has been read goes into the *)
(* pool of the reader.                                                    *)
CopyParticle(t) ==
  /\ step[t] = "copy"
  /\ LET d == Destination(t)
         from == cells2[Source(t)]
         j == cur[t].j
     IN  /\ cells' = [cells EXCEPT ![d] = Stored(@, cur[t].np, Particle(t))]
         /\ pools' = IF StructureOf(from, j) # 0 /\ ReadLast(from, j)
                       THEN [pools EXCEPT ![t] = <<StructureOf(from, j)>> \o @]
                       ELSE pools
  /\ cur' = [cur EXCEPT ![t].j = @ + 1]
  /\ Continue(t, "rebuild")
  /\ UNCHANGED <<loaded, pos, cells2, alloc, fresh, poolAbove, mutex, density>>

NextCell(t) ==
  /\ step[t] = "rebuild" /\ Passed(t)
  /\ cur[t].c <= Cardinality(grid(t)) /\ cur[t].j = cells2[Source(t)].n
  /\ cur' = [cur EXCEPT ![t].c = @ + 1, ![t].j = 0]
  /\ UNCHANGED <<loaded, pos, cells, cells2, poolVars, mutex, density, step, passed>>

Rebuilt(t) ==
  /\ step[t] = "rebuild" /\ Passed(t) /\ cur[t].c > Cardinality(grid(t))
  /\ Reach(t, "init")
  /\ UNCHANGED <<loaded, pos, cells, cells2, poolVars, mutex, density, cur>>

RebuildGridMT(t) ==
  FindSlot(t) \/ TakeSlot(t) \/ CopyParticle(t) \/ NextCell(t) \/ Rebuilt(t)

-----------------------------------------------------------------------------
Holds(c, q) == \E j \in DOMAIN cells[c].p : cells[c].p[j] = q

InitDensitiesAndForcesMT(t) ==
  /\ step[t] = "init" /\ Passed(t)
  /\ density' = [q \in Particles |->
       IF \E c \in grid(t) : Holds(c, q) THEN 0 ELSE density[q]]
  /\ Reach(t, "densities")
  /\ UNCHANGED <<loaded, pos, cells, cells2, poolVars, mutex, cur>>

\* The address of particle j of cell c, in slots.
Address(c, j) ==
  LET s == StructureOf(cells[c], j)
      structure == IF s = 0 THEN c
                   ELSE IF poolAbove THEN Cardinality(cellIds) + s ELSE s - fresh
  IN  structure * PARTICLES_PER_CELL + (j % PARTICLES_PER_CELL)

\* InitNeighCellList: the cell itself and those neighbours that are before it.
NeighCells(c) == {c} \cup {d \in Neighbours(c) : d < c /\ cells[d].n # 0}

(* The pairs of particles ComputeDensitiesMT finds in the block of t, each *)
(* as the cell and number of one and of the other: those where the second  *)
(* has the lower address.                                                  *)
PairsOf(t) ==
  {pr \in grid(t) \X (0..numParticles-1) \X cellIds \X (0..numParticles-1) :
     LET c == pr[1]  i == pr[2]
         d == pr[3]  j == pr[4]
     IN  /\ d \in NeighCells(c)
         /\ i < cells[c].n /\ j < cells[d].n
         /\ Address(d, j) < Address(c, i)}

FindPairs(t) ==
  /\ step[t] = "densities" /\ Passed(t)
  /\ cur' = [cur EXCEPT ![t].todo = PairsOf(t), ![t].at = 1]
  /\ Continue(t, "pair")
  /\ UNCHANGED <<loaded, pos, cells, cells2, poolVars, mutex, density>>

\* The pair a thread is at; their order does not matter.
Pair(t) == CHOOSE pr \in cur[t].todo : TRUE

\* The particle of the pair whose density is updated next.
At(t) == IF cur[t].at = 1 THEN [c |-> Pair(t)[1], i |-> Pair(t)[2]]
                          ELSE [c |-> Pair(t)[3], i |-> Pair(t)[4]]
Updated(t) == cells[At(t).c].p[At(t).i + 1]

\* density += tc, with the mutex of the particle if the cell is a border cell.
ReadDensity(t) ==
  /\ step[t] = "pair" /\ cur[t].todo # {}
  /\ Lock(At(t).c, At(t).i)
  /\ cur' = [cur EXCEPT ![t].reg = density[Updated(t)]]
  /\ Continue(t, "add")
  /\ UNCHANGED <<loaded, pos, cells, cells2, poolVars, density>>

WriteDensity(t) ==
  /\ step[t] = "add"
  /\ density' = [density EXCEPT ![Updated(t)] = cur[t].reg + 1]
  /\ Unlock(At(t).c, At(t).i)
  /\ cur' = [cur EXCEPT ![t].at = 3 - @,
                        ![t].todo = IF cur[t].at = 2 THEN @ \ {Pair(t)} ELSE @]
  /\ Continue(t, "pair")
  /\ UNCHANGED <<loaded, pos, cells, cells2, poolVars>>

AllPairs(t) ==
  /\ step[t] = "pair" /\ cur[t].todo = {}
  /\ Reach(t, "advance")
  /\ UNCHANGED <<loaded, pos, cells, cells2, poolVars, mutex, density, cur>>

ComputeDensitiesMT(t) ==
  FindPairs(t) \/ ReadDensity(t) \/ WriteDensity(t) \/ AllPairs(t)

-----------------------------------------------------------------------------
(* A particle stays in its cell or moves to a neighbour: "this assumes that *)
(* particles cannot travel more than one grid cell per time step".          *)
AdvanceParticlesMT(t) ==
  /\ step[t] = "advance" /\ Passed(t)
  /\ LET mine == {q \in Particles : \E c \in grid(t) : Holds(c, q)} IN
     \E to \in [mine -> cellIds] :
       /\ \A q \in mine : to[q] \in Neighbours(pos[q])
       /\ pos' = [q \in Particles |-> IF q \in mine THEN to[q] ELSE pos[q]]
  /\ cur' = [cur EXCEPT ![t].frame = @ + 1]
  /\ Reach(t, IF cur[t].frame < Frames THEN "swap" ELSE "done")
  /\ UNCHANGED <<loaded, cells, cells2, poolVars, mutex, density>>

AdvanceFrameMT(t) ==
  \/ Swap(t) \/ ClearParticlesMT(t) \/ RebuildGridMT(t)
  \/ InitDensitiesAndForcesMT(t) \/ ComputeDensitiesMT(t)
  \/ AdvanceParticlesMT(t)

FluidNext == InitSim \/ \E t \in tids : AdvanceFrameMT(t)

FluidSpec ==
  /\ fluidInit /\ [][FluidNext]_fluidVars
  /\ WF_fluidVars(InitSim) /\ \A t \in tids : WF_fluidVars(AdvanceFrameMT(t))

-----------------------------------------------------------------------------
AllDo(label) == \A t \in tids : step[t] = label

\* The cells in which a particle is stored, with its number there.
StoredAt(q) == {at \in cellIds \X (1..numParticles) :
                at[2] <= Len(cells[at[1]].p) /\ cells[at[1]].p[at[2]] = q}

Occurrences(seq, s) == Cardinality({i \in DOMAIN seq : seq[i] = s})

\* How often a structure is in a pool or in a chain of the new cells.
Uses(s) == SumFunction([t \in tids |-> Occurrences(pools[t], s)])
             + SumFunction([c \in cellIds |-> Occurrences(cells[c].chain, s)])

\* When all threads have filed their particles, each particle is stored once,
\* in the cell it is in, and the cells count what they hold; and every
\* structure there is is free or in use, once: none is lost, given to two
\* cells or returned twice, although it may return to another pool.
GridRebuilt ==
  AllDo("init") =>
     /\ \A q \in Particles : \E j \in 1..numParticles : StoredAt(q) = {<<pos[q], j>>}
     /\ \A c \in cellIds : cells[c].n = Len(cells[c].p)
     /\ \A s \in 1..fresh-1 : Uses(s) = 1

Near(q) == {r \in Particles \ {q} : pos[r] \in Neighbours(pos[q])}

\* The number of a particle in its cell, its address, and whether it is in the
\* head of the cell and not in a structure of the chain.
NumberOf(q) == CHOOSE j \in 0..numParticles-1 :
                 j < Len(cells[pos[q]].p) /\ cells[pos[q]].p[j + 1] = q
AddressOf(q) == Address(pos[q], NumberOf(q))
InHead(q) == NumberOf(q) < PARTICLES_PER_CELL

\* The near particles no thread counts for q: the cell of higher number looks for
\* lower addresses in the other, and the particle there has the higher one.
Missed(q) ==
  {r \in Near(q) : \/ pos[q] < pos[r] /\ AddressOf(r) < AddressOf(q)
                   \/ pos[r] < pos[q] /\ AddressOf(q) < AddressOf(r)}

\* Whatever the order in which threads update the densities of border cells, and
\* whether or not cells overflow, a density counts every near particle once but
\* those missed for their addresses; none is missed if both are in heads of cells.
DensitiesExact ==
  AllDo("advance") =>
     \A q \in Particles :
        /\ density[q] = Cardinality(Near(q) \ Missed(q))
        /\ \A r \in Missed(q) : ~(InHead(q) /\ InHead(r))

\* A thread copies a particle after it has let go of the cell it is filed into, so
\* its source must last: the structure it reads from has not been returned to a
\* pool, from which any thread may have put it into a new cell.
ReadBeforeReuse ==
  \A t \in tids : step[t] \in {"file", "copy"} =>
     /\ cur[t].j \div PARTICLES_PER_CELL <= Len(cells2[Source(t)].chain)
     /\ LET s == StructureOf(cells2[Source(t)], cur[t].j)
        IN  s # 0 => Uses(s) = 0

\* A near pair is in both densities, once, with overflowing cells too.
EachPairOnce ==
  AllDo("advance") => \A q \in Particles : density[q] = Cardinality(Near(q))

\* All threads have done all their frames.  This must come true and stay.
FramesDone == AllDo("done")
=============================================================================
