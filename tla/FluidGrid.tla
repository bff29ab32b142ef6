----------------------------- MODULE FluidGrid -----------------------------
(***************************************************************************)
(* The threads of fluidanimate (fluidanimate/src/pthreads.cpp) and what    *)
(* they share: the cells of the domain, divided into a grid of blocks by x *)
(* and z, one per thread.  In every frame the particles are filed into the *)
(* cells they have moved to, from one array of cells into the other, and   *)
(* then every pair of near particles is counted in both densities.         *)
(*                                                                         *)
(* A cell holds PARTICLES_PER_CELL particles; what is more goes into a     *)
(* chain of structures from the pool of the thread that files it           *)
(* (cellpool.cpp).  The mutexes of a cell are locked only if it is a       *)
(* border cell, one with a neighbour in another block.                     *)
(*                                                                         *)
(* The y axis is never divided and has one layer here.  Particles in       *)
(* neighbouring cells are taken to be near; the forces are added up in the *)
(* same way as the densities and are left out.                             *)
(***************************************************************************)
EXTENDS Integers, Sequences, FiniteSets, FiniteSetsExt

CONSTANTS nx, nz, XDIVS, ZDIVS,
          PARTICLES_PER_CELL,
          numParticles,
          PoolCells, \* structures in a pool at the beginning
          Frames     \* number of frames

ASSUME FluidAssumption ==
  /\ {nx, nz, XDIVS, ZDIVS, PARTICLES_PER_CELL, PoolCells} \subseteq Nat \ {0}
  /\ {numParticles, Frames} \subseteq Nat

Particles == 1..numParticles
cellIds == 0..nx*nz-1
tids == 0..XDIVS*ZDIVS-1

VARIABLES loaded,    \* particles read from the file
          pos,       \* per particle: the cell its coordinates are in
          cells, cells2, \* per cell: particles, chain, number of particles
          pools,     \* per thread: the free structures, last in first out
          alloc,     \* per thread: the size of the next block of them
          fresh,     \* the next structure that will be allocated
          poolAbove, \* the blocks of the pools lie above the arrays of cells
          mutex,     \* the mutexes that are held
          density,   \* per particle: the near particles counted
          step,      \* per thread: what it does next
          cur,       \* per thread: its local variables
          passed     \* per thread: barriers reached so far, modulo 3

fluidVars == <<loaded, pos, cells, cells2, pools, alloc, fresh, poolAbove, mutex,
               density, step, cur, passed>>

poolVars == <<pools, alloc, fresh, poolAbove>>

-----------------------------------------------------------------------------
(* Blocks of cells. *)
X(c) == c % nx
Z(c) == c \div nx

\* n / divs * i, rounded to the nearest.
Bound(n, divs, i) == (2 * n * i + divs) \div (2 * divs)

Within(v, n, divs, i) == Bound(n, divs, i) <= v /\ v < Bound(n, divs, i + 1)

grid(t) ==
  {c \in cellIds : Within(X(c), nx, XDIVS, t \div ZDIVS) /\ Within(Z(c), nz, ZDIVS, t % ZDIVS)}

Neighbours(c) == {d \in cellIds : X(d) - X(c) \in -1..1 /\ Z(d) - Z(c) \in -1..1}

border(c) == \E t \in tids : c \in grid(t) /\ Neighbours(c) \ grid(t) # {}

\* A block is walked through by index: the i-th cell of it.
Visit(t, i) == CHOOSE c \in grid(t) : Cardinality({d \in grid(t) : d < c}) = i - 1

-----------------------------------------------------------------------------
(* A cell: p[j+1] is particle j, in the head of the cell or in structure   *)
(* j \div PARTICLES_PER_CELL of its chain; n is cnumPars.                  *)
emptyCell == [n |-> 0, p |-> <<>>, chain |-> <<>>]

NoParticle == 0

\* Particle q is stored in slot j.
Stored(cell, j, q) ==
  [cell EXCEPT !.p = [i \in 1..(IF j < Len(@) THEN Len(@) ELSE j + 1) |->
     IF i = j + 1 THEN q ELSE IF i <= Len(@) THEN @[i] ELSE NoParticle]]

\* cellpool_getcell: from the pool, or from a new block twice as large as the last.
GetCell(t, s) ==
  IF pools[t] # <<>>
    THEN /\ s = Head(pools[t])
         /\ pools' = [pools EXCEPT ![t] = Tail(@)]
         /\ UNCHANGED <<alloc, fresh>>
    ELSE /\ s = fresh
         /\ pools' = [pools EXCEPT ![t] = [i \in 1..alloc[t]-1 |-> fresh + i]]
         /\ fresh' = fresh + alloc[t]
         /\ alloc' = [alloc EXCEPT ![t] = 2 * @]

\* A full cell gets another structure.
NeedsStructure(n) == n % PARTICLES_PER_CELL = 0 /\ n # 0

fluidInit ==
  /\ loaded = 0
  /\ pos = [q \in Particles |-> 0]
  /\ cells = [c \in cellIds |-> emptyCell]
  /\ cells2 = [c \in cellIds |-> emptyCell]
  /\ pools = [t \in tids |-> [i \in 1..PoolCells |-> PoolCells * t + i]]
  /\ alloc = [t \in tids |-> PoolCells]
  /\ fresh = PoolCells * Cardinality(tids) + 1
  /\ poolAbove \in BOOLEAN
  /\ mutex = {}
  /\ density = [q \in Particles |-> 0]
  /\ step = [t \in tids |-> "load"]
  /\ cur = [t \in tids |-> [frame |-> 1, c |-> 1, j |-> 0, np |-> 0, at |-> 1,
                            todo |-> {}, reg |-> 0]]
  /\ passed = [t \in tids |-> 0]

(* A particle of the file is read, structures come from the pools in turn; *)
(* after the last one the threads are created.                             *)
InitSim ==
  /\ loaded < numParticles
  /\ loaded' = loaded + 1
  /\ \E c \in cellIds :
       LET cell == cells[c]
           turn == SumFunction([d \in cellIds |-> Len(cells[d].chain)]) % Cardinality(tids)
       IN  /\ pos' = [pos EXCEPT ![loaded'] = c]
           /\ IF NeedsStructure(cell.n)
                THEN \E s \in 1..fresh :
                        /\ GetCell(turn, s)
                        /\ cells' = [cells EXCEPT ![c] =
                             [Stored(cell, cell.n, loaded') EXCEPT
                                !.chain = Append(@, s), !.n = @ + 1]]
                ELSE /\ cells' = [cells EXCEPT ![c] =
                          [Stored(cell, cell.n, loaded') EXCEPT !.n = @ + 1]]
                     /\ UNCHANGED <<pools, alloc, fresh>>
  /\ step' = IF loaded' = numParticles THEN [t \in tids |-> "swap"] ELSE step
  /\ UNCHANGED <<cells2, poolAbove, mutex, density, cur, passed>>
=============================================================================
