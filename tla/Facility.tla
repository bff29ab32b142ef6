------------------------------ MODULE Facility ------------------------------
(***************************************************************************)
(* What the steps of streamcluster's k-median search share                 *)
(* (streamcluster/src/streamcluster.cpp): the points with their            *)
(* assignments, the blocks the threads divide them into, and the barrier   *)
(* between two phases.                                                     *)
(*                                                                         *)
(* The barrier is used by what ParsecBarrier shows of it: nobody passes it *)
(* before all threads have reached it.  A step of a thread leaves one      *)
(* barrier, runs the code up to the next one and reaches that.             *)
(***************************************************************************)
EXTENDS Integers, FiniteSets, FiniteSetsExt

CONSTANTS nproc,    \* number of threads
          num,      \* number of points
          Chunks,   \* the inputs: sets of points, [0..num-1 -> [coord, weight]]
          kmin, kmax

pids == 0..nproc-1
indices == 0..num-1

VARIABLES point,      \* the points in their present order
          assign,     \* per point: its center
          cost,       \* per point: weight times distance to its center
          k,          \* the static k of pkmedian: the number of centers
          at,         \* per thread: what it executes next
          my,         \* per thread: its local variables
          reached     \* per thread: barriers reached so far, modulo 3

facilityVars == <<point, assign, cost, k, at, my, reached>>

-----------------------------------------------------------------------------
\* Squared Euclidean distance.
dist(i, j) ==
  SumFunction([d \in DOMAIN point[i].coord |->
    (point[i].coord[d] - point[j].coord[d]) * (point[i].coord[d] - point[j].coord[d])])

CostAt(i, center) == dist(i, center) * point[i].weight

\* Faulty variant: the points that remain after an even division have no owner.
BlockNoRemainder(p) == (num \div nproc) * p .. (num \div nproc) * (p + 1) - 1

Block(p) ==
  LET bsize == num \div nproc
      k2 == IF p = nproc - 1 THEN num ELSE bsize * (p + 1)
  IN  bsize * p .. k2 - 1

\* The centers are the points somebody is assigned to.
Centers == {assign[i] : i \in indices}

TotalCost == SumFunctionOnSet(cost, indices)

\* shuffle: any order of the points.
shuffled(q) == \E f \in Bijection(indices, indices) : q = [i \in indices |-> point[f[i]]]

-----------------------------------------------------------------------------
\* No thread is still on the way to the barrier that t has reached.
Released(t) == \A u \in pids : reached[u] # (reached[t] + 2) % 3

\* Thread t has run a phase, reaches the barrier behind it and will go on at label.
ReachBarrier(t, label) ==
  /\ at' = [at EXCEPT ![t] = label]
  /\ reached' = [reached EXCEPT ![t] = (@ + 1) % 3]

GoOn(t, label) == at' = [at EXCEPT ![t] = label] /\ UNCHANGED reached
=============================================================================
