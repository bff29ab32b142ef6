------------------------------ MODULE TaskGrid ------------------------------
(***************************************************************************)
(* How taskQEnqueueGrid divides a grid of tiles among the task queues      *)
(* (enqueueGridRec in facesim/src/TaskQ/lib/taskQInternal.h): the queues   *)
(* are halved and the box of tiles is cut in the middle of one dimension,  *)
(* the dimensions taking turns.  A corner of a box is a sequence of        *)
(* coordinates; max is the first corner outside of it.                     *)
(***************************************************************************)
EXTENDS Integers, Sequences, FiniteSetsExt, TLC

CONSTANTS Sizes,     \* the grids: the tiles in each dimension
          MaxQueues  \* bound: task queues

ASSUME GridAssumption ==
  Sizes \subseteq Seq(Nat \ {0}) \ {<< >>} /\ MaxQueues \in Nat

VARIABLES size, shares  \* the arguments of a call: a grid, and for how many queues

gridVars == <<size, shares>>

\* What assignTasks enqueues for one queue.
Box(min, max) ==
  {tile \in [DOMAIN min -> UNION {min[k]..(max[k] - 1) : k \in DOMAIN min}] :
     \A k \in DOMAIN min : min[k] <= tile[k] /\ tile[k] < max[k]}

\* The dimension after k, as often as i says.
Dimension(k, i, n) == ((k + i - 1) % n) + 1

\* The dimension to cut, from k on in turn: the first with two tiles or more.
CutDimensions(k, min, max) ==
  LET n == Len(min)
  IN  {i \in 0..(n - 1) : max[Dimension(k, i, n)] - min[Dimension(k, i, n)] > 1}

\* Faulty variant: the upper half begins one tile too late.
UpperCornerLate(min, k, middle) == [min EXCEPT ![k] = middle + 1]

UpperCorner(min, k, middle) == [min EXCEPT ![k] = middle]

\* A call for queues from start on, the dimension current first.
Calls == [start : Nat, current : Nat, min : Seq(Nat), max : Seq(Nat)]

\* The tiles of each of the total queues of a call, if rec does this for fewer.
Divided(rec, total, call) ==
  LET min == call.min
      max == call.max
      queues == call.start..(call.start + total - 1)
      cuts == CutDimensions(call.current, min, max)
      k == Dimension(call.current, Min(cuts), Len(min))
      middle == min[k] + (max[k] - min[k]) \div 2
      next == Dimension(k, 1, Len(min))
      half == total \div 2
      lower == [start |-> call.start, current |-> next,
                min |-> min, max |-> [max EXCEPT ![k] = middle]]
      upper == [start |-> call.start + half, current |-> next,
                min |-> UpperCorner(min, k, middle), max |-> max]
  IN IF total = 1 \/ cuts = {}
       THEN [q \in queues |-> IF q = call.start THEN Box(min, max) ELSE {}]
       ELSE [q \in queues |-> IF q < call.start + half THEN rec[half][lower][q]
                                                      ELSE rec[total - half][upper][q]]

enqueueGridRec[total \in Nat \ {0}] ==
  [call \in Calls |-> Divided(enqueueGridRec, total, call)]

\* enqueueGridHelper: the tiles of each queue.
Shares ==
  enqueueGridRec[shares][[start |-> 0, current |-> 1,
                          min |-> [k \in DOMAIN size |-> 0], max |-> size]]

\* Any call of taskQEnqueueGrid.
GridInit == size \in Sizes /\ shares \in 1..MaxQueues

GridSpec == GridInit /\ [][FALSE]_gridVars

\* Every tile of the grid goes to exactly one queue, and there is a share for
\* every queue.
GridTiled ==
  LET share == Shares
  IN  /\ DOMAIN share = 0..(shares - 1)
      /\ \A tile \in Box([k \in DOMAIN size |-> 0], size) :
           \E q \in DOMAIN share : \A r \in DOMAIN share : tile \in share[r] <=> r = q
=============================================================================
