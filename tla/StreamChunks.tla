---------------------------- MODULE StreamChunks ----------------------------
(***************************************************************************)
(* streamCluster of streamcluster: the stream is read in chunks, the       *)
(* centers of each chunk are kept with the weight of the points they stand *)
(* for, and in the end these centers are clustered in the same way.        *)
(*                                                                         *)
(* localSearch is used by what KMedian shows of it: every point is         *)
(* assigned to a center, and the centers to themselves.  A set of at most  *)
(* kmax points is not searched at all: each of them is a center, and the   *)
(* number of centers reported is the one the search before has left in the *)
(* static variable found.                                                  *)
(***************************************************************************)
EXTENDS Integers, Sequences, FiniteSets, FiniteSetsExt

CONSTANTS maxk,       \* kmax, the most centers of a search
          chunksize,  \* points read at once
          centersize, \* room for intermediate centers
          MaxPoints   \* bound: points in the stream

ASSUME StreamAssumption ==
  chunksize \in Nat \ {0} /\ centersize \in Nat
  /\ maxk \in Nat /\ MaxPoints \in Nat

VARIABLES left,       \* points that are still to come
          kind,       \* a synthetic stream ("sim") or a file
          eof,        \* feof of the stream
          found,      \* the static k of pkmedian
          reported,   \* kfinal
          centers,    \* the weights of the intermediate centers
          state,      \* "reading", "clustering", "done" or "exit"
          read, output \* history: points read; weights written out

streamVars == <<left, kind, eof, found, reported, centers, state, read, output>>

streamInit ==
  /\ left \in 1..MaxPoints
  /\ kind \in {"sim", "file"} /\ eof = FALSE
  /\ found = 0 /\ reported = 0
  /\ centers = <<>> /\ output = <<>>
  /\ state = "reading" /\ read = 0

-----------------------------------------------------------------------------
\* What localSearch can make of points 1..n.
Assignments(n) ==
  IF n <= maxk THEN {[j \in 1..n |-> j]}
               ELSE {a \in [1..n -> 1..n] : \A j \in 1..n : a[a[j]] = a[j]}

Medians(a) == {a[j] : j \in DOMAIN a}

\* Faulty variant: a center keeps its own weight.
OwnWeight(weight, a, c) == weight[c]

\* contcenters: a center takes the weight of all its points.
ContractedWeight(weight, a, c) ==
  SumFunctionOnSet(weight, {j \in DOMAIN a : a[j] = c})

\* The contracted medians, in their order.
Contracted(weight, a) ==
  [r \in 1..Cardinality(Medians(a)) |->
     ContractedWeight(weight, a,
       CHOOSE c \in Medians(a) : Cardinality({d \in Medians(a) : d < c}) = r - 1)]

\* pkmedian sets found unless the points are few enough to be taken as they are.
SearchMedians(n, a) ==
  /\ found' = IF n <= maxk THEN found ELSE Cardinality(Medians(a))
  /\ reported' = found'

-----------------------------------------------------------------------------
(* One round of the loop: read, search, contract, test for room and copy. *)
Chunk ==
  /\ state = "reading"
  /\ LET n == IF left < chunksize THEN left ELSE chunksize IN
     /\ left' = left - n /\ read' = read + n
     /\ eof' = IF kind = "sim" THEN left' = 0 ELSE n < chunksize
     /\ \E a \in Assignments(n) :
          /\ SearchMedians(n, a)
          /\ \/ /\ reported' + Len(centers) > centersize
                /\ state' = "exit"
                /\ UNCHANGED centers
             \/ /\ reported' + Len(centers) <= centersize
                /\ centers' = centers \o Contracted([j \in 1..n |-> 1], a)
                /\ state' = IF eof' THEN "clustering" ELSE "reading"
  /\ UNCHANGED <<kind, output>>

\* The intermediate centers are clustered and their medians written out.
Final ==
  /\ state = "clustering"
  /\ \E a \in Assignments(Len(centers)) :
       /\ SearchMedians(Len(centers), a)
       /\ output' = Contracted(centers, a)
  /\ state' = "done"
  /\ UNCHANGED <<left, kind, eof, centers, read>>

StreamNext == Chunk \/ Final

StreamSpec == streamInit /\ [][StreamNext]_streamVars

-----------------------------------------------------------------------------
Weight(s) == SumFunction(s)

\* Every point read has its weight in one center, and in one center written.
WeightKept ==
  /\ state # "exit" => Weight(centers) = read
  /\ state = "done" => Weight(output) = read /\ left = 0

\* There are never more intermediate centers than there is room for.
CentersFit == Len(centers) <= centersize
=============================================================================
