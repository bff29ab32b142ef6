------------------------------ MODULE KMedian ------------------------------
(***************************************************************************)
(* pkmedian of streamcluster, run by all threads in step: a first set of   *)
(* centers by pspeedy, repeated with a cheaper center until there are      *)
(* kmin of them, then a binary search for the cost z of a center at which  *)
(* pFL ends with kmin to kmax centers.  Every thread keeps z, its bounds   *)
(* and the cost of the solution in local variables, and all must agree:    *)
(* they decide by them how often to go to the barrier.                     *)
(*                                                                         *)
(* Costs are integers here, and the middle between two prices is rounded   *)
(* up: a price stays positive, as a float that is halved does.  The        *)
(* coordinates of a run are taken large enough for the search to end.      *)
(***************************************************************************)
EXTENDS Speedy, PGain

(* Points have positive weights and coordinates in the same dimensions.     *)
ASSUME KMedianAssumption ==
  /\ nproc \in Nat \ {0} /\ num \in Nat /\ kmax \in Nat
  /\ kmin \in 2..kmax /\ kmax < num
  /\ Iter \in Nat \ {0} /\ MaxFeasible \in Nat \ {0}
  /\ \A c \in Chunks : DOMAIN c = indices /\ \A j \in indices :
       /\ c[j].weight \in Nat \ {0}
       /\ DOMAIN c[j].coord = DOMAIN c[0].coord /\ IsFiniteSet(DOMAIN c[j].coord)
       /\ \A d \in DOMAIN c[j].coord : c[j].coord[d] \in Int

VARIABLES hizs,   \* per thread: its part of the cost of a single center
          kfinal  \* the result

medianVars == <<facilityVars, speedyVars, gainVars, hizs, kfinal>>

pkmedianInit ==
  /\ point \in Chunks
  /\ assign = [j \in indices |-> 0] /\ cost = [j \in indices |-> 0]
  /\ k = 0
  /\ at = [t \in pids |-> "begin"]
  /\ my = [t \in pids |-> [z |-> 0, hiz |-> 0, loz |-> 0, cost |-> 0, change |-> 0,
                           e |-> 0, i |-> 0, K |-> 0, opening |-> 0, tries |-> 0]]
  /\ reached = [t \in pids |-> 0]
  /\ speedyInit /\ gainInit
  /\ hizs = [t \in pids |-> 0]
  /\ kfinal = 0

-----------------------------------------------------------------------------
\* z = (hiz+loz)/2.0
Middle(lo, hi) == (lo + hi + 1) \div 2

Begin(t) ==
  /\ at[t] = "begin"
  /\ ReachBarrier(t, "hiz")
  /\ UNCHANGED <<point, assign, cost, k, my, speedyVars, gainVars, hizs, kfinal>>

\* What the points of the block cost with point 0 as the only center.
Hiz(t) ==
  /\ at[t] = "hiz" /\ Released(t)
  /\ hizs' = [hizs EXCEPT ![t] = SumFunction([j \in Block(t) |-> CostAt(j, 0)])]
  /\ ReachBarrier(t, "seed")
  /\ UNCHANGED <<point, assign, cost, k, my, speedyVars, gainVars, kfinal>>

Seed(t) ==
  /\ at[t] = "seed" /\ Released(t)
  /\ LET hiz == SumFunctionOnSet(hizs, pids) IN
     my' = [my EXCEPT ![t].hiz = hiz, ![t].z = Middle(my[t].loz, hiz)]
  /\ IF t = 0 THEN shuffled(point') ELSE UNCHANGED point
  /\ GoOn(t, "pspeedy")
  /\ UNCHANGED <<assign, cost, k, speedyVars, gainVars, hizs, kfinal>>

(* pspeedy has returned.  Too few centers: once more (SP is 1), then with a *)
(* cheaper center and the points in another order, as often as it takes.    *)
Return(t) ==
  /\ at[t] = "return" /\ Released(t)
  /\ \/ /\ k < kmin /\ my[t].tries = 0
        /\ my' = [my EXCEPT ![t].tries = 1, ![t].cost = totalcost]
        /\ GoOn(t, "pspeedy")
        /\ UNCHANGED point
     \/ /\ k < kmin /\ my[t].tries = 1
        /\ my' = [my EXCEPT ![t].hiz = my[t].z, ![t].z = Middle(my[t].loz, @),
                            ![t].cost = totalcost]
        /\ IF t = 0 THEN shuffled(point') ELSE UNCHANGED point
        /\ GoOn(t, "pspeedy")
     \/ /\ k >= kmin
        /\ my' = [my EXCEPT ![t].cost = totalcost, ![t].tries = 0]
        /\ GoOn(t, "select")
        /\ UNCHANGED point
  /\ UNCHANGED <<assign, cost, k, speedyVars, gainVars, hizs, kfinal>>

\* selectfeasible_fast: all points, or as many as there is room for, by chance.
selected(f) ==
  IF num <= MaxFeasible
    THEN f = [j \in 1..num |-> j - 1]
    ELSE f \in [1..MaxFeasible -> indices]

\* Thread 0 selects the feasible centers and marks those there are.
Select(t) ==
  /\ at[t] = "select"
  /\ IF t = 0
       THEN /\ \E f \in [1..(IF num <= MaxFeasible THEN num ELSE MaxFeasible) -> indices] :
                  selected(f) /\ feasible' = f
            /\ is_center' = [j \in indices |-> is_center[j] \/ j \in Centers]
       ELSE UNCHANGED <<feasible, is_center>>
  /\ ReachBarrier(t, "search")
  /\ UNCHANGED <<point, assign, cost, k, my, speedyVars, center_table,
                 switch_membership, work_mem, gl_lower, gl_cost_of_opening_x,
                 gl_number_of_centers_to_close, hizs, kfinal>>

\* A rough solution for this z: pFL that stops below a gain of a tenth.
Rough(t) ==
  /\ at[t] = "search" /\ Released(t)
  /\ my' = [my EXCEPT ![t].e = 10]
  /\ GoOn(t, "pFL")
  /\ UNCHANGED <<point, assign, cost, k, speedyVars, gainVars, hizs, kfinal>>

GoodNumber ==
  \/ 10 * k <= 11 * kmax /\ 10 * k >= 9 * kmin
  \/ k <= kmax + 2 /\ k >= kmin - 2

\* A good number of centers: pFL again, more accurate.
Refine(t) ==
  /\ at[t] = "found" /\ my[t].e = 10 /\ GoodNumber
  /\ my' = [my EXCEPT ![t].e = 1000]
  /\ GoOn(t, "pFL")
  /\ UNCHANGED <<point, assign, cost, k, speedyVars, gainVars, hizs, kfinal>>

\* Faulty variant: the cost keeps the old price of the centers.
AdjustedPrice(t, z) == my[t].cost

\* The cost of the solution when a center costs z.
Adjusted(t, z) == my[t].cost + (z - my[t].z) * k

\* Centers are too cheap or too expensive: the search goes on above or below z.
Bounds(t) ==
  LET m == my[t] IN
  CASE k > kmax -> [m EXCEPT !.loz = m.z, !.z = Middle(m.z, m.hiz),
                             !.cost = Adjusted(t, Middle(m.z, m.hiz))]
    [] k < kmin -> [m EXCEPT !.hiz = m.z, !.z = Middle(m.loz, m.z),
                             !.cost = Adjusted(t, Middle(m.loz, m.z))]
    [] OTHER -> m

Adjust(t) ==
  /\ at[t] = "found" /\ (my[t].e = 1000 \/ ~GoodNumber)
  /\ my' = [my EXCEPT ![t] = Bounds(t)]
  /\ GoOn(t, "decided")
  /\ UNCHANGED <<point, assign, cost, k, speedyVars, gainVars, hizs, kfinal>>

IsGood == k \in kmin..kmax
IsStuck(t) == 1000 * my[t].loz >= 999 * my[t].hiz

Decided(t) ==
  /\ at[t] = "decided"
  /\ \/ /\ IsGood \/ IsStuck(t)
        /\ kfinal' = IF t = 0 THEN k ELSE kfinal
        /\ GoOn(t, "done")
     \/ /\ ~IsGood /\ ~IsStuck(t)
        /\ ReachBarrier(t, "search")
        /\ UNCHANGED kfinal
  /\ UNCHANGED <<point, assign, cost, k, my, speedyVars, gainVars, hizs>>

pkmedian(t) ==
  \/ Begin(t) \/ Hiz(t) \/ Seed(t) \/ Return(t) \/ Select(t)
  \/ Rough(t) \/ Refine(t) \/ Adjust(t) \/ Decided(t)

Step(t) ==
  \/ pkmedian(t)
  \/ pspeedy(t) /\ UNCHANGED <<gainVars, hizs, kfinal>>
  \/ pFL(t) /\ UNCHANGED <<speedyVars, hizs, kfinal>>

Wake(t) == WakeWorker(t) /\ UNCHANGED <<gainVars, hizs, kfinal>>

KMedianNext == \E t \in pids : Step(t) \/ Wake(t)

KMedianSpec ==
  /\ pkmedianInit /\ [][KMedianNext]_medianVars
  /\ \A t \in pids : WF_medianVars(Step(t))

-----------------------------------------------------------------------------
AllAt(label) == \A t \in pids : at[t] = label

CostsMatch == \A j \in indices : cost[j] = CostAt(j, assign[j])

\* When pspeedy returns, every point is with the nearest of the centers that
\* were opened, they are counted, and the cost is that of this solution: no
\* thread has missed a center, or moved its points to one twice or half.
NearestCenter ==
  AllAt("return") =>
     /\ CostsMatch
     /\ \A j \in indices, c \in Centers : cost[j] <= CostAt(j, c)
     /\ k = Cardinality(Centers)
     /\ totalcost = my[0].z * k + TotalCost

\* Between two calls of pgain the flags, the number of centers and the
\* assignments of all blocks tell of the same centers, each its own.
CentersConsistent ==
  AllAt("gained") =>
     /\ CostsMatch
     /\ Centers = {j \in indices : is_center[j]}
     /\ \A c \in Centers : assign[c] = c
     /\ k = Cardinality(Centers)

\* After every pass each thread's cost, a sum of gains and changes of z, is
\* what the solution costs.
CostIsExact ==
  AllAt("pass") => \A t \in pids : my[t].cost = my[t].z * k + TotalCost

\* All threads have taken the same way through the barriers and returned, with
\* the number of centers there are.  This must come true and stay.
MedianFound == AllAt("done") /\ kfinal = Cardinality(Centers)
=============================================================================
