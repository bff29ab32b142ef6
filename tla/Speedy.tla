------------------------------- MODULE Speedy -------------------------------
(***************************************************************************)
(* pspeedy of streamcluster: a first set of centers.  Point 0 is one, and  *)
(* thread 0 walks over the others and opens a center at a point with a     *)
(* probability that grows with its cost.  For every center it opens, all   *)
(* threads move those of their points to it that are nearer to it.  The    *)
(* other threads sleep on a condition variable until open is set, look at  *)
(* the shared index i after they have released the mutex, and leave when   *)
(* it is past the last point.                                              *)
(***************************************************************************)
EXTENDS Facility

VARIABLES open, i, costs, totalcost

speedyVars == <<open, i, costs, totalcost>>

speedyInit ==
  /\ open = FALSE /\ i = 0
  /\ costs = [p \in pids |-> 0]
  /\ totalcost = 0

Enter(t) ==
  /\ at[t] = "pspeedy"
  /\ ReachBarrier(t, "first")
  /\ UNCHANGED <<point, assign, cost, k, my, speedyVars>>

\* All points of the block belong to the center at point 0.
First(t) ==
  /\ at[t] = "first" /\ Released(t)
  /\ assign' = [j \in indices |-> IF j \in Block(t) THEN 0 ELSE assign[j]]
  /\ cost' = [j \in indices |-> IF j \in Block(t) THEN CostAt(j, 0) ELSE cost[j]]
  /\ k' = IF t = 0 THEN 1 ELSE k
  /\ ReachBarrier(t, IF t = 0 THEN "start" ELSE "wait")
  /\ UNCHANGED <<point, my, speedyVars>>

\* Those points of the block that are nearer to the point i move to it.
Nearer(t) == {j \in Block(t) : CostAt(j, i) < cost[j]}

MoveTo(t) ==
  /\ assign' = [j \in indices |-> IF j \in Nearer(t) THEN i ELSE assign[j]]
  /\ cost' = [j \in indices |-> IF j \in Nearer(t) THEN CostAt(j, i) ELSE cost[j]]
  /\ UNCHANGED <<point, k, my, speedyVars>>

-----------------------------------------------------------------------------
(* Thread 0. *)
Start(t) ==
  /\ at[t] = "start" /\ Released(t)
  /\ i' = 1
  /\ GoOn(t, "decide")
  /\ UNCHANGED <<point, assign, cost, k, my, open, costs, totalcost>>

\* A random number in 0..1 is less than cost / z.
MayOpen(t) == cost[i] > 0
MustOpen(t) == cost[i] > my[t].z

Decide(t) ==
  /\ at[t] = "decide" /\ i < num
  /\ \/ /\ MayOpen(t)
        /\ k' = k + 1
        /\ i' = i
        /\ GoOn(t, "announce")
     \/ /\ ~MustOpen(t)
        /\ i' = i + 1
        /\ UNCHANGED <<k, at, reached>>
  /\ UNCHANGED <<point, assign, cost, my, open, costs, totalcost>>

NoMore(t) ==
  /\ at[t] = "decide" /\ i >= num
  /\ GoOn(t, "announce")
  /\ UNCHANGED <<point, assign, cost, k, my, speedyVars>>

\* open is set with the mutex held, the others are woken without it.
Announce(t) ==
  /\ at[t] = "announce"
  /\ open' = TRUE
  /\ GoOn(t, "broadcast")
  /\ UNCHANGED <<point, assign, cost, k, my, i, costs, totalcost>>

WakeAll ==
  at' = [u \in pids |-> CASE at[u] = "asleep" -> "wait"
                          [] at[u] = "broadcast" -> "move"
                          [] OTHER -> at[u]]

Broadcast(t) ==
  /\ at[t] = "broadcast"
  /\ WakeAll
  /\ UNCHANGED <<point, assign, cost, k, my, reached, speedyVars>>

Move(t) ==
  /\ t = 0 /\ at[t] = "move"
  /\ \/ i < num /\ MoveTo(t) /\ ReachBarrier(t, "close")
     \/ /\ i >= num
        /\ ReachBarrier(t, "sum")
        /\ UNCHANGED <<point, assign, cost, k, my, speedyVars>>

Close(t) ==
  \/ /\ at[t] = "close" /\ Released(t)
     /\ open' = FALSE
     /\ ReachBarrier(t, "close2")
     /\ UNCHANGED <<point, assign, cost, k, my, i, costs, totalcost>>
  \/ /\ at[t] = "close2" /\ Released(t)
     /\ i' = i + 1
     /\ GoOn(t, "decide")
     /\ UNCHANGED <<point, assign, cost, k, my, open, costs, totalcost>>

-----------------------------------------------------------------------------
(* The other threads. *)
WaitOpen(t) ==
  /\ at[t] = "wait" /\ Released(t)
  /\ GoOn(t, IF open THEN "look" ELSE "asleep")
  /\ UNCHANGED <<point, assign, cost, k, my, speedyVars>>

\* pthread_cond_wait may return without a broadcast; it is in a loop.
WakeWorker(t) ==
  /\ at[t] = "asleep"
  /\ GoOn(t, "wait")
  /\ UNCHANGED <<point, assign, cost, k, my, speedyVars>>

Look(t) ==
  /\ at[t] = "look"
  /\ IF i >= num THEN ReachBarrier(t, "sum") ELSE GoOn(t, "follow")
  /\ UNCHANGED <<point, assign, cost, k, my, speedyVars>>

Follow(t) ==
  /\ at[t] = "follow" /\ i < num
  /\ MoveTo(t)
  /\ ReachBarrier(t, "follow2")

Follow2(t) ==
  /\ at[t] = "follow2" /\ Released(t)
  /\ ReachBarrier(t, "wait")
  /\ UNCHANGED <<point, assign, cost, k, my, speedyVars>>

-----------------------------------------------------------------------------
(* All threads again: the cost of the blocks, then the sum of them. *)
Sum1(t) ==
  /\ at[t] = "sum" /\ Released(t)
  /\ open' = FALSE
  /\ costs' = [costs EXCEPT ![t] = SumFunctionOnSet(cost, Block(t))]
  /\ ReachBarrier(t, "total")
  /\ UNCHANGED <<point, assign, cost, k, my, i, totalcost>>

Total(t) ==
  /\ at[t] = "total" /\ Released(t)
  /\ totalcost' = IF t = 0
                    THEN my[t].z * k + SumFunctionOnSet(costs, pids)
                    ELSE totalcost
  /\ ReachBarrier(t, "return")
  /\ UNCHANGED <<point, assign, cost, k, my, open, i, costs>>

pspeedy(t) ==
  \/ Enter(t) \/ First(t)
  \/ Start(t) \/ Decide(t) \/ NoMore(t) \/ Announce(t) \/ Broadcast(t)
  \/ Move(t) \/ Close(t)
  \/ WaitOpen(t) \/ Look(t) \/ Follow(t) \/ Follow2(t)
  \/ Sum1(t) \/ Total(t)
=============================================================================
