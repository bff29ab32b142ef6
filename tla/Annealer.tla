------------------------------ MODULE Annealer ------------------------------
(***************************************************************************)
(* The annealing threads of canneal (annealer_thread.cpp, ENABLE_THREADS): *)
(* temperature steps separated by a barrier, until keep_going says stop.   *)
(*                                                                         *)
(* The swaps of a step are abstracted to their outcome: whether the thread *)
(* accepted more good than bad moves; module Canneal puts the swaps back.  *)
(***************************************************************************)
EXTENDS Integers, FiniteSets

CONSTANTS Threads,
          NumberTempSteps, \* _number_temp_steps; -1: until convergence
          MaxSteps         \* bound: by then the design has converged

AnnealerAssumption ==
  /\ IsFiniteSet(Threads) /\ Threads # {}
  /\ NumberTempSteps \in Nat \cup {-1}
  /\ MaxSteps \in Nat

VARIABLES keepGoingFlag, \* _keep_going_global_flag
          pc,            \* per thread: "test", "signal", "swap", "barrier", "done"
          moreGood,      \* per thread: accepted_good_moves > accepted_bad_moves
          steps          \* per thread: temp_steps_completed

vars == <<keepGoingFlag, pc, moreGood, steps>>

\* The counters start at 0 good and -1 bad moves.
Init ==
  /\ keepGoingFlag = TRUE
  /\ pc = [t \in Threads |-> "test"]
  /\ moreGood = [t \in Threads |-> TRUE]
  /\ steps = [t \in Threads |-> 0]

Goto(t, place) == pc' = [pc EXCEPT ![t] = place]

\* keep_going.
keep_going(t) ==
  /\ pc[t] = "test"
  /\ Goto(t, IF NumberTempSteps = -1
             THEN IF keepGoingFlag /\ moreGood[t] THEN "swap" ELSE "signal"
             ELSE IF steps[t] < NumberTempSteps THEN "swap" ELSE "done")
  /\ UNCHANGED <<keepGoingFlag, moreGood, steps>>

\* "signal we have converged"
SignalConverged(t) ==
  /\ pc[t] = "signal"
  /\ keepGoingFlag' = FALSE
  /\ Goto(t, "done")
  /\ UNCHANGED <<moreGood, steps>>

\* The swaps at one temperature.
SwapStep(t) ==
  /\ pc[t] = "swap"
  /\ \E good \in BOOLEAN :
        /\ steps[t] >= MaxSteps => ~good
        /\ moreGood' = [moreGood EXCEPT ![t] = good]
  /\ steps' = [steps EXCEPT ![t] = @ + 1]
  /\ Goto(t, "barrier")
  /\ UNCHANGED keepGoingFlag

\* Faulty variant: threads that have returned are not waited for.
BarrierOfRest ==
  LET here == {t \in Threads : pc[t] = "barrier"}
  IN /\ here # {} /\ Cardinality(here) >= Cardinality(Threads) - 1
     /\ pc' = [t \in Threads |-> IF t \in here THEN "test" ELSE pc[t]]
     /\ UNCHANGED <<keepGoingFlag, moreGood, steps>>

\* pthread_barrier_wait lets all threads go when all are there.
Barrier ==
  /\ \A t \in Threads : pc[t] = "barrier"
  /\ pc' = [t \in Threads |-> "test"]
  /\ UNCHANGED <<keepGoingFlag, moreGood, steps>>

Run(t) == keep_going(t) \/ SignalConverged(t) \/ SwapStep(t)

Next == (\E t \in Threads : Run(t)) \/ Barrier

Spec == Init /\ [][Next]_vars

FairSpec == Spec /\ WF_vars(Barrier) /\ \A t \in Threads : WF_vars(Run(t))

-----------------------------------------------------------------------------
\* No thread swaps at a temperature others have not reached or have left.
SameTemperature ==
  \A t, u \in Threads : pc[t] = "swap" /\ pc[u] = "swap" => steps[t] = steps[u]

\* "run a fixed amount of steps" (annealer_thread.cpp:318), "run until design
\* converges" (annealer_thread.cpp:314): all threads return.
EventuallyDone == <>(\A t \in Threads : pc[t] = "done")
=============================================================================
