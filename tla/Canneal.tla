------------------------------ MODULE Canneal ------------------------------
(***************************************************************************)
(* canneal: the annealing threads (annealer_thread::Run) at work on the    *)
(* atomic pointers of the netlist.  A thread swaps elements only inside a  *)
(* temperature step, and goes to the barrier only between two swaps.       *)
(***************************************************************************)
EXTENDS AtomicPtr

CONSTANTS NumberTempSteps, \* _number_temp_steps; -1: until convergence
          MaxSteps         \* bound: by then the design has converged

VARIABLES keepGoingFlag,   \* the variables of Annealer
          phase,           \* its pc
          moreGood, steps

Annealing == INSTANCE Annealer WITH pc <- phase

ASSUME CannealAssumption == Annealing!AnnealerAssumption

annealVars == <<keepGoingFlag, phase, moreGood, steps>>
allVars == <<vars, annealVars>>

CannealInit == Init /\ Annealing!Init

\* netlist::swap_locations is called for two elements.
swap_locations(t) ==
  /\ phase[t] = "swap"
  /\ \E a, b \in Ptrs : Call(t, a, b)
  /\ UNCHANGED annealVars

SwapGoesOn(t) == GoOn(t) /\ UNCHANGED annealVars

Run(t) == pc[t] = "idle" /\ Annealing!Run(t) /\ UNCHANGED vars

Barrier == Annealing!Barrier /\ UNCHANGED vars

CannealNext ==
  \/ \E t \in Threads : swap_locations(t) \/ SwapGoesOn(t) \/ Run(t)
  \/ Barrier

\* Every thread runs on; which swaps it calls is left to the moves it makes.
CannealSpec ==
  /\ CannealInit /\ [][CannealNext]_allVars
  /\ WF_allVars(Barrier)
  /\ \A t \in Threads : WF_allVars(SwapGoesOn(t)) /\ WF_allVars(Run(t))

-----------------------------------------------------------------------------
\* No thread swaps at a temperature others have not reached or have left.
SameTemperature == Annealing!SameTemperature

\* "run a fixed amount of steps" (annealer_thread.cpp:318), "run until design
\* converges" (annealer_thread.cpp:314): all threads return, whatever swaps
\* they are in.
AllReturn == Annealing!EventuallyDone
=============================================================================
