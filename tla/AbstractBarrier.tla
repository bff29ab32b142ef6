--------------------------- MODULE AbstractBarrier ---------------------------
(***************************************************************************)
(* What a barrier for n parties promises: the threads that enter form      *)
(* rounds of n in the order of their arrival, and nobody leaves a round    *)
(* before it is complete.                                                  *)
(***************************************************************************)
EXTENDS Integers

CONSTANTS Threads, n

VARIABLES entered,  \* how many times a thread has entered
          round     \* per thread: the round it is in, 0 when outside

vars == <<entered, round>>

Init ==
  /\ entered = 0
  /\ round = [t \in Threads |-> 0]

Enter(t) ==
  /\ round[t] = 0
  /\ entered' = entered + 1
  /\ round' = [round EXCEPT ![t] = entered \div n + 1]

\* Round r is complete after n * r arrivals; the thread that completes it may
\* enter and leave in one step.
Leave(t) ==
  /\ round[t] # 0
  /\ entered >= n * round[t]
  /\ round' = [round EXCEPT ![t] = 0]
  /\ UNCHANGED entered

Complete(t) ==
  /\ round[t] = 0
  /\ (entered + 1) % n = 0
  /\ entered' = entered + 1
  /\ UNCHANGED round

Next == \E t \in Threads : Enter(t) \/ Leave(t) \/ Complete(t)

Spec == Init /\ [][Next]_vars
=============================================================================
