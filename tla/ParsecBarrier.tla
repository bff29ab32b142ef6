---------------------------- MODULE ParsecBarrier ----------------------------
(***************************************************************************)
(* The barrier that streamcluster and fluidanimate use in place of         *)
(* pthread_barrier_wait (streamcluster/src/parsec_barrier.cpp; the header  *)
(* redefines the pthread names and switches polling on).                   *)
(*                                                                         *)
(* A round has an arrival phase, in which threads are counted in, and a    *)
(* departure phase, in which they are counted out.  A thread that finds    *)
(* the wrong phase releases the mutex, polls is_arrival_phase for a while  *)
(* without it, takes the mutex again whatever it saw, and then blocks on   *)
(* the condition variable until the phase is right.  Everything done with  *)
(* the mutex is one step.                                                  *)
(***************************************************************************)
EXTENDS Integers, FiniteSets

CONSTANTS Threads,   \* the threads that call parsec_barrier_wait
          max,       \* how many of them make a round
          MaxCalls   \* bound: how often each thread calls it

ASSUME ParsecBarrierAssumption ==
  /\ IsFiniteSet(Threads)
  /\ max \in 1..Cardinality(Threads)
  /\ MaxCalls \in Nat

VARIABLES n, is_arrival_phase,
          pc,       \* per thread: outside, polling or blocked, before it is
                    \* counted in ("...Arrive") or after that ("...Depart")
          calls,    \* per thread: calls so far
          entered,  \* history: how many threads have been counted in
          round,    \* history, per thread: its round, 0 when not counted in
          serial    \* history, per round: who is its serial thread

barrierVars == <<n, is_arrival_phase, pc, calls, entered, round, serial>>

Polls   == {"pollArrive", "pollDepart"}
Blocks  == {"blockArrive", "blockDepart"}
Arrives == {"pollArrive", "blockArrive"}
Departs == {"pollDepart", "blockDepart"}

MaxRounds == (Cardinality(Threads) * MaxCalls) \div max + 1

parsec_barrier_init ==
  /\ n = 0 /\ is_arrival_phase = TRUE
  /\ pc = [t \in Threads |-> "out"]
  /\ calls = [t \in Threads |-> 0]
  /\ entered = 0
  /\ round = [t \in Threads |-> 0]
  /\ serial = [r \in 1..MaxRounds |-> {}]

\* pthread_cond_broadcast: who is blocked competes for the mutex again.
Awake(u) == CASE pc[u] = "blockArrive" -> "pollArrive"
              [] pc[u] = "blockDepart" -> "pollDepart"
              [] OTHER -> pc[u]

GoTo(t, place) == pc' = [pc EXCEPT ![t] = place]

BroadcastAndGoTo(t, place) ==
  pc' = [u \in Threads |-> IF u = t THEN place ELSE Awake(u)]

\* Faulty variant: the last thread to leave wakes nobody.
LeaveSilently(t, inside) ==
  /\ n' = inside - 1
  /\ is_arrival_phase' = (inside = 1)
  /\ round' = [round EXCEPT ![t] = 0]
  /\ GoTo(t, "out")

\* A thread is counted out; the last one begins a new arrival phase.
CountOut(t, inside) ==
  /\ n' = inside - 1
  /\ is_arrival_phase' = (inside = 1)
  /\ round' = [round EXCEPT ![t] = 0]
  /\ IF inside = 1 THEN BroadcastAndGoTo(t, "out") ELSE GoTo(t, "out")

\* Faulty variant: the last thread to arrive becomes the serial thread too.
FirstOrLast == n = 0 \/ n + 1 = max

IsMaster == n = 0

\* Faulty variant: a thread that arrives late joins the round that leaves.
NeverClosed == TRUE

ArrivalOpen == is_arrival_phase

\* The arrival phase goes on: one more is counted in and waits for the others.
ArriveAndWait(t) ==
  /\ n + 1 < max
  /\ n' = n + 1
  /\ round' = [round EXCEPT ![t] = entered \div max + 1]
  /\ GoTo(t, "pollDepart")
  /\ UNCHANGED is_arrival_phase

(* The last thread to arrive begins the departure phase and is counted out *)
(* at once.                                                                *)
ArriveLast(t) ==
  /\ n + 1 >= max
  /\ n' = n
  /\ is_arrival_phase' = (n = 0)
  /\ BroadcastAndGoTo(t, "out")
  /\ UNCHANGED round

CountIn(t) ==
  /\ ArrivalOpen
  /\ entered' = entered + 1
  /\ serial' = IF IsMaster THEN [serial EXCEPT ![entered \div max + 1] = @ \cup {t}]
                           ELSE serial
  /\ ArriveAndWait(t) \/ ArriveLast(t)

-----------------------------------------------------------------------------
parsec_barrier_wait(t) ==
  /\ pc[t] = "out" /\ calls[t] < MaxCalls
  /\ calls' = [calls EXCEPT ![t] = @ + 1]
  /\ \/ CountIn(t)
     \/ /\ ~ArrivalOpen
        /\ GoTo(t, "pollArrive")
        /\ UNCHANGED <<n, is_arrival_phase, entered, round, serial>>

\* With the mutex again: the round is open, or the thread blocks.
Arrive(t) ==
  /\ pc[t] = "pollArrive"
  /\ \/ CountIn(t)
     \/ /\ ~ArrivalOpen
        /\ GoTo(t, "blockArrive")
        /\ UNCHANGED <<n, is_arrival_phase, entered, round, serial>>
  /\ UNCHANGED calls

Depart(t) ==
  /\ pc[t] = "pollDepart"
  /\ \/ ~is_arrival_phase /\ CountOut(t, n)
     \/ /\ is_arrival_phase
        /\ GoTo(t, "blockDepart")
        /\ UNCHANGED <<n, is_arrival_phase, round>>
  /\ UNCHANGED <<calls, entered, serial>>

(* pthread_cond_wait may return without a broadcast; it is in a loop. *)
WakeSpuriously(t) ==
  /\ pc[t] \in Blocks
  /\ GoTo(t, Awake(t))
  /\ UNCHANGED <<n, is_arrival_phase, calls, entered, round, serial>>

BarrierNext ==
  \E t \in Threads :
     parsec_barrier_wait(t) \/ Arrive(t) \/ Depart(t) \/ WakeSpuriously(t)

BarrierSpec == parsec_barrier_init /\ [][BarrierNext]_barrierVars

\* Every thread that polls gets the mutex in the end.
FairBarrierSpec ==
  BarrierSpec /\ \A t \in Threads : WF_barrierVars(Arrive(t) \/ Depart(t))

-----------------------------------------------------------------------------
BarrierTypeOK ==
  /\ n \in 0..max
  /\ is_arrival_phase \in BOOLEAN
  /\ pc \in [Threads -> {"out"} \cup Polls \cup Blocks]
  /\ calls \in [Threads -> 0..MaxCalls]
  /\ entered \in Nat
  /\ round \in [Threads -> Nat]
  /\ serial \in [1..MaxRounds -> SUBSET Threads]

Rounds == INSTANCE AbstractBarrier WITH n <- max

\* No thread returns from parsec_barrier_wait before max threads have entered
\* its round, although the phase is read without the mutex, threads may come
\* back before the others have left, and wakeups may be spurious.
ImplementsRounds == Rounds!Spec

\* Every complete round has one serial thread, a round that has begun too.
OneSerialThread ==
  \A r \in 1..MaxRounds :
     Cardinality(serial[r]) = IF entered > max * (r - 1) THEN 1 ELSE 0

\* Nobody is left in a complete round, or waits for the next one to open.  This
\* must come true and stay: no wakeup is lost between the unlocked look at the
\* phase and the wait for the condition variable.
NobodyStaysBehind ==
  \A t \in Threads : /\ round[t] # 0 => entered < max * round[t]
                     /\ pc[t] \notin Arrives
=============================================================================
