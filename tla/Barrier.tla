------------------------------- MODULE Barrier -------------------------------
(***************************************************************************)
(* The hand-written barrier of bodytrack (threads/Barrier.cpp, without     *)
(* HAVE_LIBPTHREAD) on top of its condition variables (Condition.cpp, the  *)
(* winthreads version).                                                    *)
(*                                                                         *)
(* A condition variable hands out wakeup tickets.  A waiter may take one   *)
(* only if there was a notification since it began to wait: genCounter     *)
(* differs from the value it remembered.  The manual-reset event of the    *)
(* code is set exactly as long as there are tickets.  Everything a thread  *)
(* does between two waits happens under the mutex M and is one step.  What *)
(* Wait returns, which thread of a round is its master, is left out.       *)
(***************************************************************************)
EXTENDS Integers, FiniteSets

CONSTANTS Parties,   \* the threads that call Wait
          n,         \* how many of them make a round
          MaxCalls,  \* bound: how often each thread calls Wait
          GenMod     \* genCounter wraps around at this value

ASSUME BarrierAssumption ==
  /\ IsFiniteSet(Parties)
  /\ n \in 1..Cardinality(Parties)
  /\ MaxCalls \in Nat \ {0}
  /\ GenMod \in Nat /\ GenMod > 1

VARIABLES countSleep, countReset,
          bpc,             \* per thread: outside, or where in Wait it sleeps
          CSleep, CReset,  \* the condition variables
          myGen,           \* per thread: myGeneration
          calls,           \* per thread: calls of Wait so far
          entered,         \* history: how many times a thread has entered
          round            \* history, per thread: its round, 0 when outside

barrierVars == <<countSleep, countReset, bpc, CSleep, CReset, myGen, calls,
                 entered, round>>

NewCondition == [waiting |-> {}, tickets |-> 0, gen |-> 0]

BarrierInit ==
  /\ countSleep = 0 /\ countReset = 0
  /\ bpc = [t \in Parties |-> "out"]
  /\ CSleep = NewCondition /\ CReset = NewCondition
  /\ myGen = [t \in Parties |-> 0]
  /\ calls = [t \in Parties |-> 0]
  /\ entered = 0
  /\ round = [t \in Parties |-> 0]

WaitingOn(cond) == Cardinality(cond.waiting)

\* Condition::NotifyAll: a ticket for everybody who waits.
Notified(cond) ==
  IF WaitingOn(cond) > cond.tickets
  THEN [cond EXCEPT !.tickets = WaitingOn(cond), !.gen = (@ + 1) % GenMod]
  ELSE cond

\* The doRelease of Condition::Wait, and what a released thread does.
MayWake(cond, t) == cond.tickets > 0 /\ cond.gen # myGen[t]

Woken(cond, t) == [cond EXCEPT !.waiting = @ \ {t}, !.tickets = @ - 1]

\* Condition::Wait up to the release of M.
SleepAt(t, place, cond) ==
  /\ bpc' = [bpc EXCEPT ![t] = place]
  /\ myGen' = [myGen EXCEPT ![t] = cond.gen]

Asleep(cond, t) == [cond EXCEPT !.waiting = @ \cup {t}]

-----------------------------------------------------------------------------
ReturnFromWait(t) ==
  /\ bpc' = [bpc EXCEPT ![t] = "out"]
  /\ round' = [round EXCEPT ![t] = 0]
  /\ UNCHANGED myGen

\* Leave the barrier: sleep until all of round r have left; the last one to
\* leave resets the barrier.  reset is CReset as the thread finds it.
Leave(t, r, inside, outside, reset) ==
  /\ countReset' = outside + 1
  /\ IF outside + 1 < n
     THEN /\ SleepAt(t, "leave", reset)
          /\ round' = [round EXCEPT ![t] = r]
          /\ CReset' = Asleep(reset, t)
          /\ countSleep' = inside
     ELSE /\ ReturnFromWait(t)
          /\ CReset' = Notified(reset)
          /\ countSleep' = 0

\* Faulty variant: one thread too many is let in.
OverFull == countSleep > n

\* n threads have entered and not all of them have left yet.
IsFull == countSleep >= n

\* The barrier is full: sleep until the reset.
SleepUntilReset(t, reset) ==
  /\ IsFull
  /\ SleepAt(t, "full", reset)
  /\ CReset' = Asleep(reset, t)
  /\ UNCHANGED <<countSleep, countReset, CSleep, entered, round>>

\* Enter; the last one wakes the others and leaves.
Enter(t, reset) ==
  LET r == entered \div n + 1
  IN /\ ~IsFull
     /\ entered' = entered + 1
     /\ IF countSleep + 1 < n
        THEN /\ countSleep' = countSleep + 1
             /\ SleepAt(t, "sleep", CSleep)
             /\ CSleep' = Asleep(CSleep, t)
             /\ round' = [round EXCEPT ![t] = r]
             /\ CReset' = reset
             /\ UNCHANGED countReset
        ELSE /\ CSleep' = Notified(CSleep)
             /\ Leave(t, r, countSleep + 1, 0, reset)

(* A thread calls Wait, or goes on in one of the three places it sleeps at. *)
Wait(t) ==
  /\ bpc[t] = "out"
  /\ calls[t] < MaxCalls
  /\ calls' = [calls EXCEPT ![t] = @ + 1]
  /\ SleepUntilReset(t, CReset) \/ Enter(t, CReset)

RetryAfterReset(t) ==
  /\ bpc[t] = "full"
  /\ MayWake(CReset, t)
  /\ SleepUntilReset(t, Woken(CReset, t)) \/ Enter(t, Woken(CReset, t))
  /\ UNCHANGED calls

WakeAndLeave(t) ==
  /\ bpc[t] = "sleep"
  /\ MayWake(CSleep, t)
  /\ CSleep' = Woken(CSleep, t)
  /\ Leave(t, round[t], countSleep, countReset, CReset)
  /\ UNCHANGED <<calls, entered>>

WakeAndReturn(t) ==
  /\ bpc[t] = "leave"
  /\ MayWake(CReset, t)
  /\ CReset' = Woken(CReset, t)
  /\ ReturnFromWait(t)
  /\ UNCHANGED <<countSleep, countReset, CSleep, calls, entered>>

WaitGoesOn(t) == RetryAfterReset(t) \/ WakeAndLeave(t) \/ WakeAndReturn(t)

BarrierNext == \E t \in Parties : Wait(t) \/ WaitGoesOn(t)

BarrierSpec == BarrierInit /\ [][BarrierNext]_barrierVars

BarrierFairSpec == BarrierSpec /\ \A t \in Parties : WF_barrierVars(WaitGoesOn(t))

-----------------------------------------------------------------------------
Rounds == INSTANCE AbstractBarrier WITH Threads <- Parties

\* No thread returns from Wait before n threads have entered its round.
ImplementsBarrier == Rounds!Spec

\* Nobody is left in a complete round.  This must come true and stay.
CompleteRoundReturned ==
  \A t \in Parties : round[t] # 0 => entered < n * round[t]
=============================================================================
