-------------------------- MODULE AsyncImageLoader --------------------------
(***************************************************************************)
(* The image buffer of bodytrack (AsyncIO.cpp): a loader thread fills it,  *)
(* the main thread takes image sets from it.                               *)
(*                                                                         *)
(* NotifyOne is called without the mutex of the condition, and the size of *)
(* the buffer is tested without mDataLock, so the steps are as small as    *)
(* the accesses to shared state in Condition.cpp (the pthreads version).   *)
(* A read of the size is taken to be a single read.                        *)
(*                                                                         *)
(* Each thread waits on one condition (the loader on mCondFull, the main   *)
(* thread on mCondEmpty) and notifies the other one.                       *)
(***************************************************************************)
EXTENDS Integers, Sequences

CONSTANTS BufferSize, \* mBufferSize
          NumFrames,  \* mNumFrames, which are also the sets the main thread asks for
          MayFail     \* the frames that may be impossible to load

ASSUME LoaderAssumption ==
  /\ BufferSize \in Nat \ {0} /\ NumFrames \in Nat
  /\ MayFail \subseteq 0..NumFrames - 1

Both == {"loader", "main"}
Other(t) == IF t = "loader" THEN "main" ELSE "loader"

VARIABLES buffer,       \* mImageBuffer and mFGBuffer
          failed,       \* mFailed
          currentFrame, \* mCurrentFrame
          got,          \* history: what GetNextImageSet returned
          lpc,          \* per thread
          nWaiting,     \* per thread: of the condition it waits on
          nWakeupTickets

loaderVars == <<buffer, failed, currentFrame, got, lpc, nWaiting, nWakeupTickets>>

LoaderInit ==
  /\ buffer = << >> /\ failed = FALSE /\ currentFrame = 0
  /\ got = << >>
  /\ lpc = [t \in Both |-> IF t = "loader" THEN "loop" ELSE "call"]
  /\ nWaiting = [t \in Both |-> 0]
  /\ nWakeupTickets = [t \in Both |-> 0]

LoaderGoto(t, place) == lpc' = [lpc EXCEPT ![t] = place]

LoaderAt(t, place) == lpc[t] = place

-----------------------------------------------------------------------------
(* Condition::Wait and NotifyOne. *)

\* Faulty variant: after a wait the buffer is taken to be filled.
AfterWaitPop(t) == IF t = "loader" THEN "next" ELSE "pop"

\* Where a thread goes on after Wait and after NotifyOne.
AfterWait(t)   == IF t = "loader" THEN "next" ELSE "empty?"
AfterNotify(t) == IF t = "loader" THEN "full?" ELSE "call"

WaitEnter(t) ==
  /\ LoaderAt(t, "wait")
  /\ nWaiting' = [nWaiting EXCEPT ![t] = @ + 1]
  /\ LoaderGoto(t, "test")
  /\ UNCHANGED <<buffer, failed, currentFrame, got, nWakeupTickets>>

\* while(nWakeupTickets == 0): the test, and the call of pthread_cond_wait.
WaitTest(t) ==
  /\ LoaderAt(t, "test")
  /\ LoaderGoto(t, IF nWakeupTickets[t] = 0 THEN "block" ELSE "wake")
  /\ UNCHANGED <<buffer, failed, currentFrame, got, nWaiting, nWakeupTickets>>

WaitBlock(t) ==
  /\ LoaderAt(t, "block")
  /\ LoaderGoto(t, "blocked")
  /\ UNCHANGED <<buffer, failed, currentFrame, got, nWaiting, nWakeupTickets>>

\* pthread_cond_wait may return without a signal.
SpuriousWakeup(t) ==
  /\ LoaderAt(t, "blocked")
  /\ LoaderGoto(t, "test")
  /\ UNCHANGED <<buffer, failed, currentFrame, got, nWaiting, nWakeupTickets>>

WaitTakeTicket(t) ==
  /\ LoaderAt(t, "wake")
  /\ nWakeupTickets' = [nWakeupTickets EXCEPT ![t] = @ - 1]
  /\ LoaderGoto(t, "leave")
  /\ UNCHANGED <<buffer, failed, currentFrame, got, nWaiting>>

WaitLeave(t) ==
  /\ LoaderAt(t, "leave")
  /\ nWaiting' = [nWaiting EXCEPT ![t] = @ - 1]
  /\ LoaderGoto(t, AfterWait(t))
  /\ UNCHANGED <<buffer, failed, currentFrame, got, nWakeupTickets>>

\* NotifyOne of t, for the other thread: the slack, the ticket, the signal.
NotifySlack(t) ==
  /\ LoaderAt(t, "notify")
  /\ LoaderGoto(t, IF nWaiting[Other(t)] - nWakeupTickets[Other(t)] > 0
             THEN "ticket" ELSE AfterNotify(t))
  /\ UNCHANGED <<buffer, failed, currentFrame, got, nWaiting, nWakeupTickets>>

NotifyTicket(t) ==
  /\ LoaderAt(t, "ticket")
  /\ nWakeupTickets' = [nWakeupTickets EXCEPT ![Other(t)] = @ + 1]
  /\ LoaderGoto(t, "signal")
  /\ UNCHANGED <<buffer, failed, currentFrame, got, nWaiting>>

NotifySignal(t) ==
  /\ LoaderAt(t, "signal")
  /\ lpc' = [u \in Both |-> IF u = t THEN AfterNotify(t)
                              ELSE IF lpc[u] = "blocked" THEN "test" ELSE lpc[u]]
  /\ UNCHANGED <<buffer, failed, currentFrame, got, nWaiting, nWakeupTickets>>

Condition(t) ==
  \/ WaitEnter(t) \/ WaitTest(t) \/ WaitBlock(t) \/ WaitTakeTicket(t) \/ WaitLeave(t)
  \/ NotifySlack(t) \/ NotifyTicket(t) \/ NotifySignal(t)

-----------------------------------------------------------------------------
(* LoaderRun: the loader. *)

\* LoadSet may fail, but its images are pushed all the same.
Load ==
  /\ LoaderAt("loader", "loop")
  /\ IF currentFrame < NumFrames /\ ~failed
     THEN /\ LoaderGoto("loader", "push")
          /\ failed' \in {FALSE, (currentFrame \in MayFail)}
     ELSE /\ LoaderGoto("loader", "done")
          /\ UNCHANGED failed
  /\ UNCHANGED <<buffer, currentFrame, got, nWaiting, nWakeupTickets>>

Push ==
  /\ LoaderAt("loader", "push")
  /\ buffer' = Append(buffer, currentFrame)
  /\ LoaderGoto("loader", "notify")
  /\ UNCHANGED <<failed, currentFrame, got, nWaiting, nWakeupTickets>>

TestFull ==
  /\ LoaderAt("loader", "full?")
  /\ LoaderGoto("loader", IF Len(buffer) >= BufferSize THEN "wait" ELSE "next")
  /\ UNCHANGED <<buffer, failed, currentFrame, got, nWaiting, nWakeupTickets>>

NextFrame ==
  /\ LoaderAt("loader", "next")
  /\ currentFrame' = currentFrame + 1
  /\ LoaderGoto("loader", "loop")
  /\ UNCHANGED <<buffer, failed, got, nWaiting, nWakeupTickets>>

LoaderRun == Load \/ Push \/ TestFull \/ NextFrame

-----------------------------------------------------------------------------
(* GetNextImageSet: the main thread, which asks for NumFrames sets and     *)
(* gives up when the call returns false.                                   *)

AskForNext ==
  /\ LoaderAt("main", "call")
  /\ LoaderGoto("main", IF Len(got) = NumFrames \/ failed THEN "done" ELSE "empty?")
  /\ UNCHANGED <<buffer, failed, currentFrame, got, nWaiting, nWakeupTickets>>

TestEmpty ==
  /\ LoaderAt("main", "empty?")
  /\ LoaderGoto("main", IF buffer = << >> THEN "wait" ELSE "pop")
  /\ UNCHANGED <<buffer, failed, currentFrame, got, nWaiting, nWakeupTickets>>

\* Taking from an empty deque is undefined; the model stops there.
Pop ==
  /\ LoaderAt("main", "pop")
  /\ IF buffer = << >>
     THEN /\ LoaderGoto("main", "underflow")
          /\ UNCHANGED <<buffer, got>>
     ELSE /\ got' = Append(got, Head(buffer))
          /\ buffer' = Tail(buffer)
          /\ LoaderGoto("main", "notify")
  /\ UNCHANGED <<failed, currentFrame, nWaiting, nWakeupTickets>>

GetNextImageSet == AskForNext \/ TestEmpty \/ Pop

-----------------------------------------------------------------------------
LoaderStep(t) ==
  \/ Condition(t)
  \/ t = "loader" /\ LoaderRun
  \/ t = "main" /\ GetNextImageSet

LoaderNext == \E t \in Both : LoaderStep(t) \/ SpuriousWakeup(t)

LoaderSpec == LoaderInit /\ [][LoaderNext]_loaderVars

\* Both threads run on, but nobody may count on a spurious wakeup.
LoaderFairSpec == LoaderSpec /\ \A t \in Both : WF_loaderVars(LoaderStep(t))

-----------------------------------------------------------------------------
\* The main thread never takes from an empty buffer.
NeverPopsEmpty == lpc["main"] # "underflow"

\* "notify waiting threads of data" (AsyncIO.cpp:71): the main thread gets all
\* the sets, or learns that a load failed.
EventuallyServed == <>(lpc["main"] = "done")
=============================================================================
