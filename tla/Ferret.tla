------------------------------- MODULE Ferret -------------------------------
(***************************************************************************)
(* The pipeline of ferret (ferret/src/benchmark/ferret-pthreads.c with the *)
(* queues of benchmark/queue.h): one thread loads the queries, the middle  *)
(* stages have n threads each, one thread prints the results and tells     *)
(* main when all of them are out.  The stages never end by themselves;     *)
(* main cancels them.                                                      *)
(*                                                                         *)
(* A query is its number.  What is done under a queue's mutex is one step, *)
(* that of a thread which goes to sleep on a condition variable included.  *)
(***************************************************************************)
EXTENDS Integers, Sequences, FiniteSets

CONSTANTS Stages,   \* 6 in the code
          PoolSize, \* threads of each middle stage
          DEPTH,    \* room in each queue
          Queries   \* the number of files t_load finds

\* Queue s leads from stage s to stage s + 1.
StageQueues == 1..(Stages - 1)

NThread(s) == IF s \in {1, Stages} THEN 1 ELSE PoolSize

Thread == {t \in (1..Stages) \X (1..PoolSize) : t[2] <= NThread(t[1])}

Load == <<1, 1>>

Out == <<Stages, 1>>

stage(t) == t[1]

ASSUME FerretAssumption ==
  /\ Stages \in Nat /\ Stages > 2
  /\ PoolSize \in Nat \ {0} /\ DEPTH \in Nat \ {0} /\ Queries \in Nat

VARIABLES queue, at, item, cnt_enqueue, cnt_dequeue, input_end, output_end,
          main, written

ferretVars == <<queue, at, item, cnt_enqueue, cnt_dequeue, input_end,
                output_end, main, written>>

counters == <<cnt_enqueue, cnt_dequeue, input_end, output_end>>

\* The calls that begin: every thread at its loop, main before its lock.
FerretInit ==
  /\ queue = [s \in StageQueues |-> << >>]
  /\ at = [t \in Thread |-> IF t = Load THEN "load" ELSE "dequeue"]
  /\ item = [t \in Thread |-> 0]
  /\ cnt_enqueue = 0 /\ cnt_dequeue = 0
  /\ input_end = FALSE /\ output_end = FALSE
  /\ main = "start"
  /\ written = << >>

Running == main # "cancelled"

\* pthread_cond_signal: one of the threads of the stage that sleep there goes
\* on, with the test of its loop; if none sleeps nothing happens.
CondSignal(moved, s, asleep, resumed) ==
  LET sleeping == {t \in Thread : stage(t) = s /\ moved[t] = asleep}
  IN  IF sleeping = {} THEN {moved}
      ELSE {[moved EXCEPT ![t] = resumed] : t \in sleeping}

\* file_helper counts the file before it puts it into the queue.
LoadFile ==
  /\ Running /\ at[Load] = "load" /\ cnt_enqueue < Queries
  /\ cnt_enqueue' = cnt_enqueue + 1
  /\ item' = [item EXCEPT ![Load] = cnt_enqueue + 1]
  /\ at' = [at EXCEPT ![Load] = "enqueue"]
  /\ UNCHANGED <<queue, cnt_dequeue, input_end, output_end, main, written>>

\* The directory is at its end.
EndInput ==
  /\ Running /\ at[Load] = "load" /\ cnt_enqueue = Queries
  /\ input_end' = TRUE
  /\ at' = [at EXCEPT ![Load] = "returned"]
  /\ UNCHANGED <<queue, item, cnt_enqueue, cnt_dequeue, output_end, main, written>>

\* queue_enqueue_wait: sleep on not_full, or add the item and signal not_empty.
EnqueueWait(t) ==
  /\ Running /\ at[t] = "enqueue"
  /\ LET s == stage(t)
     IN IF Len(queue[s]) >= DEPTH
        THEN /\ at' = [at EXCEPT ![t] = "not_full"]
             /\ UNCHANGED <<queue, item>>
        ELSE /\ queue' = [queue EXCEPT ![s] = Append(@, item[t])]
             /\ item' = [item EXCEPT ![t] = 0]
             /\ at' \in CondSignal([at EXCEPT ![t] = IF t = Load THEN "load"
                                                 ELSE "dequeue"],
                               s + 1, "not_empty", "dequeue")
  /\ UNCHANGED <<counters, main, written>>

\* Faulty variant: queue_dequeue_wait signals nobody.
DequeueWaitSilently(t) ==
  /\ Running /\ at[t] = "dequeue"
  /\ LET s == stage(t) - 1
     IN IF queue[s] = << >>
        THEN /\ at' = [at EXCEPT ![t] = "not_empty"]
             /\ UNCHANGED <<queue, item>>
        ELSE /\ queue' = [queue EXCEPT ![s] = Tail(@)]
             /\ item' = [item EXCEPT ![t] = Head(queue[s])]
             /\ at' = [at EXCEPT ![t] = IF t = Out THEN "write" ELSE "enqueue"]
  /\ UNCHANGED <<counters, main, written>>

\* queue_dequeue_wait: sleep on not_empty, or take the item and signal
\* not_full; then the stage's own work, which no other thread sees.
DequeueWait(t) ==
  /\ Running /\ at[t] = "dequeue"
  /\ LET s == stage(t) - 1
     IN IF queue[s] = << >>
        THEN /\ at' = [at EXCEPT ![t] = "not_empty"]
             /\ UNCHANGED <<queue, item>>
        ELSE /\ queue' = [queue EXCEPT ![s] = Tail(@)]
             /\ item' = [item EXCEPT ![t] = Head(queue[s])]
             /\ at' \in CondSignal([at EXCEPT ![t] = IF t = Out THEN "write"
                                                 ELSE "enqueue"],
                               s, "not_full", "enqueue")
  /\ UNCHANGED <<counters, main, written>>

\* t_out prints the result, then counts it.
WriteResult ==
  /\ Running /\ at[Out] = "write"
  /\ written' = Append(written, item[Out])
  /\ item' = [item EXCEPT ![Out] = 0]
  /\ at' = [at EXCEPT ![Out] = "count"]
  /\ UNCHANGED <<queue, counters, main>>

CountResult ==
  /\ Running /\ at[Out] = "count"
  /\ cnt_dequeue' = cnt_dequeue + 1
  /\ at' = [at EXCEPT ![Out] = "test"]
  /\ UNCHANGED <<queue, item, cnt_enqueue, input_end, output_end, main, written>>

\* Faulty variant: the counters alone decide.
AllOutByCount == cnt_enqueue = cnt_dequeue

AllOut == input_end /\ cnt_enqueue = cnt_dequeue

\* The test reads what t_load writes without a lock.
TestEnd ==
  /\ Running /\ at[Out] = "test"
  /\ at' = [at EXCEPT ![Out] = IF AllOut THEN "done" ELSE "dequeue"]
  /\ UNCHANGED <<queue, item, counters, main, written>>

\* Under done_mutex: the flag and the signal for main.
OutputEnd ==
  /\ Running /\ at[Out] = "done"
  /\ output_end' = TRUE
  /\ main' = IF main = "waiting" THEN "woken" ELSE main
  /\ at' = [at EXCEPT ![Out] = "dequeue"]
  /\ UNCHANGED <<queue, item, cnt_enqueue, cnt_dequeue, input_end, written>>

\* Faulty variant: main waits without looking at the flag first.
WaitForEndBlindly ==
  /\ main = "start"
  /\ main' = "waiting"
  /\ UNCHANGED <<queue, at, item, counters, written>>

\* main tests the flag once; the wait is not in a loop.
WaitForEnd ==
  /\ main = "start"
  /\ main' = IF output_end THEN "woken" ELSE "waiting"
  /\ UNCHANGED <<queue, at, item, counters, written>>

\* tpool_cancel of all pools: no thread goes beyond its next sleep.
CancelAll ==
  /\ main = "woken"
  /\ main' = "cancelled"
  /\ UNCHANGED <<queue, at, item, counters, written>>

LoadStep == LoadFile \/ EndInput \/ EnqueueWait(Load)

OutStep == DequeueWait(Out) \/ WriteResult \/ CountResult \/ TestEnd \/ OutputEnd

StageStep(t) == DequeueWait(t) \/ EnqueueWait(t)

EndStep == WaitForEnd \/ CancelAll

FerretNext ==
  \/ LoadStep \/ OutStep \/ EndStep
  \/ \E t \in Thread \ {Load, Out} : StageStep(t)

FerretSpec == FerretInit /\ [][FerretNext]_ferretVars

\* Every thread that can run does so in the end.
FairFerretSpec ==
  /\ FerretSpec
  /\ WF_ferretVars(LoadStep) /\ WF_ferretVars(OutStep) /\ WF_ferretVars(EndStep)
  /\ \A t \in Thread \ {Load, Out} : WF_ferretVars(StageStep(t))

-----------------------------------------------------------------------------
\* What the queues lead to, which must lose no wakeup: every query is answered.
AllAnswered == Len(written) = Queries

\* When main cancels the stages every query has its line in the output, and
\* no query has two: the counters of two threads, read without a lock, never
\* agree too early.
NothingCancelled ==
  /\ \A i, j \in DOMAIN written : written[i] = written[j] => i = j
  /\ main \in {"woken", "cancelled"} => AllAnswered

\* If the last result is still to be counted when the input ends, main learns
\* of the end however late it begins to wait.  (If it was counted before, t_out
\* tests no more and main waits for ever.)
EndIsNoticed == (input_end /\ cnt_dequeue < cnt_enqueue) ~> main = "cancelled"
=============================================================================
