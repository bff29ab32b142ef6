----------------------------- MODULE DedupQueue -----------------------------
(***************************************************************************)
(* The synchronised queue between two stages of the dedup pipeline         *)
(* (dedup/src/queue.c) together with the loops of the stage threads that   *)
(* call it (dedup/src/encoder.c).                                          *)
(*                                                                         *)
(* A producer collects items in a private send buffer and moves them to    *)
(* the queue once that buffer is full, and again at the end of its work;   *)
(* then it announces its termination.  A consumer refills a private        *)
(* receive buffer from the queue until the queue is empty and every        *)
(* producer has terminated.  The body of every queue_* function runs under *)
(* que->mutex, so one call is one step, except that pthread_cond_wait      *)
(* splits it: the thread sleeps in status "wait" and re-evaluates the loop *)
(* condition after it was signalled, or woken spuriously.                  *)
(*                                                                         *)
(* The ring buffers are sequences here; module RingBuffer shows that the   *)
(* head/tail arrays of queue.h implement them.                             *)
(***************************************************************************)
EXTENDS Integers, Sequences, FiniteSets

CONSTANTS Producers,   \* threads that enqueue and terminate
          Consumers,   \* threads that dequeue
          QueueSize,   \* QUEUE_SIZE, the capacity of the queue
          PerInsert,   \* ITEM_PER_INSERT, capacity of a send buffer
          PerFetch,    \* ITEM_PER_FETCH, capacity of a receive buffer
          NItems       \* number of items each producer has to send

ASSUME QueueAssumption ==
  /\ IsFiniteSet(Producers) /\ Producers # {}
  /\ Consumers # {}
  /\ Producers \cap Consumers = {}
  /\ QueueSize \in Nat \ {0}
  /\ PerInsert \in Nat \ {0}
  /\ PerFetch \in Nat \ {0}
  /\ NItems \in Nat

VARIABLES buf,          \* que->buf, oldest item first
          nTerminated,  \* que->nTerminated
          status,       \* per thread: outside a wait, asleep, or returned
          made,         \* per producer: how many items it has created
          sendBuf,      \* per producer: its private send_buf
          recvBuf,      \* per consumer: its private recv_buf
          taken         \* history: the items dequeued so far, in that order

vars == <<buf, nTerminated, status, made, sendBuf, recvBuf, taken>>

Threads == Producers \cup Consumers

\* Item n of producer p.
Items == Producers \X Nat

IsEmpty == buf = << >>
IsFull  == Len(buf) >= QueueSize

\* Faulty variant: the first producer to terminate ends the queue.
SomeProducerTerminated == nTerminated >= 1

queue_isTerminated == nTerminated = Cardinality(Producers)

Asleep(S) == {t \in S : status[t] = "wait"}
Awake(S)  == {t \in S : status[t] = "run"}

Least(a, b) == IF a <= b THEN a ELSE b

Take(s, n) == SubSeq(s, 1, n)
Drop(s, n) == SubSeq(s, n + 1, Len(s))

-----------------------------------------------------------------------------
(* queue_init; every thread starts with empty private buffers. *)
Init ==
  /\ buf = << >>
  /\ nTerminated = 0
  /\ status = [t \in Threads |-> "run"]
  /\ made = [p \in Producers |-> 0]
  /\ sendBuf = [p \in Producers |-> << >>]
  /\ recvBuf = [c \in Consumers |-> << >>]
  /\ taken = << >>

(* pthread_cond_wait: release the mutex and sleep. *)
Sleep(t) ==
  /\ status' = [status EXCEPT ![t] = "wait"]
  /\ UNCHANGED <<buf, nTerminated, made, sendBuf, recvBuf, taken>>

(* pthread_cond_signal on a condition whose sleepers are among S: one of   *)
(* them, any one, is made runnable; without a sleeper nothing happens.     *)
Signal(S) ==
  \/ /\ Asleep(S) = {}
     /\ UNCHANGED status
  \/ \E t \in Asleep(S) : status' = [status EXCEPT ![t] = "run"]

-----------------------------------------------------------------------------
(* A stage finishes one item and inserts it into its send buffer. *)
Produce(p) ==
  /\ status[p] = "run"
  /\ made[p] < NItems
  /\ Len(sendBuf[p]) < PerInsert
  /\ made' = [made EXCEPT ![p] = @ + 1]
  /\ sendBuf' = [sendBuf EXCEPT ![p] = Append(@, <<p, made[p] + 1>>)]
  /\ UNCHANGED <<buf, nTerminated, status, recvBuf, taken>>

\* The stage calls queue_enqueue when the send buffer is full and, at the
\* end of its input, until the send buffer is empty.
MustEnqueue(p) ==
  /\ status[p] = "run"
  /\ sendBuf[p] # << >>
  /\ Len(sendBuf[p]) >= PerInsert \/ made[p] = NItems

(* queue_enqueue, queue full: wait for notFull. *)
EnqueueWait(p) ==
  /\ MustEnqueue(p)
  /\ IsFull
  /\ Sleep(p)

(* Faulty variant: the send buffer emptied although only a part of it was  *)
(* moved.                                                                  *)
EnqueueForgetsRest(p) ==
  /\ MustEnqueue(p)
  /\ ~IsFull
  /\ buf' = buf \o Take(sendBuf[p], Least(Len(sendBuf[p]), QueueSize - Len(buf)))
  /\ sendBuf' = [sendBuf EXCEPT ![p] = << >>]
  /\ Signal(Consumers)
  /\ UNCHANGED <<nTerminated, made, recvBuf, taken>>

(* queue_enqueue, room left: move what fits, signal notEmpty once. *)
Enqueue(p) ==
  /\ MustEnqueue(p)
  /\ ~IsFull
  /\ LET n == Least(PerInsert, Least(Len(sendBuf[p]), QueueSize - Len(buf)))
     IN  /\ buf' = buf \o Take(sendBuf[p], n)
         /\ sendBuf' = [sendBuf EXCEPT ![p] = Drop(@, n)]
  /\ Signal(Consumers)
  /\ UNCHANGED <<nTerminated, made, recvBuf, taken>>

(* Faulty variant of the shutdown: no broadcast. *)
TerminateSilently(p) ==
  /\ status[p] = "run" /\ made[p] = NItems /\ sendBuf[p] = << >>
  /\ nTerminated' = nTerminated + 1
  /\ status' = [status EXCEPT ![p] = "done"]
  /\ UNCHANGED <<buf, made, sendBuf, recvBuf, taken>>

(* queue_terminate, then the thread returns; the last producer broadcasts  *)
(* notEmpty.                                                               *)
Terminate(p) ==
  /\ status[p] = "run"
  /\ made[p] = NItems
  /\ sendBuf[p] = << >>
  /\ nTerminated' = nTerminated + 1
  /\ status' = [t \in Threads |->
                  IF t = p THEN "done"
                  ELSE IF /\ nTerminated' = Cardinality(Producers)
                          /\ t \in Asleep(Consumers)
                       THEN "run" ELSE status[t]]
  /\ UNCHANGED <<buf, made, sendBuf, recvBuf, taken>>

-----------------------------------------------------------------------------
\* The stage calls queue_dequeue only with an empty receive buffer.
MustDequeue(c) == status[c] = "run" /\ recvBuf[c] = << >>

(* queue_dequeue, nothing there yet: wait for notEmpty. *)
DequeueWait(c) ==
  /\ MustDequeue(c)
  /\ IsEmpty /\ ~queue_isTerminated
  /\ Sleep(c)

(* queue_dequeue returns -1 and the stage leaves its loop. *)
DequeueEnd(c) ==
  /\ MustDequeue(c)
  /\ IsEmpty /\ queue_isTerminated
  /\ status' = [status EXCEPT ![c] = "done"]
  /\ UNCHANGED <<buf, nTerminated, made, sendBuf, recvBuf, taken>>

(* Faulty variant of queue_dequeue: notFull is not signalled. *)
DequeueSilently(c) ==
  /\ MustDequeue(c)
  /\ ~IsEmpty
  /\ LET n == Least(PerFetch, Len(buf))
     IN  /\ recvBuf' = [recvBuf EXCEPT ![c] = Take(buf, n)]
         /\ taken' = taken \o Take(buf, n)
         /\ buf' = Drop(buf, n)
  /\ UNCHANGED <<nTerminated, status, made, sendBuf>>

(* queue_dequeue with items: move up to the limit, signal notFull once. *)
Dequeue(c) ==
  /\ MustDequeue(c)
  /\ ~IsEmpty
  /\ LET n == Least(PerFetch, Len(buf))
     IN  /\ recvBuf' = [recvBuf EXCEPT ![c] = Take(buf, n)]
         /\ taken' = taken \o Take(buf, n)
         /\ buf' = Drop(buf, n)
  /\ Signal(Producers)
  /\ UNCHANGED <<nTerminated, made, sendBuf>>

(* The stage works on the oldest item of its receive buffer. *)
Consume(c) ==
  /\ status[c] = "run"
  /\ recvBuf[c] # << >>
  /\ recvBuf' = [recvBuf EXCEPT ![c] = Tail(@)]
  /\ UNCHANGED <<buf, nTerminated, status, made, sendBuf, taken>>

(* POSIX lets pthread_cond_wait return without a signal. *)
SpuriousWakeup(t) ==
  /\ status[t] = "wait"
  /\ status' = [status EXCEPT ![t] = "run"]
  /\ UNCHANGED <<buf, nTerminated, made, sendBuf, recvBuf, taken>>

ProducerStep(p) == Produce(p) \/ EnqueueWait(p) \/ Enqueue(p) \/ Terminate(p)

ConsumerStep(c) == DequeueWait(c) \/ DequeueEnd(c) \/ Dequeue(c) \/ Consume(c)

Finished == \A t \in Threads : status[t] = "done"

(* All threads were joined: queue_destroy, nothing more happens. *)
Joined == Finished /\ UNCHANGED vars

Next ==
  \/ \E p \in Producers : ProducerStep(p)
  \/ \E c \in Consumers : ConsumerStep(c)
  \/ \E t \in Threads : SpuriousWakeup(t)
  \/ Joined

Spec == Init /\ [][Next]_vars

\* Every runnable thread is eventually scheduled; nothing forces a spurious
\* wakeup.
FairSpec ==
  /\ Spec
  /\ \A p \in Producers : WF_vars(ProducerStep(p))
  /\ \A c \in Consumers : WF_vars(ConsumerStep(c))

-----------------------------------------------------------------------------
TypeOK ==
  /\ buf \in Seq(Items) /\ Len(buf) <= QueueSize
  /\ nTerminated \in 0..Cardinality(Producers)
  /\ status \in [Threads -> {"run", "wait", "done"}]
  /\ made \in [Producers -> 0..NItems]
  /\ sendBuf \in [Producers -> Seq(Items)]
  /\ \A p \in Producers : Len(sendBuf[p]) <= PerInsert
  /\ recvBuf \in [Consumers -> Seq(Items)]
  /\ taken \in Seq(Items)

\* No lost wakeup: as long as some thread sleeps, some thread can still run.
\* queue_enqueue and queue_dequeue signal a single thread although they may
\* move many items, and only the last queue_terminate signals at all, so
\* this is what keeps a stage from sleeping for ever.
NoLostWakeup == Asleep(Threads) # {} => Awake(Threads) # {}

\* A consumer that left its loop on -1 left nothing behind: all producers
\* have terminated and no item is in the queue or in a send buffer.
NoEarlyExit ==
  (\E c \in Consumers : status[c] = "done") =>
     /\ \A p \in Producers : status[p] = "done" /\ sendBuf[p] = << >>
     /\ buf = << >>

\* All that has come through the queue or is in it, and what p sent of the
\* first n of these items.
Sent == taken \o buf
SentBy(p, n) == {i \in 1..n : Sent[i][1] = p}

\* Nothing is lost, duplicated or overtaken on the way: the items of one
\* producer, dequeued, queued and still in its send buffer, are exactly the
\* items it made, in the order it made them.
FifoPerProducer ==
  \A p \in Producers :
     LET sent == Cardinality(SentBy(p, Len(Sent))) IN
     /\ \A i \in SentBy(p, Len(Sent)) : Sent[i] = <<p, Cardinality(SentBy(p, i))>>
     /\ sendBuf[p] = [n \in 1..(made[p] - sent) |-> <<p, sent + n>>]
     /\ sent <= made[p]

\* The asserts of queue_isTerminated and queue_enqueue: a queue is never
\* terminated more often than it has producers, and never has everyone
\* terminated while a producer still has something to enqueue.
TerminationCounted ==
  /\ nTerminated = Cardinality({p \in Producers : status[p] = "done"})
  /\ (\E p \in Producers : sendBuf[p] # << >>) => ~queue_isTerminated

\* Every item reaches a consumer and all threads return.
EventuallyFinished == <>Finished
=============================================================================
