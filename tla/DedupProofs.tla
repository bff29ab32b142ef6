---------------------------- MODULE DedupProofs -----------------------------
(***************************************************************************)
(* Proofs about the parts of dedup's encoder that share no state: the      *)
(* synchronised queue, for any number of producers and consumers, any queue*)
(* and buffer sizes and any number of items; the ring buffer inside it, the*)
(* memory buffers that travel through it, the cutting of the input, and the*)
(* task version.                                                           *)
(***************************************************************************)
EXTENDS DedupQueue, RingBuffer, Mbuffer, DedupFragment, DedupOmp,
        SumProofs, SequenceTheorems

-----------------------------------------------------------------------------
(***************************************************************************)
(* The synchronised queue.                                                 *)
(***************************************************************************)

DoneProducers == {p \in Producers : status[p] = "done"}

\* A producer asleep or about to call queue_enqueue has something to enqueue.
HasBatch(p) ==
  /\ sendBuf[p] # << >>
  /\ Len(sendBuf[p]) >= PerInsert \/ made[p] = NItems

\* nTerminated counts the producers that returned, and those left nothing.
CountInv ==
  /\ nTerminated = Cardinality(DoneProducers)
  /\ \A p \in DoneProducers : sendBuf[p] = << >>

\* Sleeping consumers: some consumer is up as long as there is work, and
\* nobody sleeps once the queue is terminated.
ConsumerInv ==
  Asleep(Consumers) # {} =>
     /\ ~queue_isTerminated
     /\ buf # << >> => Awake(Consumers) # {}

\* Sleeping producers: each has a batch to enqueue, and either a consumer
\* will find items or a runnable producer has a batch, too.
ProducerInv ==
  /\ \A p \in Asleep(Producers) : HasBatch(p)
  /\ Asleep(Producers) # {} =>
        buf # << >> \/ \E p \in Awake(Producers) : HasBatch(p)

QueueInv == TypeOK /\ CountInv /\ ConsumerInv /\ ProducerInv /\ NoEarlyExit

-----------------------------------------------------------------------------
LEMMA LeastBetween ==
  ASSUME NEW a \in Nat \ {0}, NEW b \in Nat \ {0}
  PROVE  Least(a, b) \in (1..a) \cap (1..b)
BY DEF Least

\* Splitting a sequence at a position.
LEMMA TakeDrop ==
  ASSUME NEW S, NEW s \in Seq(S), NEW items \in 0..Len(s)
  PROVE  /\ Take(s, items) \in Seq(S) /\ Len(Take(s, items)) = items
         /\ Drop(s, items) \in Seq(S) /\ Len(Drop(s, items)) = Len(s) - items
BY DEF Take, Drop

\* What is left of a sequence.
LEMMA Dropped ==
  ASSUME NEW S, NEW s \in Seq(S), NEW i \in 0..Len(s)
  PROVE  Drop(s, i) = [m \in 1..(Len(s) - i) |-> s[i + m]]
BY DEF Drop

\* The queue counts as terminated exactly when every producer returned.
LEMMA TerminatedMeansAllDone ==
  ASSUME TypeOK, CountInv
  PROVE  queue_isTerminated <=> DoneProducers = Producers
<1>1. IsFiniteSet(Producers)
  BY QueueAssumption
<1>2. DoneProducers \subseteq Producers
  BY DEF DoneProducers
<1>3. Cardinality(DoneProducers) = Cardinality(Producers)
         => DoneProducers = Producers
  BY <1>1, <1>2, FS_Subset
<1> QED
  BY <1>3 DEF queue_isTerminated, CountInv

\* One more producer returns: the count grows by one.
LEMMA CountStep ==
  ASSUME NEW p \in Producers, NEW D \in SUBSET Producers, p \notin D
  PROVE  /\ Cardinality(D \cup {p}) = Cardinality(D) + 1
         /\ Cardinality(D \cup {p}) \in 0..Cardinality(Producers)
<1>1. IsFiniteSet(Producers) /\ IsFiniteSet(D)
  BY QueueAssumption, FS_Subset
<1>2. Cardinality(D \cup {p}) = Cardinality(D) + 1
  BY <1>1, FS_AddElement
<1>3. D \cup {p} \subseteq Producers
  OBVIOUS
<1>4. /\ Cardinality(D \cup {p}) <= Cardinality(Producers)
      /\ IsFiniteSet(D \cup {p})
  BY <1>1, <1>3, FS_Subset
<1> QED
  BY <1>1, <1>2, <1>4, FS_CardinalityType

-----------------------------------------------------------------------------
THEOREM InitQueueInv == Init => QueueInv
<1> SUFFICES ASSUME Init PROVE QueueInv
  OBVIOUS
<1>1. TypeOK
  <2>1. Cardinality(Producers) \in Nat
    BY QueueAssumption, FS_CardinalityType
  <2> QED
    BY <2>1, QueueAssumption DEF Init, TypeOK, Threads
<1>2. CountInv
  <2>1. DoneProducers = {}
    BY DEF Init, DoneProducers, Threads
  <2> QED
    BY <2>1, FS_EmptySet DEF Init, CountInv
<1>3. ConsumerInv /\ ProducerInv /\ NoEarlyExit
  BY DEF Init, ConsumerInv, ProducerInv, NoEarlyExit, Asleep, Threads
<1> QED
  BY <1>1, <1>2, <1>3 DEF QueueInv

-----------------------------------------------------------------------------
(* Steps that only touch one thread's private buffer. *)
LEMMA ProduceKeepsIInv ==
  ASSUME QueueInv, NEW p \in Producers, Produce(p) PROVE QueueInv'
<1> USE DEF QueueInv
<1>1. p \in Threads /\ p \notin Consumers
  BY QueueAssumption DEF Threads
<1>2. /\ sendBuf'[p] \in Seq(Items)
      /\ Len(sendBuf'[p]) = Len(sendBuf[p]) + 1
      /\ Len(sendBuf'[p]) <= PerInsert
  BY QueueAssumption DEF Produce, TypeOK, Items
<1>3. TypeOK'
  BY <1>2, QueueAssumption, SMTT(30) DEF Produce, TypeOK
<1>4. DoneProducers' = DoneProducers /\ p \notin DoneProducers
  BY DEF Produce, DoneProducers
<1>5. CountInv'
  BY <1>4 DEF Produce, CountInv, TypeOK, DoneProducers
<1>6. ConsumerInv'
  BY DEF Produce, ConsumerInv, Asleep, Awake, queue_isTerminated
<1>7. ~HasBatch(p) /\ p \notin Asleep(Producers)
  BY QueueAssumption DEF Produce, HasBatch, TypeOK, Asleep
<1>8. \A q \in Producers : q # p => HasBatch(q) = HasBatch(q)'
  BY DEF Produce, HasBatch, TypeOK
<1>9. ProducerInv'
  BY <1>7, <1>8 DEF Produce, ProducerInv, Asleep, Awake
<1>10. NoEarlyExit'
  BY <1>1 DEF Produce, NoEarlyExit, TypeOK
<1> QED
  BY <1>3, <1>5, <1>6, <1>9, <1>10

LEMMA ConsumeKeepsIInv ==
  ASSUME QueueInv, NEW c \in Consumers, Consume(c) PROVE QueueInv'
<1> USE DEF QueueInv
<1>1. TypeOK'
  BY DEF Consume, TypeOK
<1>2. CountInv' /\ ConsumerInv' /\ ProducerInv' /\ NoEarlyExit'
  BY DEF Consume, CountInv, DoneProducers, ConsumerInv, ProducerInv, HasBatch,
         NoEarlyExit, Asleep, Awake, queue_isTerminated
<1> QED
  BY <1>1, <1>2

(* pthread_cond_wait in queue_enqueue and in queue_dequeue. *)
LEMMA EnqueueWaitKeepsIInv ==
  ASSUME QueueInv, NEW p \in Producers, EnqueueWait(p) PROVE QueueInv'
<1> USE DEF QueueInv
<1>1. p \in Threads /\ p \notin Consumers
  BY QueueAssumption DEF Threads
<1>2. TypeOK'
  BY DEF EnqueueWait, Sleep, TypeOK
<1>3. DoneProducers' = DoneProducers
  BY <1>1 DEF EnqueueWait, MustEnqueue, Sleep, DoneProducers, TypeOK
<1>4. CountInv'
  BY <1>3 DEF EnqueueWait, Sleep, CountInv
<1>5. Asleep(Consumers)' = Asleep(Consumers) /\ Awake(Consumers)' = Awake(Consumers)
  BY <1>1 DEF EnqueueWait, Sleep, Asleep, Awake, TypeOK
<1>6. ConsumerInv'
  BY <1>5 DEF EnqueueWait, Sleep, ConsumerInv, queue_isTerminated
<1>7. buf # << >>
  BY QueueAssumption DEF EnqueueWait, IsFull, TypeOK
<1>8. Asleep(Producers)' \subseteq Asleep(Producers) \cup {p}
  BY <1>1 DEF EnqueueWait, Sleep, Asleep, TypeOK
<1>9. \A q \in Producers : HasBatch(q)' = HasBatch(q)
  BY DEF EnqueueWait, Sleep, HasBatch
<1>10. ProducerInv'
  BY <1>7, <1>8, <1>9
     DEF EnqueueWait, MustEnqueue, HasBatch, Sleep, ProducerInv
<1>11. NoEarlyExit'
  BY <1>1 DEF EnqueueWait, MustEnqueue, Sleep, NoEarlyExit, TypeOK
<1> QED
  BY <1>2, <1>4, <1>6, <1>10, <1>11

LEMMA DequeueWaitKeepsIInv ==
  ASSUME QueueInv, NEW c \in Consumers, DequeueWait(c) PROVE QueueInv'
<1> USE DEF QueueInv
<1>1. c \in Threads /\ c \notin Producers
  BY QueueAssumption DEF Threads
<1>2. TypeOK'
  BY DEF DequeueWait, Sleep, TypeOK
<1>3. DoneProducers' = DoneProducers
  BY <1>1 DEF DequeueWait, Sleep, DoneProducers, TypeOK
<1>4. CountInv'
  BY <1>3 DEF DequeueWait, Sleep, CountInv
<1>5. ConsumerInv'
  BY DEF DequeueWait, Sleep, IsEmpty, ConsumerInv, queue_isTerminated
<1>6. Asleep(Producers)' = Asleep(Producers) /\ Awake(Producers)' = Awake(Producers)
  BY <1>1 DEF DequeueWait, Sleep, Asleep, Awake, TypeOK
<1>7. ProducerInv'
  BY <1>6 DEF DequeueWait, Sleep, ProducerInv, HasBatch
<1>8. NoEarlyExit'
  BY <1>1 DEF DequeueWait, Sleep, NoEarlyExit, TypeOK
<1> QED
  BY <1>2, <1>4, <1>5, <1>7, <1>8

(* A spurious wakeup only adds a runnable thread; if it is a producer, it   *)
(* still has its batch.                                                    *)
LEMMA SpuriousWakeupKeepsIInv ==
  ASSUME QueueInv, NEW t \in Threads, SpuriousWakeup(t) PROVE QueueInv'
<1> USE DEF QueueInv
<1>1. TypeOK'
  BY DEF SpuriousWakeup, TypeOK
<1>2. DoneProducers' = DoneProducers
  BY DEF SpuriousWakeup, DoneProducers, TypeOK, Threads
<1>3. CountInv'
  BY <1>2 DEF SpuriousWakeup, CountInv
<1>4. /\ Asleep(Consumers)' \subseteq Asleep(Consumers)
      /\ Awake(Consumers) \subseteq Awake(Consumers)'
  BY DEF SpuriousWakeup, Asleep, Awake, TypeOK, Threads
<1>5. ConsumerInv'
  BY <1>4 DEF SpuriousWakeup, ConsumerInv, queue_isTerminated
<1>6. /\ Asleep(Producers)' \subseteq Asleep(Producers)
      /\ Awake(Producers) \subseteq Awake(Producers)'
  BY DEF SpuriousWakeup, Asleep, Awake, TypeOK, Threads
<1>7. ProducerInv'
  BY <1>6 DEF SpuriousWakeup, ProducerInv, HasBatch
<1>8. NoEarlyExit'
  BY DEF SpuriousWakeup, NoEarlyExit, TypeOK, Threads
<1> QED
  BY <1>1, <1>3, <1>5, <1>7, <1>8

LEMMA EnqueueKeepsIInv ==
  ASSUME QueueInv, NEW p \in Producers, Enqueue(p) PROVE QueueInv'
<1> USE DEF QueueInv
<1> DEFINE items == Least(PerInsert, Least(Len(sendBuf[p]), QueueSize - Len(buf)))
<1>1. /\ p \in Threads /\ p \notin Consumers
      /\ status[p] = "run"
      /\ \A q \in Producers : q \notin Consumers
  BY QueueAssumption DEF Threads, Enqueue, MustEnqueue
<1>2. /\ sendBuf[p] \in Seq(Items) /\ Len(sendBuf[p]) \in Nat \ {0}
      /\ Len(buf) \in Nat /\ QueueSize - Len(buf) \in Nat \ {0}
  BY QueueAssumption DEF Enqueue, MustEnqueue, IsFull, TypeOK
<1>3. items \in 1..Len(sendBuf[p]) /\ items <= QueueSize - Len(buf)
  <2> DEFINE m == Least(Len(sendBuf[p]), QueueSize - Len(buf))
  <2>1. m \in (1..Len(sendBuf[p])) \cap (1..(QueueSize - Len(buf)))
    BY <1>2, LeastBetween
  <2>2. items = Least(PerInsert, m)
    OBVIOUS
  <2> HIDE DEF m, items
  <2>3. m \in Nat \ {0} /\ PerInsert \in Nat \ {0}
    BY <1>2, <2>1, QueueAssumption
  <2>4. items \in (1..PerInsert) \cap (1..m)
    BY <2>2, <2>3, LeastBetween
  <2> QED
    BY <1>2, <2>1, <2>4
<1>4. /\ buf' = buf \o Take(sendBuf[p], items)
      /\ sendBuf' = [sendBuf EXCEPT ![p] = Drop(@, items)]
  BY DEF Enqueue
<1> HIDE DEF items
<1>5. /\ Take(sendBuf[p], items) \in Seq(Items) /\ Len(Take(sendBuf[p], items)) = items
      /\ Drop(sendBuf[p], items) \in Seq(Items)
      /\ Len(Drop(sendBuf[p], items)) = Len(sendBuf[p]) - items
  <2>1. items \in 0..Len(sendBuf[p])
    BY <1>3
  <2> QED
    BY <1>2, <2>1, TakeDrop
<1>6. buf' \in Seq(Items) /\ Len(buf') = Len(buf) + items
  <2>1. buf \in Seq(Items)
    BY DEF TypeOK
  <2> QED
    BY <2>1, <1>4, <1>5, ConcatProperties
\* The signal: nobody, or one sleeping consumer, changes status.
<1>7. /\ status' \in [Threads -> {"run", "wait", "done"}]
      /\ \A q \in Producers : status'[q] = status[q]
      /\ \A c \in Consumers : status'[c] = "done" <=> status[c] = "done"
      /\ Asleep(Consumers)' \subseteq Asleep(Consumers)
      /\ Asleep(Consumers)' # {} => Awake(Consumers)' # {}
  <2>1. CASE Asleep(Consumers) = {} /\ UNCHANGED status
    BY <2>1 DEF TypeOK, Asleep
  <2>2. CASE \E t \in Asleep(Consumers) : status' = [status EXCEPT ![t] = "run"]
    <3>1. PICK t \in Asleep(Consumers) : status' = [status EXCEPT ![t] = "run"]
      BY <2>2
    <3>2. t \in Consumers /\ t \in Threads /\ status[t] = "wait"
      BY DEF Asleep, Threads
    <3> QED
      BY <1>1, <3>1, <3>2 DEF TypeOK, Asleep, Awake, Threads
  <2> QED
    BY <2>1, <2>2 DEF Enqueue, Signal
<1>8. TypeOK'
  <2>1. Len(buf') <= QueueSize
    BY <1>2, <1>3, <1>6, QueueAssumption
  <2>2. sendBuf' \in [Producers -> Seq(Items)]
    BY <1>4, <1>5 DEF TypeOK
  <2>3. \A q \in Producers : Len(sendBuf'[q]) <= PerInsert
    BY <1>2, <1>3, <1>4, <1>5, QueueAssumption DEF TypeOK
  <2> QED
    BY <1>6, <1>7, <2>1, <2>2, <2>3 DEF Enqueue, TypeOK
<1>9. DoneProducers' = DoneProducers /\ p \notin DoneProducers
  BY <1>1, <1>7 DEF DoneProducers
<1>10. CountInv'
  BY <1>4, <1>9 DEF Enqueue, CountInv, DoneProducers, TypeOK
<1>11. ConsumerInv'
  BY <1>7 DEF Enqueue, ConsumerInv, queue_isTerminated
<1>12. buf' # << >>
  BY <1>2, <1>3, <1>6
<1>13. \A q \in Producers : q # p => HasBatch(q)' = HasBatch(q)
  BY <1>4 DEF Enqueue, HasBatch, TypeOK
<1>14. ProducerInv'
  BY <1>1, <1>7, <1>12, <1>13 DEF ProducerInv, Asleep
<1>15. NoEarlyExit'
  BY <1>1, <1>7 DEF NoEarlyExit
<1> QED
  BY <1>8, <1>10, <1>11, <1>14, <1>15

LEMMA DequeueKeepsIInv ==
  ASSUME QueueInv, NEW c \in Consumers, Dequeue(c) PROVE QueueInv'
<1> USE DEF QueueInv
<1> DEFINE items == Least(PerFetch, Len(buf))
<1>1. /\ c \in Threads /\ c \notin Producers /\ status[c] = "run"
      /\ \A d \in Consumers : d \notin Producers
  BY QueueAssumption DEF Threads, Dequeue, MustDequeue
<1>2. buf \in Seq(Items) /\ Len(buf) \in Nat \ {0}
  BY DEF Dequeue, IsEmpty, TypeOK
<1>3. items \in 0..Len(buf)
  <2>1. PerFetch \in Nat \ {0}
    BY QueueAssumption
  <2>2. Least(PerFetch, Len(buf)) \in (1..PerFetch) \cap (1..Len(buf))
    BY <1>2, <2>1, LeastBetween
  <2> QED
    BY <1>2, <2>2
<1>4. /\ recvBuf' = [recvBuf EXCEPT ![c] = Take(buf, items)]
      /\ taken' = taken \o Take(buf, items)
      /\ buf' = Drop(buf, items)
  BY DEF Dequeue
<1> HIDE DEF items
<1>5. /\ Take(buf, items) \in Seq(Items)
      /\ Drop(buf, items) \in Seq(Items) /\ Len(Drop(buf, items)) <= Len(buf)
  BY <1>2, <1>3, TakeDrop
\* The signal: nobody, or one sleeping producer, changes status.
<1>6. /\ status' \in [Threads -> {"run", "wait", "done"}]
      /\ \A d \in Consumers : status'[d] = status[d]
      /\ \A p \in Producers : status'[p] = "done" <=> status[p] = "done"
      /\ Asleep(Producers)' \subseteq Asleep(Producers)
      /\ Asleep(Producers)' # {} =>
            \E p \in Awake(Producers)' : p \in Asleep(Producers)
  <2>1. CASE Asleep(Producers) = {} /\ UNCHANGED status
    BY <2>1 DEF TypeOK, Asleep
  <2>2. CASE \E t \in Asleep(Producers) : status' = [status EXCEPT ![t] = "run"]
    <3>1. PICK t \in Asleep(Producers) : status' = [status EXCEPT ![t] = "run"]
      BY <2>2
    <3>2. t \in Producers /\ t \in Threads /\ status[t] = "wait"
      BY DEF Asleep, Threads
    <3> QED
      BY <1>1, <3>1, <3>2 DEF TypeOK, Asleep, Awake, Threads
  <2> QED
    BY <2>1, <2>2 DEF Dequeue, Signal
<1>7. TypeOK'
  <2>1. Len(buf') <= QueueSize
    BY <1>2, <1>4, <1>5, QueueAssumption DEF TypeOK
  <2>2. recvBuf' \in [Consumers -> Seq(Items)]
    BY <1>4, <1>5 DEF TypeOK
  <2>3. taken' \in Seq(Items)
    BY <1>4, <1>5, ConcatProperties DEF TypeOK
  <2> QED
    BY <1>4, <1>5, <1>6, <2>1, <2>2, <2>3 DEF Dequeue, TypeOK
<1>8. DoneProducers' = DoneProducers
  BY <1>6 DEF DoneProducers
<1>9. CountInv'
  BY <1>8 DEF Dequeue, CountInv
<1>10. ConsumerInv'
  BY <1>1, <1>6 DEF Dequeue, ConsumerInv, Asleep, Awake, queue_isTerminated
<1>11. ProducerInv'
  BY <1>6 DEF Dequeue, ProducerInv, HasBatch
\* No consumer has left yet: c itself found an item.
<1>12. NoEarlyExit'
  BY <1>6 DEF Dequeue, IsEmpty, NoEarlyExit
<1> QED
  BY <1>7, <1>9, <1>10, <1>11, <1>12

(* queue_dequeue returns -1: all producers are done and left nothing. *)
LEMMA DequeueEndKeepsIInv ==
  ASSUME QueueInv, NEW c \in Consumers, DequeueEnd(c) PROVE QueueInv'
<1> USE DEF QueueInv
<1>1. c \in Threads /\ c \notin Producers
  BY QueueAssumption DEF Threads
<1>2. TypeOK'
  BY DEF DequeueEnd, TypeOK
<1>3. DoneProducers = Producers
  BY TerminatedMeansAllDone DEF DequeueEnd
<1>4. \A p \in Producers : status[p] = "done" /\ status'[p] = "done"
  BY <1>1, <1>3 DEF DoneProducers, DequeueEnd, TypeOK
<1>5. DoneProducers' = DoneProducers
  BY <1>4 DEF DoneProducers
<1>6. CountInv'
  BY <1>5 DEF CountInv, DequeueEnd
<1>7. ConsumerInv'
  <2>1. Asleep(Consumers)' \subseteq Asleep(Consumers)
    BY <1>1 DEF DequeueEnd, Asleep, TypeOK, Threads
  <2> QED
    BY <2>1 DEF DequeueEnd, ConsumerInv, queue_isTerminated
<1>8. Asleep(Producers)' = {}
  BY <1>4 DEF Asleep
<1>9. ProducerInv'
  BY <1>8 DEF ProducerInv
<1>10. NoEarlyExit'
  BY <1>3, <1>4 DEF DequeueEnd, IsEmpty, NoEarlyExit, CountInv
<1> QED
  BY <1>2, <1>6, <1>7, <1>9, <1>10

(* queue_terminate: the count grows with the set of returned producers; the *)
(* last one wakes every sleeping consumer.                                 *)
LEMMA TerminateKeepsIInv ==
  ASSUME QueueInv, NEW p \in Producers, Terminate(p) PROVE QueueInv'
<1> USE DEF QueueInv
<1>1. /\ p \in Threads /\ p \notin Consumers
      /\ \A q \in Producers : q \in Threads /\ q \notin Consumers
      /\ \A c \in Consumers : c \in Threads /\ c \notin Producers
  BY QueueAssumption DEF Threads
<1>2. /\ status[p] = "run" /\ sendBuf[p] = << >>
      /\ nTerminated' = nTerminated + 1
      /\ status'[p] = "done"
      /\ \A q \in Producers : q # p => status'[q] = status[q]
      /\ status' \in [Threads -> {"run", "wait", "done"}]
  BY <1>1 DEF Terminate, TypeOK, Asleep
<1>3. DoneProducers' = DoneProducers \cup {p} /\ p \notin DoneProducers
  BY <1>2 DEF DoneProducers
<1>4. /\ nTerminated' = Cardinality(DoneProducers')
      /\ nTerminated' \in 0..Cardinality(Producers)
  <2>1. DoneProducers \in SUBSET Producers
    BY DEF DoneProducers
  <2> QED
    BY <1>2, <1>3, <2>1, CountStep DEF CountInv
<1>5. TypeOK'
  BY <1>2, <1>4 DEF Terminate, TypeOK
<1>6. CountInv'
  BY <1>2, <1>3, <1>4 DEF Terminate, CountInv
<1>7. ConsumerInv'
  <2>1. CASE nTerminated' = Cardinality(Producers)
    <3>1. Asleep(Consumers)' = {}
      BY <1>1, <2>1 DEF Terminate, Asleep
    <3> QED
      BY <3>1 DEF ConsumerInv
  <2>2. CASE nTerminated' # Cardinality(Producers)
    <3>1. \A c \in Consumers : status'[c] = status[c]
      BY <1>1, <2>2 DEF Terminate
    <3> QED
      BY <2>2, <3>1
         DEF Terminate, ConsumerInv, Asleep, Awake, queue_isTerminated
  <2> QED
    BY <2>1, <2>2
\* p has no batch, so it was not the producer the others rely on.
<1>8. ProducerInv'
  <2>1. Asleep(Producers)' = Asleep(Producers)
    BY <1>2 DEF Asleep
  <2>2. ~HasBatch(p)
    BY <1>2 DEF HasBatch
  <2>3. \A q \in Producers : HasBatch(q)' = HasBatch(q)
    BY DEF Terminate, HasBatch
  <2>4. \A q \in Awake(Producers) : q # p => q \in Awake(Producers)'
    BY <1>2 DEF Awake
  <2>5. /\ Asleep(Producers) \subseteq Producers
        /\ Awake(Producers) \subseteq Producers
    BY DEF Asleep, Awake
  <2> QED
    BY <2>1, <2>2, <2>3, <2>4, <2>5 DEF Terminate, ProducerInv
<1>9. NoEarlyExit'
  <2>1. \A c \in Consumers : status[c] # "done"
    BY <1>2 DEF NoEarlyExit
  <2>2. \A c \in Consumers : status'[c] # "done"
    BY <1>1, <2>1 DEF Terminate
  <2> QED
    BY <2>2 DEF NoEarlyExit
<1> QED
  BY <1>5, <1>6, <1>7, <1>8, <1>9

-----------------------------------------------------------------------------
THEOREM NextQueueInv == QueueInv /\ [Next]_vars => QueueInv'
<1> SUFFICES ASSUME QueueInv, [Next]_vars PROVE QueueInv'
  OBVIOUS
<1>1. ASSUME NEW p \in Producers, ProducerStep(p) PROVE QueueInv'
  BY <1>1, ProduceKeepsIInv, EnqueueWaitKeepsIInv, EnqueueKeepsIInv,
     TerminateKeepsIInv DEF ProducerStep
<1>2. ASSUME NEW c \in Consumers, ConsumerStep(c) PROVE QueueInv'
  BY <1>2, DequeueWaitKeepsIInv, DequeueEndKeepsIInv, DequeueKeepsIInv,
     ConsumeKeepsIInv DEF ConsumerStep
<1>3. ASSUME UNCHANGED vars PROVE QueueInv'
  BY <1>3 DEF vars, QueueInv, TypeOK, CountInv, DoneProducers, ConsumerInv,
     ProducerInv, HasBatch, NoEarlyExit, Asleep, Awake, queue_isTerminated
<1> QED
  BY <1>1, <1>2, <1>3, SpuriousWakeupKeepsIInv DEF Next, Joined

\* The inductive invariant contains what rules out a lost wakeup: a sleeping
\* thread always has a runnable one to rely on.
LEMMA IInvRulesOutLostWakeup ==
  ASSUME QueueInv PROVE NoLostWakeup
<1> USE DEF QueueInv
<1> SUFFICES ASSUME Asleep(Threads) # {}, Awake(Threads) = {} PROVE FALSE
  BY DEF NoLostWakeup
<1>1. /\ Asleep(Threads) = Asleep(Producers) \cup Asleep(Consumers)
      /\ Awake(Producers) = {} /\ Awake(Consumers) = {}
  BY DEF Asleep, Awake, Threads
\* A sleeping consumer implies a producer that has not returned; with nobody
\* runnable that producer sleeps.
<1>2. Asleep(Producers) # {}
  <2> SUFFICES ASSUME Asleep(Producers) = {} PROVE FALSE
    OBVIOUS
  <2>1. \A p \in Producers : status[p] = "done"
    BY <1>1 DEF TypeOK, Threads, Asleep, Awake
  <2>2. queue_isTerminated
    BY <2>1, TerminatedMeansAllDone DEF DoneProducers
  <2> QED
    BY <1>1, <2>2 DEF ConsumerInv
<1>3. buf # << >>
  BY <1>1, <1>2 DEF ProducerInv
<1>4. Asleep(Consumers) = {}
  BY <1>1, <1>3 DEF ConsumerInv
<1>5. \A c \in Consumers : status[c] = "done"
  BY <1>1, <1>4 DEF TypeOK, Threads, Asleep, Awake
<1> QED
  BY <1>3, <1>5, QueueAssumption DEF NoEarlyExit

\* queue.c keeps its variables in range; in particular the queue and the
\* send buffers never exceed their capacity.
THEOREM QueueTypes == Spec => []TypeOK
<1>1. QueueInv => TypeOK
  BY DEF QueueInv
<1> QED
  BY <1>1, InitQueueInv, NextQueueInv, PTL DEF Spec

\* One signal per batch and one broadcast at the end are enough: whenever a
\* thread sleeps in queue_enqueue or queue_dequeue, some thread can run.
THEOREM NoWakeupLost == Spec => []NoLostWakeup
BY InitQueueInv, NextQueueInv, IInvRulesOutLostWakeup, PTL DEF Spec

\* queue_dequeue returns -1 only after everything was delivered.
THEOREM ExitMeansDelivered == Spec => []NoEarlyExit
<1>1. QueueInv => NoEarlyExit
  BY DEF QueueInv
<1> QED
  BY <1>1, InitQueueInv, NextQueueInv, PTL DEF Spec

\* The asserts of queue.c on nTerminated hold.
THEOREM TerminationCountCorrect == Spec => []TerminationCounted
<1>1. QueueInv => TerminationCounted
  <2> SUFFICES ASSUME QueueInv PROVE TerminationCounted
    OBVIOUS
  <2>1. queue_isTerminated => \A p \in Producers : sendBuf[p] = << >>
    BY TerminatedMeansAllDone DEF QueueInv, CountInv
  <2> QED
    BY <2>1 DEF QueueInv, CountInv, DoneProducers, TerminationCounted
<1> QED
  BY <1>1, InitQueueInv, NextQueueInv, PTL DEF Spec

-----------------------------------------------------------------------------
(* The order of the items. *)

\* SentBy picks out of finitely many positions.
LEMMA SentByFinite ==
  ASSUME NEW p, NEW items \in Nat
  PROVE  IsFiniteSet(SentBy(p, items)) /\ Cardinality(SentBy(p, items)) \in Nat
<1>1. IsFiniteSet(1..items)
  BY FS_Interval
<1> QED
  BY <1>1, FS_Subset, FS_CardinalityType DEF SentBy

\* A step that leaves the items sent and the send buffers alone.
LEMMA SameOrder ==
  ASSUME FifoPerProducer, Sent' = Sent, UNCHANGED <<made, sendBuf>>
  PROVE  FifoPerProducer'
<1>1. \A p, items : SentBy(p, items)' = SentBy(p, items)
  BY DEF SentBy
<1> QED
  BY <1>1 DEF FifoPerProducer

\* queue_dequeue moves items from the queue to those that were taken.
LEMMA DequeueKeepsOrder ==
  ASSUME TypeOK, FifoPerProducer, NEW c \in Consumers, Dequeue(c)
  PROVE  FifoPerProducer'
<1>1. PICK items \in 0..Len(buf) : taken' = taken \o Take(buf, items) /\ buf' = Drop(buf, items)
  <2>1. Len(buf) \in Nat \ {0}
    BY DEF TypeOK, Dequeue, IsEmpty
  <2>2. Least(PerFetch, Len(buf)) \in (1..PerFetch) \cap (1..Len(buf))
    BY <2>1, QueueAssumption, LeastBetween
  <2>3. Least(PerFetch, Len(buf)) \in 0..Len(buf)
    BY <2>1, <2>2
  <2> QED
    BY <2>3 DEF Dequeue
<1>2. taken \in Seq(Items) /\ buf \in Seq(Items)
  BY DEF TypeOK
<1>3. Sent' = Sent
  <2>0. Len(buf) \in Nat /\ items \in Nat /\ items <= Len(buf)
    BY <1>2
  <2>1. /\ Take(buf, items) = [i \in 1..items |-> buf[i]]
        /\ Drop(buf, items) = [i \in 1..(Len(buf) - items) |-> buf[items + i]]
        /\ Take(buf, items) \in Seq(Items) /\ Drop(buf, items) \in Seq(Items)
        /\ Len(Take(buf, items)) = items /\ Len(Drop(buf, items)) = Len(buf) - items
    BY <1>2, <2>0, TakeDrop DEF Take, Drop
  <2> DEFINE a == Take(buf, items)
             b == Drop(buf, items)
  <2>2. a \o b = buf
    <3>1. SubSeq(buf, 1, items) \o SubSeq(buf, items + 1, Len(buf)) = SubSeq(buf, 1, Len(buf))
      <4>1. 1 \in 1..Len(buf)+1 /\ items \in (1-1)..Len(buf) /\ Len(buf) \in items..Len(buf)
        BY <2>0
      <4> QED BY <1>2, <4>1, ConcatAdjacentSubSeq
    <3>2. SubSeq(buf, 1, Len(buf)) = buf
      BY <1>2, SubSeqFull
    <3> QED BY <3>1, <3>2 DEF Take, Drop
  <2>3. (taken \o a) \o b = taken \o (a \o b)
    <3> HIDE DEF a, b
    <3> QED BY <1>2, <2>1 DEF a, b
  <2> QED
    BY <1>1, <2>2, <2>3 DEF Sent
<1> QED
  BY <1>3, SameOrder DEF Dequeue

\* A new item follows those that wait in the send buffer.
LEMMA ProduceKeepsOrder ==
  ASSUME TypeOK, FifoPerProducer, NEW p \in Producers, Produce(p)
  PROVE  FifoPerProducer'
<1>1. Sent' = Sent /\ \A q, items : SentBy(q, items)' = SentBy(q, items)
  BY DEF Produce, Sent, SentBy
<1>2. Sent \in Seq(Items) /\ Len(Sent) \in Nat
  BY DEF TypeOK, Sent
<1> SUFFICES ASSUME NEW q \in Producers
    PROVE  /\ sendBuf'[q] = [items \in 1..(made'[q] - Cardinality(SentBy(q, Len(Sent)))) |->
                               <<q, Cardinality(SentBy(q, Len(Sent))) + items>>]
           /\ Cardinality(SentBy(q, Len(Sent))) <= made'[q]
  BY <1>1 DEF FifoPerProducer
<1> DEFINE sent == Cardinality(SentBy(q, Len(Sent)))
<1>3. sent \in Nat
  BY <1>2, SentByFinite
<1>4. /\ sendBuf[q] = [items \in 1..(made[q] - sent) |-> <<q, sent + items>>]
      /\ sent <= made[q]
  BY DEF FifoPerProducer
<1> HIDE DEF sent
<1>5. CASE q = p
  <2>1. made'[q] = made[q] + 1 /\ made[q] \in Nat
    BY <1>5, QueueAssumption DEF Produce, TypeOK
  <2>2. sendBuf'[q] = Append(sendBuf[q], <<q, made[q] + 1>>)
    BY <1>5 DEF Produce, TypeOK
  <2>3. Len(sendBuf[q]) = made[q] - sent
    BY <1>3, <1>4, <2>1
  <2>4. sendBuf'[q] = [items \in 1..(made[q] + 1 - sent) |-> <<q, sent + items>>]
    <3>1. made[q] + 1 = sent + (made[q] + 1 - sent) /\ made[q] - sent + 1 = made[q] + 1 - sent
      BY <1>3, <2>1
    <3>2. sendBuf[q] \in Seq(Items) /\ <<q, made[q] + 1>> \in Items
      BY <2>1 DEF TypeOK, Items
    <3>3. /\ sendBuf'[q] \in Seq(Items) /\ Len(sendBuf'[q]) = made[q] + 1 - sent
          /\ \A items \in 1..(made[q] - sent) : sendBuf'[q][items] = sendBuf[q][items]
          /\ sendBuf'[q][made[q] + 1 - sent] = <<q, made[q] + 1>>
      BY <1>3, <2>1, <2>2, <2>3, <3>1, <3>2
    <3>4. \A items \in 1..(made[q] + 1 - sent) : sendBuf'[q][items] = <<q, sent + items>>
      <4> TAKE items \in 1..(made[q] + 1 - sent)
      <4>1. CASE items = made[q] + 1 - sent
        BY <3>1, <3>3, <4>1
      <4>2. CASE items # made[q] + 1 - sent
        <5>1. items \in 1..(made[q] - sent)
          BY <1>3, <2>1, <4>2
        <5>2. sendBuf[q][items] = <<q, sent + items>>
          BY <1>4, <5>1
        <5> QED BY <3>3, <5>1, <5>2
      <4> QED BY <4>1, <4>2
    <3> DEFINE t == [items \in 1..(made[q] + 1 - sent) |-> <<q, sent + items>>]
    <3>5. sendBuf'[q] = [items \in 1..(made[q] + 1 - sent) |-> sendBuf'[q][items]]
      BY <3>3
    <3> QED
      BY <3>4, <3>5
  <2> QED
    BY <1>3, <1>4, <2>1, <2>4 DEF sent
<1>6. CASE q # p
  BY <1>4, <1>6 DEF sent, Produce, TypeOK
<1> QED
  BY <1>5, <1>6

\* queue_enqueue moves the first items of the send buffer behind the others.
LEMMA EnqueueKeepsOrder ==
  ASSUME TypeOK, FifoPerProducer, NEW p \in Producers, Enqueue(p)
  PROVE  FifoPerProducer'
<1>1. PICK items \in 0..Len(sendBuf[p]) : /\ buf' = buf \o Take(sendBuf[p], items)
                                      /\ sendBuf' = [sendBuf EXCEPT ![p] = Drop(@, items)]
  <2>1. Len(sendBuf[p]) \in Nat \ {0}
    BY DEF TypeOK, Enqueue, MustEnqueue
  <2>2. QueueSize - Len(buf) \in Nat \ {0}
    BY QueueAssumption DEF TypeOK, Enqueue, IsFull
  <2>3. Least(Len(sendBuf[p]), QueueSize - Len(buf)) \in 1..Len(sendBuf[p])
    BY <2>1, <2>2, LeastBetween
  <2> DEFINE m == Least(Len(sendBuf[p]), QueueSize - Len(buf))
  <2>4. m \in Nat \ {0} /\ m <= Len(sendBuf[p])
    BY <2>1, <2>3
  <2>5. /\ buf' = buf \o Take(sendBuf[p], Least(PerInsert, m))
        /\ sendBuf' = [sendBuf EXCEPT ![p] = Drop(@, Least(PerInsert, m))]
    BY DEF Enqueue
  <2> HIDE DEF m
  <2>6. Least(PerInsert, m) \in 1..m
    BY <2>4, QueueAssumption, LeastBetween
  <2>7. Least(PerInsert, m) \in 0..Len(sendBuf[p])
    BY <2>1, <2>4, <2>6
  <2> QED
    BY <2>5, <2>7
<1>2. taken \in Seq(Items) /\ buf \in Seq(Items) /\ Sent \in Seq(Items) /\ Len(Sent) \in Nat
  BY DEF TypeOK, Sent
<1>8. PICK L \in Nat : L = Len(Sent)
  BY <1>2
<1> DEFINE sent(q) == Cardinality(SentBy(q, L))
<1>3. \A q : sent(q) \in Nat
  BY <1>8, SentByFinite
<1>4. /\ sendBuf[p] = [m \in 1..(made[p] - sent(p)) |-> <<p, sent(p) + m>>]
      /\ sent(p) <= made[p]
  BY <1>8 DEF FifoPerProducer
<1>5. made' = made /\ made \in [Producers -> 0..NItems] /\ NItems \in Nat
  BY QueueAssumption DEF Enqueue, TypeOK
<1>6. Len(sendBuf[p]) = made[p] - sent(p) /\ items \in Nat /\ items <= made[p] - sent(p)
  <2> HIDE DEF sent
  <2> QED BY <1>1, <1>3, <1>4, <1>5
<1>7. /\ Len(Sent') = L + items /\ Sent' \in Seq(Items)
      /\ \A i \in 1..L : Sent'[i] = Sent[i]
      /\ \A j \in 1..items : Sent'[L + j] = <<p, sent(p) + j>>
  <2>1. Take(sendBuf[p], items) \in Seq(Items) /\ Len(Take(sendBuf[p], items)) = items
    BY <1>1, TakeDrop DEF TypeOK
  <2>2. \A j \in 1..items : Take(sendBuf[p], items)[j] = <<p, sent(p) + j>>
    <3>1. \A j \in 1..items : Take(sendBuf[p], items)[j] = sendBuf[p][j]
      BY <1>1 DEF Take, TypeOK
    <3>2. \A j \in 1..items : sendBuf[p][j] = <<p, sent(p) + j>>
      <4> HIDE DEF sent
      <4> QED BY <1>3, <1>4, <1>5, <1>6
    <3> QED BY <3>1, <3>2
  <2>3. taken' = taken
    BY DEF Enqueue
  <2>4. Sent' = Sent \o Take(sendBuf[p], items)
    <3>1. taken \o (buf \o Take(sendBuf[p], items)) = (taken \o buf) \o Take(sendBuf[p], items)
      BY <1>2, <2>1
    <3> QED BY <1>1, <2>3, <3>1 DEF Sent
  <2> DEFINE s == Take(sendBuf[p], items)
  <2>5. /\ Len(Sent \o s) = L + items /\ Sent \o s \in Seq(Items)
        /\ \A i \in 1..L : (Sent \o s)[i] = Sent[i]
        /\ \A j \in 1..items : (Sent \o s)[L + j] = s[j]
    <3>1. s \in Seq(Items) /\ Len(s) = items
      BY <2>1 DEF s
    <3> HIDE DEF s
    <3>2. /\ Len(Sent \o s) = L + items /\ Sent \o s \in Seq(Items)
          /\ \A i \in 1..(L + items) : (Sent \o s)[i] = IF i <= L THEN Sent[i] ELSE s[i - L]
      BY <1>2, <1>8, <3>1, ConcatProperties
    <3>3. \A i \in 1..L : (Sent \o s)[i] = Sent[i]
      BY <1>6, <1>8, <3>2
    <3>4. \A j \in 1..items : (Sent \o s)[L + j] = s[j]
      <4> TAKE j \in 1..items
      <4>1. L + j \in 1..(L + items) /\ ~(L + j <= L) /\ L + j - L = j
        BY <1>6, <1>8
      <4>2. (Sent \o s)[L + j] = s[L + j - L]
        BY <3>2, <4>1
      <4> QED BY <4>1, <4>2
    <3> QED BY <3>2, <3>3, <3>4
  <2> QED
    BY <2>2, <2>4, <2>5
<1>9. \A q : \A i \in 1..L : SentBy(q, i)' = SentBy(q, i)
  BY <1>7, <1>8 DEF SentBy
<1>10. \A q : \A j \in 0..items : q # p => SentBy(q, L + j)' = SentBy(q, L)
  <2> SUFFICES ASSUME NEW q, NEW j \in 0..items, q # p PROVE SentBy(q, L + j)' = SentBy(q, L)
    OBVIOUS
  <2>1. \A i \in 1..L : Sent'[i] = Sent[i]
    BY <1>7
  <2>2. \A i \in (L+1)..(L+j) : Sent'[i][1] # q
    <3> TAKE i \in (L+1)..(L+j)
    <3>1. i - L \in 1..items /\ i = L + (i - L)
      BY <1>6, <1>8
    <3>2. Sent'[i] = <<p, sent(p) + (i - L)>>
      BY <1>7, <3>1
    <3> QED BY <3>2
  <2>3. 1..(L+j) = (1..L) \cup ((L+1)..(L+j))
    BY <1>6, <1>8
  <2> QED BY <2>1, <2>2, <2>3 DEF SentBy
<1>11. \A j \in 0..items : /\ SentBy(p, L + j)' = SentBy(p, L) \cup ((L+1)..(L+j))
                       /\ Cardinality(SentBy(p, L + j)') = sent(p) + j
  <2> SUFFICES ASSUME NEW j \in 0..items
               PROVE  /\ SentBy(p, L + j)' = SentBy(p, L) \cup ((L+1)..(L+j))
                      /\ Cardinality(SentBy(p, L + j)') = sent(p) + j
    OBVIOUS
  <2>1. \A i \in 1..L : Sent'[i] = Sent[i]
    BY <1>7
  <2>2. \A i \in (L+1)..(L+j) : Sent'[i][1] = p
    <3> TAKE i \in (L+1)..(L+j)
    <3>1. i - L \in 1..items /\ i = L + (i - L)
      BY <1>6, <1>8
    <3>2. Sent'[i] = <<p, sent(p) + (i - L)>>
      BY <1>7, <3>1
    <3> QED BY <3>2
  <2>3. 1..(L+j) = (1..L) \cup ((L+1)..(L+j))
    BY <1>6, <1>8
  <2>4. SentBy(p, L + j)' = SentBy(p, L) \cup ((L+1)..(L+j))
    BY <2>1, <2>2, <2>3 DEF SentBy
  <2>5. /\ IsFiniteSet(SentBy(p, L)) /\ IsFiniteSet((L+1)..(L+j))
        /\ Cardinality((L+1)..(L+j)) = j
    <3>1. L + 1 \in Int /\ L + j \in Int /\ (L + j) - (L + 1) + 1 = j /\ (L + 1 > L + j <=> j = 0)
      BY <1>6, <1>8
    <3>2. Cardinality((L+1)..(L+j)) = IF L + 1 > L + j THEN 0 ELSE (L + j) - (L + 1) + 1
      BY <3>1, FS_Interval
    <3> QED BY <1>8, <3>1, <3>2, SentByFinite, FS_Interval
  <2>6. SentBy(p, L) \cap ((L+1)..(L+j)) = {}
    BY <1>8 DEF SentBy
  <2>7. Cardinality(SentBy(p, L) \cup ((L+1)..(L+j))) = sent(p) + j
    <3>1. Cardinality(SentBy(p, L) \cup ((L+1)..(L+j)))
            = Cardinality(SentBy(p, L)) + Cardinality((L+1)..(L+j)) - 0
      BY <2>5, <2>6, FS_Union, FS_EmptySet
    <3>2. j \in Nat /\ Cardinality(SentBy(p, L)) \in Nat
      BY <1>3, <1>6
    <3> QED BY <2>5, <3>1, <3>2
  <2> QED BY <2>4, <2>7
<1>12. ASSUME NEW q \in Producers
       PROVE  Cardinality(SentBy(q, L + items)') = IF q = p THEN sent(p) + items ELSE sent(q)
  <2>1. items \in 0..items
    BY <1>6
  <2>2. CASE q = p
    BY <1>11, <2>1, <2>2
  <2>3. CASE q # p
    BY <1>10, <2>1, <2>3
  <2> QED BY <2>2, <2>3
<1>13. ASSUME NEW q \in Producers, NEW i \in SentBy(q, L + items)'
       PROVE  Sent'[i] = <<q, Cardinality(SentBy(q, i)')>>
  <2>1. i \in 1..(L + items) /\ Sent'[i][1] = q
    BY <1>13 DEF SentBy
  <2>2. CASE i \in 1..L
    <3>1. Sent'[i] = Sent[i] /\ SentBy(q, i)' = SentBy(q, i)
      BY <1>7, <1>9, <2>2
    <3>2. i \in SentBy(q, Len(Sent))
      BY <1>8, <2>1, <2>2, <3>1 DEF SentBy
    <3> QED BY <3>1, <3>2 DEF FifoPerProducer
  <2>3. CASE i \notin 1..L
    <3>1. i - L \in 1..items /\ i - L \in 0..items /\ i = L + (i - L)
      BY <1>6, <1>8, <2>1, <2>3
    <3>2. Sent'[i] = <<p, sent(p) + (i - L)>>
      BY <1>7, <3>1
    <3>3. q = p
      BY <2>1, <3>2
    <3>4. Cardinality(SentBy(p, i)') = sent(p) + (i - L)
      BY <1>11, <3>1
    <3> QED BY <3>2, <3>3, <3>4
  <2> QED BY <2>2, <2>3
<1>14. ASSUME NEW q \in Producers
       PROVE  LET new == Cardinality(SentBy(q, L + items)') IN
              /\ sendBuf'[q] = [m \in 1..(made[q] - new) |-> <<q, new + m>>]
              /\ new <= made[q]
  <2>1. CASE q = p
    <3>1. sendBuf'[p] = Drop(sendBuf[p], items)
      BY <1>1 DEF TypeOK
    <3>2. sent(p) \in Nat /\ made[p] \in Nat
      BY <1>3, <1>5
    <3> HIDE DEF sent
    <3>3. Drop(sendBuf[p], items) = [m \in 1..(made[p] - (sent(p) + items)) |-> <<p, sent(p) + items + m>>]
      <4>1. Drop(sendBuf[p], items) = [m \in 1..(made[p] - sent(p) - items) |-> sendBuf[p][items + m]]
        <5>1. sendBuf[p] \in Seq(Items)
          BY DEF TypeOK
        <5>2. items \in 0..Len(sendBuf[p])
          BY <1>6, <3>2
        <5>3. Drop(sendBuf[p], items) = [m \in 1..(Len(sendBuf[p]) - items) |-> sendBuf[p][items + m]]
          BY <5>1, <5>2, Dropped
        <5> QED BY <1>6, <5>3
      <4>2. \A m \in 1..(made[p] - sent(p) - items) : sendBuf[p][items + m] = <<p, sent(p) + items + m>>
        BY <1>4, <1>6, <3>2
      <4>3. made[p] - sent(p) - items = made[p] - (sent(p) + items)
        BY <1>6, <3>2
      <4> QED BY <4>1, <4>2, <4>3
    <3> QED BY <1>6, <1>12, <2>1, <3>1, <3>2, <3>3
  <2>2. CASE q # p
    BY <1>1, <1>8, <1>12, <2>2 DEF FifoPerProducer, TypeOK
  <2> QED BY <2>1, <2>2
<1>15. Len(Sent') = L + items
  BY <1>7
<1> HIDE DEF sent
<1> QED
  BY <1>5, <1>13, <1>14, <1>15 DEF FifoPerProducer

\* Whatever the threads do between them, no item overtakes another one of the
\* same producer, and none is lost or doubled.
THEOREM ItemsInOrder == Spec => []FifoPerProducer
<1>1. Init => FifoPerProducer
  <2> SUFFICES ASSUME Init PROVE FifoPerProducer
    OBVIOUS
  <2>1. Sent = << >> /\ Len(Sent) = 0
    BY DEF Init, Sent
  <2>2. \A p : SentBy(p, 0) = {}
    BY DEF SentBy
  <2>3. \A p \in Producers : sendBuf[p] = << >> /\ made[p] = 0
    BY DEF Init
  <2>4. \A p \in Producers : [items \in 1..(0 - 0) |-> <<p, 0 + items>>] = << >>
    OBVIOUS
  <2>5. Cardinality({}) = 0
    BY FS_EmptySet
  <2>6. \A p : SentBy(p, Len(Sent)) = {} /\ Cardinality(SentBy(p, Len(Sent))) = 0
    BY <2>1, <2>2, <2>5
  <2>7. SUFFICES ASSUME NEW p \in Producers
        PROVE  /\ sendBuf[p] = [items \in 1..(made[p] - Cardinality(SentBy(p, Len(Sent)))) |->
                                  <<p, Cardinality(SentBy(p, Len(Sent))) + items>>]
               /\ Cardinality(SentBy(p, Len(Sent))) <= made[p]
    BY <2>6 DEF FifoPerProducer
  <2> HIDE DEF SentBy
  <2> QED
    BY <2>3, <2>4, <2>6
<1>2. QueueInv /\ FifoPerProducer /\ [Next]_vars => FifoPerProducer'
  <2> SUFFICES ASSUME QueueInv, FifoPerProducer, [Next]_vars PROVE FifoPerProducer'
    OBVIOUS
  <2> USE DEF QueueInv
  <2>1. ASSUME NEW p \in Producers, ProducerStep(p) PROVE FifoPerProducer'
    <3>1. CASE Produce(p)
      BY <3>1, ProduceKeepsOrder
    <3>2. CASE Enqueue(p)
      BY <3>2, EnqueueKeepsOrder
    <3>3. CASE EnqueueWait(p) \/ Terminate(p)
      BY <3>3, SameOrder DEF EnqueueWait, Terminate, Sleep, Sent
    <3> QED
      BY <2>1, <3>1, <3>2, <3>3 DEF ProducerStep
  <2>2. ASSUME NEW c \in Consumers, ConsumerStep(c) PROVE FifoPerProducer'
    <3>1. CASE Dequeue(c)
      BY <3>1, DequeueKeepsOrder
    <3>2. CASE DequeueWait(c) \/ DequeueEnd(c) \/ Consume(c)
      BY <3>2, SameOrder DEF DequeueWait, DequeueEnd, Consume, Sleep, Sent
    <3> QED
      BY <2>2, <3>1, <3>2 DEF ConsumerStep
  <2>3. CASE \E t \in Threads : SpuriousWakeup(t)
    BY <2>3, SameOrder DEF SpuriousWakeup, Sent
  <2>4. CASE UNCHANGED vars
    BY <2>4, SameOrder DEF vars, Sent
  <2> QED
    BY <2>1, <2>2, <2>3, <2>4 DEF Next, Joined
<1> QED
  BY <1>1, <1>2, InitQueueInv, NextQueueInv, PTL DEF Spec

-----------------------------------------------------------------------------
(***************************************************************************)
(* The parts inside and around it.                                         *)
(***************************************************************************)

(***************************************************************************)
(* The ring buffer implements a first-in first-out buffer, for every       *)
(* capacity and every set of elements.                                     *)
(***************************************************************************)
\* Adding the modulus to a residue changes nothing.
LEMMA ResidueOfSum ==
  ASSUME NEW s \in Nat \ {0}, NEW k \in 0..(s - 1)
  PROVE  k % s = k /\ (k + s) % s = k
BY SMTT(30)

\* The index before tail, computed with a modulus, is the one below it, or
\* the last one of the array.
LEMMA BeforeTail ==
  ASSUME RingTypeOK
  PROVE  (tail - 1 + size) % size = IF tail = 0 THEN size - 1 ELSE tail - 1
<1>1. size \in Nat \ {0} /\ tail \in 0..(size - 1)
  BY RingBufferAssumption DEF RingTypeOK, size
<1>2. CASE tail = 0
  <2>1. size - 1 \in 0..(size - 1)
    BY <1>1
  <2>2. (size - 1) % size = size - 1
    BY <1>1, <2>1, ResidueOfSum
  <2>3. tail - 1 + size = size - 1
    BY <1>1, <1>2
  <2> QED
    BY <1>2, <2>2, <2>3
<1>3. CASE tail # 0
  <2>1. tail - 1 \in 0..(size - 1)
    BY <1>1, <1>3
  <2> QED
    BY <1>1, <1>3, <2>1, ResidueOfSum
<1> QED
  BY <1>2, <1>3

\* The initial state has the right types.
LEMMA InitTypeOK == ringbuffer_init => RingTypeOK
BY RingBufferAssumption DEF ringbuffer_init, RingTypeOK, size

\* Every step preserves the types: no index leaves the array.
LEMMA NextTypeOK ==
  ASSUME RingTypeOK, [RingNext]_ringVars
  PROVE  RingTypeOK'
<1> USE RingBufferAssumption DEF RingTypeOK, size
<1>1. ASSUME NEW x \in Elements, ringbuffer_insert(x) PROVE RingTypeOK'
  BY <1>1 DEF ringbuffer_insert
<1>2. CASE ringbuffer_remove
  BY <1>2 DEF ringbuffer_remove
<1>3. CASE UNCHANGED ringVars
  BY <1>3 DEF ringVars
<1> QED
  BY <1>1, <1>2, <1>3 DEF RingNext

\* The buffer is full exactly when the capacity is reached.
LEMMA FullMeansCapacity ==
  ASSUME RingTypeOK
  PROVE  FullAtCapacity
<1>1. tail \in 0..Capacity /\ head \in 0..Capacity
  BY RingBufferAssumption DEF RingTypeOK, size
<1>2. ringbuffer_isFull <=> head = IF tail = 0 THEN Capacity ELSE tail - 1
  BY BeforeTail, RingBufferAssumption DEF ringbuffer_isFull, size
<1> QED
  BY <1>1, <1>2, RingBufferAssumption DEF FullAtCapacity, Count, size

\* An insert appends to the contents.
LEMMA InsertAppends ==
  ASSUME RingTypeOK, NEW x \in Elements, ringbuffer_insert(x)
  PROVE  Fifo!Put(x)
<1> USE RingBufferAssumption DEF size
<1>1. Count < Capacity
  BY FullMeansCapacity DEF RingTypeOK, FullAtCapacity, ringbuffer_insert, Count
<1>2. Count' = Count + 1 /\ Count \in Nat
  BY <1>1 DEF RingTypeOK, ringbuffer_insert, Count
<1>3. \A i \in 1..Count : Index(i - 1)' = Index(i - 1) /\ Index(i - 1) # head
  BY <1>1 DEF RingTypeOK, ringbuffer_insert, Count, Index
<1>4. \A i : i = Count + 1 => Index(i - 1)' = head
  BY <1>1 DEF RingTypeOK, ringbuffer_insert, Count, Index
<1>5. \A i \in 1..Count : Index(i - 1) \in 0..(size - 1)
  BY <1>1, <1>2 DEF RingTypeOK, Count, Index
<1>6. \A i \in 1..Count : Contents'[i] = Contents[i]
  <2> SUFFICES ASSUME NEW i \in 1..Count PROVE Contents'[i] = Contents[i]
    OBVIOUS
  <2>1. Contents[i] = data[Index(i - 1)]
    BY DEF Contents
  <2>2. Contents'[i] = data'[Index(i - 1)']
    BY <1>2 DEF Contents
  <2>3. data'[Index(i - 1)] = data[Index(i - 1)]
    BY <1>3, <1>5 DEF RingTypeOK, ringbuffer_insert
  <2> QED
    BY <1>3, <2>1, <2>2, <2>3
<1>7. Contents'[Count + 1] = x
  <2>1. \A i \in 1..Count' : Contents'[i] = data'[Index(i - 1)']
    BY DEF Contents
  <2>2. data'[head] = x
    BY DEF RingTypeOK, ringbuffer_insert
  <2> QED
    BY <1>2, <1>4, <2>1, <2>2
<1>8. Contents \in Seq(Elements) /\ Len(Contents) = Count
  <2>1. \A i \in 1..Count : data[Index(i - 1)] \in Elements
    BY <1>5 DEF RingTypeOK
  <2>2. Contents \in [1..Count -> Elements]
    BY <2>1 DEF Contents
  <2> QED
    BY <1>2, <2>2
<1>9. Contents' = Append(Contents, x)
  <2>1. Contents' \in Seq(Elements) /\ Len(Contents') = Count + 1
    <3>1. Contents' = [i \in 1..(Count + 1) |-> Contents'[i]]
      BY <1>2 DEF Contents
    <3>2. \A i \in 1..(Count + 1) : Contents'[i] \in Elements
      BY <1>2, <1>6, <1>7, <1>8
    <3> QED
      BY <1>2, <3>1, <3>2
  <2>2. \A i \in 1..(Count + 1) : Contents'[i] = Append(Contents, x)[i]
    BY <1>2, <1>6, <1>7, <1>8, AppendProperties
  <2> QED
    BY <1>8, <2>1, <2>2, AppendProperties, SeqEqual
<1> QED
  BY <1>1, <1>8, <1>9 DEF Fifo!Put, ringbuffer_insert

\* A remove takes the oldest element.
LEMMA RemoveTakesOldest ==
  ASSUME RingTypeOK, ringbuffer_remove
  PROVE  Fifo!Get
<1> USE RingBufferAssumption DEF size
<1>1. Count \in Nat \ {0} /\ Count' = Count - 1
  BY DEF RingTypeOK, ringbuffer_remove, ringbuffer_isEmpty, Count
<1>2. Index(0) = tail
  BY DEF RingTypeOK, Index
<1>3. got' = Contents[1]
  BY <1>1, <1>2 DEF Contents, ringbuffer_remove
<1>4. \A i \in 1..Count' : Index(i - 1)' = Index(i)
  BY <1>1 DEF RingTypeOK, ringbuffer_remove, ringbuffer_isEmpty, Count, Index
<1>5. Contents \in Seq(Elements) /\ Len(Contents) = Count
  BY <1>1 DEF RingTypeOK, Contents, Count, Index
<1>6. \A i \in 1..Count' : Contents'[i] = Contents[i + 1]
  BY <1>1, <1>4 DEF RingTypeOK, ringbuffer_remove, Contents
<1>7. Contents' = Tail(Contents)
  BY <1>1, <1>5, <1>6 DEF Contents
<1>8. Contents # << >>
  BY <1>1, <1>5
<1> QED
  BY <1>3, <1>7, <1>8 DEF Fifo!Get

-----------------------------------------------------------------------------
\* Neither index ever leaves the array.
THEOREM RingTypes == RingSpec => []RingTypeOK
BY InitTypeOK, NextTypeOK, PTL DEF RingSpec

\* Capacity elements fit, not fewer and not more, whichever way the indices
\* have wrapped around.
THEOREM CapacityExact == RingSpec => []FullAtCapacity
BY RingTypes, FullMeansCapacity, PTL

\* The ring buffer implements the first-in first-out buffer, for every
\* capacity.
THEOREM RingBufferIsFifo == RingSpec => ImplementsFifo
<1>1. ringbuffer_init => Fifo!Init
  <2> SUFFICES ASSUME ringbuffer_init PROVE Fifo!Init
    OBVIOUS
  <2>1. Count = 0
    BY DEF ringbuffer_init, Count
  <2>2. Contents = << >>
    BY <2>1 DEF Contents
  <2> QED
    BY <2>2 DEF ringbuffer_init, Fifo!Init
<1>2. RingTypeOK /\ [RingNext]_ringVars => [Fifo!Next]_<<Contents, got>>
  <2> SUFFICES ASSUME RingTypeOK, [RingNext]_ringVars PROVE [Fifo!Next]_<<Contents, got>>
    OBVIOUS
  <2>1. ASSUME NEW x \in Elements, ringbuffer_insert(x) PROVE Fifo!Next
    BY <2>1, InsertAppends DEF Fifo!Next
  <2>2. CASE ringbuffer_remove
    BY <2>2, RemoveTakesOldest DEF Fifo!Next
  <2>3. CASE UNCHANGED ringVars
    BY <2>3 DEF ringVars, Contents, Count, Index
  <2> QED
    BY <2>1, <2>2, <2>3 DEF RingNext
<1> QED
  BY <1>1, <1>2, RingTypes, PTL DEF RingSpec, ImplementsFifo, Fifo!Spec

(***************************************************************************)
(* Memory buffers: for any number of handles and any block size the block  *)
(* is freed exactly once, after the last handle is gone, and no view       *)
(* leaves the block.                                                       *)
(***************************************************************************)
\* The counter counts the live handles.
CountExact == count = Cardinality(live)

\* A handle whose mbuffer_free has begun is not live any more.
DroppedNotLive == live \cap dropped = {}

\* No thread inside mbuffer_free is about to free the block.
NobodyFrees == \A h \in dropped : ref[h] # 0

\* Exactly one thread inside mbuffer_free is about to free the block.
OneFrees ==
  \E h \in dropped : ref[h] = 0 /\ \A g \in dropped : ref[g] = 0 => g = h

\* Before the last handle is dropped nobody frees; after it one thread will,
\* or has.
OneFreer ==
  /\ live # {} => freed = 0 /\ NobodyFrees
  /\ live = {} => \/ freed = 0 /\ OneFrees
                  \/ freed = 1 /\ NobodyFrees

\* realloc never moved the block while another handle was live.
NothingStale == stale = {}

IInv ==
  /\ BufferTypeOK /\ CountExact /\ DroppedNotLive /\ OneFreer
  /\ NothingStale /\ ViewsInBounds

-----------------------------------------------------------------------------
\* The set of live handles is finite, so it can be counted.
LEMMA LiveFinite ==
  ASSUME BufferTypeOK
  PROVE  IsFiniteSet(live)
<1>1. IsFiniteSet(Handles)
  BY MbufferAssumption
<1>2. live \in SUBSET Handles
  BY DEF BufferTypeOK
<1> QED
  BY <1>1, <1>2, FS_Subset

\* The initial state satisfies the inductive invariant.
LEMMA InitIInv == mbuffer_create => IInv
<1> SUFFICES ASSUME mbuffer_create PROVE IInv
  OBVIOUS
<1> USE MbufferAssumption DEF mbuffer_create
<1>1. BufferTypeOK
  BY DEF BufferTypeOK
<1>2. CountExact
  BY FS_Singleton DEF CountExact
<1>3. DroppedNotLive /\ OneFreer /\ NothingStale
  BY DEF DroppedNotLive, OneFreer, NobodyFrees, NothingStale
<1>4. ViewsInBounds
  BY DEF ViewsInBounds
<1> QED
  BY <1>1, <1>2, <1>3, <1>4 DEF IInv

\* A new handle, counted, leaves counter and set of handles in agreement.
LEMMA OneMoreHandle ==
  ASSUME IInv, NEW g \in Unused, live' = live \cup {g}, count' = count + 1
  PROVE  CountExact'
<1>1. g \notin live
  BY DEF Unused
<1>2. Cardinality(live') = Cardinality(live) + 1
  BY <1>1, LiveFinite, FS_AddElement DEF IInv
<1> QED
  BY <1>2 DEF IInv, CountExact

\* A new handle does not disturb who frees the block: there was one before,
\* so nobody does.
LEMMA NewHandleKeepsOneFreer ==
  ASSUME IInv, NEW m \in live, NEW g, live' = live \cup {g},
         UNCHANGED <<dropped, ref, freed>>
  PROVE  OneFreer'
<1>1. live # {} /\ live' # {}
  OBVIOUS
<1>2. freed = 0 /\ NobodyFrees
  BY <1>1 DEF IInv, OneFreer
<1>3. freed' = 0 /\ NobodyFrees'
  BY <1>2 DEF NobodyFrees
<1> QED
  BY <1>1, <1>3 DEF OneFreer

\* mbuffer_split preserves the invariant: front and back lie within what the
\* handle viewed before.
LEMMA SplitKeepsIInv ==
  ASSUME IInv, NEW m1 \in Handles, NEW m2 \in Handles,
         NEW split \in 1..MaxSize, mbuffer_split(m1, m2, split)
  PROVE  IInv'
<1> USE DEF mbuffer_split, Unused
<1>1. BufferTypeOK'
  BY MbufferAssumption DEF IInv, BufferTypeOK
<1>2. CountExact'
  BY OneMoreHandle
<1>3. DroppedNotLive' /\ NothingStale'
  BY DEF IInv, DroppedNotLive, NothingStale
<1>4. OneFreer'
  BY NewHandleKeepsOneFreer
<1>5. ViewsInBounds'
  <2> SUFFICES ASSUME NEW h \in live'
               PROVE  h \notin stale' /\ ptr'[h] + n'[h] <= block'
    BY DEF ViewsInBounds
  <2>1. CASE h = m2
    BY <2>1 DEF IInv, ViewsInBounds, BufferTypeOK, NothingStale
  <2>2. CASE h # m2
    BY <2>2 DEF IInv, ViewsInBounds, BufferTypeOK
  <2> QED
    BY <2>1, <2>2
<1> QED
  BY <1>1, <1>2, <1>3, <1>4, <1>5 DEF IInv

\* mbuffer_clone preserves the invariant: the copy views what m views.
LEMMA CloneKeepsIInv ==
  ASSUME IInv, NEW m \in Handles, NEW twin \in Handles, mbuffer_clone(m, twin)
  PROVE  IInv'
<1> USE DEF mbuffer_clone, Unused
<1>1. BufferTypeOK'
  BY DEF IInv, BufferTypeOK
<1>2. CountExact'
  BY OneMoreHandle
<1>3. DroppedNotLive' /\ NothingStale'
  BY DEF IInv, DroppedNotLive, NothingStale
<1>4. OneFreer'
  BY NewHandleKeepsOneFreer
<1>5. ViewsInBounds'
  <2> SUFFICES ASSUME NEW h \in live'
               PROVE  h \notin stale' /\ ptr'[h] + n'[h] <= block'
    BY DEF ViewsInBounds
  <2>1. twin \notin stale
    BY DEF IInv, NothingStale
  <2>2. CASE h = twin
    BY <2>1, <2>2 DEF IInv, ViewsInBounds, BufferTypeOK
  <2>3. CASE h # twin
    BY <2>3 DEF IInv, ViewsInBounds, BufferTypeOK
  <2> QED
    BY <2>2, <2>3
<1> QED
  BY <1>1, <1>2, <1>3, <1>4, <1>5 DEF IInv
\* The decrement of mbuffer_free preserves the invariant: the count drops to 0
\* exactly when the last handle goes.
LEMMA DropKeepsIInv ==
  ASSUME IInv, NEW m \in Handles, DropRef(m)
  PROVE  IInv'
<1> USE DEF DropRef, views
<1>1. Cardinality(live') = Cardinality(live) - 1 /\ IsFiniteSet(live')
  BY LiveFinite, FS_RemoveElement DEF IInv
<1>2. CountExact'
  BY <1>1 DEF IInv, CountExact
<1>3. count' \in Nat
  BY <1>1, <1>2, FS_CardinalityType DEF CountExact
<1>4. BufferTypeOK'
  BY <1>3 DEF IInv, BufferTypeOK
<1>5. DroppedNotLive' /\ NothingStale' /\ ViewsInBounds'
  BY DEF IInv, DroppedNotLive, NothingStale, ViewsInBounds
<1>6. OneFreer'
  <2>1. freed = 0 /\ NobodyFrees
    BY DEF IInv, OneFreer
  <2>2. ref'[m] = count' /\ \A h \in dropped : h # m /\ ref'[h] = ref[h]
    BY DEF IInv, BufferTypeOK, DroppedNotLive
  <2>3. CASE live' = {}
    <3>1. ref'[m] = 0
      BY <1>2, <2>2, <2>3, FS_EmptySet DEF CountExact
    <3>2. OneFrees'
      BY <2>1, <2>2, <3>1 DEF OneFrees, NobodyFrees
    <3> QED
      BY <2>1, <2>3, <3>2 DEF OneFreer
  <2>4. CASE live' # {}
    <3>1. ref'[m] # 0
      BY <1>1, <1>2, <2>2, <2>4, FS_EmptySet DEF CountExact
    <3>2. NobodyFrees'
      BY <2>1, <2>2, <3>1 DEF NobodyFrees
    <3> QED
      BY <2>1, <2>4, <3>2 DEF OneFreer
  <2> QED
    BY <2>3, <2>4
<1> QED
  BY <1>2, <1>4, <1>5, <1>6 DEF IInv

\* The rest of mbuffer_free preserves the invariant: only the one thread that
\* saw 0 frees the block.
LEMMA ReleaseKeepsIInv ==
  ASSUME IInv, NEW m \in Handles, FreeIfLast(m)
  PROVE  IInv'
<1> USE DEF FreeIfLast, views
<1>1. BufferTypeOK' /\ CountExact' /\ DroppedNotLive' /\ NothingStale' /\ ViewsInBounds'
  BY DEF IInv, BufferTypeOK, CountExact, DroppedNotLive, NothingStale, ViewsInBounds
<1>2. OneFreer'
  <2>1. CASE NobodyFrees
    BY <2>1 DEF IInv, OneFreer, NobodyFrees, OneFrees
  <2>2. CASE live = {} /\ freed = 0 /\ OneFrees
    <3>1. CASE ref[m] = 0
      BY <2>2, <3>1 DEF OneFreer, OneFrees, NobodyFrees
    <3>2. CASE ref[m] # 0
      BY <2>2, <3>2 DEF OneFreer, OneFrees
    <3> QED
      BY <3>1, <3>2
  <2> QED
    BY <2>1, <2>2 DEF IInv, OneFreer
<1> QED
  BY <1>1, <1>2 DEF IInv

\* mbuffer_realloc preserves the invariant: a count of 1 means that no other
\* handle is live.
LEMMA ReallocKeepsIInv ==
  ASSUME IInv, NEW m \in Handles, NEW bytes \in 1..MaxSize,
         mbuffer_realloc(m, bytes)
  PROVE  IInv'
<1> USE DEF mbuffer_realloc
<1>1. live = {m}
  <2>1. m \in live /\ IsFiniteSet(live) /\ Cardinality(live) <= 1
    BY LiveFinite DEF IInv, CountExact
  <2>2. Cardinality(live) \in Nat /\ Cardinality(live) # 0
    BY <2>1, FS_CardinalityType, FS_EmptySet
  <2>3. Cardinality(live) = 1
    BY <2>1, <2>2
  <2> QED
    BY <2>1, <2>3, FS_Singleton
<1>2. BufferTypeOK' /\ CountExact' /\ DroppedNotLive'
  BY DEF IInv, BufferTypeOK, CountExact, DroppedNotLive
<1>3. OneFreer'
  <2>1. freed' = 0 /\ NobodyFrees' /\ live' # {}
    BY DEF IInv, OneFreer, NobodyFrees
  <2> QED
    BY <2>1 DEF OneFreer
<1>4. NothingStale' /\ ViewsInBounds'
  BY <1>1 DEF IInv, BufferTypeOK, NothingStale, ViewsInBounds
<1> QED
  BY <1>2, <1>3, <1>4 DEF IInv

\* Every step preserves the inductive invariant.
LEMMA NextIInv ==
  ASSUME IInv, [BufferNext]_bufferVars
  PROVE  IInv'
<1>1. CASE UNCHANGED bufferVars
  BY <1>1 DEF bufferVars, IInv, BufferTypeOK, CountExact, DroppedNotLive, OneFreer,
              NobodyFrees, OneFrees, NothingStale, ViewsInBounds
<1>2. CASE BufferNext
  BY <1>1, <1>2, SplitKeepsIInv, CloneKeepsIInv, DropKeepsIInv,
     ReleaseKeepsIInv, ReallocKeepsIInv DEF BufferNext, Gone
<1> QED
  BY <1>1, <1>2

\* The invariant holds throughout every behaviour.
LEMMA Invariance == BufferSpec => []IInv
BY InitIInv, NextIInv, PTL DEF BufferSpec

-----------------------------------------------------------------------------
\* The variables keep their types; in particular the counter never wraps
\* below 0.
THEOREM BufferTypes == BufferSpec => []BufferTypeOK
BY Invariance, PTL DEF IInv

\* mbuffer_free frees the block only when no handle refers to it, for any
\* number of handles in any number of threads.
THEOREM NoHandleOutlivesBlock == BufferSpec => []NoUseAfterFree
<1>1. IInv => NoUseAfterFree
  BY DEF IInv, OneFreer, NoUseAfterFree
<1> QED
  BY Invariance, <1>1, PTL

\* mbuffer_free frees the block exactly once.
THEOREM BlockFreedOnce == BufferSpec => []FreedOnce
<1>1. IInv => FreedOnce
  BY DEF IInv, OneFreer, OneFrees, FreedOnce
<1> QED
  BY Invariance, <1>1, PTL

\* Splits, clones and reallocations keep the view of every live handle within
\* the block.
THEOREM ViewsStayInBounds == BufferSpec => []ViewsInBounds
BY Invariance, PTL DEF IInv

(***************************************************************************)
(* Cutting: what lies between the input and FragmentRefine's output is one *)
(* row of chunks without gaps, numbered as Reorder expects.                *)
(***************************************************************************)
FineChunks ==
  [l1num : Nat, l2num : Nat, isLastL2Chunk : BOOLEAN, lo : Nat, hi : Nat]

CuttingTypeOK ==
  /\ length \in Nat /\ seek \in 0..length /\ anchorcount \in Nat /\ chcount \in Nat
  /\ chunk \in CoarseChunk \cup {NULL} /\ temp \in CoarseChunk \cup {NULL}
  /\ part \in CoarseChunk \cup {NULL}
  /\ coarse \in Seq(CoarseChunk) /\ fine \in Seq(FineChunks)
  /\ pc \in {"read", "split", "done"}

\* Where the next fine chunk has to start, and its number.
FineEnd    == IF fine = << >> THEN 0 ELSE fine[Len(fine)].hi
FineNumber == IF fine = << >> THEN <<0, 0>> ELSE Expected(fine[Len(fine)])

\* The same for the coarse chunks after the one FragmentRefine has.
PartEnd    == IF part = NULL THEN FineEnd ELSE part.hi
PartNumber == IF part = NULL THEN FineNumber[1] ELSE part.l1num + 1

PartInv ==
  IF part = NULL THEN FineNumber[2] = 0
  ELSE part.lo < part.hi /\ part.lo = FineEnd /\ <<part.l1num, chcount>> = FineNumber

CoarseTiles ==
  \A i \in 1..Len(coarse) :
     /\ coarse[i].lo < coarse[i].hi
     /\ coarse[i].lo = IF i = 1 THEN PartEnd ELSE coarse[i - 1].hi
     /\ coarse[i].l1num = PartNumber + i - 1

CoarseEnd    == IF coarse = << >> THEN PartEnd ELSE coarse[Len(coarse)].hi
CoarseNumber == PartNumber + Len(coarse)

\* Chunk c holds what was read and not sent yet.
Holds(c) ==
  /\ c.lo = CoarseEnd /\ c.lo < c.hi /\ c.hi = seek
  /\ c.l1num = CoarseNumber /\ anchorcount = CoarseNumber + 1

BufferInv ==
  /\ pc = "split" <=> chunk # NULL
  /\ chunk # NULL => temp = NULL /\ Holds(chunk)
  /\ temp # NULL => pc = "read" /\ Holds(temp)
  /\ pc = "read" /\ temp = NULL => seek = CoarseEnd /\ anchorcount = CoarseNumber
  /\ pc = "done" => CoarseEnd = length

CuttingInv ==
  CuttingTypeOK /\ FragmentTilesInput /\ PartInv /\ CoarseTiles /\ BufferInv

LEMMA CuttingInitInv == CuttingInit => CuttingInv
<1> SUFFICES ASSUME CuttingInit PROVE CuttingInv
  OBVIOUS
<1>1. CuttingTypeOK
  BY FragmentAssumption DEF CuttingInit, CuttingTypeOK
<1>2. FineEnd = 0 /\ FineNumber = <<0, 0>>
  BY DEF CuttingInit, FineEnd, FineNumber
<1>3. PartEnd = 0 /\ PartNumber = 0 /\ CoarseEnd = 0 /\ CoarseNumber = 0
  BY <1>2 DEF CuttingInit, PartEnd, PartNumber, CoarseEnd, CoarseNumber
<1>4. FragmentTilesInput /\ PartInv /\ CoarseTiles
  BY <1>2 DEF CuttingInit, FragmentTilesInput, PartInv, CoarseTiles
<1>5. BufferInv
  BY <1>3 DEF CuttingInit, BufferInv
<1> QED
  BY <1>1, <1>4, <1>5 DEF CuttingInv

\* What FragmentRefine has done is not changed by Fragment.
LEMMA RefinedStays ==
  ASSUME UNCHANGED <<part, chcount, fine>>
  PROVE  /\ FineEnd' = FineEnd /\ FineNumber' = FineNumber
         /\ PartEnd' = PartEnd /\ PartNumber' = PartNumber
         /\ PartInv' <=> PartInv
         /\ FragmentTilesInput' <=> FragmentTilesInput
BY DEF FineEnd, FineNumber, PartEnd, PartNumber, PartInv, FragmentTilesInput, Expected

LEMMA ChunkEnds ==
  ASSUME CuttingTypeOK
  PROVE  /\ FineEnd \in Nat /\ PartEnd \in Nat /\ CoarseEnd \in Nat
         /\ FineNumber \in Nat \X Nat /\ PartNumber \in Nat /\ CoarseNumber \in Nat
<1>1. FineEnd \in Nat /\ FineNumber \in Nat \X Nat
  <2>1. CASE fine = << >>
    BY <2>1 DEF FineEnd, FineNumber
  <2>2. CASE fine # << >>
    <3>1. fine[Len(fine)] \in FineChunks
      BY <2>2 DEF CuttingTypeOK
    <3>2. fine[Len(fine)].hi \in Nat /\ fine[Len(fine)].l1num \in Nat /\ fine[Len(fine)].l2num \in Nat
      BY <3>1 DEF FineChunks
    <3> QED
      BY <2>2, <3>2 DEF FineEnd, FineNumber, Expected
  <2> QED
    BY <2>1, <2>2
<1>2. PartEnd \in Nat /\ PartNumber \in Nat
  BY <1>1 DEF PartEnd, PartNumber, CuttingTypeOK, CoarseChunk
<1>3. CoarseEnd \in Nat
  <2>1. CASE coarse # << >>
    <3>1. coarse[Len(coarse)] \in CoarseChunk
      BY <2>1 DEF CuttingTypeOK
    <3> QED
      BY <2>1, <3>1 DEF CoarseEnd, CoarseChunk
  <2> QED
    BY <1>2, <2>1 DEF CoarseEnd
<1>4. CoarseNumber \in Nat
  BY <1>2 DEF CoarseNumber, CuttingTypeOK
<1> QED
  BY <1>1, <1>2, <1>3, <1>4

\* A coarse chunk that starts where the last one ends, sent.
LEMMA OneMoreCoarse ==
  ASSUME CuttingTypeOK, CoarseTiles, UNCHANGED <<part, chcount, fine>>,
         NEW c, c \in CoarseChunk, coarse' = Append(coarse, c),
         c.lo = CoarseEnd, c.lo < c.hi, c.l1num = CoarseNumber
  PROVE  CoarseTiles' /\ CoarseEnd' = c.hi /\ CoarseNumber' = CoarseNumber + 1
<1>1. PartEnd' = PartEnd /\ PartNumber' = PartNumber
  BY RefinedStays
<1>2. coarse \in Seq(CoarseChunk) /\ Len(coarse) \in Nat
  BY DEF CuttingTypeOK
<1>3. /\ Len(coarse') = Len(coarse) + 1 /\ coarse'[Len(coarse) + 1] = c /\ coarse' # << >>
      /\ \A i \in 1..Len(coarse) : coarse'[i] = coarse[i]
  BY <1>2
<1>4. CoarseEnd' = c.hi /\ CoarseNumber' = CoarseNumber + 1
  <2>1. CoarseEnd' = coarse'[Len(coarse')].hi
    BY <1>3 DEF CoarseEnd
  <2>2. CoarseNumber' = PartNumber + (Len(coarse) + 1)
    BY <1>1, <1>3 DEF CoarseNumber
  <2>3. PartNumber \in Nat
    BY ChunkEnds
  <2> QED
    BY <1>2, <1>3, <2>1, <2>2, <2>3 DEF CoarseNumber
<1>5. ASSUME NEW i \in 1..Len(coarse')
      PROVE  /\ coarse'[i].lo < coarse'[i].hi
             /\ coarse'[i].lo = IF i = 1 THEN PartEnd ELSE coarse'[i - 1].hi
             /\ coarse'[i].l1num = PartNumber + i - 1
  <2>1. CASE i \in 1..Len(coarse)
    <3>1. coarse'[i] = coarse[i] /\ (i # 1 => coarse'[i - 1] = coarse[i - 1])
      BY <1>2, <1>3, <2>1
    <3> QED
      BY <2>1, <3>1 DEF CoarseTiles
  <2>2. CASE i = Len(coarse) + 1
    <3>1. coarse'[i] = c
      BY <1>3, <2>2
    <3>2. CASE coarse = << >>
      <4>1. i = 1 /\ CoarseEnd = PartEnd /\ CoarseNumber = PartNumber
        BY <2>2, <3>2, ChunkEnds DEF CoarseEnd, CoarseNumber
      <4> QED
        BY <3>1, <4>1, ChunkEnds
    <3>3. CASE coarse # << >>
      <4>1. i # 1 /\ coarse'[i - 1] = coarse[Len(coarse)]
        BY <1>2, <1>3, <2>2, <3>3
      <4>2. PartNumber + i - 1 = CoarseNumber
        BY <1>2, <2>2, ChunkEnds DEF CoarseNumber
      <4> QED
        BY <3>1, <3>3, <4>1, <4>2 DEF CoarseEnd
    <3> QED
      BY <3>2, <3>3
  <2> QED
    BY <1>2, <1>3, <2>1, <2>2
<1> QED
  BY <1>1, <1>4, <1>5 DEF CoarseTiles

LEMMA ReadKeeps ==
  ASSUME CuttingInv, Read
  PROVE  CuttingInv'
<1> USE DEF CuttingInv
<1>1. UNCHANGED <<length, part, chcount, fine>> /\ pc = "read" /\ chunk = NULL /\ temp' = NULL
  BY DEF Read, BufferInv
<1>2. PartInv' /\ FragmentTilesInput' /\ PartEnd' = PartEnd /\ PartNumber' = PartNumber
  BY <1>1, RefinedStays
<1>3. BytesRead \in Nat /\ seek' = seek + BytesRead /\ seek' \in 0..length
      /\ (BytesRead = 0 => seek = length)
  BY FragmentAssumption DEF Read, BytesRead, CuttingTypeOK
<1>4. anchorcount' = CoarseNumber + 1
  BY DEF Read, BufferInv, Holds
<1>5. BytesRead > 0 \/ temp # NULL =>
        /\ Extended \in CoarseChunk /\ Extended.lo = CoarseEnd /\ Extended.l1num = CoarseNumber
        /\ Extended.hi = seek' /\ Extended.lo < Extended.hi
  <2>1. CASE temp # NULL
    <3>1. temp \in CoarseChunk /\ Holds(temp)
      BY <2>1 DEF CuttingTypeOK, BufferInv
    <3>2. Extended = [l1num |-> temp.l1num, lo |-> temp.lo, hi |-> seek']
      BY <1>3, <2>1 DEF Extended
    <3> QED
      BY <1>3, <3>1, <3>2 DEF Holds, CoarseChunk
  <2>2. CASE temp = NULL
    <3>1. Extended = [l1num |-> anchorcount, lo |-> seek, hi |-> seek']
      BY <1>3, <2>2 DEF Extended
    <3>2. seek = CoarseEnd /\ anchorcount = CoarseNumber /\ seek \in Nat /\ anchorcount \in Nat
      BY <1>1, <2>2 DEF BufferInv, CuttingTypeOK
    <3> QED
      BY <1>3, <2>2, <3>1, <3>2 DEF CoarseChunk
  <2> QED
    BY <2>1, <2>2
<1>6. CASE BytesRead > 0
  <2>1. chunk' = Extended /\ pc' = "split" /\ coarse' = coarse
    BY <1>6 DEF Read
  <2>2. chunk' # NULL
    BY <1>5, <1>6, <2>1, NullIsNoChunk
  <2>3. CoarseEnd' = CoarseEnd /\ CoarseNumber' = CoarseNumber /\ CoarseTiles'
    BY <1>2, <2>1 DEF CoarseEnd, CoarseNumber, CoarseTiles
  <2>4. CuttingTypeOK'
    BY <1>1, <1>3, <1>4, <1>5, <1>6, <2>1, ChunkEnds DEF CuttingTypeOK
  <2>5. BufferInv'
    BY <1>1, <1>4, <1>5, <1>6, <2>1, <2>2, <2>3 DEF BufferInv, Holds
  <2> QED
    BY <1>2, <2>3, <2>4, <2>5
<1>7. CASE ~(BytesRead > 0) /\ temp # NULL
  <2>1. chunk' = NULL /\ pc' = "done" /\ coarse' = Append(coarse, Extended)
    BY <1>7 DEF Read
  <2>2. CoarseTiles' /\ CoarseEnd' = Extended.hi
    BY <1>1, <1>5, <1>7, <2>1, OneMoreCoarse
  <2>3. coarse' \in Seq(CoarseChunk)
    BY <1>5, <1>7, <2>1 DEF CuttingTypeOK
  <2>4. CuttingTypeOK'
    BY <1>1, <1>3, <1>4, <2>1, <2>3, ChunkEnds DEF CuttingTypeOK
  <2>5. CoarseEnd' = length
    BY <1>3, <1>5, <1>7, <2>2 DEF CuttingTypeOK
  <2>6. BufferInv'
    BY <1>1, <2>1, <2>5 DEF BufferInv
  <2> QED
    BY <1>2, <2>2, <2>4, <2>6
<1>8. CASE ~(BytesRead > 0) /\ temp = NULL
  <2>1. chunk' = NULL /\ pc' = "done" /\ coarse' = coarse
    BY <1>8 DEF Read
  <2>2. CoarseEnd' = CoarseEnd /\ CoarseTiles'
    BY <1>2, <2>1 DEF CoarseEnd, CoarseTiles
  <2>3. CoarseEnd = length
    BY <1>1, <1>3, <1>8 DEF BufferInv
  <2>4. CuttingTypeOK'
    BY <1>1, <1>3, <1>4, <2>1, ChunkEnds DEF CuttingTypeOK
  <2>5. BufferInv'
    BY <1>1, <2>1, <2>2, <2>3 DEF BufferInv
  <2> QED
    BY <1>2, <2>2, <2>4, <2>5
<1> QED
  BY <1>6, <1>7, <1>8

LEMMA SplitKeeps ==
  ASSUME CuttingInv, Split
  PROVE  CuttingInv'
<1> USE DEF CuttingInv
<1>1. UNCHANGED <<length, seek, part, chcount, fine>> /\ pc = "split" /\ temp = NULL
  BY DEF Split, BufferInv
<1>2. PartInv' /\ FragmentTilesInput' /\ PartEnd' = PartEnd /\ PartNumber' = PartNumber
  BY <1>1, RefinedStays
<1>3. chunk \in CoarseChunk /\ chunk # NULL /\ Holds(chunk)
  BY <1>1 DEF BufferInv, CuttingTypeOK
<1>4. CASE KeepRest
  <2>1. temp' = chunk /\ chunk' = NULL /\ pc' = "read" /\ UNCHANGED <<anchorcount, coarse>>
    BY <1>4 DEF KeepRest
  <2>2. CoarseEnd' = CoarseEnd /\ CoarseNumber' = CoarseNumber /\ CoarseTiles'
    BY <1>2, <2>1 DEF CoarseEnd, CoarseNumber, CoarseTiles
  <2>3. CuttingTypeOK'
    BY <1>1, <2>1 DEF CuttingTypeOK
  <2>4. BufferInv'
    BY <1>1, <1>3, <2>1, <2>2 DEF BufferInv, Holds
  <2> QED
    BY <1>2, <2>2, <2>3, <2>4
<1>5. ASSUME NEW at \in Nat, chunk.lo < at, at < chunk.hi, CutOff(at)
      PROVE  CuttingInv'
  <2> DEFINE c == [chunk EXCEPT !.hi = at]
             d == [l1num |-> anchorcount, lo |-> at, hi |-> chunk.hi]
  <2>1. coarse' = Append(coarse, c) /\ chunk' = d /\ anchorcount' = anchorcount + 1 /\ UNCHANGED <<temp, pc>>
    BY <1>5 DEF CutOff
  <2>2. chunk.lo = CoarseEnd /\ chunk.hi = seek /\ chunk.l1num = CoarseNumber
        /\ anchorcount = CoarseNumber + 1
    BY <1>3 DEF Holds
  <2>3. c \in CoarseChunk /\ c.lo = CoarseEnd /\ c.hi = at /\ c.l1num = CoarseNumber
    BY <1>3, <1>5, <2>2 DEF CoarseChunk
  <2>4. d \in CoarseChunk /\ d.lo = at /\ d.hi = seek /\ d.l1num = CoarseNumber + 1 /\ d # NULL
    BY <1>3, <1>5, <2>2, NullIsNoChunk DEF CoarseChunk, CuttingTypeOK
  <2> HIDE DEF c, d
  <2>5. c.lo < c.hi
    BY <1>5, <2>2, <2>3
  <2>6. CoarseTiles' /\ CoarseEnd' = at /\ CoarseNumber' = CoarseNumber + 1
    BY <1>1, <2>1, <2>3, <2>5, OneMoreCoarse
  <2>7. coarse' \in Seq(CoarseChunk)
    BY <2>1, <2>3 DEF CuttingTypeOK
  <2>8. CuttingTypeOK'
    BY <1>1, <2>1, <2>4, <2>7 DEF CuttingTypeOK
  <2>9. Holds(chunk)'
    BY <1>1, <1>5, <2>1, <2>2, <2>4, <2>6, ChunkEnds DEF Holds
  <2>10. BufferInv'
    BY <1>1, <2>1, <2>4, <2>9 DEF BufferInv, Holds
  <2> QED
    BY <1>2, <2>6, <2>8, <2>10
<1>6. CASE ~(ANCHOR_JUMP < Length(chunk))
  BY <1>4, <1>6 DEF Split
<1>7. CASE ANCHOR_JUMP < Length(chunk)
  <2>1. PICK offset \in rabinseg(Length(chunk) - ANCHOR_JUMP) :
           IF offset + ANCHOR_JUMP < Length(chunk)
           THEN CutOff(chunk.lo + offset + ANCHOR_JUMP)
           ELSE KeepRest
    BY <1>7 DEF Split
  <2>2. offset \in Nat /\ offset > 0 /\ ANCHOR_JUMP \in Nat /\ chunk.lo \in Nat /\ chunk.hi \in Nat
    BY <1>3, FragmentAssumption DEF rabinseg, CoarseChunk
  <2>3. CASE offset + ANCHOR_JUMP < Length(chunk)
    <3>1. chunk.lo + offset + ANCHOR_JUMP \in Nat /\ chunk.lo < chunk.lo + offset + ANCHOR_JUMP
          /\ chunk.lo + offset + ANCHOR_JUMP < chunk.hi
      BY <2>2, <2>3 DEF Length
    <3> QED
      BY <1>5, <2>1, <2>3, <3>1
  <2>4. CASE ~(offset + ANCHOR_JUMP < Length(chunk))
    BY <1>4, <2>1, <2>4
  <2> QED
    BY <2>3, <2>4
<1> QED
  BY <1>6, <1>7

\* What Fragment has not sent yet is not changed by FragmentRefine.
LEMMA HeldStays ==
  ASSUME BufferInv, UNCHANGED length, UNCHANGED fragmentVars,
         CoarseEnd' = CoarseEnd, CoarseNumber' = CoarseNumber
  PROVE  BufferInv'
BY DEF fragmentVars, BufferInv, Holds

LEMMA TakeCoarseKeeps ==
  ASSUME CuttingInv, TakeCoarse
  PROVE  CuttingInv'
<1> USE DEF CuttingInv
<1>1. UNCHANGED <<length, fine>> /\ UNCHANGED fragmentVars /\ chcount' = 0
      /\ part = NULL /\ part' = Head(coarse) /\ coarse' = Tail(coarse) /\ coarse # << >>
  BY DEF TakeCoarse, fragmentVars
<1>2. coarse \in Seq(CoarseChunk) /\ Len(coarse) \in Nat \ {0}
  BY <1>1 DEF CuttingTypeOK
<1>3. part' = coarse[1] /\ part' \in CoarseChunk /\ part' # NULL
  BY <1>1, <1>2, NullIsNoChunk
<1>4. /\ coarse' \in Seq(CoarseChunk) /\ Len(coarse') = Len(coarse) - 1
      /\ \A i \in 1..Len(coarse') : coarse'[i] = coarse[i + 1]
  BY <1>1, <1>2
<1>5. FineEnd' = FineEnd /\ FineNumber' = FineNumber /\ FragmentTilesInput'
  BY <1>1 DEF FineEnd, FineNumber, FragmentTilesInput, Expected
<1>6. PartEnd = FineEnd /\ PartNumber = FineNumber[1] /\ FineNumber[2] = 0
  BY <1>1 DEF PartEnd, PartNumber, PartInv
<1>7. FineNumber \in Nat \X Nat /\ PartNumber \in Nat
  BY ChunkEnds
<1>8. coarse[1].lo < coarse[1].hi /\ coarse[1].lo = PartEnd /\ coarse[1].l1num = PartNumber
  BY <1>2, <1>7 DEF CoarseTiles
<1>9. PartEnd' = coarse[1].hi /\ PartNumber' = PartNumber + 1
  BY <1>3, <1>8 DEF PartEnd, PartNumber
<1>10. PartInv'
  <2>1. <<coarse[1].l1num, 0>> = FineNumber
    BY <1>6, <1>7, <1>8
  <2> QED
    BY <1>1, <1>3, <1>5, <1>6, <1>8, <2>1 DEF PartInv
<1>11. CoarseTiles'
  <2>1. ASSUME NEW i \in 1..Len(coarse')
        PROVE  /\ coarse'[i].lo < coarse'[i].hi
               /\ coarse'[i].lo = IF i = 1 THEN PartEnd' ELSE coarse'[i - 1].hi
               /\ coarse'[i].l1num = PartNumber' + i - 1
    <3>1. coarse'[i] = coarse[i + 1] /\ i + 1 \in 1..Len(coarse) /\ i + 1 # 1 /\ (i + 1) - 1 = i
      BY <1>2, <1>4, <2>1
    <3>2. coarse[i + 1].lo < coarse[i + 1].hi /\ coarse[i + 1].lo = coarse[i].hi
          /\ coarse[i + 1].l1num = PartNumber + (i + 1) - 1
      BY <3>1 DEF CoarseTiles
    <3>3. i # 1 => coarse'[i - 1] = coarse[i]
      BY <1>2, <1>4, <2>1
    <3> QED
      BY <1>2, <1>4, <1>7, <1>9, <2>1, <3>1, <3>2, <3>3
  <2> QED
    BY <2>1 DEF CoarseTiles
<1>12. CoarseEnd' = CoarseEnd
  <2>1. CASE Len(coarse) = 1
    <3>1. coarse' = << >>
      BY <1>4, <2>1
    <3> QED
      BY <1>1, <1>9, <2>1, <3>1 DEF CoarseEnd
  <2>2. CASE Len(coarse) # 1
    <3>1. coarse' # << >> /\ coarse'[Len(coarse')] = coarse[Len(coarse)]
      BY <1>2, <1>4, <2>2
    <3> QED
      BY <1>1, <3>1 DEF CoarseEnd
  <2> QED
    BY <2>1, <2>2
<1>13. CoarseNumber' = CoarseNumber
  BY <1>2, <1>4, <1>7, <1>9 DEF CoarseNumber
<1>14. CuttingTypeOK'
  BY <1>1, <1>3, <1>4 DEF CuttingTypeOK, fragmentVars
<1>15. BufferInv'
  BY <1>1, <1>12, <1>13, HeldStays
<1> QED
  BY <1>5, <1>10, <1>11, <1>14, <1>15

\* A fine chunk that continues the row with the number Reorder expects.
LEMMA OneMoreFine ==
  ASSUME CuttingTypeOK, FragmentTilesInput,
         NEW c, c \in FineChunks, fine' = Append(fine, c),
         c.lo = FineEnd, c.lo < c.hi, <<c.l1num, c.l2num>> = FineNumber
  PROVE  /\ FragmentTilesInput' /\ fine' \in Seq(FineChunks)
         /\ FineEnd' = c.hi /\ FineNumber' = Expected(c)
<1>1. fine \in Seq(FineChunks) /\ Len(fine) \in Nat
  BY DEF CuttingTypeOK
<1>2. /\ fine' \in Seq(FineChunks) /\ Len(fine') = Len(fine) + 1 /\ fine' # << >>
      /\ fine'[Len(fine) + 1] = c /\ \A i \in 1..Len(fine) : fine'[i] = fine[i]
  BY <1>1
<1>3. FineEnd' = c.hi /\ FineNumber' = Expected(c)
  <2>1. fine'[Len(fine')] = c
    BY <1>2
  <2> QED
    BY <1>2, <2>1 DEF FineEnd, FineNumber, Expected
<1>4. ASSUME NEW i \in 1..Len(fine')
      PROVE  /\ fine'[i].lo < fine'[i].hi
             /\ fine'[i].lo = IF i = 1 THEN 0 ELSE fine'[i - 1].hi
             /\ <<fine'[i].l1num, fine'[i].l2num>> =
                   IF i = 1 THEN <<0, 0>> ELSE Expected(fine'[i - 1])
  <2>1. CASE i \in 1..Len(fine)
    <3>1. fine'[i] = fine[i] /\ (i # 1 => fine'[i - 1] = fine[i - 1])
      BY <1>1, <1>2, <2>1
    <3> QED
      BY <2>1, <3>1 DEF FragmentTilesInput
  <2>2. CASE i = Len(fine) + 1
    <3>1. fine'[i] = c
      BY <1>2, <2>2
    <3>2. CASE fine = << >>
      BY <2>2, <3>1, <3>2 DEF FineEnd, FineNumber
    <3>3. CASE fine # << >>
      <4>1. i # 1 /\ fine'[i - 1] = fine[Len(fine)]
        BY <1>1, <1>2, <2>2, <3>3
      <4> QED
        BY <3>1, <3>3, <4>1 DEF FineEnd, FineNumber
    <3> QED
      BY <3>2, <3>3
  <2> QED
    BY <1>1, <1>2, <2>1, <2>2
<1>5. FragmentTilesInput'
  BY <1>4 DEF FragmentTilesInput, Expected
<1> QED
  BY <1>2, <1>3, <1>5

LEMMA RefineCoarseKeeps ==
  ASSUME CuttingInv, RefineCoarse
  PROVE  CuttingInv'
<1> USE DEF CuttingInv
<1>1. UNCHANGED <<length, coarse>> /\ UNCHANGED fragmentVars /\ part # NULL /\ chcount' = chcount + 1
  BY DEF RefineCoarse
<1>2. part \in CoarseChunk /\ chcount \in Nat
  BY <1>1 DEF CuttingTypeOK
<1>3. part.lo \in Nat /\ part.hi \in Nat /\ part.l1num \in Nat
  BY <1>2 DEF CoarseChunk
<1>4. part.lo < part.hi /\ part.lo = FineEnd /\ <<part.l1num, chcount>> = FineNumber
  BY <1>1 DEF PartInv
<1>5. PartEnd = part.hi /\ PartNumber = part.l1num + 1
  BY <1>1 DEF PartEnd, PartNumber
<1>6. ASSUME PartEnd' = PartEnd, PartNumber' = PartNumber
      PROVE  CoarseTiles' /\ BufferInv'
  <2>1. CoarseTiles' /\ CoarseEnd' = CoarseEnd /\ CoarseNumber' = CoarseNumber
    BY <1>1, <1>6 DEF CoarseTiles, CoarseEnd, CoarseNumber
  <2> QED
    BY <1>1, <2>1, HeldStays
<1>7. PICK offset \in rabinseg(Length(part)) :
         LET at == part.lo + offset
         IN  IF at < part.hi
             THEN /\ fine' = Append(fine, FineChunk(part.lo, at, FALSE))
                  /\ part' = [part EXCEPT !.lo = at]
             ELSE /\ fine' = Append(fine, FineChunk(part.lo, part.hi, TRUE))
                  /\ part' = NULL
  BY DEF RefineCoarse
<1>8. offset \in Nat /\ offset > 0
  BY <1>3 DEF rabinseg, Length
<1>9. CASE part.lo + offset < part.hi
  <2> DEFINE at == part.lo + offset
             c  == FineChunk(part.lo, at, FALSE)
             p  == [part EXCEPT !.lo = at]
  <2>1. fine' = Append(fine, c) /\ part' = p
    BY <1>7, <1>9
  <2>2. at \in Nat /\ part.lo < at /\ at < part.hi
    BY <1>3, <1>8, <1>9
  <2> HIDE DEF at
  <2>3. c \in FineChunks /\ c.lo = part.lo /\ c.hi = at /\ c.l1num = part.l1num
        /\ c.l2num = chcount /\ c.isLastL2Chunk = FALSE
    BY <1>2, <1>3, <2>2 DEF FineChunk, FineChunks
  <2>4. p \in CoarseChunk /\ p.lo = at /\ p.hi = part.hi /\ p.l1num = part.l1num /\ p # NULL
    BY <1>2, <1>3, <2>2, NullIsNoChunk DEF CoarseChunk
  <2> HIDE DEF c, p
  <2>5. FragmentTilesInput' /\ fine' \in Seq(FineChunks) /\ FineEnd' = at /\ FineNumber' = Expected(c)
    <3>1. c.lo = FineEnd /\ c.lo < c.hi /\ <<c.l1num, c.l2num>> = FineNumber
      BY <1>4, <2>2, <2>3
    <3> QED
      BY <2>1, <2>3, <3>1, OneMoreFine
  <2>6. Expected(c) = <<part.l1num, chcount + 1>>
    BY <2>3 DEF Expected
  <2>7. PartInv'
    BY <1>1, <2>1, <2>2, <2>4, <2>5, <2>6 DEF PartInv
  <2>8. PartEnd' = PartEnd /\ PartNumber' = PartNumber
    BY <1>5, <2>1, <2>4 DEF PartEnd, PartNumber
  <2>9. CuttingTypeOK'
    BY <1>1, <1>2, <2>1, <2>4, <2>5 DEF CuttingTypeOK, fragmentVars
  <2> QED
    BY <1>6, <2>5, <2>7, <2>8, <2>9
<1>10. CASE ~(part.lo + offset < part.hi)
  <2> DEFINE c == FineChunk(part.lo, part.hi, TRUE)
  <2>1. fine' = Append(fine, c) /\ part' = NULL
    BY <1>7, <1>10
  <2>2. c \in FineChunks /\ c.lo = part.lo /\ c.hi = part.hi /\ c.l1num = part.l1num
        /\ c.l2num = chcount /\ c.isLastL2Chunk = TRUE
    BY <1>2, <1>3 DEF FineChunk, FineChunks
  <2> HIDE DEF c
  <2>3. FragmentTilesInput' /\ fine' \in Seq(FineChunks) /\ FineEnd' = part.hi /\ FineNumber' = Expected(c)
    <3>1. c.lo = FineEnd /\ c.lo < c.hi /\ <<c.l1num, c.l2num>> = FineNumber
      BY <1>4, <2>2
    <3> QED
      BY <2>1, <2>2, <3>1, OneMoreFine
  <2>4. Expected(c) = <<part.l1num + 1, 0>>
    BY <2>2 DEF Expected
  <2>5. PartInv'
    BY <2>1, <2>3, <2>4 DEF PartInv
  <2>6. PartEnd' = PartEnd /\ PartNumber' = PartNumber
    BY <1>5, <2>1, <2>3, <2>4 DEF PartEnd, PartNumber
  <2>7. CuttingTypeOK'
    BY <1>1, <1>2, <2>1, <2>3 DEF CuttingTypeOK, fragmentVars
  <2> QED
    BY <1>6, <2>3, <2>5, <2>6, <2>7
<1> QED
  BY <1>9, <1>10

LEMMA CuttingStaysPut ==
  ASSUME CuttingInv, UNCHANGED cuttingVars
  PROVE  CuttingInv'
<1>1. CuttingTypeOK'
  BY DEF CuttingInv, CuttingTypeOK, cuttingVars
<1>2. /\ PartEnd' = PartEnd /\ PartNumber' = PartNumber
      /\ PartInv' /\ FragmentTilesInput'
  BY RefinedStays DEF CuttingInv, cuttingVars
<1>3. CoarseTiles' /\ CoarseEnd' = CoarseEnd /\ CoarseNumber' = CoarseNumber
  BY <1>2 DEF CuttingInv, cuttingVars, CoarseTiles, CoarseEnd, CoarseNumber
<1>4. BufferInv'
  BY <1>3, HeldStays DEF CuttingInv, cuttingVars, fragmentVars
<1> QED
  BY <1>1, <1>2, <1>3, <1>4 DEF CuttingInv

LEMMA CuttingInvariance == CuttingSpec => []CuttingInv
<1>1. CuttingInv /\ [CuttingNext]_cuttingVars => CuttingInv'
  BY ReadKeeps, SplitKeeps, TakeCoarseKeeps, RefineCoarseKeeps, CuttingStaysPut
     DEF CuttingNext, CuttingDone
<1> QED
  BY CuttingInitInv, <1>1, PTL DEF CuttingSpec

\* Fragment and FragmentRefine together cut the input into fine chunks without
\* a gap or an overlap, numbered exactly as Reorder waits for them, for every
\* input length, buffer size and position of the anchors.
THEOREM ChunksTileInput == CuttingSpec => []FragmentTilesInput
BY CuttingInvariance, PTL DEF CuttingInv

\* Once both are done every byte of the file is in a chunk and the last chunk
\* closes its coarse chunk, also when the file ends within a block or before
\* the first anchor.
THEOREM NothingLeftOut == CuttingSpec => [](CuttingFinished => InputCut)
<1>1. CuttingInv /\ CuttingFinished => InputCut
  <2> SUFFICES ASSUME CuttingInv, CuttingFinished PROVE InputCut
    OBVIOUS
  <2>1. FineEnd = length /\ FineNumber[2] = 0
    BY DEF CuttingInv, CuttingFinished, BufferInv, PartInv, CoarseEnd, PartEnd
  <2>2. CASE fine = << >>
    BY <2>1, <2>2 DEF InputCut, FineEnd
  <2>3. CASE fine # << >>
    <3>1. Len(fine) \in 1..Len(fine) /\ fine[Len(fine)] \in FineChunks
      BY <2>3 DEF CuttingInv, CuttingTypeOK
    <3> DEFINE c == fine[Len(fine)]
    <3>2. c.lo < c.hi /\ c.lo \in Nat /\ c.hi \in Nat /\ c.l2num \in Nat /\ c.isLastL2Chunk \in BOOLEAN
      BY <3>1 DEF CuttingInv, FragmentTilesInput, FineChunks
    <3>3. c.hi = length /\ length # 0
      BY <2>1, <2>3, <3>2 DEF FineEnd
    <3>4. c.isLastL2Chunk
      BY <2>1, <2>3, <3>2 DEF FineNumber, Expected
    <3> QED
      BY <2>3, <3>3, <3>4 DEF InputCut
  <2> QED
    BY <2>2, <2>3
<1> QED
  BY CuttingInvariance, <1>1, PTL

(***************************************************************************)
(* The task version: an original is the chunk the hash table knows for its *)
(* content, so of two tasks with the same content only one keeps it.       *)
(***************************************************************************)
Records == [type : {"TYPE_COMPRESS", "TYPE_FINGERPRINT"}, content : TaskContents]

TaskTypeOK ==
  /\ spawned \in 0..Len(Input)
  /\ refine \in [Coarse -> {"none", "ready", "deduplicate", "compress", "done"}]
  /\ pos \in [Coarse -> Nat] /\ \A k \in Coarse : pos[k] \in DOMAIN Input[k]
  /\ cache \in [TaskContents -> Chunks \cup {None}]
  /\ dataRef \in [Chunks -> Chunks \cup {None}]
  /\ state \in [Chunks -> {"UNCOMPRESSED", "COMPRESSED"}]
  /\ written \in 0..Len(Input) /\ writing \in Nat
  /\ writing > 0 => written + 1 \in Coarse /\ writing \in DOMAIN Input[written + 1]
  /\ file \in Seq(Records)

\* FragmentRefine has deduplicated chunk c.
Handled(c) ==
  \/ refine[c[1]] = "done"
  \/ c[2] < pos[c[1]]
  \/ c[2] = pos[c[1]] /\ refine[c[1]] = "compress"

\* A task that has not started is at its first chunk; unspawned ones are last.
NotStarted ==
  \A k \in Coarse : /\ refine[k] \in {"none", "ready"} => pos[k] = 1
                    /\ k > spawned => refine[k] = "none"

\* The table knows a handled chunk of the content that has no reference, and
\* every handled chunk without a reference is the one the table knows.
TableInv ==
  /\ \A x \in TaskContents :
        cache[x] # None =>
           /\ Content(cache[x]) = x /\ Handled(cache[x])
           /\ dataRef[cache[x]] = None
  /\ \A c \in Chunks :
        IF Handled(c)
        THEN /\ cache[Content(c)] # None
             /\ dataRef[c] = None => cache[Content(c)] = c
        ELSE dataRef[c] = None

IsWritten(c) == c[1] <= written \/ (c[1] = written + 1 /\ c[2] < writing)

\* WriteOutput is at work only behind FragmentRefine.
WrittenDone ==
  /\ \A k \in Coarse : k <= written => refine[k] = "done"
  /\ writing > 0 => refine[written + 1] = "done"

\* Data in the file is that of a chunk the table knows and that is written.
DataOfOriginal ==
  \A i \in 1..Len(file) :
     file[i].type = "TYPE_COMPRESS" =>
        cache[file[i].content] # None /\ IsWritten(cache[file[i].content])

\* A written chunk without a reference has its data in the file.
WrittenStored ==
  \A c \in Chunks :
     IsWritten(c) /\ dataRef[c] = None =>
        \E i \in 1..Len(file) : file[i] = Data(Content(c))

TaskInv ==
  /\ TaskTypeOK /\ NotStarted /\ TableInv
  /\ WrittenDone /\ DataOfOriginal /\ WrittenStored /\ DataStoredOnce

LEMMA InputShape ==
  /\ Len(Input) \in Nat /\ Coarse = 1..Len(Input)
  /\ \A k \in Coarse : Len(Input[k]) \in Nat \ {0} /\ DOMAIN Input[k] = 1..Len(Input[k])
<1>1. ASSUME NEW S, NEW s \in Seq(S) PROVE Len(s) \in Nat /\ DOMAIN s = 1..Len(s)
  OBVIOUS
<1>2. Len(Input) \in Nat /\ DOMAIN Input = 1..Len(Input)
  BY ONLY OmpAssumption, <1>1 DEF OmpAssumption
<1>3. ASSUME NEW k \in DOMAIN Input
      PROVE  Len(Input[k]) > 0 /\ Len(Input[k]) \in Nat /\ DOMAIN Input[k] = 1..Len(Input[k])
  BY <1>1, OmpAssumption
<1> QED
  BY <1>2, <1>3 DEF Coarse

LEMMA ChunkShape ==
  /\ \A k \in Coarse : \A j \in DOMAIN Input[k] : <<k, j>> \in Chunks
  /\ \A c \in Chunks : c = <<c[1], c[2]>> /\ c[1] \in Coarse /\ c[2] \in DOMAIN Input[c[1]]
  /\ \A c \in Chunks : Content(c) \in TaskContents
BY DEF Chunks, TaskContents

LEMMA TaskInitInv == TaskInit => TaskInv
<1> SUFFICES ASSUME TaskInit PROVE TaskInv
  OBVIOUS
<1>1. TaskTypeOK
  BY InputShape DEF TaskInit, TaskTypeOK
<1>2. \A c \in Chunks : ~Handled(c)
  <2> SUFFICES ASSUME NEW c \in Chunks PROVE ~Handled(c)
    OBVIOUS
  <2>1. c[1] \in Coarse /\ c[2] \in Nat /\ c[2] >= 1
    BY ChunkShape, InputShape
  <2> QED
    BY <2>1 DEF Handled, TaskInit
<1>3. TableInv /\ NotStarted
  BY <1>2 DEF TaskInit, TableInv, NotStarted
<1>4. WrittenDone
  BY InputShape DEF TaskInit, WrittenDone
<1>5. DataOfOriginal /\ DataStoredOnce
  BY DEF TaskInit, DataOfOriginal, DataStoredOnce, StoredOnce
<1>6. WrittenStored
  <2> SUFFICES ASSUME NEW c \in Chunks PROVE ~IsWritten(c)
    BY DEF WrittenStored
  <2>1. c[1] \in Nat /\ c[1] >= 1 /\ c[2] \in Nat
    BY ChunkShape, InputShape
  <2> QED
    BY <2>1 DEF TaskInit, IsWritten
<1> QED
  BY <1>1, <1>3, <1>4, <1>5, <1>6 DEF TaskInv

\* A step that keeps the table and the file and handles no new chunk.
SameTable ==
  /\ UNCHANGED <<cache, dataRef>>
  /\ \A c \in Chunks : Handled(c)' <=> Handled(c)

LEMMA TableStays ==
  ASSUME TaskTypeOK, TableInv, SameTable
  PROVE  TableInv'
<1>1. \A x \in TaskContents : cache[x] # None => cache[x] \in Chunks
  BY DEF TaskTypeOK
<1>2. ASSUME NEW x \in TaskContents, cache'[x] # None
      PROVE  Content(cache'[x]) = x /\ Handled(cache[x])' /\ dataRef'[cache'[x]] = None
  BY <1>1, <1>2 DEF SameTable, TableInv
<1>3. ASSUME NEW c \in Chunks
      PROVE  IF Handled(c)'
             THEN /\ cache'[Content(c)] # None
                  /\ dataRef'[c] = None => cache'[Content(c)] = c
             ELSE dataRef'[c] = None
  BY DEF SameTable, TableInv
<1> QED
  BY <1>2, <1>3 DEF TableInv

LEMMA FragmentKeeps ==
  ASSUME TaskInv, Fragment
  PROVE  TaskInv'
<1> USE DEF TaskInv
<1>1. /\ spawned < Len(Input) /\ spawned' = spawned + 1
      /\ refine' = [refine EXCEPT ![spawned + 1] = "ready"]
      /\ UNCHANGED <<pos, cache, dataRef, state, written, writing, file>>
  BY DEF Fragment
<1>2. spawned + 1 \in Coarse /\ spawned \in Nat
  BY <1>1, InputShape DEF TaskTypeOK
<1>3. refine[spawned + 1] = "none" /\ pos[spawned + 1] = 1
  BY <1>2, InputShape DEF NotStarted
<1>4. \A k \in Coarse : refine'[k] = IF k = spawned + 1 THEN "ready" ELSE refine[k]
  BY <1>1, <1>2 DEF TaskTypeOK
<1>5. TaskTypeOK'
  BY <1>1, <1>2, InputShape DEF TaskTypeOK
<1>6. NotStarted'
  BY <1>1, <1>2, <1>3, <1>4, InputShape DEF NotStarted
<1>7. SameTable
  BY <1>1, <1>3, <1>4, ChunkShape DEF SameTable, Handled
<1>8. TableInv'
  BY <1>7, TableStays
<1>9. WrittenDone'
  BY <1>1, <1>3, <1>4 DEF WrittenDone, TaskTypeOK
<1>10. DataOfOriginal' /\ WrittenStored' /\ DataStoredOnce'
  BY <1>1 DEF DataOfOriginal, WrittenStored, IsWritten, DataStoredOnce
<1> QED
  BY <1>5, <1>6, <1>8, <1>9, <1>10

LEMMA StartRefineKeeps ==
  ASSUME TaskInv, NEW k \in Coarse, StartRefine(k)
  PROVE  TaskInv'
<1> USE DEF TaskInv
<1>1. /\ refine[k] = "ready" /\ refine' = [refine EXCEPT ![k] = "deduplicate"]
      /\ UNCHANGED <<spawned, pos, cache, dataRef, state, written, writing, file>>
  BY DEF StartRefine
<1>2. \A m \in Coarse : refine'[m] = IF m = k THEN "deduplicate" ELSE refine[m]
  BY <1>1 DEF TaskTypeOK
<1>3. TaskTypeOK'
  BY <1>1 DEF TaskTypeOK
<1>4. NotStarted'
  BY <1>1, <1>2 DEF NotStarted
<1>5. SameTable
  BY <1>1, <1>2, ChunkShape DEF SameTable, Handled
<1>6. TableInv'
  BY <1>5, TableStays
<1>7. WrittenDone'
  BY <1>1, <1>2 DEF WrittenDone, TaskTypeOK
<1>8. DataOfOriginal' /\ WrittenStored' /\ DataStoredOnce'
  BY <1>1 DEF DataOfOriginal, WrittenStored, IsWritten, DataStoredOnce
<1> QED
  BY <1>3, <1>4, <1>6, <1>7, <1>8

\* Compress goes on behind a chunk that has been deduplicated already.
LEMMA CompressKeeps ==
  ASSUME TaskInv, NEW k \in Coarse, Compress(k)
  PROVE  TaskInv'
<1> USE DEF TaskInv
<1>1. /\ refine[k] = "compress"
      /\ UNCHANGED <<spawned, cache, dataRef, written, writing, file>>
  BY DEF Compress
<1>2. <<k, pos[k]>> \in Chunks /\ pos[k] \in 1..Len(Input[k]) /\ Len(Input[k]) \in Nat
  BY ChunkShape, InputShape DEF TaskTypeOK
<1>3. state' \in [Chunks -> {"UNCOMPRESSED", "COMPRESSED"}]
  BY <1>2 DEF Compress, TaskTypeOK
<1>4. CASE pos[k] < Len(Input[k])
  <2>1. pos' = [pos EXCEPT ![k] = @ + 1] /\ refine' = [refine EXCEPT ![k] = "deduplicate"]
    BY <1>4 DEF Compress
  <2>2. \A m \in Coarse : /\ refine'[m] = IF m = k THEN "deduplicate" ELSE refine[m]
                          /\ pos'[m] = IF m = k THEN pos[k] + 1 ELSE pos[m]
    BY <2>1 DEF TaskTypeOK
  <2>3. pos[k] + 1 \in DOMAIN Input[k]
    BY <1>2, <1>4, InputShape
  <2>4. TaskTypeOK'
    <3>1. pos' \in [Coarse -> Nat] /\ refine' \in [Coarse -> {"none", "ready", "deduplicate", "compress", "done"}]
      BY <1>2, <2>1 DEF TaskTypeOK
    <3>2. \A m \in Coarse : pos'[m] \in DOMAIN Input[m]
      BY <2>2, <2>3 DEF TaskTypeOK
    <3> QED
      BY <1>1, <1>3, <3>1, <3>2 DEF TaskTypeOK
  <2>5. NotStarted'
    BY <1>1, <2>2 DEF NotStarted
  <2>6. SameTable
    <3>1. ASSUME NEW c \in Chunks PROVE Handled(c)' <=> Handled(c)
      <4>1. c[1] \in Coarse /\ c[2] \in Nat /\ pos[c[1]] \in Nat
        <5>1. c[1] \in Coarse /\ c[2] \in 1..Len(Input[c[1]])
          BY ChunkShape, InputShape
        <5> QED
          BY <5>1 DEF TaskTypeOK
      <4>2. CASE c[1] # k
        <5>1. refine'[c[1]] = refine[c[1]] /\ pos'[c[1]] = pos[c[1]]
          BY <2>2, <4>1, <4>2
        <5> QED
          BY <5>1 DEF Handled
      <4>3. CASE c[1] = k
        <5>1. refine'[k] = "deduplicate" /\ pos'[k] = pos[k] + 1
          BY <2>2
        <5>2. c[2] < pos[k] + 1 <=> c[2] < pos[k] \/ c[2] = pos[k]
          BY <4>1, <4>3
        <5> QED
          BY <1>1, <4>3, <5>1, <5>2 DEF Handled
      <4> QED
        BY <4>2, <4>3
    <3> QED
      BY <1>1, <3>1 DEF SameTable
  <2>7. TableInv'
    BY <2>6, TableStays
  <2>8. WrittenDone'
    BY <1>1, <2>2 DEF WrittenDone, TaskTypeOK
  <2>9. DataOfOriginal' /\ WrittenStored' /\ DataStoredOnce'
    BY <1>1 DEF DataOfOriginal, WrittenStored, IsWritten, DataStoredOnce
  <2> QED
    BY <2>4, <2>5, <2>7, <2>8, <2>9
<1>5. CASE ~(pos[k] < Len(Input[k]))
  <2>1. UNCHANGED pos /\ refine' = [refine EXCEPT ![k] = "done"]
    BY <1>5 DEF Compress
  <2>2. \A m \in Coarse : refine'[m] = IF m = k THEN "done" ELSE refine[m]
    BY <2>1 DEF TaskTypeOK
  <2>3. TaskTypeOK'
    BY <1>1, <1>3, <2>1 DEF TaskTypeOK
  <2>4. NotStarted'
    BY <1>1, <2>1, <2>2 DEF NotStarted
  <2>5. SameTable
    <3>1. ASSUME NEW c \in Chunks PROVE Handled(c)' <=> Handled(c)
      <4>1. c[1] \in Coarse /\ c[2] \in 1..Len(Input[c[1]])
        BY ChunkShape, InputShape
      <4>2. c[1] = k => c[2] <= pos[k]
        BY <1>2, <1>5, <4>1
      <4> QED
        BY <1>1, <1>2, <2>1, <2>2, <4>1, <4>2 DEF Handled
    <3> QED
      BY <1>1, <3>1 DEF SameTable
  <2>6. TableInv'
    BY <2>5, TableStays
  <2>7. WrittenDone'
    BY <1>1, <2>2 DEF WrittenDone, TaskTypeOK
  <2>8. DataOfOriginal' /\ WrittenStored' /\ DataStoredOnce'
    BY <1>1 DEF DataOfOriginal, WrittenStored, IsWritten, DataStoredOnce
  <2> QED
    BY <2>3, <2>4, <2>6, <2>7, <2>8
<1> QED
  BY <1>4, <1>5

\* One task at a time looks a content up and enters it.
LEMMA DeduplicateKeeps ==
  ASSUME TaskInv, NEW k \in Coarse, Deduplicate(k)
  PROVE  TaskInv'
<1> USE DEF TaskInv
<1> DEFINE c == <<k, pos[k]>>
           x == Content(c)
<1>1. /\ refine[k] = "deduplicate" /\ refine' = [refine EXCEPT ![k] = "compress"]
      /\ UNCHANGED <<spawned, pos, state, written, writing, file>>
  BY DEF Deduplicate
<1>2. c \in Chunks /\ x \in TaskContents /\ c # None /\ c[1] = k /\ c[2] = pos[k]
  BY ChunkShape, NoneIsNoTask DEF TaskTypeOK
<1>3. IF cache[x] = None
      THEN cache' = [cache EXCEPT ![x] = c] /\ UNCHANGED dataRef
      ELSE dataRef' = [dataRef EXCEPT ![c] = cache[x]] /\ UNCHANGED cache
  BY DEF Deduplicate
<1> HIDE DEF c, x
<1>4. \A m \in Coarse : refine'[m] = IF m = k THEN "compress" ELSE refine[m]
  BY <1>1 DEF TaskTypeOK
<1>5. \A d \in Chunks : Handled(d)' <=> Handled(d) \/ d = c
  <2>1. ASSUME NEW d \in Chunks PROVE Handled(d)' <=> Handled(d) \/ d = c
    <3>1. d = <<d[1], d[2]>> /\ d[1] \in Coarse
      BY ChunkShape
    <3>2. d = c <=> d[1] = k /\ d[2] = pos[k]
      BY <1>2, <3>1 DEF c
    <3> QED
      BY <1>1, <1>4, <3>1, <3>2 DEF Handled
  <2> QED
    BY <2>1
<1>6. cache' \in [TaskContents -> Chunks \cup {None}] /\ dataRef' \in [Chunks -> Chunks \cup {None}]
  BY <1>2, <1>3 DEF TaskTypeOK
<1>7. TaskTypeOK'
  BY <1>1, <1>6 DEF TaskTypeOK
<1>8. NotStarted'
  BY <1>1, <1>4 DEF NotStarted
<1>9. \A y \in TaskContents : cache[y] # None => cache'[y] = cache[y]
  BY <1>2, <1>3 DEF TaskTypeOK
<1>10. \A y \in TaskContents :
          cache'[y] # None => \/ cache'[y] = cache[y]
                              \/ y = x /\ cache'[y] = c /\ UNCHANGED dataRef
  BY <1>2, <1>3 DEF TaskTypeOK
<1>11. ~Handled(c) /\ dataRef[c] = None
  <2>1. ~Handled(c)
    BY <1>1, <1>2 DEF Handled, TaskTypeOK
  <2> QED
    BY <1>2, <2>1 DEF TableInv
<1>12. \A d \in Chunks : d # c => dataRef'[d] = dataRef[d]
  BY <1>2, <1>3 DEF TaskTypeOK
<1>13. \A y \in TaskContents :
          cache'[y] # None =>
             Content(cache'[y]) = y /\ Handled(cache[y])' /\ dataRef'[cache'[y]] = None
  <2> SUFFICES ASSUME NEW y \in TaskContents, cache'[y] # None
               PROVE  Content(cache'[y]) = y /\ Handled(cache[y])' /\ dataRef'[cache'[y]] = None
    OBVIOUS
  <2>1. cache'[y] \in Chunks
    BY <1>6
  <2>2. ASSUME NEW d \in Chunks, d = cache'[y], Handled(d)' PROVE Handled(cache[y])'
    BY <2>2
  <2>3. CASE cache'[y] = cache[y]
    <3>1. /\ Content(cache[y]) = y /\ Handled(cache[y]) /\ cache[y] \in Chunks
          /\ dataRef[cache[y]] = None
      BY <2>1, <2>3 DEF TableInv
    <3>2. cache[y] # c
      BY <1>11, <3>1
    <3> QED
      BY <1>5, <1>12, <2>2, <2>3, <3>1, <3>2
  <2>4. CASE y = x /\ cache'[y] = c /\ UNCHANGED dataRef
    BY <1>2, <1>5, <1>11, <2>2, <2>4 DEF x
  <2> QED
    BY <1>10, <2>3, <2>4
<1>14. \A d \in Chunks : IF Handled(d)'
                         THEN /\ cache'[Content(d)] # None
                              /\ dataRef'[d] = None => cache'[Content(d)] = d
                         ELSE dataRef'[d] = None
  <2> SUFFICES ASSUME NEW d \in Chunks
               PROVE  IF Handled(d)'
                      THEN /\ cache'[Content(d)] # None
                           /\ dataRef'[d] = None => cache'[Content(d)] = d
                      ELSE dataRef'[d] = None
    OBVIOUS
  <2>1. Content(d) \in TaskContents /\ d # None
    BY ChunkShape, NoneIsNoTask
  <2>2. CASE d = c
    <3>1. Handled(d)' /\ Content(d) = x
      BY <1>5, <2>2 DEF x
    <3>2. CASE cache[x] = None
      BY <1>2, <1>3, <2>2, <3>1, <3>2 DEF TaskTypeOK
    <3>3. CASE cache[x] # None
      BY <1>2, <1>3, <2>2, <3>1, <3>3 DEF TaskTypeOK
    <3> QED
      BY <3>2, <3>3
  <2>3. CASE d # c
    <3>1. dataRef'[d] = dataRef[d] /\ (Handled(d)' <=> Handled(d))
      BY <1>5, <1>12, <2>3
    <3>2. IF Handled(d)
          THEN /\ cache[Content(d)] # None
               /\ dataRef[d] = None => cache[Content(d)] = d
          ELSE dataRef[d] = None
      BY DEF TableInv
    <3> QED
      BY <1>9, <2>1, <3>1, <3>2
  <2> QED
    BY <2>2, <2>3
<1>15. TableInv'
  BY <1>13, <1>14 DEF TableInv
<1>16. WrittenDone'
  BY <1>1, <1>4 DEF WrittenDone, TaskTypeOK
<1>17. DataOfOriginal' /\ DataStoredOnce'
  <2>1. ASSUME NEW i \in 1..Len(file), file[i].type = "TYPE_COMPRESS"
        PROVE  cache'[file[i].content] = cache[file[i].content]
               /\ cache[file[i].content] # None /\ IsWritten(cache[file[i].content])
    <3>1. file[i] \in Records
      BY DEF TaskTypeOK
    <3>2. file[i].content \in TaskContents
      BY <3>1 DEF Records
    <3> QED
      BY <1>9, <2>1, <3>2 DEF DataOfOriginal
  <2>2. DataOfOriginal'
    BY <1>1, <2>1 DEF DataOfOriginal, IsWritten
  <2> QED
    BY <1>1, <2>2 DEF DataStoredOnce
<1>18. WrittenStored'
  <2>1. ASSUME NEW d \in Chunks, IsWritten(d), dataRef'[d] = None PROVE dataRef[d] = None
    BY <1>11, <1>12, <2>1
  <2> QED
    BY <1>1, <2>1 DEF WrittenStored, IsWritten
<1> QED
  BY <1>7, <1>8, <1>15, <1>16, <1>17, <1>18

LEMMA StartWriteKeeps ==
  ASSUME TaskInv, StartWrite
  PROVE  TaskInv'
<1> USE DEF TaskInv
<1>1. /\ writing = 0 /\ writing' = 1 /\ written + 1 \in Coarse /\ refine[written + 1] = "done"
      /\ UNCHANGED <<spawned, refine, pos, cache, dataRef, state, written, file>>
  BY DEF StartWrite, Refined, refineVars
<1>2. 1 \in DOMAIN Input[written + 1]
  BY <1>1, InputShape
<1>3. TaskTypeOK'
  BY <1>1, <1>2 DEF TaskTypeOK
<1>4. NotStarted' /\ WrittenDone'
  BY <1>1 DEF NotStarted, WrittenDone
<1>5. TableInv'
  BY <1>1, TableStays DEF SameTable, Handled
<1>6. \A c \in Chunks : IsWritten(c) => IsWritten(c)'
  <2>1. ASSUME NEW c \in Chunks, IsWritten(c) PROVE IsWritten(c)'
    <3>1. c[2] \in Nat
      BY ChunkShape, InputShape
    <3>2. written' = written /\ (writing = 0 => ~(c[2] < writing))
      BY <1>1, <3>1
    <3> QED
      BY <1>1, <2>1, <3>2 DEF IsWritten
  <2> QED
    BY <2>1
<1>7. DataOfOriginal'
  <2>1. ASSUME NEW i \in 1..Len(file), file[i].type = "TYPE_COMPRESS"
        PROVE  cache[file[i].content] # None /\ IsWritten(cache[file[i].content])'
    <3>1. file[i] \in Records
      BY DEF TaskTypeOK
    <3>2. file[i].content \in TaskContents
      BY <3>1 DEF Records
    <3>3. cache[file[i].content] # None /\ IsWritten(cache[file[i].content])
      BY <2>1 DEF DataOfOriginal
    <3>4. cache[file[i].content] \in Chunks
      BY <3>2, <3>3 DEF TaskTypeOK
    <3> DEFINE d == cache[file[i].content]
    <3>5. d' = d
      BY <1>1
    <3>6. ASSUME NEW e \in Chunks, e = d PROVE IsWritten(e)'
      BY <1>6, <3>3, <3>6
    <3> QED
      BY <3>3, <3>4, <3>5, <3>6 DEF IsWritten
  <2> QED
    BY <1>1, <2>1 DEF DataOfOriginal, IsWritten
<1>8. DataStoredOnce'
  BY <1>1 DEF DataStoredOnce
<1>9. WrittenStored'
  <2>1. ASSUME NEW c \in Chunks, IsWritten(c)' PROVE IsWritten(c)
    <3>1. c[2] \in Nat /\ c[2] >= 1
      BY ChunkShape, InputShape
    <3> QED
      BY <1>1, <2>1, <3>1 DEF IsWritten
  <2> QED
    BY <1>1, <2>1 DEF WrittenStored
<1> QED
  BY <1>3, <1>4, <1>5, <1>7, <1>8, <1>9

\* The record of the chunk WriteOutput is at is data only if the table knows
\* this very chunk, and then no record before it holds the same data.
LEMMA WriteOutputKeeps ==
  ASSUME TaskInv, WriteOutput
  PROVE  TaskInv'
<1> USE DEF TaskInv
<1> DEFINE c == <<written + 1, writing>>
           r == Record(c)
<1>1. /\ writing > 0 /\ file' = Append(file, r)
      /\ UNCHANGED <<spawned, refine, pos, cache, dataRef, state>>
  BY DEF WriteOutput, refineVars
<1>2. written + 1 \in Coarse /\ writing \in DOMAIN Input[written + 1] /\ refine[written + 1] = "done"
  BY <1>1 DEF TaskTypeOK, WrittenDone
<1>3. written \in Nat /\ writing \in 1..Len(Input[written + 1]) /\ Len(Input[written + 1]) \in Nat
  BY <1>2, InputShape DEF TaskTypeOK
<1>4. c \in Chunks /\ Content(c) \in TaskContents /\ Handled(c) /\ c[1] = written + 1 /\ c[2] = writing
  BY <1>2, ChunkShape DEF Handled
<1>5. ~IsWritten(c)
  BY <1>3, <1>4 DEF IsWritten
<1>6. r \in Records /\ (r.type = "TYPE_COMPRESS" => r = Data(Content(c)) /\ cache[Content(c)] = c)
  <2>1. CASE dataRef[c] = None
    <3>1. r = Data(Content(c)) /\ cache[Content(c)] = c
      BY <1>4, <2>1 DEF Record, isDuplicate, TableInv
    <3> QED
      BY <1>4, <3>1 DEF Data, Records
  <2>2. CASE dataRef[c] # None
    <3>1. dataRef[c] \in Chunks
      BY <1>4, <2>2 DEF TaskTypeOK
    <3>2. Content(dataRef[c]) \in TaskContents
      BY <3>1, ChunkShape
    <3>3. r = Fingerprint(Content(dataRef[c]))
      BY <2>2 DEF Record, isDuplicate
    <3> QED
      BY <3>2, <3>3 DEF Fingerprint, Records
  <2> QED
    BY <2>1, <2>2
<1>7. IF writing < Len(Input[written + 1])
      THEN writing' = writing + 1 /\ UNCHANGED written
      ELSE writing' = 0 /\ written' = written + 1
  BY DEF WriteOutput
<1> HIDE DEF c, r
<1>8. file \in Seq(Records) /\ Len(file) \in Nat
  BY DEF TaskTypeOK
<1>9. /\ file' \in Seq(Records) /\ Len(file') = Len(file) + 1 /\ file'[Len(file) + 1] = r
      /\ \A i \in 1..Len(file) : file'[i] = file[i]
  BY <1>1, <1>6, <1>8
<1>10. TaskTypeOK'
  <2>1. /\ written' \in 0..Len(Input) /\ writing' \in Nat
        /\ writing' > 0 => written' + 1 \in Coarse /\ writing' \in DOMAIN Input[written' + 1]
    BY <1>2, <1>3, <1>7, InputShape
  <2> QED
    BY <1>1, <1>9, <2>1 DEF TaskTypeOK
<1>11. NotStarted'
  BY <1>1 DEF NotStarted
<1>12. WrittenDone'
  <2>1. \A k \in Coarse : k <= written + 1 => refine[k] = "done"
    BY <1>2, <1>3, InputShape DEF WrittenDone
  <2>2. writing' > 0 => written' = written
    BY <1>7
  <2>3. \A k \in Coarse : k <= written' => k <= written + 1
    BY <1>3, <1>7, InputShape
  <2> QED
    BY <1>1, <1>2, <2>1, <2>2, <2>3 DEF WrittenDone
<1>13. TableInv'
  BY <1>1, TableStays DEF SameTable, Handled
<1>14. \A d \in Chunks : IsWritten(d) \/ d = c => IsWritten(d)'
  <2>1. ASSUME NEW d \in Chunks, IsWritten(d) \/ d = c PROVE IsWritten(d)'
    <3>1. d[1] \in Nat /\ d[2] \in Nat /\ (d[1] = written + 1 => d[2] <= Len(Input[written + 1]))
      BY ChunkShape, InputShape
    <3>2. d[1] <= written \/ (d[1] = written + 1 /\ d[2] <= writing)
      BY <1>3, <1>4, <2>1, <3>1 DEF IsWritten
    <3> QED
      BY <1>3, <1>7, <3>1, <3>2 DEF IsWritten
  <2> QED
    BY <2>1
<1>15. ASSUME NEW i \in 1..Len(file), file[i].type = "TYPE_COMPRESS"
       PROVE  /\ file[i].content \in TaskContents /\ cache[file[i].content] \in Chunks
              /\ cache[file[i].content] # None /\ IsWritten(cache[file[i].content])
  <2>1. file[i] \in Records
    BY <1>8
  <2>2. file[i].content \in TaskContents
    BY <2>1 DEF Records
  <2>3. cache[file[i].content] # None /\ IsWritten(cache[file[i].content])
    BY <1>15 DEF DataOfOriginal
  <2> QED
    BY <2>2, <2>3 DEF TaskTypeOK
<1>16. DataOfOriginal'
  <2>1. ASSUME NEW i \in 1..Len(file'), file'[i].type = "TYPE_COMPRESS"
        PROVE  \E d \in Chunks : d = cache[file'[i].content] /\ d # None /\ (IsWritten(d) \/ d = c)
    <3>1. CASE i \in 1..Len(file)
      BY <1>9, <1>15, <2>1, <3>1
    <3>2. CASE i = Len(file) + 1
      <4>1. file'[i] = Data(Content(c)) /\ cache[Content(c)] = c
        BY <1>6, <1>9, <2>1, <3>2
      <4>2. file'[i].content = Content(c)
        BY <4>1 DEF Data
      <4> QED
        BY <1>4, <4>1, <4>2, NoneIsNoTask
    <3> QED
      BY <1>8, <1>9, <2>1, <3>1, <3>2
  <2> QED
    BY <1>1, <2>1, <1>14 DEF DataOfOriginal, IsWritten
<1>17. DataStoredOnce'
  <2>1. ASSUME NEW i \in 1..Len(file), file[i].type = "TYPE_COMPRESS", file[i] = r PROVE FALSE
    <3>1. r = Data(Content(c)) /\ cache[Content(c)] = c
      BY <1>6, <2>1
    <3>2. file[i].content = Content(c)
      BY <2>1, <3>1 DEF Data
    <3> QED
      BY <1>5, <1>15, <2>1, <3>1, <3>2
  <2>2. ASSUME NEW i \in 1..Len(file'), NEW j \in 1..Len(file'),
               file'[i].type = "TYPE_COMPRESS", file'[i] = file'[j]
        PROVE  i = j
    <3>1. CASE i \in 1..Len(file) /\ j \in 1..Len(file)
      BY <1>9, <2>2, <3>1 DEF DataStoredOnce, StoredOnce
    <3>2. CASE i \in 1..Len(file) /\ j = Len(file) + 1
      BY <1>9, <2>1, <2>2, <3>2
    <3>3. CASE i = Len(file) + 1 /\ j \in 1..Len(file)
      BY <1>9, <2>1, <2>2, <3>3
    <3> QED
      BY <1>8, <1>9, <2>2, <3>1, <3>2, <3>3
  <2> QED
    BY <2>2 DEF DataStoredOnce, StoredOnce
<1>18. \A d \in Chunks : IsWritten(d)' => IsWritten(d) \/ d = c
  <2>1. ASSUME NEW d \in Chunks, IsWritten(d)' PROVE IsWritten(d) \/ d = c
    <3>1. d = <<d[1], d[2]>> /\ d[1] \in Nat /\ d[2] \in Nat /\ d[2] >= 1
          /\ (d[1] = written + 1 => d[2] <= Len(Input[written + 1]))
      BY ChunkShape, InputShape
    <3>2. d[1] <= written \/ (d[1] = written + 1 /\ d[2] <= writing)
      BY <1>3, <1>7, <2>1, <3>1 DEF IsWritten
    <3>3. d[1] = written + 1 /\ d[2] = writing => d = c
      BY <3>1 DEF c
    <3> QED
      BY <1>3, <3>1, <3>2, <3>3 DEF IsWritten
  <2> QED
    BY <2>1
<1>19. WrittenStored'
  <2>1. ASSUME NEW d \in Chunks, IsWritten(d)', dataRef[d] = None
        PROVE  \E i \in 1..Len(file') : file'[i] = Data(Content(d))
    <3>1. CASE IsWritten(d)
      <4>1. PICK i \in 1..Len(file) : file[i] = Data(Content(d))
        BY <2>1, <3>1 DEF WrittenStored
      <4> QED
        BY <1>8, <1>9, <4>1
    <3>2. CASE d = c
      <4>1. r = Data(Content(c))
        BY <2>1, <3>2 DEF r, c, Record, isDuplicate
      <4> QED
        BY <1>8, <1>9, <3>2, <4>1
    <3> QED
      BY <1>18, <2>1, <3>1, <3>2
  <2> QED
    BY <1>1, <2>1 DEF WrittenStored
<1> QED
  BY <1>10, <1>11, <1>12, <1>13, <1>16, <1>17, <1>19

LEMMA TasksStayPut ==
  ASSUME TaskInv, UNCHANGED taskVars
  PROVE  TaskInv'
<1>1. UNCHANGED <<spawned, refine, pos, cache, dataRef, state, written, writing, file>>
  BY DEF taskVars
<1>2. TaskTypeOK'
  BY <1>1 DEF TaskInv, TaskTypeOK
<1>3. TableInv'
  BY <1>1, TableStays DEF TaskInv, SameTable, Handled
<1>4. NotStarted' /\ WrittenDone' /\ DataStoredOnce'
  BY <1>1 DEF TaskInv, NotStarted, WrittenDone, DataStoredOnce
<1>5. DataOfOriginal' /\ WrittenStored'
  BY <1>1 DEF TaskInv, DataOfOriginal, WrittenStored, IsWritten
<1> QED
  BY <1>2, <1>3, <1>4, <1>5 DEF TaskInv

LEMMA TaskInvariance == TaskSpec => []TaskInv
<1>1. TaskInv /\ [TaskNext]_taskVars => TaskInv'
  BY FragmentKeeps, StartRefineKeeps, DeduplicateKeeps, CompressKeeps, StartWriteKeeps,
     WriteOutputKeeps, TasksStayPut DEF TaskNext, RefineTask, WriteTask, Taskwait
<1> QED
  BY TaskInitInv, <1>1, PTL DEF TaskSpec

\* Of any number of tasks that meet the same content at the same time only one
\* keeps it as an original: its data is in the file at most once, whatever the
\* order the tasks run in.
THEOREM TasksStoreDataOnce == TaskSpec => []DataStoredOnce
BY TaskInvariance, PTL DEF TaskInv

\* When the parallel region ends the data of every content of the input is in
\* the file: no task has left a chunk to another one that did not write it.
THEOREM TasksStoreAllData == TaskSpec => [](AllWritten => AllStored)
<1>1. TaskInv /\ AllWritten => AllStored
  <2> SUFFICES ASSUME TaskInv, AllWritten, NEW x \in TaskContents
               PROVE  \E i \in DOMAIN file : file[i] = Data(x)
    BY DEF AllStored
  <2>1. \A c \in Chunks : Handled(c) /\ IsWritten(c)
    BY ChunkShape, InputShape DEF TaskInv, AllWritten, WrittenDone, Handled, IsWritten
  <2>2. PICK c \in Chunks : Content(c) = x
    BY DEF TaskContents
  <2>3. cache[x] # None
    BY <2>1, <2>2 DEF TaskInv, TableInv
  <2>4. cache[x] \in Chunks /\ Content(cache[x]) = x /\ dataRef[cache[x]] = None
    BY <2>3 DEF TaskInv, TableInv, TaskTypeOK
  <2>5. \E i \in 1..Len(file) : file[i] = Data(x)
    BY <2>1, <2>4 DEF TaskInv, WrittenStored
  <2>6. DOMAIN file = 1..Len(file)
    BY DEF TaskInv, TaskTypeOK
  <2> QED
    BY <2>5, <2>6
<1> QED
  BY TaskInvariance, <1>1, PTL

\* The contents of the input in its order, and how many are before each of its
\* coarse chunks.
Whole == FlattenSeq(Input)
InOrder(b) ==
  /\ Offsets(b, Input) /\ Len(Whole) = b[Len(Input) + 1]
  /\ EndToEnd(Whole, b, Input, Len(Input))
Starts == CHOOSE b : InOrder(b)

LEMMA WholeInput == Whole \in Seq(TaskContents) /\ InOrder(Starts)
<1>1. ASSUME NEW k \in Coarse PROVE Input[k] \in Seq(TaskContents)
  <2>1. PICK s : s = Input[k]
    OBVIOUS
  <2>2. s \in Seq({s[j] : j \in DOMAIN s})
    BY <1>1, <2>1, OmpAssumption DEF Coarse
  <2>3. \A j \in DOMAIN s : s[j] \in TaskContents
    <3> SUFFICES ASSUME NEW j \in DOMAIN s PROVE s[j] \in TaskContents
      OBVIOUS
    <3>1. <<k, j>> \in Chunks /\ Content(<<k, j>>) = s[j]
      BY <2>1, ChunkShape DEF Content
    <3> QED BY <3>1, ChunkShape
  <2>4. s \in Seq(TaskContents)
    BY <2>2, <2>3
  <2> QED BY <2>1, <2>4
<1>2. PICK l \in Nat : l = Len(Input) /\ Coarse = 1..l
  BY InputShape
<1>3. Input = [k \in 1..l |-> Input[k]]
  BY <1>2, OmpAssumption DEF Coarse
<1>4. Input \in Seq(Seq(TaskContents))
  <2>1. PICK S : S = Input
    OBVIOUS
  <2>2. S = [k \in 1..l |-> S[k]] /\ \A k \in 1..l : S[k] \in Seq(TaskContents)
    BY <1>1, <1>2, <1>3, <2>1
  <2>3. S \in Seq(Seq(TaskContents))
    BY <2>2
  <2> QED BY <2>1, <2>3
<1>5. Whole \in Seq(TaskContents) /\ \E b : InOrder(b)
  BY <1>4, Flattened DEF Whole, InOrder
<1> QED BY <1>5 DEF Starts

\* The file ends where WriteOutput is, and has what the input has; a reference
\* is to a chunk of the same content.
FileInOrder ==
  /\ Len(file) = Starts[written + 1] + (IF writing = 0 THEN 0 ELSE writing - 1)
  /\ \A i \in 1..Len(file) : i \in 1..Len(Whole) /\ file[i].content = Whole[i]
  /\ \A c \in Chunks : dataRef[c] # None => Content(dataRef[c]) = Content(c)

LEMMA InitInOrder == TaskInit => FileInOrder
<1>1. Starts[1] = 0
  BY WholeInput DEF InOrder, Offsets
<1> QED BY <1>1 DEF TaskInit, FileInOrder

\* What is written is the next content of the input.
LEMMA NextContent ==
  ASSUME TaskInv, FileInOrder, WriteOutput
  PROVE  /\ Len(file) + 1 \in 1..Len(Whole)
         /\ \E r \in Records : file' = Append(file, r) /\ r.content = Whole[Len(file) + 1]
<1> DEFINE c == <<written + 1, writing>>
<1>1. /\ writing > 0 /\ file' = Append(file, Record(c))
      /\ UNCHANGED <<spawned, refine, pos, cache, dataRef, state>>
  BY DEF WriteOutput, refineVars
<1>2. written + 1 \in Coarse /\ writing \in DOMAIN Input[written + 1]
  BY <1>1 DEF TaskInv, TaskTypeOK
<1>3. /\ writing \in 1..Len(Input[written + 1]) /\ Len(Input[written + 1]) \in Nat
      /\ written + 1 \in 1..Len(Input) /\ writing \in Nat /\ writing # 0
  BY <1>1, <1>2, InputShape
<1>4. c \in Chunks /\ Content(c) = Input[written + 1][writing]
  BY <1>2, ChunkShape DEF Content
<1>5. Record(c) \in Records /\ Record(c).content = Content(c)
  <2>1. CASE dataRef[c] = None
    <3>1. Record(c) = Data(Content(c)) /\ Content(c) \in TaskContents
      BY <1>4, <2>1, ChunkShape DEF Record, isDuplicate
    <3> QED BY <3>1 DEF Data, Records
  <2>2. CASE dataRef[c] # None
    <3>1. dataRef[c] \in Chunks /\ Content(dataRef[c]) = Content(c)
      BY <1>4, <2>2 DEF TaskInv, TaskTypeOK, FileInOrder
    <3>2. Record(c) = Fingerprint(Content(c)) /\ Content(c) \in TaskContents
      BY <1>4, <2>2, <3>1, ChunkShape DEF Record, isDuplicate
    <3> QED BY <3>2 DEF Fingerprint, Records
  <2> QED BY <2>1, <2>2
<1> HIDE DEF c
<1>6. /\ Starts[written + 1] + writing \in 1..Len(Whole)
      /\ Whole[Starts[written + 1] + writing] = Input[written + 1][writing]
  BY <1>3, WholeInput DEF InOrder, EndToEnd
<1>7. Len(file) + 1 = Starts[written + 1] + writing
  <2>1. Starts[written + 1] \in Nat /\ Len(file) = Starts[written + 1] + (writing - 1)
    BY <1>3, WholeInput DEF InOrder, Offsets, FileInOrder
  <2> QED BY <1>3, <2>1
<1> QED BY <1>1, <1>4, <1>5, <1>6, <1>7

LEMMA InOrderStep ==
  ASSUME TaskInv, FileInOrder, [TaskNext]_taskVars
  PROVE  FileInOrder'
<1>1. ASSUME UNCHANGED <<file, written, writing, dataRef>> PROVE FileInOrder'
  BY <1>1 DEF FileInOrder
<1>2. CASE Fragment
  BY <1>1, <1>2 DEF Fragment
<1>3. ASSUME NEW k \in Coarse, StartRefine(k) \/ Compress(k) PROVE FileInOrder'
  BY <1>1, <1>3 DEF StartRefine, Compress
<1>4. ASSUME NEW k \in Coarse, Deduplicate(k) PROVE FileInOrder'
  <2>1. PICK c : c = <<k, pos[k]>>
    OBVIOUS
  <2>2. /\ UNCHANGED <<file, written, writing>>
        /\ \/ dataRef' = dataRef
           \/ cache[Content(c)] # None /\ dataRef' = [dataRef EXCEPT ![c] = cache[Content(c)]]
    BY <1>4, <2>1 DEF Deduplicate
  <2>3. c \in Chunks /\ Content(c) \in TaskContents /\ DOMAIN dataRef = Chunks
    BY <2>1, ChunkShape DEF TaskInv, TaskTypeOK
  <2>4. ASSUME NEW d \in Chunks, dataRef'[d] # None PROVE Content(dataRef'[d]) = Content(d)
    <3>1. CASE dataRef'[d] = dataRef[d]
      BY <2>4, <3>1 DEF FileInOrder
    <3>2. CASE dataRef'[d] # dataRef[d]
      <4>1. d = c /\ dataRef'[d] = cache[Content(c)] /\ cache[Content(c)] # None
        BY <2>2, <2>3, <3>2
      <4>2. Content(cache[Content(c)]) = Content(c)
        BY <2>3, <4>1 DEF TaskInv, TableInv
      <4> QED BY <4>1, <4>2
    <3> QED BY <3>1, <3>2
  <2> QED BY <2>2, <2>4 DEF FileInOrder
<1>5. CASE StartWrite
  BY <1>5 DEF StartWrite, FileInOrder
<1>6. CASE WriteOutput
  <2>1. PICK r \in Records : file' = Append(file, r) /\ r.content = Whole[Len(file) + 1]
    BY <1>6, NextContent
  <2>2. file \in Seq(Records) /\ Len(file) + 1 \in 1..Len(Whole)
    BY <1>6, NextContent DEF TaskInv, TaskTypeOK
  <2>3. /\ Len(file) \in Nat /\ Len(file') = Len(file) + 1 /\ file'[Len(file) + 1] = r
        /\ \A i \in 1..Len(file) : file'[i] = file[i]
    BY <2>1, <2>2
  <2>4. \A i \in 1..Len(file') : i \in 1..Len(Whole) /\ file'[i].content = Whole[i]
    <3>1. \A i \in 1..Len(file') : i \in 1..Len(file) \/ i = Len(file) + 1
      BY <2>3
    <3> QED BY <2>1, <2>2, <2>3, <3>1 DEF FileInOrder
  <2>5. Len(file') = Starts[written' + 1] + (IF writing' = 0 THEN 0 ELSE writing' - 1)
    <3>1. /\ writing > 0 /\ written + 1 \in Coarse /\ writing \in DOMAIN Input[written + 1]
          /\ written \in Nat
      BY <1>6 DEF TaskInv, TaskTypeOK, WriteOutput
    <3>2. /\ written + 1 \in 1..Len(Input) /\ writing \in 1..Len(Input[written + 1])
          /\ Len(Input[written + 1]) \in Nat /\ writing \in Nat /\ Len(Input) \in Nat
      BY <3>1, InputShape
    <3>3. /\ Starts[written + 1] \in Nat
          /\ Starts[(written + 1) + 1] = Starts[written + 1] + Len(Input[written + 1])
      <4>1. Offsets(Starts, Input) /\ written + 1 \in 1..Len(Input) + 1
        BY <3>2, WholeInput DEF InOrder
      <4> QED BY <3>2, <4>1 DEF Offsets
    <3>4. Len(file) + 1 = Starts[written + 1] + writing
      <4>1. Len(file) = Starts[written + 1] + (writing - 1)
        BY <3>1, <3>2 DEF FileInOrder
      <4> QED BY <3>2, <3>3, <4>1
    <3>5. IF writing < Len(Input[written + 1])
            THEN writing' = writing + 1 /\ written' = written
            ELSE writing' = 0 /\ written' = written + 1
      BY <1>6 DEF WriteOutput
    <3>6. CASE writing < Len(Input[written + 1])
      <4>1. writing' = writing + 1 /\ written' = written /\ writing' # 0
        BY <3>2, <3>5, <3>6
      <4>2. Len(file') = Starts[written + 1] + writing
        BY <2>3, <3>4
      <4>3. writing' - 1 = writing
        BY <3>2, <4>1
      <4> QED BY <4>1, <4>2, <4>3
    <3>7. CASE ~(writing < Len(Input[written + 1]))
      <4>1. writing = Len(Input[written + 1])
        BY <3>2, <3>7
      <4>2. writing' = 0 /\ written' = written + 1
        BY <3>5, <3>7
      <4>3. Len(file') = Starts[(written + 1) + 1]
        BY <2>3, <3>3, <3>4, <4>1
      <4>4. Starts[written' + 1] \in Nat /\ Starts[written' + 1] = Len(file')
        BY <2>3, <4>2, <4>3
      <4> QED BY <4>2, <4>4
    <3> QED BY <3>6, <3>7
  <2>6. dataRef' = dataRef
    BY <1>6 DEF WriteOutput
  <2> QED BY <2>4, <2>5, <2>6 DEF FileInOrder
<1>7. CASE UNCHANGED taskVars
  BY <1>1, <1>7 DEF taskVars
<1> QED BY <1>2, <1>3, <1>4, <1>5, <1>6, <1>7 DEF TaskNext, RefineTask, WriteTask, Taskwait

\* The task version implements the archive: whatever the order in which the
\* FragmentRefine tasks end, the contents come out in the order of the input,
\* each once and one after the other.
THEOREM TasksKeepOrder == TaskSpec => OrderKept
<1> DEFINE restored == [i \in DOMAIN file |-> file[i].content]
<1>1. TaskInit => Order!Init
  BY DEF TaskInit, Order!Init
<1>2. TaskInv /\ FileInOrder /\ [TaskNext]_taskVars => [Order!Next]_restored
  <2> SUFFICES ASSUME TaskInv, FileInOrder, [TaskNext]_taskVars
               PROVE  Order!Restore \/ restored' = restored
    BY DEF Order!Next
  <2>1. CASE WriteOutput
    <3>1. PICK r \in Records : file' = Append(file, r) /\ r.content = Whole[Len(file) + 1]
      BY <2>1, NextContent
    <3>2. file \in Seq(Records) /\ Len(file) + 1 \in 1..Len(Whole)
      BY <2>1, NextContent DEF TaskInv, TaskTypeOK
    <3>3. Len(Whole) \in Nat /\ Len(file) \in Nat
      BY <3>2, WholeInput
    <3>4. Len(restored) = Len(file)
      BY <3>2
    <3>5. restored' = Append(restored, r.content)
      BY <3>1, <3>2
    <3>6. Len(restored) < Len(Whole) /\ restored' = Append(restored, Whole[Len(restored) + 1])
      <4> HIDE DEF restored
      <4> QED BY <3>1, <3>2, <3>3, <3>4, <3>5
    <3> QED BY <3>6 DEF Order!Restore, Whole
  <2>2. CASE file' = file
    BY <2>2
  <2>3. WriteOutput \/ file' = file
    BY DEF TaskNext, RefineTask, WriteTask, Taskwait, taskVars, Fragment, StartRefine,
           Deduplicate, Compress, StartWrite
  <2> QED BY <2>1, <2>2, <2>3
<1>3. FileInOrder /\ TaskInv /\ [TaskNext]_taskVars => FileInOrder'
  BY InOrderStep
<1> QED
  BY <1>1, <1>2, <1>3, InitInOrder, TaskInvariance, PTL DEF TaskSpec, OrderKept, Order!Spec
=============================================================================
