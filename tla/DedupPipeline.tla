---------------------------- MODULE DedupPipeline ----------------------------
(***************************************************************************)
(* The pthreads version of dedup's encoder (dedup/src/encoder.c):          *)
(*                                                                         *)
(*   Fragment -> FragmentRefine -> Deduplicate -> Compress -> Reorder      *)
(*                                       \---------------------^           *)
(*                                                                         *)
(* Fragment and Reorder are single threads, the other stages are pools of  *)
(* nthreads threads.  The threads of a pool are split over nqueues queue   *)
(* sets, at most MAX_THREADS_PER_QUEUE threads each.  One call of          *)
(* queue_enqueue, queue_dequeue or queue_terminate, one sub_Deduplicate    *)
(* (under its hash bucket lock), one sub_Compress and one                  *)
(* write_chunk_to_file (under the chunk lock) is one step.  A call that    *)
(* has to wait is disabled: module DedupQueue shows that the condition     *)
(* variables of queue.c wake whoever can go on.                            *)
(*                                                                         *)
(* A fine-grained chunk is named by its two-level sequence number; the     *)
(* input says what content each has, so cutting it into chunks (Rabin      *)
(* fingerprints, mbuffer_split) is abstracted to reading the input.        *)
(***************************************************************************)
EXTENDS Integers, Sequences, FiniteSets, SequencesExt, DedupFormat

CONSTANTS Input,              \* coarse chunks; each a sequence of contents
          NThreads,           \* conf->nthreads
          MaxThreadsPerQueue, \* MAX_THREADS_PER_QUEUE
          QueueSize,          \* QUEUE_SIZE
          PerFetch,           \* ITEM_PER_FETCH, CHUNK_ANCHOR_PER_FETCH
          CoarsePerFetch,     \* MAX_PER_FETCH
          PerInsert,          \* ITEM_PER_INSERT, CHUNK_ANCHOR_PER_INSERT
          AnchorsInit,        \* initial chunks_per_anchor_max
          None

ASSUME PipelineAssumption ==
  /\ Input \in Seq({Input[i] : i \in DOMAIN Input})
  /\ \A i \in DOMAIN Input :
       Len(Input[i]) > 0 /\ Input[i] \in Seq({Input[i][j] : j \in DOMAIN Input[i]})
  /\ {NThreads, MaxThreadsPerQueue, QueueSize, PerFetch, CoarsePerFetch,
      PerInsert, AnchorsInit} \subseteq Nat \ {0}

Tids    == 0..(NThreads - 1)
NQueues == (NThreads \div MaxThreadsPerQueue)
             + (IF NThreads % MaxThreadsPerQueue # 0 THEN 1 ELSE 0)
Qids    == 0..(NQueues - 1)
Pools   == {"refine", "deduplicate", "compress"}      \* the thread pools
Queues  == Pools \cup {"reorder"}                     \* named by their reader

QidOf(tid) == tid \div MaxThreadsPerQueue

\* The queues a pool's threads send to, in the order they are drained.
Outputs(pool) == CASE pool = "refine"      -> <<"deduplicate">>
                   [] pool = "deduplicate" -> <<"compress", "reorder">>
                   [] pool = "compress"    -> <<"reorder">>

\* The queue a thread terminates when it returns.
Terminates(pool) == Outputs(pool)[1]

FetchLimit(pool) == IF pool = "refine" THEN CoarsePerFetch ELSE PerFetch

ThreadsPerQueue(q) ==
  IF q < NQueues - 1 \/ NThreads % MaxThreadsPerQueue = 0
  THEN MaxThreadsPerQueue ELSE NThreads % MaxThreadsPerQueue

\* Faulty variant: every queue initialised for a single producer.
OneProducer(queue, q) == 1

\* The nProducers that Encode passes to queue_init.
NProducers(queue, q) == IF queue = "refine" THEN 1 ELSE ThreadsPerQueue(q)

Chunks == UNION {{[l1 |-> i - 1, l2 |-> j - 1] : j \in DOMAIN Input[i]}
                   : i \in DOMAIN Input}

ASSUME NoneIsNoChunk == None \notin Chunks

Content(c)       == Input[c.l1 + 1][c.l2 + 1]
Contents         == {Content(c) : c \in Chunks}
isLastL2Chunk(c) == c.l2 + 1 = Len(Input[c.l1 + 1])

sequence_lt(a, b) == a.l1 < b.l1 \/ (a.l1 = b.l1 /\ a.l2 < b.l2)

Prefix(s, n) == SubSeq(s, 1, n)
Rest(s, n)   == SubSeq(s, n + 1, Len(s))
Lesser(a, b) == IF a <= b THEN a ELSE b

-----------------------------------------------------------------------------
VARIABLES que,     \* contents of every queue, oldest first
          closed,  \* nTerminated of every queue
          frag,    \* Fragment: coarse chunks sent, next queue, queues closed
          thread,  \* a pool thread: receive buffer, send buffers, phase and,
                   \* in FragmentRefine, the position in the coarse chunk
          cache,   \* the hash table: per content the original chunk
          ref,     \* per chunk: compressed_data_ref, None for an original
          state,   \* per chunk: header.state
          reorder, \* Reorder's local variables
          file     \* the output file

vars == <<que, closed, frag, thread, cache, ref, state, reorder, file>>

isDuplicate(c) == ref[c] # None

queue_isTerminated(queue, q) == closed[queue][q] = NProducers(queue, q)

InitThread(pool) ==
  [recv |-> << >>, send |-> [o \in Queues |-> << >>], phase |-> "loop", l2 |-> 0]

Init ==
  /\ que = [n \in Queues |-> [q \in Qids |-> << >>]]
  /\ closed = [n \in Queues |-> [q \in Qids |-> 0]]
  /\ frag = [sent |-> 0, qid |-> 0, closed |-> 0]
  /\ thread = [p \in Pools |-> [t \in Tids |-> InitThread(p)]]
  /\ cache = [x \in Contents |-> None]
  /\ ref = [c \in Chunks |-> None]
  /\ state = [c \in Chunks |-> "UNCOMPRESSED"]
  /\ reorder = [pc |-> "receive", recv |-> << >>, qid |-> 0, ended |-> 0,
                chunk |-> None, next |-> [l1 |-> 0, l2 |-> 0],
                perAnchor |-> [a \in 0..(AnchorsInit - 1) |-> 0],
                tree |-> {}]
  /\ file = << >>

(* queue_enqueue: wait for room, then move what fits. *)
enqueue(queue, q, items) ==
  /\ Len(que[queue][q]) < QueueSize
  /\ que' = [que EXCEPT ![queue][q] =
               @ \o Prefix(items, Lesser(Len(items), QueueSize - Len(@)))]

\* What enqueue leaves in the send buffer.
notEnqueued(queue, q, items) == Rest(items, QueueSize - Len(que[queue][q]))

queue_terminate(queue, q) == closed' = [closed EXCEPT ![queue][q] = @ + 1]

-----------------------------------------------------------------------------
(* Fragment sends one coarse chunk at a time, to the queues in turn. *)
FragmentSend ==
  /\ frag.sent < Len(Input)
  /\ enqueue("refine", frag.qid, <<frag.sent>>)
  /\ frag' = [frag EXCEPT !.sent = @ + 1, !.qid = (@ + 1) % NQueues]
  /\ UNCHANGED <<closed, thread, cache, ref, state, reorder, file>>

FragmentTerminate ==
  /\ frag.sent = Len(Input)
  /\ frag.closed < NQueues
  /\ queue_terminate("refine", frag.closed)
  /\ frag' = [frag EXCEPT !.closed = @ + 1]
  /\ UNCHANGED <<que, thread, cache, ref, state, reorder, file>>

-----------------------------------------------------------------------------
(* The loop the threads of the three pools have in common. *)

\* A send buffer is passed on when it is full and, at the end, until it is
\* empty, one output after the other.
MustSend(pool, t, o) ==
  LET send == thread[pool][t].send
  IN  \/ Len(send[o]) = PerInsert
      \/ /\ thread[pool][t].phase = "drain"
         /\ send[o] # << >>
         /\ o = "compress" \/ send["compress"] = << >>

Ready(pool, t) ==
  /\ thread[pool][t].phase = "loop"
  /\ \A o \in Queues : ~MustSend(pool, t, o)

Fetch(pool, t) ==
  LET q == QidOf(t)
      n == Lesser(FetchLimit(pool), Len(que[pool][q]))
  IN  /\ Ready(pool, t)
      /\ thread[pool][t].recv = << >>
      /\ que[pool][q] # << >>
      /\ thread' = [thread EXCEPT ![pool][t].recv = Prefix(que[pool][q], n)]
      /\ que' = [que EXCEPT ![pool][q] = Rest(@, n)]
      /\ UNCHANGED <<closed, frag, cache, ref, state, reorder, file>>

(* queue_dequeue returns -1. *)
EndOfInput(pool, t) ==
  LET q == QidOf(t)
  IN  /\ Ready(pool, t)
      /\ thread[pool][t].recv = << >>
      /\ que[pool][q] = << >>
      /\ queue_isTerminated(pool, q)
      /\ thread' = [thread EXCEPT ![pool][t].phase = "drain"]
      /\ UNCHANGED <<que, closed, frag, cache, ref, state, reorder, file>>

Send(pool, t, o) ==
  LET q == QidOf(t)
  IN  /\ MustSend(pool, t, o)
      /\ enqueue(o, q, thread[pool][t].send[o])
      /\ thread' = [thread EXCEPT ![pool][t].send[o] = notEnqueued(o, q, @)]
      /\ UNCHANGED <<closed, frag, cache, ref, state, reorder, file>>

(* Faulty variant: return although a send buffer still holds chunks. *)
ShutdownUndrained(pool, t) ==
  /\ thread[pool][t].phase = "drain"
  /\ queue_terminate(Terminates(pool), QidOf(t))
  /\ thread' = [thread EXCEPT ![pool][t].phase = "done"]
  /\ UNCHANGED <<que, frag, cache, ref, state, reorder, file>>

Shutdown(pool, t) ==
  /\ thread[pool][t].phase = "drain"
  /\ \A o \in Queues : thread[pool][t].send[o] = << >>
  /\ queue_terminate(Terminates(pool), QidOf(t))
  /\ thread' = [thread EXCEPT ![pool][t].phase = "done"]
  /\ UNCHANGED <<que, frag, cache, ref, state, reorder, file>>

-----------------------------------------------------------------------------
(* FragmentRefine cuts the next fine chunk off its coarse chunk. *)
FragmentRefine(t) ==
  LET me == thread["refine"][t]
      c  == [l1 |-> Head(me.recv), l2 |-> me.l2]
  IN  /\ Ready("refine", t)
      /\ me.recv # << >>
      /\ thread' = [thread EXCEPT !["refine"][t] =
                      [me EXCEPT !.send["deduplicate"] = Append(@, c),
                                 !.recv = IF isLastL2Chunk(c) THEN Tail(@) ELSE @,
                                 !.l2   = IF isLastL2Chunk(c) THEN 0 ELSE @ + 1]]
      /\ UNCHANGED <<que, closed, frag, cache, ref, state, reorder, file>>

(* sub_Deduplicate and the routing of its result: an original goes to the  *)
(* compression stage, a duplicate straight to the reorder stage.           *)
Deduplicate(t) ==
  LET me == thread["deduplicate"][t]
      c  == Head(me.recv)
      x  == Content(c)
  IN  /\ Ready("deduplicate", t)
      /\ me.recv # << >>
      /\ IF cache[x] = None
         THEN /\ cache' = [cache EXCEPT ![x] = c]
              /\ UNCHANGED ref
         ELSE /\ ref' = [ref EXCEPT ![c] = cache[x]]
              /\ UNCHANGED cache
      /\ LET o == IF cache[x] = None THEN "compress" ELSE "reorder"
         IN  thread' = [thread EXCEPT !["deduplicate"][t] =
                          [me EXCEPT !.recv = Tail(@), !.send[o] = Append(@, c)]]
      /\ UNCHANGED <<que, closed, frag, state, reorder, file>>

(* sub_Compress, then into the send buffer. *)
Compress(t) ==
  LET me == thread["compress"][t]
      c  == Head(me.recv)
  IN  /\ Ready("compress", t)
      /\ me.recv # << >>
      /\ state' = [state EXCEPT ![c] = "COMPRESSED"]
      /\ thread' = [thread EXCEPT !["compress"][t] =
                      [me EXCEPT !.recv = Tail(@),
                                 !.send["reorder"] = Append(@, c)]]
      /\ UNCHANGED <<que, closed, frag, cache, ref, reorder, file>>

-----------------------------------------------------------------------------
\* Reorder got -1 from a queue; after -1 from every queue in a row it leaves
\* its loop.  The faulty variant does not count them.
QueueEndedUncounted(r) ==
  [r EXCEPT !.pc = IF r.ended + 1 = NQueues THEN "flush" ELSE @]

QueueEnded(r) ==
  [r EXCEPT !.ended = @ + 1,
            !.pc = IF r.ended + 1 = NQueues THEN "flush" ELSE @]

(* Reorder asks the queues in turn.  An empty queue that is not terminated *)
(* blocks it.                                                              *)
ReorderDequeue ==
  LET items == que["reorder"][reorder.qid]
      n     == Lesser(PerFetch, Len(items))
      moved == [reorder EXCEPT !.qid = (@ + 1) % NQueues]
  IN  /\ reorder.pc = "receive"
      /\ reorder.recv = << >>
      /\ \/ /\ items # << >>
            /\ que' = [que EXCEPT !["reorder"][reorder.qid] = Rest(@, n)]
            /\ reorder' = [moved EXCEPT !.recv = Prefix(items, n), !.ended = 0]
         \/ /\ items = << >>
            /\ queue_isTerminated("reorder", reorder.qid)
            /\ reorder' = QueueEnded(moved)
            /\ UNCHANGED que
      /\ UNCHANGED <<closed, frag, thread, cache, ref, state, file>>

\* chunks_per_anchor is doubled, once, for an L1 number beyond its end.
Grown(perAnchor, l1) ==
  IF l1 \in DOMAIN perAnchor THEN perAnchor
  ELSE [a \in 0..(2 * Cardinality(DOMAIN perAnchor) - 1) |->
          IF a \in DOMAIN perAnchor THEN perAnchor[a] ELSE 0]

\* An access to chunks_per_anchor is inside the allocation; the behaviour of
\* the program after one that is not is undefined, and the model stops there.
InBounds(perAnchor, l1) == l1 \in DOMAIN perAnchor

(* Take one received chunk; keep it for later unless it is next. *)
ReorderTake ==
  LET c     == Head(reorder.recv)
      grown == Grown(reorder.perAnchor, c.l1)
      noted == IF isLastL2Chunk(c) THEN [grown EXCEPT ![c.l1] = c.l2 + 1] ELSE grown
      taken == [reorder EXCEPT !.recv = Tail(@), !.perAnchor = noted]
  IN  /\ reorder.pc = "receive"
      /\ reorder.recv # << >>
      /\ reorder' = IF ~InBounds(grown, c.l1)
                    THEN [reorder EXCEPT !.pc = "out of bounds"]
                    ELSE IF c # reorder.next
                    THEN [taken EXCEPT !.tree = @ \cup {c}]
                    ELSE [taken EXCEPT !.chunk = c, !.pc = "write"]
      /\ UNCHANGED <<que, closed, frag, thread, cache, ref, state, file>>

\* The sequence number after s; the L1 number advances once it is known how
\* many fine chunks its coarse chunk has and all of them were written.
Successor(s, perAnchor) ==
  IF perAnchor[s.l1] # 0 /\ s.l2 + 1 = perAnchor[s.l1]
  THEN [l1 |-> s.l1 + 1, l2 |-> 0]
  ELSE [l1 |-> s.l1, l2 |-> s.l2 + 1]

\* FindMin on the queue of TreeFindMin: the least of the kept chunks.
Smallest(tree) == CHOOSE c \in tree : \A d \in tree : d = c \/ sequence_lt(c, d)

(* Faulty variants: the original's data written without a change of state; *)
(* a duplicate taken for "written before" without a look at its original.  *)
write_without_flush(c) ==
  LET orig == IF isDuplicate(c) THEN ref[c] ELSE c
  IN  /\ state[orig] # "UNCOMPRESSED"
      /\ file' = Append(file, Data(Content(orig)))
      /\ UNCHANGED state

write_by_kind(c) ==
  IF isDuplicate(c)
  THEN /\ file' = Append(file, Fingerprint(Content(c)))
       /\ UNCHANGED state
  ELSE /\ state[c] # "UNCOMPRESSED"
       /\ file' = Append(file, Data(Content(c)))
       /\ state' = [state EXCEPT ![c] = "FLUSHED"]

(* write_chunk_to_file: the data if it was not written before, else the    *)
(* SHA1 sum.  Blocks until the original has been compressed.               *)
write_chunk_to_file(c) ==
  LET orig == IF isDuplicate(c) THEN ref[c] ELSE c
  IN  /\ state[orig] # "UNCOMPRESSED"
      /\ IF state[orig] = "COMPRESSED"
         THEN /\ file' = Append(file, Data(Content(orig)))
              /\ state' = [state EXCEPT ![orig] = "FLUSHED"]
         ELSE /\ file' = Append(file, Fingerprint(Content(orig)))
              /\ UNCHANGED state

ReorderWrite ==
  LET next == Successor(reorder.next, reorder.perAnchor)
      more == reorder.tree # {} /\ Smallest(reorder.tree) = next
  IN  /\ reorder.pc = "write"
      /\ write_chunk_to_file(reorder.chunk)
      /\ reorder' = [reorder EXCEPT
           !.next  = next,
           !.pc    = IF more THEN "write" ELSE "receive",
           !.chunk = IF more THEN next ELSE None,
           !.tree  = IF more THEN @ \ {next} ELSE @]
      /\ UNCHANGED <<que, closed, frag, thread, cache, ref>>

(* After the loop: write what was kept, or EXIT_TRACE if a chunk before it *)
(* is missing.                                                             *)
ReorderFlush ==
  /\ reorder.pc = "flush"
  /\ IF reorder.tree # {} /\ Smallest(reorder.tree) = reorder.next
     THEN /\ write_chunk_to_file(reorder.next)
          /\ reorder' = [reorder EXCEPT
               !.tree = @ \ {reorder.next},
               !.next = Successor(@, reorder.perAnchor)]
     ELSE /\ reorder' = [reorder EXCEPT
               !.pc = IF reorder.tree = {} THEN "done" ELSE "mismatch"]
          /\ UNCHANGED <<state, file>>
  /\ UNCHANGED <<que, closed, frag, thread, cache, ref>>

-----------------------------------------------------------------------------
Fragment == FragmentSend \/ FragmentTerminate

Worker(pool, t) ==
  \/ Fetch(pool, t)
  \/ EndOfInput(pool, t)
  \/ \E o \in Queues : Send(pool, t, o)
  \/ Shutdown(pool, t)
  \/ pool = "refine" /\ FragmentRefine(t)
  \/ pool = "deduplicate" /\ Deduplicate(t)
  \/ pool = "compress" /\ Compress(t)

Reorder == ReorderDequeue \/ ReorderTake \/ ReorderWrite \/ ReorderFlush

Done ==
  /\ frag.closed = NQueues
  /\ \A p \in Pools, t \in Tids : thread[p][t].phase = "done"
  /\ reorder.pc = "done"

\* Encode has joined every thread.
Joined == Done /\ UNCHANGED vars

Next ==
  \/ Fragment
  \/ \E p \in Pools, t \in Tids : Worker(p, t)
  \/ Reorder
  \/ Joined

Spec == Init /\ [][Next]_vars

\* Each thread runs on; no order between threads is assumed.
FairSpec ==
  /\ Spec
  /\ WF_vars(Fragment)
  /\ \A p \in Pools, t \in Tids : WF_vars(Worker(p, t))
  /\ WF_vars(Reorder)

-----------------------------------------------------------------------------
\* The assert in queue_enqueue: nobody enqueues on a terminated queue.  The
\* reorder queue counts only Compress threads as producers although
\* Deduplicate threads enqueue on it, too.
EnqueueBeforeTermination ==
  \A p \in Pools, t \in Tids, o \in Queues :
     MustSend(p, t, o) => ~queue_isTerminated(o, QidOf(t))

\* Every content's data is written once, whichever of its chunks comes first
\* and whichever thread found it first (comments encoder.c:266-270).
DataStoredOnce == StoredOnce(file)

\* The L1/L2 mismatch exits at the end of Reorder are never taken and there
\* is nothing to flush: the loop is left only when all chunks are written.
NothingMissing ==
  /\ reorder.pc # "mismatch"
  /\ reorder.pc \in {"flush", "done"} =>
       reorder.tree = {} /\ Len(file) = Cardinality(Chunks)

\* What the decoder makes of each record; None where it would have to stop.
Restored ==
  [i \in DOMAIN file |-> IF Resolvable(file, i) THEN file[i].content ELSE None]

Archive == INSTANCE DedupArchive WITH Stream   <- FlattenSeq(Input),
                                      restored <- Restored

\* The output file always decodes to a prefix of the input that grows chunk
\* by chunk: order kept, nothing skipped, and no fingerprint before its data.
ImplementsArchive == Archive!Spec

\* A thread waiting in write_chunk_to_file for the original's data gets it.
WriteReturns == (reorder.pc = "write") ~> (reorder.pc # "write")

\* All threads return and the file then holds the whole input.
EventuallyDone == <>(Done /\ Decode(file) = FlattenSeq(Input))
=============================================================================
