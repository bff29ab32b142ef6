------------------------------- MODULE DedupOmp -------------------------------
(***************************************************************************)
(* The OpenMP / OmpSs version of dedup's encoder (dedup/src/encoder.c).    *)
(*                                                                         *)
(* Fragment cuts coarse chunks and spawns two tasks for each: one runs     *)
(* FragmentRefine, which cuts, deduplicates and compresses the fine chunks *)
(* one after the other; one runs WriteOutput.  The depend clauses order    *)
(* WriteOutput after the FragmentRefine of the same coarse chunk (in:      *)
(* chunks[k]) and after the WriteOutput before it (inout: fp); nothing     *)
(* orders the FragmentRefine tasks.  A team of NThreads threads runs the   *)
(* tasks.                                                                  *)
(***************************************************************************)
EXTENDS Integers, Sequences, FiniteSets, SequencesExt, DedupFormat

CONSTANTS Input,     \* coarse chunks; each a sequence of contents
          NThreads,  \* threads in the team
          None

ASSUME OmpAssumption ==
  /\ Input \in Seq({Input[k] : k \in DOMAIN Input})
  /\ \A k \in DOMAIN Input :
       Len(Input[k]) > 0 /\ Input[k] \in Seq({Input[k][j] : j \in DOMAIN Input[k]})
  /\ NThreads \in Nat \ {0}

Coarse      == DOMAIN Input
Chunks      == UNION {{<<k, j>> : j \in DOMAIN Input[k]} : k \in Coarse}
Content(c)  == Input[c[1]][c[2]]
TaskContents == {Content(c) : c \in Chunks}

ASSUME NoneIsNoTask == None \notin Chunks

VARIABLES spawned,  \* coarse chunks whose tasks Fragment has spawned
          refine,   \* per coarse chunk: its FragmentRefine task
          pos,      \* per coarse chunk: the fine chunk at work
          cache,    \* the hash table: per content the original chunk
          dataRef,  \* per chunk: compressed_data_ref, None for an original
          state,    \* per chunk: header.state
          written,  \* coarse chunks whose WriteOutput has returned
          writing,  \* WriteOutput's index i, 0 before it has started
          file      \* the output file

taskVars == <<spawned, refine, pos, cache, dataRef, state, written, writing, file>>

refineVars == <<spawned, refine, pos>>

isDuplicate(c) == dataRef[c] # None

TaskInit ==
  /\ spawned = 0
  /\ refine = [k \in Coarse |-> "none"]
  /\ pos = [k \in Coarse |-> 1]
  /\ cache = [x \in TaskContents |-> None]
  /\ dataRef = [c \in Chunks |-> None]
  /\ state = [c \in Chunks |-> "UNCOMPRESSED"]
  /\ written = 0 /\ writing = 0
  /\ file = << >>

\* Tasks that have started and not finished, each on a thread of its own.
Running ==
  Cardinality({k \in Coarse : refine[k] \in {"deduplicate", "compress"}})
    + (IF writing > 0 THEN 1 ELSE 0)

(* Fragment spawns both tasks of the next coarse chunk. *)
Fragment ==
  /\ spawned < Len(Input)
  /\ spawned' = spawned + 1
  /\ refine' = [refine EXCEPT ![spawned'] = "ready"]
  /\ UNCHANGED <<pos, cache, dataRef, state, written, writing, file>>

StartRefine(k) ==
  /\ refine[k] = "ready"
  /\ Running < NThreads
  /\ refine' = [refine EXCEPT ![k] = "deduplicate"]
  /\ UNCHANGED <<spawned, pos, cache, dataRef, state, written, writing, file>>

(* Faulty variant: search and insert without the bucket lock, so that the *)
(* entry of another task may be missed.                                   *)
DeduplicateUnlocked(k) ==
  LET c == <<k, pos[k]>>
      x == Content(c)
  IN  /\ refine[k] = "deduplicate"
      /\ \/ /\ cache' = [cache EXCEPT ![x] = c]
            /\ UNCHANGED dataRef
         \/ /\ cache[x] # None
            /\ dataRef' = [dataRef EXCEPT ![c] = cache[x]]
            /\ UNCHANGED cache
      /\ refine' = [refine EXCEPT ![k] = "compress"]
      /\ UNCHANGED <<spawned, pos, state, written, writing, file>>

(* sub_Deduplicate, under the lock of the hash bucket. *)
Deduplicate(k) ==
  LET c == <<k, pos[k]>>
      x == Content(c)
  IN  /\ refine[k] = "deduplicate"
      /\ IF cache[x] = None
         THEN /\ cache' = [cache EXCEPT ![x] = c]
              /\ UNCHANGED dataRef
         ELSE /\ dataRef' = [dataRef EXCEPT ![c] = cache[x]]
              /\ UNCHANGED cache
      /\ refine' = [refine EXCEPT ![k] = "compress"]
      /\ UNCHANGED <<spawned, pos, state, written, writing, file>>

(* Compress leaves duplicates alone; then FragmentRefine goes on to the next *)
(* fine chunk, or ends.                                                     *)
Compress(k) ==
  LET c == <<k, pos[k]>>
  IN  /\ refine[k] = "compress"
      /\ state' = IF isDuplicate(c) THEN state
                  ELSE [state EXCEPT ![c] = "COMPRESSED"]
      /\ IF pos[k] < Len(Input[k])
         THEN /\ pos' = [pos EXCEPT ![k] = @ + 1]
              /\ refine' = [refine EXCEPT ![k] = "deduplicate"]
         ELSE /\ refine' = [refine EXCEPT ![k] = "done"]
              /\ UNCHANGED pos
      /\ UNCHANGED <<spawned, cache, dataRef, written, writing, file>>

\* in: chunks[k]
Refined(k) == k \in Coarse /\ refine[k] = "done"

\* Faulty variant: no dependence on the WriteOutput before.
StartWriteUnordered ==
  /\ writing = 0
  /\ Running < NThreads
  /\ \E k \in (written + 1)..Len(Input) : Refined(k) /\ written' = k - 1
  /\ writing' = 1
  /\ UNCHANGED refineVars /\ UNCHANGED <<cache, dataRef, state, file>>

(* The WriteOutput tasks run in the order they were spawned (inout: fp). *)
StartWrite ==
  /\ writing = 0
  /\ Refined(written + 1)
  /\ Running < NThreads
  /\ writing' = 1
  /\ UNCHANGED refineVars /\ UNCHANGED <<cache, dataRef, state, written, file>>

\* write_chunk_to_file without ENABLE_PTHREADS: duplicates get the SHA1 sum.
Record(c) ==
  IF isDuplicate(c) THEN Fingerprint(Content(dataRef[c])) ELSE Data(Content(c))

(* WriteOutput writes its fine chunks in order, then returns. *)
WriteOutput ==
  /\ writing > 0
  /\ file' = Append(file, Record(<<written + 1, writing>>))
  /\ IF writing < Len(Input[written + 1])
     THEN /\ writing' = writing + 1
          /\ UNCHANGED written
     ELSE /\ writing' = 0
          /\ written' = written + 1
  /\ UNCHANGED refineVars /\ UNCHANGED <<cache, dataRef, state>>

AllWritten == written = Len(Input)

\* taskwait, then the parallel region ends.
Taskwait == AllWritten /\ UNCHANGED taskVars

RefineTask(k) == StartRefine(k) \/ Deduplicate(k) \/ Compress(k)

WriteTask == StartWrite \/ WriteOutput

TaskNext == Fragment \/ (\E k \in Coarse : RefineTask(k)) \/ WriteTask \/ Taskwait

TaskSpec == TaskInit /\ [][TaskNext]_taskVars

\* Every task that is running, or that a free thread could take, goes on.
FairTaskSpec ==
  /\ TaskSpec
  /\ WF_taskVars(Fragment)
  /\ \A k \in Coarse : WF_taskVars(StartRefine(k)) /\ WF_taskVars(Deduplicate(k) \/ Compress(k))
  /\ WF_taskVars(StartWrite) /\ WF_taskVars(WriteOutput)

-----------------------------------------------------------------------------
\* The chunks of the input come out in order, each once, although the
\* FragmentRefine tasks finish in any order.
Order == INSTANCE DedupArchive WITH
  Stream   <- FlattenSeq(Input),
  restored <- [i \in DOMAIN file |-> file[i].content]

OrderKept == Order!Spec

\* Two tasks that meet the same content at the same time do not both keep it
\* as an original.
DataStoredOnce == StoredOnce(file)

\* The tasks are done and every chunk's data is in the file, with or without
\* its duplicates before it.
AllStored ==
  AllWritten /\ \A x \in TaskContents : \E i \in DOMAIN file : file[i] = Data(x)

\* "Duplicate chunk, data has been written to file before, just write SHA1"
\* (encoder.c:314): a fingerprint comes after its data.
FingerprintAfterData == \A i \in DOMAIN file : Resolvable(file, i)
=============================================================================
