---------------------------- MODULE MCDedupParts ----------------------------
(***************************************************************************)
(* Instance for TLC of dedup's encoder without its queue-based pipeline:   *)
(* the synchronised queue, the ring buffer inside it, the memory buffers   *)
(* that travel through it; the cutting of the input; the task version and  *)
(* the serial version.  A behaviour is of one of them, which unit says,    *)
(* and the others stay in their initial state: together they have the      *)
(* states of the six, not the product.                                     *)
(***************************************************************************)
EXTENDS DedupQueue, RingBuffer, Mbuffer, DedupOmp, DedupFragment

CONSTANTS Units,   \* the ones that are run
          Bytes    \* of DedupSerial

VARIABLES unit,
          input, sseek, buffer, left, contents, archive, spc

Serial == INSTANCE DedupSerial WITH
  seek <- sseek, chunk <- buffer, temp <- left, cache <- contents,
  file <- archive, pc <- spc

ASSUME Serial!SerialAssumption

\* The same content within and across coarse chunks.
InputFour == << <<"a", "b">>, <<"b">>, <<"c", "a">>, <<"c">> >>

InputTwo == << <<"a">>, <<"a">> >>

serialVars  == <<input, sseek, buffer, left, contents, archive, spc>>
parallelVars == <<vars, ringVars, bufferVars>>
allVars == <<unit, parallelVars, taskVars, cuttingVars, serialVars>>

InQueue(A) ==
  /\ unit = "queue" /\ A
  /\ UNCHANGED <<unit, ringVars, bufferVars, taskVars, cuttingVars, serialVars>>

InRing(A) ==
  /\ unit = "ring" /\ A
  /\ UNCHANGED <<unit, vars, bufferVars, taskVars, cuttingVars, serialVars>>

InBuffer(A) ==
  /\ unit = "mbuffer" /\ A
  /\ UNCHANGED <<unit, vars, ringVars, taskVars, cuttingVars, serialVars>>

InTasks(A) ==
  /\ unit = "tasks" /\ A
  /\ UNCHANGED <<unit, parallelVars, cuttingVars, serialVars>>

InCutting(A) ==
  unit = "cutting" /\ A /\ UNCHANGED <<unit, parallelVars, taskVars, serialVars>>

InSerial(A) ==
  unit = "serial" /\ A /\ UNCHANGED <<unit, parallelVars, taskVars, cuttingVars>>

\* What is read or stored matters only where it is the unit at work.
AnyElement == CHOOSE x \in Elements : TRUE

Fixed ==
  /\ unit # "ring" => data = [i \in 0..Capacity |-> AnyElement] /\ got = AnyElement
  /\ unit # "mbuffer" => block = MaxSize
  /\ unit # "cutting" => length = 0
  /\ unit # "serial" => input = << >>

PartsInit ==
  /\ unit \in Units
  /\ Init /\ ringbuffer_init /\ mbuffer_create
  /\ TaskInit /\ CuttingInit /\ Serial!Init
  /\ Fixed

PartsNext ==
  \/ InQueue(Next) \/ InRing(RingNext) \/ InBuffer(BufferNext)
  \/ InTasks(TaskNext) \/ InCutting(CuttingNext) \/ InSerial(Serial!Next)

\* The fairness of each; ring and memory buffers are passive data structures.
PartsSpec ==
  /\ PartsInit /\ [][PartsNext]_allVars
  /\ \A p \in Producers : WF_vars(unit = "queue" /\ ProducerStep(p))
  /\ \A c \in Consumers : WF_vars(unit = "queue" /\ ConsumerStep(c))
  /\ WF_taskVars(unit = "tasks" /\ Fragment)
  /\ \A k \in Coarse :
       /\ WF_taskVars(unit = "tasks" /\ StartRefine(k))
       /\ WF_taskVars(unit = "tasks" /\ (Deduplicate(k) \/ Compress(k)))
  /\ WF_taskVars(unit = "tasks" /\ StartWrite)
  /\ WF_taskVars(unit = "tasks" /\ WriteOutput)
  /\ WF_cuttingVars(unit = "cutting" /\ (Read \/ Split))
  /\ WF_cuttingVars(unit = "cutting" /\ (TakeCoarse \/ RefineCoarse))
  /\ WF_serialVars(unit = "serial" /\ (Serial!Read \/ Serial!Split))

-----------------------------------------------------------------------------
\* All threads that share a queue return, with every item delivered.
QueueFinishes == unit = "queue" => EventuallyFinished

\* Each version comes to its end and stays there: the tasks have stored the
\* data of every content, Fragment has put every byte into a chunk, and from
\* the file of the serial version the whole input can be restored.
VersionsEnd ==
  <>[](CASE unit = "tasks"   -> AllStored
         [] unit = "cutting" -> InputCut
         [] unit = "serial"  -> Serial!Restorable
         [] OTHER            -> TRUE)
=============================================================================
