------------------------------- MODULE TaskQ -------------------------------
(***************************************************************************)
(* The distributed task queues of facesim                                  *)
(* (facesim/src/TaskQ/lib/taskQDistCommon.c with the fixed-size queues of  *)
(* taskQDistFixed.c and taskQList.h), which the program's thread pool is   *)
(* built on.                                                               *)
(*                                                                         *)
(* Thread 0 is the program's own; it enqueues tasks and calls taskQWait,   *)
(* which makes it work like the others until all of them have run out of   *)
(* tasks.  sync.threadCount counts the threads that have run out; whoever  *)
(* enqueues during the parallel region, or begins one, sets it back to 0   *)
(* and wakes everybody.  A queue is a sequence, its tail first; what is    *)
(* done while one queue's lock is held is one step, a steal takes both     *)
(* locks, one after the other.                                             *)
(***************************************************************************)
EXTENDS Integers, Sequences, FiniteSets

CONSTANTS numThreads,
          threadsPerTaskQ,
          MaxSteal,  \* MAX_STEAL
          Tasks,     \* numbers that stand for tasks
          Spawns,    \* per task: the tasks it enqueues itself, in that order
          Script     \* the program: per parallel region, what thread 0
                     \* enqueues before it, in batches for one queue each

Threads == 0..(numThreads - 1)

Workers == Threads \ {0}

myQ(t) == t \div threadsPerTaskQ

numTaskQs == (numThreads + threadsPerTaskQ - 1) \div threadsPerTaskQ

Queues == 0..(numTaskQs - 1)

\* The queue of a batch that goes wherever pickQueue says.
AnyQueue == -1

Batches == [to : Queues \cup {AnyQueue}, tasks : Seq(Tasks)]

ASSUME TaskQAssumption ==
  /\ numThreads \in Nat \ {0}
  /\ threadsPerTaskQ \in Nat \ {0}
  /\ MaxSteal \in Nat \ {0}
  /\ Tasks \subseteq Nat
  /\ Spawns \in [Tasks -> Seq(Tasks)]
  /\ Script \in Seq(Seq(Batches))

\* A number stands for one call of taskQEnqueueTask: what the program and its
\* tasks enqueue are all different tasks.
ASSUME EnqueuedOnce ==
  /\ \A r, s \in DOMAIN Script : \A b \in DOMAIN Script[r], c \in DOMAIN Script[s] :
       \A i \in DOMAIN Script[r][b].tasks, j \in DOMAIN Script[s][c].tasks :
          Script[r][b].tasks[i] = Script[s][c].tasks[j] => r = s /\ b = c /\ i = j
  /\ \A x, y \in Tasks : \A i \in DOMAIN Spawns[x], j \in DOMAIN Spawns[y] :
       Spawns[x][i] = Spawns[y][j] => x = y /\ i = j
  /\ \A r \in DOMAIN Script : \A b \in DOMAIN Script[r] :
       \A i \in DOMAIN Script[r][b].tasks, x \in Tasks : \A j \in DOMAIN Spawns[x] :
          Script[r][b].tasks[i] # Spawns[x][j]

Nobody == -1

VARIABLES taskQ,           \* per queue: its tasks
          lock,            \* per queue: who holds its lock
          threadCount, nextQ, parallelRegion, noMoreTasks,
          pc,
          batches,         \* what thread 0 has yet to enqueue
          region,          \* the calls of waitForEnd that told thread 0 to go on
          running, spawn,  \* per thread: its task, and what that has yet to enqueue
          loop, back,      \* per thread: where doOwnTasks, signalTasks was called
          victim,          \* per thread: i of stealTasks
          enqueued,        \* history: the tasks enqueued so far
          executed,        \* history, per task: how often it was executed
          counted          \* history: the threads threadCount stands for

vars == <<taskQ, lock, threadCount, nextQ, parallelRegion, noMoreTasks, pc,
          batches, region, running, spawn, loop, back, victim, enqueued,
          executed, counted>>

control   == <<batches, region, parallelRegion, noMoreTasks>>
execution == <<running, spawn, loop, executed, enqueued>>
counting  == <<threadCount, counted>>

NoTask == -1

Places == {"serial", "signal", "signalling", "own", "lastOwn", "run", "steal",
           "grab", "grabBoth", "move", "end", "ending", "ended", "wait",
           "idle", "woken", "exit"}

(* taskQInit: the other threads start in taskQIdleLoop, and thread 0 waits *)
(* until all of them have run out of tasks.                                *)
Init ==
  /\ taskQ = [q \in Queues |-> << >>]
  /\ lock = [q \in Queues |-> Nobody]
  /\ threadCount = 0 /\ counted = {}
  /\ nextQ = 0
  /\ parallelRegion = FALSE /\ noMoreTasks = FALSE
  /\ pc = [t \in Threads |-> IF t = 0 THEN "end" ELSE "wait"]
  /\ batches = << >> /\ region = 0
  /\ running = [t \in Threads |-> NoTask]
  /\ spawn = [t \in Threads |-> << >>]
  /\ loop = [t \in Threads |-> "own"]
  /\ back = [t \in Threads |-> "own"]
  /\ victim = [t \in Threads |-> 0]
  /\ enqueued = {}
  /\ executed = [t \in Tasks |-> 0]

GoTo(t, place) == pc' = [pc EXCEPT ![t] = place]

TasksOf(s) == {s[i] : i \in DOMAIN s}

\* signalTasks, called by t, which goes on at place.
CallSignal(t, place) ==
  /\ GoTo(t, "signal")
  /\ back' = [back EXCEPT ![t] = place]

NextQueue(q) == IF q + 1 = numTaskQs THEN 0 ELSE q + 1

pickQueue(t) == IF parallelRegion THEN myQ(t) ELSE nextQ

MoveHint == nextQ' = IF parallelRegion THEN nextQ ELSE NextQueue(nextQ)

-----------------------------------------------------------------------------
(* Thread 0 enqueues a task (taskQEnqueueTaskHelper), or the part of a     *)
(* grid that goes to one queue (assignTasks).                              *)
Enqueue ==
  /\ pc[0] = "serial"
  /\ batches # << >>
  /\ LET b == Head(batches)
         q == IF b.to = AnyQueue THEN pickQueue(0) ELSE b.to
     IN  /\ lock[q] = Nobody
         /\ taskQ' = [taskQ EXCEPT ![q] = @ \o b.tasks]
         /\ enqueued' = enqueued \cup TasksOf(b.tasks)
         /\ IF b.to = AnyQueue THEN MoveHint ELSE UNCHANGED nextQ
  /\ batches' = Tail(batches)
  /\ UNCHANGED <<lock, counting, parallelRegion, noMoreTasks, pc, region,
                 running, spawn, loop, executed, back, victim>>

taskQWait ==
  /\ pc[0] = "serial"
  /\ batches = << >> /\ region <= Len(Script)
  /\ parallelRegion' = TRUE
  /\ CallSignal(0, "own")
  /\ UNCHANGED <<taskQ, lock, counting, nextQ, noMoreTasks, batches, region,
                 execution, victim>>

taskQEnd ==
  /\ pc[0] = "serial"
  /\ batches = << >> /\ region > Len(Script)
  /\ noMoreTasks' = TRUE
  /\ CallSignal(0, "exit")
  /\ UNCHANGED <<taskQ, lock, counting, nextQ, parallelRegion, batches, region,
                 execution, victim>>

(* signalTasks reads threadCount without the lock ... *)
SignalNeeded(t) ==
  /\ pc[t] = "signal"
  /\ GoTo(t, IF threadCount = 0 THEN back[t] ELSE "signalling")
  /\ UNCHANGED <<taskQ, lock, counting, nextQ, control, execution, back, victim>>

(* ... and then, with it, sets it to 0 and wakes everybody. *)
Signal(t) ==
  /\ pc[t] = "signalling"
  /\ threadCount' = 0 /\ counted' = {}
  /\ pc' = [u \in Threads |-> CASE u = t -> back[t]
                                [] pc[u] = "idle" -> "woken"
                                [] pc[u] = "ending" -> "ended"
                                [] OTHER -> pc[u]]
  /\ UNCHANGED <<taskQ, lock, nextQ, control, execution, back, victim>>

-----------------------------------------------------------------------------
(* doOwnTasks: the youngest task is taken and executed.  In a parallel     *)
(* region what it enqueues goes to the queue of its thread.                *)
StartTask(t) ==
  LET q == myQ(t)
      n == Len(taskQ[q])
  IN  /\ pc[t] \in {"own", "lastOwn"}
      /\ lock[q] = Nobody
      /\ n > 0
      /\ taskQ' = [taskQ EXCEPT ![q] = SubSeq(@, 1, n - 1)]
      /\ running' = [running EXCEPT ![t] = taskQ[q][n]]
      /\ spawn' = [spawn EXCEPT ![t] = Spawns[taskQ[q][n]]]
      /\ loop' = [loop EXCEPT ![t] = pc[t]]
      /\ GoTo(t, "run")
      /\ UNCHANGED <<lock, counting, nextQ, control, back, victim, executed,
                     enqueued>>

Spawn(t) ==
  LET q == pickQueue(t)
  IN  /\ pc[t] = "run"
      /\ spawn[t] # << >>
      /\ lock[q] = Nobody
      /\ taskQ' = [taskQ EXCEPT ![q] = Append(@, Head(spawn[t]))]
      /\ enqueued' = enqueued \cup {Head(spawn[t])}
      /\ spawn' = [spawn EXCEPT ![t] = Tail(@)]
      /\ MoveHint
      /\ IF parallelRegion THEN CallSignal(t, "run") ELSE UNCHANGED <<pc, back>>
      /\ UNCHANGED <<lock, counting, control, running, loop, executed, victim>>

FinishTask(t) ==
  /\ pc[t] = "run"
  /\ spawn[t] = << >>
  /\ executed' = [executed EXCEPT ![running[t]] = @ + 1]
  /\ running' = [running EXCEPT ![t] = NoTask]
  /\ GoTo(t, loop[t])
  /\ UNCHANGED <<taskQ, lock, counting, nextQ, control, spawn, loop, back, victim,
                 enqueued>>

(* No task of its own is left: the thread goes to steal, or, thread 0      *)
(* after it has tried that once, to wait for the end.                      *)
OutOfOwn(t) ==
  /\ pc[t] \in {"own", "lastOwn"}
  /\ lock[myQ(t)] = Nobody
  /\ taskQ[myQ(t)] = << >>
  /\ GoTo(t, IF pc[t] = "own" THEN "steal" ELSE "end")
  /\ victim' = [victim EXCEPT ![t] = NextQueue(myQ(t))]
  /\ UNCHANGED <<taskQ, lock, counting, nextQ, control, execution, back>>

-----------------------------------------------------------------------------
(* stealTasks has looked into every queue in vain. *)
NothingToSteal(t) ==
  /\ pc[t] = "steal"
  /\ victim[t] = myQ(t)
  /\ GoTo(t, IF t = 0 THEN "lastOwn" ELSE "wait")
  /\ UNCHANGED <<taskQ, lock, counting, nextQ, control, execution, back, victim>>

(* The quick check of stealTasksSpecialized, without a lock. *)
LookAt(t) ==
  /\ pc[t] = "steal"
  /\ victim[t] # myQ(t)
  /\ IF taskQ[victim[t]] = << >>
     THEN victim' = [victim EXCEPT ![t] = NextQueue(@)] /\ UNCHANGED pc
     ELSE GoTo(t, "grab") /\ UNCHANGED victim
  /\ UNCHANGED <<taskQ, lock, counting, nextQ, control, execution, back>>

\* Faulty variant: everyone locks its own queue first.
OwnFirst(t) == <<myQ(t), victim[t]>>

\* The queues are locked in the order of their addresses.
LockOrder(t) ==
  IF myQ(t) < victim[t] THEN <<myQ(t), victim[t]>> ELSE <<victim[t], myQ(t)>>

Grab(t) ==
  /\ pc[t] \in {"grab", "grabBoth"}
  /\ LET q == LockOrder(t)[IF pc[t] = "grab" THEN 1 ELSE 2]
     IN  lock[q] = Nobody /\ lock' = [lock EXCEPT ![q] = t]
  /\ GoTo(t, IF pc[t] = "grab" THEN "grabBoth" ELSE "move")
  /\ UNCHANGED <<taskQ, counting, nextQ, control, execution, back, victim>>

calculateNumSteal(available) ==
  LET half == IF available = 1 THEN 1 ELSE available \div 2
  IN  IF half > MaxSteal THEN MaxSteal ELSE half

\* Faulty variant: the tasks that are stolen are left where they were.
CopyTasks(t) ==
  LET v == victim[t]
      n == calculateNumSteal(Len(taskQ[v]))
  IN  /\ pc[t] = "move"
      /\ taskQ' = [taskQ EXCEPT ![myQ(t)] = @ \o SubSeq(taskQ[v], 1, n)]
      /\ IF n = 0
         THEN GoTo(t, "steal") /\ victim' = [victim EXCEPT ![t] = NextQueue(@)]
         ELSE GoTo(t, IF t = 0 THEN "lastOwn" ELSE "own") /\ UNCHANGED victim
      /\ lock' = [lock EXCEPT ![v] = Nobody, ![myQ(t)] = Nobody]
      /\ UNCHANGED <<counting, nextQ, control, execution, back>>

(* With both locks: the oldest tasks of the victim go to the thread's own  *)
(* queue.  If there is none any more, the next victim is tried.            *)
MoveTasks(t) ==
  LET v == victim[t]
      n == calculateNumSteal(Len(taskQ[v]))
  IN  /\ pc[t] = "move"
      /\ taskQ' = [taskQ EXCEPT ![myQ(t)] = @ \o SubSeq(taskQ[v], 1, n),
                                ![v] = SubSeq(@, n + 1, Len(@))]
      /\ IF n = 0
         THEN GoTo(t, "steal") /\ victim' = [victim EXCEPT ![t] = NextQueue(@)]
         ELSE GoTo(t, IF t = 0 THEN "lastOwn" ELSE "own") /\ UNCHANGED victim
      /\ lock' = [lock EXCEPT ![v] = Nobody, ![myQ(t)] = Nobody]
      /\ UNCHANGED <<counting, nextQ, control, execution, back>>

-----------------------------------------------------------------------------
\* A thread that has run out of tasks is counted.
CountMe(t) ==
  /\ threadCount' = threadCount + 1
  /\ counted' = counted \cup {t}

(* waitForTasks; the last thread to run out wakes thread 0. *)
waitForTasks(w) ==
  /\ w # 0 /\ pc[w] = "wait"
  /\ CountMe(w)
  /\ pc' = [t \in Threads |->
              IF t = w THEN "idle"
              ELSE IF threadCount + 1 = numThreads /\ pc[t] = "ending" THEN "ended"
              ELSE pc[t]]
  /\ UNCHANGED <<taskQ, lock, nextQ, control, execution, back, victim>>

(* The loop of taskQIdleLoop goes on, or ends. *)
WakeUp(w) ==
  /\ pc[w] = "woken"
  /\ GoTo(w, IF noMoreTasks THEN "exit" ELSE "own")
  /\ UNCHANGED <<taskQ, lock, counting, nextQ, control, execution, back, victim>>

\* Thread 0 after waitForEnd.  taskQInit does not look at the result.
AfterEnd(done) ==
  IF done \/ region = 0
  THEN /\ GoTo(0, "serial")
       /\ region' = region + 1
       /\ batches' = IF region < Len(Script) THEN Script[region + 1] ELSE << >>
       /\ parallelRegion' = FALSE
       /\ UNCHANGED noMoreTasks
  ELSE GoTo(0, "own") /\ UNCHANGED control

waitForEnd ==
  /\ pc[0] = "end"
  /\ CountMe(0)
  /\ IF threadCount + 1 # numThreads
     THEN GoTo(0, "ending") /\ UNCHANGED control
     ELSE AfterEnd(TRUE)
  /\ UNCHANGED <<taskQ, lock, nextQ, execution, back, victim>>

\* Faulty variant: who is woken takes it for the end.
EndOfWaitUnchecked ==
  /\ pc[0] = "ended"
  /\ AfterEnd(TRUE)
  /\ UNCHANGED <<taskQ, lock, counting, nextQ, execution, back, victim>>

EndOfWait ==
  /\ pc[0] = "ended"
  /\ AfterEnd(threadCount = numThreads)
  /\ UNCHANGED <<taskQ, lock, counting, nextQ, execution, back, victim>>

-----------------------------------------------------------------------------
Step(t) ==
  \/ SignalNeeded(t) \/ Signal(t)
  \/ StartTask(t) \/ Spawn(t) \/ FinishTask(t) \/ OutOfOwn(t)
  \/ NothingToSteal(t) \/ LookAt(t) \/ Grab(t) \/ MoveTasks(t)
  \/ waitForTasks(t) \/ WakeUp(t)

MainStep == Enqueue \/ taskQWait \/ taskQEnd \/ waitForEnd \/ EndOfWait

Finished == \A t \in Threads : pc[t] = "exit"

(* All threads have returned. *)
Joined == Finished /\ UNCHANGED vars

Next == MainStep \/ (\E t \in Threads : Step(t)) \/ Joined

Spec == Init /\ [][Next]_vars

\* Every thread that can run is scheduled, and gets a lock that is free again
\* and again.  One thing more is assumed: of a thread that again and again
\* has a task in its queue the thieves cannot take it every time.  The code
\* does not exclude it; two thieves may pass a task between them for ever.
FairSpec ==
  /\ Spec
  /\ WF_vars(MainStep)
  /\ \A t \in Threads : SF_vars(Step(t)) /\ SF_vars(StartTask(t))

-----------------------------------------------------------------------------
TypeOK ==
  /\ taskQ \in [Queues -> Seq(Tasks)]
  /\ lock \in [Queues -> Threads \cup {Nobody}]
  /\ threadCount \in Nat
  /\ nextQ \in Queues
  /\ parallelRegion \in BOOLEAN /\ noMoreTasks \in BOOLEAN
  /\ pc \in [Threads -> Places]
  /\ batches \in Seq(Batches)
  /\ region \in Nat
  /\ running \in [Threads -> Tasks \cup {NoTask}]
  /\ spawn \in [Threads -> Seq(Tasks)]
  /\ loop \in [Threads -> {"own", "lastOwn"}]
  /\ back \in [Threads -> {"own", "run", "exit"}]
  /\ victim \in [Threads -> Queues]
  /\ executed \in [Tasks -> Nat]
  /\ enqueued \subseteq Tasks
  /\ counted \subseteq Threads

\* Thread 0 has just returned from taskQWait, or from taskQInit.
Returned ==
  /\ pc[0] = "serial"
  /\ batches = IF region <= Len(Script) THEN Script[region] ELSE << >>

\* While thread 0 is in serial code, between two parallel regions, all other
\* threads sleep, so nothing runs beside it; and taskQWait left no task in
\* any queue.  Both rest on threadCount, which is reset and partly read
\* without its lock by threads that enqueue while others run out of tasks.
SerialAlone ==
  /\ pc[0] = "serial" => \A w \in Workers : pc[w] = "idle"
  /\ Returned => \A q \in Queues : taskQ[q] = << >>

\* When taskQWait returns every task enqueued so far, by thread 0 or by
\* another task, has been executed; and none is ever executed twice.
TasksDone ==
  /\ \A t \in Tasks : executed[t] <= 1
  /\ Returned => \A t \in enqueued : executed[t] = 1
=============================================================================
