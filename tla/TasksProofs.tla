---------------------------- MODULE TasksProofs -----------------------------
(***************************************************************************)
(* Proofs about the programs that work on tasks: facesim's task queues, for*)
(* any number of threads, of threads per queue, of tasks and of parallel   *)
(* regions, and any tasks they enqueue; the grid they are filled from, for *)
(* any size and number of queues; and ferret's pipeline.                   *)
(***************************************************************************)
EXTENDS TaskQ, Ferret, TaskGrid, SumProofs, SequenceTheorems

-----------------------------------------------------------------------------
(***************************************************************************)
(* The task queues.                                                        *)
(***************************************************************************)

Signals == {"signal", "signalling"}

\* Thread 0 has left the parallel region and not yet woken the others again.
Outside ==
  \/ pc[0] = "serial"
  \/ pc[0] \in Signals /\ back[0] # "run"

\* A thread that will look into its own queue before it is counted.
Looks(t) ==
  \/ pc[t] \in {"woken", "own", "lastOwn", "run"}
  \/ pc[t] \in Signals /\ back[t] = "run"

Busy(t) ==
  \/ pc[t] \in {"own", "lastOwn", "run", "steal", "grab", "grabBoth", "move"}
  \/ pc[t] \in Signals /\ back[t] = "run"

\* Which thread may be where.
PlacesInv ==
  /\ pc[0] \notin {"wait", "idle", "woken"}
  /\ \A w \in Workers :
       /\ pc[w] \notin {"serial", "lastOwn", "end", "ending", "ended"}
       /\ loop[w] = "own"
       /\ pc[w] \in Signals => back[w] = "run"

\* threadCount counts the threads that have run out of tasks, each once.
CountInv ==
  /\ threadCount = Cardinality(counted)
  /\ \A w \in Workers : w \in counted <=> pc[w] = "idle"
  /\ 0 \in counted => pc[0] \in {"ending", "ended"} \/ Outside
  /\ Outside => counted = Threads
  /\ pc[0] = "ended" /\ 0 \in counted => counted = Threads

\* Until taskQInit has returned there is nothing to do.
StartInv ==
  region = 0 =>
    /\ \A q \in Queues : taskQ[q] = << >>
    /\ pc[0] \in {"end", "ending", "ended"}
    /\ pc[0] = "ended" => counted = Threads
    /\ \A w \in Workers : pc[w] \in {"wait", "idle"}

\* Nobody works outside a parallel region.
RegionInv ==
  /\ \A t \in Threads :
       /\ Busy(t) => parallelRegion
       /\ pc[t] = "woken" => parallelRegion \/ noMoreTasks
  /\ pc[0] \in Signals /\ back[0] = "own" => parallelRegion
  /\ pc[0] \in {"end", "ending", "ended"} => region = 0 \/ parallelRegion
  /\ pc[0] = "serial" =>
       /\ region > 0
       /\ region <= Len(Script) => Len(batches) <= Len(Script[region])
       /\ region > Len(Script) => batches = << >>

\* taskQEnd is called when everything is done.
EndInv ==
  /\ noMoreTasks =>
       /\ \A q \in Queues : taskQ[q] = << >>
       /\ pc[0] = "exit" \/ (pc[0] \in Signals /\ back[0] = "exit")
       /\ \A w \in Workers : pc[w] \in {"idle", "woken", "exit"}
  /\ pc[0] = "exit" \/ (pc[0] \in Signals /\ back[0] = "exit") => noMoreTasks

\* A queue that is not empty has an owner that will look into it, unless
\* thread 0 has just filled it in serial code.
QueueInv ==
  /\ Outside \/ \A q \in Queues :
       taskQ[q] # << >> => \E t \in Threads : myQ(t) = q /\ Looks(t)
  /\ Returned => \A q \in Queues : taskQ[q] = << >>
  /\ \A t \in Threads : pc[t] \in {"grab", "grabBoth", "move"} => victim[t] # myQ(t)

IInv ==
  /\ TypeOK
  /\ PlacesInv /\ CountInv /\ StartInv /\ RegionInv /\ EndInv /\ QueueInv

-----------------------------------------------------------------------------
LEMMA ThreadZero == 0 \in Threads /\ Threads \subseteq Nat
BY TaskQAssumption DEF Threads

LEMMA OwnQueue ==
  /\ \A t \in Threads : myQ(t) \in Queues
  /\ \A q \in Queues : NextQueue(q) \in Queues
<1> DEFINE P == threadsPerTaskQ
<1>1. ASSUME NEW t \in Threads PROVE myQ(t) \in Queues
  <2>1. P \in Nat \ {0} /\ numThreads \in Nat \ {0} /\ t \in Nat /\ t <= numThreads - 1
    BY TaskQAssumption DEF Threads
  <2>2. numThreads + P - 1 >= t + P
    BY <2>1
  <2> DEFINE d == t \div P
             m == numThreads + P - 1
             e == m \div P
  <2>3. d \in Nat /\ d * P <= t
    BY <2>1
  <2>4. e \in Nat /\ m < (e + 1) * P
    BY <2>1
  <2>5. (d + 1) * P <= m
    BY <2>1, <2>2, <2>3
  <2>6. d + 1 < e + 1
    BY <2>1, <2>3, <2>4, <2>5
  <2> QED
    BY <2>3, <2>4, <2>6 DEF myQ, Queues, numTaskQs
<1>2. numTaskQs \in Nat
  BY TaskQAssumption DEF numTaskQs
<1> QED
  BY <1>1, <1>2 DEF NextQueue, Queues

\* Every queue belongs to some thread.
LEMMA QueueHasOwner == \A q \in Queues : \E t \in Threads : myQ(t) = q
<1> SUFFICES ASSUME NEW q \in Queues PROVE \E t \in Threads : myQ(t) = q
  OBVIOUS
<1> DEFINE P == threadsPerTaskQ
           m == numThreads + P - 1
           e == m \div P
<1>1. P \in Nat \ {0} /\ numThreads \in Nat \ {0} /\ q \in Nat /\ q + 1 <= e
  BY TaskQAssumption DEF Queues, numTaskQs
<1>2. e * P <= m
  BY <1>1
<1>3. (q + 1) * P <= e * P
  BY <1>1
<1>4. q * P \in Threads
  BY <1>1, <1>2, <1>3 DEF Threads
<1>5. (q * P) \div P = q
  BY <1>1
<1> QED
  BY <1>4, <1>5 DEF myQ

\* The threads are as many as numThreads says, and no smaller set is.
LEMMA Counting ==
  ASSUME NEW C \in SUBSET Threads
  PROVE  /\ Cardinality(C) \in 0..numThreads
         /\ Cardinality(C) = numThreads <=> C = Threads
         /\ Cardinality(C) = 0 <=> C = {}
         /\ \A t \in Threads \ C : Cardinality(C \cup {t}) = Cardinality(C) + 1
<1>1. IsFiniteSet(Threads) /\ Cardinality(Threads) = numThreads
  BY FS_Interval, TaskQAssumption DEF Threads
<1>2. IsFiniteSet(C) /\ Cardinality(C) <= Cardinality(Threads)
      /\ (Cardinality(Threads) = Cardinality(C) => Threads = C)
  BY <1>1, FS_Subset
<1>3. Cardinality(C) \in Nat
  BY <1>2, FS_CardinalityType
<1>4. Cardinality(C) = 0 <=> C = {}
  BY <1>2, FS_EmptySet
<1>5. \A t \in Threads \ C : Cardinality(C \cup {t}) = Cardinality(C) + 1
  BY <1>2, FS_AddElement
<1>6. Cardinality(C) \in 0..numThreads
  BY <1>1, <1>2, <1>3, TaskQAssumption
<1> QED
  BY <1>1, <1>2, <1>4, <1>5, <1>6

LEMMA FirstQueue == 0 \in Queues
<1>1. myQ(0) = 0
  BY TaskQAssumption DEF myQ
<1> QED
  BY <1>1, OwnQueue, ThreadZero

-----------------------------------------------------------------------------
LEMMA InitIInv == Init => IInv
<1> SUFFICES ASSUME Init PROVE IInv
  OBVIOUS
<1> USE DEF Init
<1>1. 0 \in Queues /\ 0 \in Threads
  BY FirstQueue, ThreadZero
<1>2. TypeOK
  <2>1. /\ taskQ \in [Queues -> Seq(Tasks)]
        /\ spawn \in [Threads -> Seq(Tasks)]
        /\ batches \in Seq(Batches)
    OBVIOUS
  <2>2. /\ lock \in [Queues -> Threads \cup {Nobody}]
        /\ pc \in [Threads -> Places]
        /\ loop \in [Threads -> {"own", "lastOwn"}]
        /\ back \in [Threads -> {"own", "run", "exit"}]
    BY DEF Places
  <2>3. /\ running \in [Threads -> Tasks \cup {NoTask}]
        /\ victim \in [Threads -> Queues]
        /\ executed \in [Tasks -> Nat]
    BY <1>1
  <2> QED
    BY <1>1, <2>1, <2>2, <2>3 DEF TypeOK
<1>3. pc[0] = "end" /\ \A w \in Workers : pc[w] = "wait"
  BY ThreadZero DEF Workers
<1>4. Cardinality({}) = 0
  BY FS_EmptySet
<1>5. PlacesInv /\ CountInv /\ StartInv
  BY <1>3, <1>4 DEF PlacesInv, CountInv, StartInv, Outside, Signals, Workers
<1>6. RegionInv /\ EndInv
  BY <1>3 DEF RegionInv, EndInv, Busy, Signals
<1>7. QueueInv
  BY <1>3 DEF QueueInv, Returned, Outside
<1> QED
  BY <1>2, <1>5, <1>6, <1>7 DEF IInv

LEMMA AllIdle == IInv /\ Outside => \A w \in Workers : pc[w] = "idle"
BY DEF IInv, CountInv, Workers

LEMMA Safe == IInv => SerialAlone
BY AllIdle DEF IInv, QueueInv, SerialAlone, Outside

-----------------------------------------------------------------------------
LEMMA EnqueueKeeps == ASSUME IInv, Enqueue PROVE IInv'
<1> DEFINE b == Head(batches)
           q == IF b.to = AnyQueue THEN pickQueue(0) ELSE b.to
<1> USE DEF Enqueue
<1>1. b \in Batches /\ Tail(batches) \in Seq(Batches) /\ Len(Tail(batches)) = Len(batches) - 1
  BY HeadTailProperties DEF IInv, TypeOK
<1>2. pickQueue(0) \in Queues /\ NextQueue(nextQ) \in Queues
  BY OwnQueue, ThreadZero DEF IInv, TypeOK, pickQueue
<1>3. q \in Queues
  BY <1>1, <1>2 DEF Batches, AnyQueue
<1>4. taskQ[q] \o b.tasks \in Seq(Tasks) /\ TasksOf(b.tasks) \subseteq Tasks
  BY <1>1, <1>3 DEF IInv, TypeOK, Batches, TasksOf
<1>5. TypeOK'
  BY <1>1, <1>2, <1>3, <1>4
     DEF IInv, TypeOK, MoveHint, counting, execution, Places
<1>6. pc' = pc /\ back' = back /\ loop' = loop /\ counted' = counted
      /\ threadCount' = threadCount /\ region' = region /\ victim' = victim
      /\ parallelRegion' = parallelRegion /\ noMoreTasks' = noMoreTasks
  BY DEF counting, execution
<1>7. PlacesInv' /\ CountInv'
  BY <1>6 DEF IInv, PlacesInv, CountInv, Outside, Signals
<1>8. region > 0 /\ region \in Nat /\ ~noMoreTasks /\ region <= Len(Script)
      /\ Len(batches') < Len(Script[region]) /\ Len(batches) \in Nat
  <2>1. Len(batches) \in Nat /\ Len(batches') = Len(batches) - 1 /\ batches # << >>
    BY <1>1 DEF IInv, TypeOK
  <2>2. region > 0 /\ region \in Nat /\ ~noMoreTasks /\ region <= Len(Script)
        /\ Len(batches) <= Len(Script[region])
    BY <2>1, TaskQAssumption DEF IInv, TypeOK, RegionInv, EndInv, Signals
  <2>3. Script[region] \in Seq(Batches)
    BY <2>2, TaskQAssumption
  <2> QED
    BY <2>1, <2>2, <2>3
<1>9. StartInv' /\ RegionInv' /\ EndInv'
  BY <1>6, <1>8 DEF IInv, StartInv, RegionInv, EndInv, Busy, Signals
<1>10. ~Returned'
  <2> HIDE DEF Enqueue
  <2>1. ASSUME NEW n \in Nat, NEW s, Len(s) < n PROVE Len(s) # n
    BY <2>1
  <2>2. Script[region] \in Seq(Batches)
    BY <1>8, TaskQAssumption
  <2>3. Len(Script[region]) \in Nat
    BY <2>2
  <2>4. batches' # Script[region]
    BY <1>8, <2>1, <2>3
  <2> QED
    BY <1>6, <1>8, <2>4 DEF Returned
<1>11. QueueInv'
  BY <1>6, <1>10 DEF IInv, QueueInv, Outside, myQ
<1> QED
  BY <1>5, <1>7, <1>9, <1>11 DEF IInv

LEMMA WaitKeeps == ASSUME IInv, taskQWait PROVE IInv'
<1> USE ThreadZero DEF taskQWait, CallSignal, GoTo
<1>1. TypeOK'
  BY DEF IInv, TypeOK, Places, counting, execution
<1>2. PlacesInv' /\ CountInv'
  <2>1. pc' = [pc EXCEPT ![0] = "signal"] /\ pc \in [Threads -> Places]
    BY DEF IInv, TypeOK
  <2>2. Outside /\ Outside'
    BY <2>1 DEF Outside, Signals, IInv, TypeOK
  <2>3. PlacesInv'
    BY <2>1 DEF IInv, PlacesInv, Workers, Signals, execution
  <2>4. CountInv'
    BY <2>1, <2>2 DEF IInv, CountInv, Workers, counting
  <2> QED
    BY <2>3, <2>4
<1>3. StartInv' /\ RegionInv' /\ EndInv'
  BY DEF IInv, TypeOK, StartInv, RegionInv, EndInv, Busy, Signals, Workers, counting, execution
<1>4. QueueInv'
  BY DEF IInv, TypeOK, QueueInv, Outside, Signals, Returned, counting, execution
<1> QED
  BY <1>1, <1>2, <1>3, <1>4 DEF IInv

LEMMA EndKeeps == ASSUME IInv, taskQEnd PROVE IInv'
<1> USE ThreadZero DEF taskQEnd, CallSignal, GoTo
<1>1. TypeOK'
  BY DEF IInv, TypeOK, Places, counting, execution
<1>2. PlacesInv' /\ CountInv'
  <2>1. pc' = [pc EXCEPT ![0] = "signal"] /\ pc \in [Threads -> Places]
    BY DEF IInv, TypeOK
  <2>2. Outside /\ Outside'
    BY <2>1 DEF Outside, Signals, IInv, TypeOK
  <2>3. PlacesInv'
    BY <2>1 DEF IInv, PlacesInv, Workers, Signals, execution
  <2>4. CountInv'
    BY <2>1, <2>2 DEF IInv, CountInv, Workers, counting
  <2> QED
    BY <2>3, <2>4
<1>3. Returned /\ \A w \in Workers : pc[w] = "idle"
  <2>1. pc[0] = "serial" /\ batches = << >> /\ region > Len(Script)
    OBVIOUS
  <2>2. region \in Nat /\ Len(Script) \in Nat
    BY TaskQAssumption DEF IInv, TypeOK
  <2>3. Returned
    BY <2>1, <2>2 DEF Returned
  <2>4. Outside
    BY <2>1 DEF Outside
  <2> QED BY <2>3, <2>4, AllIdle
<1>4. StartInv' /\ RegionInv' /\ EndInv'
  BY <1>3 DEF IInv, TypeOK, StartInv, RegionInv, EndInv, QueueInv, Busy, Signals, Workers,
              counting, execution
<1>5. QueueInv'
  BY DEF IInv, TypeOK, QueueInv, Outside, Signals, Returned, counting, execution
<1> QED
  BY <1>1, <1>2, <1>4, <1>5 DEF IInv
-----------------------------------------------------------------------------
\* A step of t in the parallel region keeps QueueInv if t still looks after its
\* queue, or that is empty, and nobody else stops looking.
LEMMA QueueStep ==
  ASSUME IInv, NEW t \in Threads, ~Outside, ~Outside',
         \A q \in Queues : taskQ'[q] # << >> =>
            taskQ[q] # << >> \/ (q = myQ(t) /\ Looks(t)'),
         \A u \in Threads \ {t} : Looks(u) => Looks(u)',
         Looks(t) => Looks(t)' \/ taskQ'[myQ(t)] = << >>,
         \A u \in Threads :
            (pc[u] \in {"grab", "grabBoth", "move"} => victim[u] # myQ(u))
            => (pc[u] \in {"grab", "grabBoth", "move"} => victim[u] # myQ(u))'
  PROVE  QueueInv'
<1>1. ASSUME NEW q \in Queues, taskQ'[q] # << >>
      PROVE  \E u \in Threads : myQ(u) = q /\ Looks(u)'
  <2>1. CASE taskQ[q] # << >>
    <3>1. PICK u \in Threads : myQ(u) = q /\ Looks(u)
      BY <2>1 DEF IInv, QueueInv
    <3>2. Looks(u)'
      BY <1>1, <3>1
    <3> QED
      BY <3>1, <3>2
  <2>2. CASE taskQ[q] = << >>
    BY <1>1, <2>2
  <2> QED
    BY <2>1, <2>2
<1>2. ~Returned'
  BY DEF Returned, Outside
<1>3. \A u \in Threads : (pc[u] \in {"grab", "grabBoth", "move"} => victim[u] # myQ(u))'
  BY DEF IInv, QueueInv
<1> QED
  BY <1>1, <1>2, <1>3 DEF QueueInv, myQ

\* Thread 0 alone leaves the parallel region and enters it again.
LEMMA InRegion ==
  ASSUME IInv, NEW t \in Threads, t # 0, pc[t] # "idle" PROVE ~Outside
BY AllIdle DEF Workers

LEMMA FinishKeeps == ASSUME IInv, NEW t \in Threads, FinishTask(t) PROVE IInv'
<1> USE ThreadZero DEF FinishTask, GoTo, counting, control, execution
<1>1. TypeOK'
  <2>1. executed' \in [Tasks -> Nat]
    <3>1. executed \in [Tasks -> Nat]
      BY DEF IInv, TypeOK
    <3>2. executed' = [x \in Tasks |-> IF x = running[t] THEN executed[x] + 1 ELSE executed[x]]
      BY <3>1
    <3>3. \A x \in Tasks : executed[x] \in Nat /\ executed[x] + 1 \in Nat
      BY <3>1
    <3> HIDE DEF FinishTask
    <3> QED
      BY <3>2, <3>3
  <2>2. loop[t] \in Places
    BY DEF IInv, TypeOK, Places
  <2> QED
    BY <2>1, <2>2 DEF IInv, TypeOK
<1>2. PlacesInv'
  BY DEF IInv, TypeOK, PlacesInv, Workers, Signals
<1>3. CountInv'
  BY DEF IInv, TypeOK, PlacesInv, CountInv, Outside, Workers, Signals
<1>4. StartInv'
  BY DEF IInv, TypeOK, PlacesInv, StartInv, Workers, Signals
<1>5. RegionInv' /\ EndInv'
  BY DEF IInv, TypeOK, PlacesInv, RegionInv, EndInv, Busy, Workers, Signals
<1>6. QueueInv'
  <2>1. ~Outside /\ ~Outside'
    BY InRegion DEF IInv, TypeOK, PlacesInv, Outside, Signals
  <2>2. \A u \in Threads \ {t} : Looks(u) => Looks(u)'
    BY DEF IInv, TypeOK, Looks
  <2>3. Looks(t) => Looks(t)' \/ taskQ'[myQ(t)] = << >>
    BY DEF IInv, TypeOK, Looks, Signals
  <2> QED
    BY <2>1, <2>2, <2>3, QueueStep DEF IInv, TypeOK, myQ
<1> QED
  BY <1>1, <1>2, <1>3, <1>4, <1>5, <1>6 DEF IInv

LEMMA OutOfOwnKeeps == ASSUME IInv, NEW t \in Threads, OutOfOwn(t) PROVE IInv'
<1> USE ThreadZero DEF OutOfOwn, GoTo, counting, control, execution
<1>1. TypeOK'
  BY OwnQueue DEF IInv, TypeOK, Places
<1>2. PlacesInv'
  BY DEF IInv, TypeOK, PlacesInv, Workers, Signals
<1>3. CountInv'
  BY DEF IInv, TypeOK, PlacesInv, CountInv, Outside, Workers, Signals
<1>4. StartInv'
  BY DEF IInv, TypeOK, PlacesInv, StartInv, Workers, Signals
<1>5. RegionInv' /\ EndInv'
  BY DEF IInv, TypeOK, PlacesInv, RegionInv, EndInv, Busy, Workers, Signals
<1>6. QueueInv'
  <2>1. ~Outside /\ ~Outside'
    BY InRegion DEF IInv, TypeOK, PlacesInv, Outside, Signals
  <2>2. \A u \in Threads \ {t} : Looks(u) => Looks(u)'
    BY DEF IInv, TypeOK, Looks
  <2>3. Looks(t) => Looks(t)' \/ taskQ'[myQ(t)] = << >>
    BY DEF IInv, TypeOK, Looks, Signals
  <2> QED
    BY <2>1, <2>2, <2>3, QueueStep DEF IInv, TypeOK, myQ
<1> QED
  BY <1>1, <1>2, <1>3, <1>4, <1>5, <1>6 DEF IInv

LEMMA NothingToStealKeeps == ASSUME IInv, NEW t \in Threads, NothingToSteal(t) PROVE IInv'
<1> USE ThreadZero DEF NothingToSteal, GoTo, counting, control, execution
<1>1. TypeOK'
  BY OwnQueue DEF IInv, TypeOK, Places
<1>2. PlacesInv'
  BY DEF IInv, TypeOK, PlacesInv, Workers, Signals
<1>3. CountInv'
  BY DEF IInv, TypeOK, PlacesInv, CountInv, Outside, Workers, Signals
<1>4. StartInv'
  BY DEF IInv, TypeOK, PlacesInv, StartInv, Workers, Signals
<1>5. RegionInv' /\ EndInv'
  BY DEF IInv, TypeOK, PlacesInv, RegionInv, EndInv, Busy, Workers, Signals
<1>6. QueueInv'
  <2>1. ~Outside /\ ~Outside'
    BY InRegion DEF IInv, TypeOK, PlacesInv, Outside, Signals
  <2>2. \A u \in Threads \ {t} : Looks(u) => Looks(u)'
    BY DEF IInv, TypeOK, Looks
  <2>3. Looks(t) => Looks(t)' \/ taskQ'[myQ(t)] = << >>
    BY DEF IInv, TypeOK, Looks, Signals
  <2> QED
    BY <2>1, <2>2, <2>3, QueueStep DEF IInv, TypeOK, myQ
<1> QED
  BY <1>1, <1>2, <1>3, <1>4, <1>5, <1>6 DEF IInv

LEMMA LookKeeps == ASSUME IInv, NEW t \in Threads, LookAt(t) PROVE IInv'
<1> USE ThreadZero DEF LookAt, GoTo, counting, control, execution
<1>1. TypeOK'
  BY OwnQueue DEF IInv, TypeOK, Places
<1>2. PlacesInv'
  BY DEF IInv, TypeOK, PlacesInv, Workers, Signals
<1>3. CountInv'
  BY DEF IInv, TypeOK, PlacesInv, CountInv, Outside, Workers, Signals
<1>4. StartInv'
  BY DEF IInv, TypeOK, PlacesInv, StartInv, Workers, Signals
<1>5. RegionInv' /\ EndInv'
  BY DEF IInv, TypeOK, PlacesInv, RegionInv, EndInv, Busy, Workers, Signals
<1>6. QueueInv'
  <2>1. ~Outside /\ ~Outside'
    BY InRegion DEF IInv, TypeOK, PlacesInv, Outside, Signals
  <2>2. \A u \in Threads \ {t} : Looks(u) => Looks(u)'
    BY DEF IInv, TypeOK, Looks
  <2>3. Looks(t) => Looks(t)' \/ taskQ'[myQ(t)] = << >>
    BY DEF IInv, TypeOK, Looks, Signals
  <2> QED
    BY <2>1, <2>2, <2>3, QueueStep DEF IInv, TypeOK, myQ
<1> QED
  BY <1>1, <1>2, <1>3, <1>4, <1>5, <1>6 DEF IInv

LEMMA WakeUpKeeps == ASSUME IInv, NEW t \in Threads, WakeUp(t) PROVE IInv'
<1> USE ThreadZero DEF WakeUp, GoTo, counting, control, execution
<1>1. TypeOK'
  BY OwnQueue DEF IInv, TypeOK, Places
<1>2. PlacesInv'
  BY DEF IInv, TypeOK, PlacesInv, Workers, Signals
<1>3. CountInv'
  BY DEF IInv, TypeOK, PlacesInv, CountInv, Outside, Workers, Signals
<1>4. StartInv'
  BY DEF IInv, TypeOK, PlacesInv, StartInv, Workers, Signals
<1>5. RegionInv' /\ EndInv'
  BY DEF IInv, TypeOK, PlacesInv, RegionInv, EndInv, Busy, Workers, Signals
<1>6. QueueInv'
  <2>1. (~Outside /\ ~Outside') \/ noMoreTasks
    BY InRegion DEF IInv, TypeOK, PlacesInv, Outside, Signals
  <2>2. CASE noMoreTasks
    BY <2>2 DEF IInv, TypeOK, EndInv, QueueInv, Returned
  <2>3. CASE ~noMoreTasks
    <3>1. \A u \in Threads \ {t} : Looks(u) => Looks(u)'
      BY DEF IInv, TypeOK, Looks
    <3>2. Looks(t)'
      BY <2>3 DEF IInv, TypeOK, Looks
    <3> QED
      BY <2>1, <2>3, <3>1, <3>2, QueueStep DEF IInv, TypeOK, myQ
  <2> QED
    BY <2>2, <2>3
<1> QED
  BY <1>1, <1>2, <1>3, <1>4, <1>5, <1>6 DEF IInv

LEMMA SignalNeededKeeps == ASSUME IInv, NEW t \in Threads, SignalNeeded(t) PROVE IInv'
<1> USE ThreadZero DEF SignalNeeded, GoTo, counting, control, execution
<1> DEFINE place == IF threadCount = 0 THEN back[t] ELSE "signalling"
<1>1. /\ pc' = [pc EXCEPT ![t] = place] /\ pc[t] = "signal" /\ pc \in [Threads -> Places]
      /\ place \in {"own", "run", "exit", "signalling"}
      /\ UNCHANGED <<taskQ, counted, threadCount, back, batches, region, loop, victim,
                     parallelRegion, noMoreTasks>>
  BY DEF IInv, TypeOK
<1>2. TypeOK'
  BY <1>1, SMTT(30) DEF IInv, TypeOK, Places
<1>3. threadCount = 0 => counted = {} /\ ~Outside
  BY Counting DEF IInv, TypeOK, CountInv
<1>4. place = "signalling" \/ (place = "run" /\ back[t] = "run")
  BY <1>1, <1>3, InRegion DEF IInv, TypeOK, PlacesInv, Outside, Signals, Workers
<1>5. Outside' <=> Outside
  BY <1>1, <1>4 DEF Outside, Signals
<1>6. PlacesInv'
  BY <1>1, <1>4 DEF IInv, PlacesInv, Workers, Signals
<1>7. CountInv'
  BY <1>1, <1>4, <1>5 DEF IInv, CountInv, Workers
<1>8. StartInv'
  BY <1>1 DEF IInv, StartInv, Workers
<1>9. RegionInv'
  BY <1>1, <1>4 DEF IInv, RegionInv, Busy, Signals
<1>10. EndInv'
  BY <1>1, <1>4 DEF IInv, EndInv, Workers, Signals
<1>11. \A u \in Threads : Looks(u) => Looks(u)'
  BY <1>1, <1>4 DEF Looks, Signals
<1>12. ~Returned'
  BY <1>1, <1>4, AllIdle DEF Returned, Outside, Workers
<1>13. QueueInv'
  BY <1>1, <1>4, <1>5, <1>11, <1>12 DEF IInv, QueueInv, myQ
<1> QED
  BY <1>2, <1>6, <1>7, <1>8, <1>9, <1>10, <1>13 DEF IInv

LEMMA GrabKeeps == ASSUME IInv, NEW t \in Threads, Grab(t) PROVE IInv'
<1> DEFINE q == LockOrder(t)[IF pc[t] = "grab" THEN 1 ELSE 2]
<1> USE ThreadZero DEF Grab, GoTo, counting, control, execution
<1>1. q \in Queues
  BY OwnQueue DEF IInv, TypeOK, LockOrder
<1>2. TypeOK'
  BY <1>1 DEF IInv, TypeOK, Places
<1>3. PlacesInv' /\ StartInv'
  BY DEF IInv, TypeOK, PlacesInv, StartInv, Workers, Signals
<1>4. CountInv'
  BY DEF IInv, TypeOK, PlacesInv, CountInv, Outside, Workers, Signals
<1>5. RegionInv' /\ EndInv'
  BY DEF IInv, TypeOK, PlacesInv, RegionInv, EndInv, Busy, Workers, Signals
<1>6. QueueInv'
  <2>1. ~Outside /\ ~Outside'
    BY InRegion DEF IInv, TypeOK, PlacesInv, Outside, Signals
  <2>2. \A u \in Threads \ {t} : Looks(u) => Looks(u)'
    BY DEF IInv, TypeOK, Looks
  <2>3. ~Looks(t)
    BY DEF Looks, Signals
  <2> QED
    BY <2>1, <2>2, <2>3, QueueStep DEF IInv, TypeOK, myQ
<1> QED
  BY <1>2, <1>3, <1>4, <1>5, <1>6 DEF IInv

LEMMA StartKeeps == ASSUME IInv, NEW t \in Threads, StartTask(t) PROVE IInv'
<1> DEFINE q == myQ(t)
           n == Len(taskQ[q])
           rest == SubSeq(taskQ[q], 1, n - 1)
<1>1. /\ pc[t] \in {"own", "lastOwn"} /\ pc' = [pc EXCEPT ![t] = "run"]
      /\ n > 0 /\ taskQ' = [taskQ EXCEPT ![q] = rest]
      /\ running' = [running EXCEPT ![t] = taskQ[q][n]]
      /\ spawn' = [spawn EXCEPT ![t] = Spawns[taskQ[q][n]]]
      /\ loop' = [loop EXCEPT ![t] = pc[t]]
      /\ UNCHANGED <<lock, threadCount, counted, nextQ, back, victim, executed, enqueued,
                     batches, region, parallelRegion, noMoreTasks>>
  BY DEF StartTask, GoTo, counting, control
<1>2. q \in Queues /\ taskQ[q] \in Seq(Tasks)
  BY OwnQueue DEF IInv, TypeOK
<1>3. n \in Nat /\ taskQ[q][n] \in Tasks /\ rest \in Seq(Tasks)
  BY <1>1, <1>2, ElementOfSeq, SubSeqProperties
<1>4. Spawns[taskQ[q][n]] \in Seq(Tasks)
  BY <1>3, TaskQAssumption
<1>5. TypeOK'
  BY <1>1, <1>2, <1>3, <1>4 DEF IInv, TypeOK, Places
<1> HIDE DEF n, rest
<1>6. PlacesInv'
  BY <1>1 DEF IInv, TypeOK, PlacesInv, Workers, Signals
<1>7. CountInv'
  BY <1>1, ThreadZero DEF IInv, TypeOK, PlacesInv, CountInv, Outside, Workers, Signals
<1>8. parallelRegion /\ region # 0
  BY <1>1 DEF IInv, RegionInv, StartInv, Busy, Workers
<1>9. StartInv' /\ RegionInv'
  BY <1>1, <1>8, ThreadZero DEF IInv, TypeOK, StartInv, RegionInv, Busy, Signals
<1>10. EndInv'
  BY <1>1, ThreadZero DEF IInv, TypeOK, EndInv, Workers, Signals
<1>11. QueueInv'
  <2>1. ~Outside /\ ~Outside'
    BY <1>1, InRegion, ThreadZero DEF IInv, TypeOK, PlacesInv, Outside, Signals
  <2>2. \A u \in Threads \ {t} : Looks(u) => Looks(u)'
    BY <1>1 DEF IInv, TypeOK, Looks
  <2>3. Looks(t)'
    BY <1>1 DEF IInv, TypeOK, Looks
  <2>4. \A r \in Queues : r # q => taskQ'[r] = taskQ[r]
    BY <1>1 DEF IInv, TypeOK
  <2> QED
    BY <1>1, <2>1, <2>2, <2>3, <2>4, QueueStep DEF IInv, TypeOK, myQ
<1> QED
  BY <1>5, <1>6, <1>7, <1>9, <1>10, <1>11 DEF IInv

LEMMA SpawnKeeps == ASSUME IInv, NEW t \in Threads, Spawn(t) PROVE IInv'
<1> DEFINE q == myQ(t)
           c == Head(spawn[t])
<1>1. parallelRegion /\ region # 0
  BY DEF Spawn, IInv, RegionInv, StartInv, Busy, Workers
<1>2. /\ pc[t] = "run" /\ spawn[t] # << >>
      /\ pc' = [pc EXCEPT ![t] = "signal"]
      /\ back' = [back EXCEPT ![t] = "run"]
      /\ taskQ' = [taskQ EXCEPT ![q] = Append(@, c)]
      /\ enqueued' = enqueued \cup {c}
      /\ spawn' = [spawn EXCEPT ![t] = Tail(@)]
      /\ UNCHANGED <<lock, threadCount, counted, nextQ, loop, victim, executed, running,
                     batches, region, parallelRegion, noMoreTasks>>
  BY <1>1 DEF Spawn, pickQueue, MoveHint, CallSignal, GoTo, counting, control
<1>3. q \in Queues /\ taskQ[q] \in Seq(Tasks) /\ spawn[t] \in Seq(Tasks)
  BY OwnQueue DEF IInv, TypeOK
<1>4. c \in Tasks /\ Tail(spawn[t]) \in Seq(Tasks)
  BY <1>2, <1>3, HeadTailProperties
<1>5. Append(taskQ[q], c) \in Seq(Tasks)
  BY <1>3, <1>4, AppendProperties
<1> HIDE DEF c
<1>6. TypeOK'
  BY <1>2, <1>3, <1>4, <1>5 DEF IInv, TypeOK, Places
<1>7. PlacesInv'
  BY <1>2 DEF IInv, TypeOK, PlacesInv, Workers, Signals
<1>8. CountInv'
  BY <1>2, ThreadZero DEF IInv, TypeOK, PlacesInv, CountInv, Outside, Workers, Signals
<1>9. StartInv' /\ RegionInv'
  BY <1>1, <1>2, ThreadZero DEF IInv, TypeOK, StartInv, RegionInv, Busy, Signals
<1>10. EndInv'
  BY <1>2, ThreadZero DEF IInv, TypeOK, EndInv, Workers, Signals
<1>11. QueueInv'
  <2>1. ~Outside /\ ~Outside'
    BY <1>2, InRegion, ThreadZero DEF IInv, TypeOK, PlacesInv, Outside, Signals
  <2>2. \A u \in Threads \ {t} : Looks(u) => Looks(u)'
    BY <1>2 DEF IInv, TypeOK, Looks
  <2>3. Looks(t)'
    BY <1>2 DEF IInv, TypeOK, Looks, Signals
  <2>4. \A r \in Queues : r # q => taskQ'[r] = taskQ[r]
    BY <1>2 DEF IInv, TypeOK
  <2> QED
    BY <1>2, <2>1, <2>2, <2>3, <2>4, QueueStep DEF IInv, TypeOK, myQ
<1> QED
  BY <1>6, <1>7, <1>8, <1>9, <1>10, <1>11 DEF IInv

LEMMA StealAtMost == ASSUME NEW m \in Nat PROVE calculateNumSteal(m) \in 0..m
<1>1. CASE m = 1
  BY <1>1, TaskQAssumption DEF calculateNumSteal
<1>2. CASE m # 1
  <2>1. m \div 2 \in 0..m
    OBVIOUS
  <2> QED
    BY <1>2, <2>1, TaskQAssumption DEF calculateNumSteal
<1> QED
  BY <1>1, <1>2

LEMMA MoveKeeps == ASSUME IInv, NEW t \in Threads, MoveTasks(t) PROVE IInv'
<1> DEFINE q == myQ(t)
           v == victim[t]
           n == calculateNumSteal(Len(taskQ[v]))
           mine == taskQ[q] \o SubSeq(taskQ[v], 1, n)
           rest == SubSeq(taskQ[v], n + 1, Len(taskQ[v]))
           place == IF n = 0 THEN "steal" ELSE IF t = 0 THEN "lastOwn" ELSE "own"
<1>1. q \in Queues /\ v \in Queues /\ v # q
  BY OwnQueue DEF IInv, TypeOK, QueueInv, MoveTasks
<1>2. taskQ[q] \in Seq(Tasks) /\ taskQ[v] \in Seq(Tasks) /\ Len(taskQ[v]) \in Nat
  BY <1>1 DEF IInv, TypeOK
<1>3. n \in Nat /\ n <= Len(taskQ[v])
  BY <1>2, StealAtMost
<1>4. rest \in Seq(Tasks) /\ SubSeq(taskQ[v], 1, n) \in Seq(Tasks) /\ Len(rest) = Len(taskQ[v]) - n
      /\ Len(SubSeq(taskQ[v], 1, n)) = n
  BY <1>2, <1>3, SubSeqProperties
<1>5. mine \in Seq(Tasks) /\ Len(mine) = Len(taskQ[q]) + n
  BY <1>2, <1>4, ConcatProperties
<1>6. taskQ[v] = << >> => rest = << >>
  BY <1>2, <1>3, <1>4, EmptySeq
<1>7. n = 0 /\ taskQ[q] = << >> => mine = << >>
  BY <1>2, <1>5, EmptySeq
<1>8. /\ pc[t] = "move" /\ pc' = [pc EXCEPT ![t] = place]
      /\ taskQ' = [taskQ EXCEPT ![q] = mine, ![v] = rest]
      /\ victim' \in {victim, [victim EXCEPT ![t] = NextQueue(v)]}
      /\ n # 0 => victim' = victim
      /\ lock' = [lock EXCEPT ![v] = Nobody, ![q] = Nobody]
      /\ UNCHANGED <<threadCount, counted, nextQ, back, loop, executed, enqueued, spawn,
                     running, batches, region, parallelRegion, noMoreTasks>>
  BY <1>1 DEF MoveTasks, GoTo, counting, control, execution, IInv, TypeOK
<1> HIDE DEF n, mine, rest
<1>9. place \in {"steal", "lastOwn", "own"} /\ (t # 0 => place # "lastOwn")
  OBVIOUS
<1>10. taskQ' \in [Queues -> Seq(Tasks)]
  BY <1>1, <1>4, <1>5, <1>8 DEF IInv, TypeOK
<1>11. TypeOK'
  <2>1. NextQueue(v) \in Queues
    BY <1>1, OwnQueue
  <2>2. victim' \in [Threads -> Queues]
    BY <1>8, <2>1 DEF IInv, TypeOK
  <2>3. lock' \in [Queues -> Threads \cup {Nobody}]
    BY <1>1, <1>8 DEF IInv, TypeOK
  <2>4. pc' \in [Threads -> Places]
    BY <1>8, <1>9 DEF IInv, TypeOK, Places
  <2> QED
    BY <1>8, <1>10, <2>2, <2>3, <2>4 DEF IInv, TypeOK
<1>12. PlacesInv'
  BY <1>8, <1>9 DEF IInv, TypeOK, PlacesInv, Workers, Signals
<1>13. CountInv'
  BY <1>8, <1>9, ThreadZero DEF IInv, TypeOK, PlacesInv, CountInv, Outside, Workers, Signals
<1>14. parallelRegion /\ region # 0 /\ ~noMoreTasks
  BY <1>8 DEF IInv, RegionInv, StartInv, EndInv, Busy, Workers, Signals
<1>15. StartInv' /\ RegionInv' /\ EndInv'
  BY <1>8, <1>9, <1>14, ThreadZero
     DEF IInv, TypeOK, StartInv, RegionInv, EndInv, Busy, Workers, Signals
<1>16. QueueInv'
  <2>1. ~Outside /\ ~Outside'
    BY <1>8, <1>9, InRegion, ThreadZero DEF IInv, TypeOK, PlacesInv, Outside, Signals
  <2>2. \A u \in Threads \ {t} : Looks(u) => Looks(u)'
    BY <1>8 DEF IInv, TypeOK, Looks
  <2>3. ~Looks(t) /\ (n # 0 => Looks(t)')
    BY <1>8, <1>9 DEF IInv, TypeOK, Looks, Signals
  <2>4. \A r \in Queues : taskQ'[r] = IF r = v THEN rest ELSE IF r = q THEN mine ELSE taskQ[r]
    BY <1>1, <1>8 DEF IInv, TypeOK
  <2>5. \A r \in Queues : taskQ'[r] # << >> =>
           taskQ[r] # << >> \/ (r = q /\ Looks(t)')
    BY <1>1, <1>6, <1>7, <2>3, <2>4
  <2>6. \A u \in Threads :
            (pc[u] \in {"grab", "grabBoth", "move"} => victim[u] # myQ(u))
            => (pc[u] \in {"grab", "grabBoth", "move"} => victim[u] # myQ(u))'
    BY <1>8, <1>9 DEF IInv, TypeOK, myQ
  <2> QED
    BY <2>1, <2>2, <2>3, <2>5, <2>6, QueueStep
<1> QED
  BY <1>11, <1>12, <1>13, <1>15, <1>16 DEF IInv

LEMMA SignalKeeps == ASSUME IInv, NEW t \in Threads, Signal(t) PROVE IInv'
<1> DEFINE Woken(u) == CASE u = t -> back[t]
                         [] u # t /\ pc[u] = "idle" -> "woken"
                         [] u # t /\ pc[u] = "ending" -> "ended"
                         [] OTHER -> pc[u]
<1>1. /\ pc[t] = "signalling" /\ pc' = [u \in Threads |-> Woken(u)]
      /\ threadCount' = 0 /\ counted' = {}
      /\ UNCHANGED <<taskQ, lock, nextQ, back, loop, executed, enqueued, spawn, victim,
                     running, batches, region, parallelRegion, noMoreTasks>>
  BY DEF Signal, control, execution
<1>2. \A u \in Threads : pc'[u] = Woken(u) /\ pc[u] \in Places /\ back[u] \in {"own", "run", "exit"}
  BY <1>1 DEF IInv, TypeOK
<1>3. TypeOK'
  BY <1>1, <1>2 DEF IInv, TypeOK, Places
<1>4. 0 \in Threads /\ region # 0
  BY <1>1, ThreadZero DEF IInv, StartInv, Workers
<1>5. PlacesInv'
  BY <1>1, <1>2, <1>4 DEF IInv, PlacesInv, Workers, Signals
<1>6. ~Outside'
  BY <1>1, <1>2, <1>4, InRegion DEF IInv, PlacesInv, Outside, Signals
<1>7. CountInv'
  BY <1>1, <1>2, <1>5, <1>6, FS_EmptySet DEF CountInv, IInv, PlacesInv, Workers, Signals
<1>8. StartInv'
  BY <1>1, <1>4 DEF StartInv
<1>9. parallelRegion \/ noMoreTasks
  <2>1. back[t] \in {"own", "exit"} => t = 0
    BY <1>1 DEF IInv, PlacesInv, Workers, Signals
  <2> QED
    BY <1>1, <1>2, <2>1 DEF IInv, RegionInv, EndInv, Busy, Signals
<1>10. RegionInv'
  <2>1. \A u \in Threads : Busy(u)' => parallelRegion
    BY <1>1, <1>2, <1>5 DEF IInv, RegionInv, PlacesInv, Busy, Signals, Workers
  <2> QED
    BY <1>1, <1>2, <1>4, <1>6, <1>9, <2>1 DEF RegionInv, Outside, IInv, Signals
<1>11. EndInv'
  BY <1>1, <1>2, <1>4 DEF IInv, EndInv, Workers, Signals, PlacesInv
<1>12. \A q \in Queues : taskQ[q] # << >> => \E u \in Threads : myQ(u) = q /\ Looks(u)'
  <2> SUFFICES ASSUME NEW q \in Queues, taskQ[q] # << >>
               PROVE  \E u \in Threads : myQ(u) = q /\ Looks(u)'
    OBVIOUS
  <2>1. CASE Outside
    <3>1. t = 0 /\ \A w \in Workers : pc'[w] = "woken"
      BY <1>1, <1>2, <2>1, AllIdle DEF Workers
    <3>2. pc'[0] = "own"
      BY <1>1, <1>2, <1>4, <2>1, <3>1 DEF Outside, IInv, EndInv
    <3>3. PICK u \in Threads : myQ(u) = q
      BY QueueHasOwner
    <3> QED
      BY <3>1, <3>2, <3>3 DEF Looks, Workers
  <2>2. CASE ~Outside
    <3>1. PICK u \in Threads : myQ(u) = q /\ Looks(u)
      BY <2>2 DEF IInv, QueueInv
    <3>2. Looks(u)'
      BY <1>1, <1>2, <3>1 DEF Looks, Signals
    <3> QED
      BY <3>1, <3>2
  <2> QED
    BY <2>1, <2>2
<1>13. QueueInv'
  BY <1>1, <1>2, <1>6, <1>12 DEF IInv, QueueInv, Returned, Outside, myQ
<1> QED
  BY <1>3, <1>5, <1>7, <1>8, <1>10, <1>11, <1>13 DEF IInv

-----------------------------------------------------------------------------
LEMMA WaitForTasksKeeps == ASSUME IInv, NEW t \in Threads, waitForTasks(t) PROVE IInv'
<1> DEFINE place(u) == IF u = t THEN "idle"
                       ELSE IF threadCount + 1 = numThreads /\ pc[u] = "ending" THEN "ended"
                       ELSE pc[u]
<1>1. /\ t # 0 /\ pc[t] = "wait" /\ pc' = [u \in Threads |-> place(u)]
      /\ threadCount' = threadCount + 1 /\ counted' = counted \cup {t}
      /\ UNCHANGED <<taskQ, lock, nextQ, back, loop, executed, enqueued, spawn, victim,
                     running, batches, region, parallelRegion, noMoreTasks>>
  BY DEF waitForTasks, CountMe, control, execution
<1>2. \A u \in Threads : pc'[u] = place(u) /\ pc[u] \in Places
  BY <1>1 DEF IInv, TypeOK
<1>3. TypeOK'
  BY <1>1, <1>2 DEF IInv, TypeOK, Places
<1>4. t \notin counted /\ t \in Workers /\ ~Outside
  BY <1>1, InRegion DEF IInv, CountInv, Workers
<1>5. ~Outside' /\ 0 \in Threads
  BY <1>1, <1>2, <1>4, ThreadZero DEF Outside, Signals
<1>6. PlacesInv'
  BY <1>1, <1>2, <1>5 DEF IInv, PlacesInv, Workers, Signals
<1>7. threadCount' = Cardinality(counted') /\ counted' \subseteq Threads
  BY <1>1, <1>4, Counting DEF IInv, TypeOK, CountInv
<1>8. threadCount' = numThreads => counted' = Threads
  BY <1>7, Counting
<1>9. CountInv'
  BY <1>1, <1>2, <1>4, <1>5, <1>7, <1>8 DEF IInv, CountInv, Workers
<1>10. pc[0] # "ended" \/ 0 \notin counted
  BY <1>4 DEF IInv, CountInv
<1>11. StartInv'
  BY <1>1, <1>2, <1>4, <1>5, <1>8 DEF IInv, StartInv, Workers
<1>12. RegionInv' /\ EndInv'
  BY <1>1, <1>2, <1>5 DEF IInv, RegionInv, EndInv, Busy, Signals, Workers
<1>13. QueueInv'
  <2>1. \A u \in Threads \ {t} : Looks(u) => Looks(u)'
    BY <1>1, <1>2 DEF Looks, Signals
  <2>2. ~Looks(t)
    BY <1>1 DEF Looks, Signals
  <2> QED
    BY <1>1, <1>2, <1>4, <1>5, <2>1, <2>2, QueueStep DEF myQ
<1> QED
  BY <1>3, <1>6, <1>9, <1>11, <1>12, <1>13 DEF IInv

\* What thread 0 finds when all threads are counted, or at the start.
LEMMA NothingLeft ==
  ASSUME IInv, pc[0] \in {"end", "ending", "ended"},
         \/ \A w \in Workers : w \in counted
         \/ region = 0
  PROVE  \A q \in Queues : taskQ[q] = << >>
<1>1. CASE region = 0
  BY <1>1 DEF IInv, StartInv
<1>2. CASE \A w \in Workers : w \in counted
  <2>1. ~Outside /\ \A w \in Workers : pc[w] = "idle"
    BY <1>2 DEF IInv, CountInv, Outside, Signals
  <2>2. \A t \in Threads : ~Looks(t)
    BY <2>1 DEF Looks, Signals, Workers
  <2> QED
    BY <2>1, <2>2 DEF IInv, QueueInv
<1> QED
  BY <1>1, <1>2

\* Thread 0 goes on to serial code.
LEMMA GoOnKeeps ==
  ASSUME IInv, pc[0] \in {"end", "ended"},
         \A w \in Workers : w \in counted,
         AfterEnd(TRUE), counted' = Threads, threadCount' = Cardinality(Threads),
         UNCHANGED <<taskQ, lock, nextQ, execution, back, victim>>
  PROVE  IInv'
<1>1. /\ pc' = [pc EXCEPT ![0] = "serial"]
      /\ region' = region + 1 /\ parallelRegion' = FALSE /\ noMoreTasks' = noMoreTasks
      /\ batches' = IF region < Len(Script) THEN Script[region + 1] ELSE << >>
      /\ UNCHANGED <<taskQ, lock, nextQ, back, loop, executed, enqueued, spawn, victim, running>>
  BY DEF AfterEnd, GoTo, execution
<1>2. region \in Nat /\ Len(Script) \in Nat
  BY TaskQAssumption DEF IInv, TypeOK
<1>3. batches' \in Seq(Batches)
  BY <1>1, <1>2, TaskQAssumption
<1>4. Cardinality(Threads) \in Nat
  BY Counting
<1>5. TypeOK'
  <2>1. pc' \in [Threads -> Places]
    BY <1>1 DEF IInv, TypeOK, Places
  <2>2. region' \in Nat /\ threadCount' \in Nat /\ counted' \subseteq Threads
    BY <1>1, <1>2, <1>4
  <2> QED
    BY <1>1, <1>3, <2>1, <2>2 DEF IInv, TypeOK
<1>6. pc'[0] = "serial" /\ \A w \in Workers : pc'[w] = "idle"
  BY <1>1, ThreadZero DEF IInv, TypeOK, CountInv, Workers
<1>7. PlacesInv' /\ CountInv'
  BY <1>1, <1>6 DEF IInv, PlacesInv, CountInv, Workers, Outside, Signals
<1>8. ~noMoreTasks
  BY DEF IInv, EndInv, Signals
<1>9. StartInv' /\ EndInv'
  BY <1>1, <1>2, <1>6, <1>8 DEF StartInv, EndInv, Signals
<1>10. RegionInv'
  <2>1. \A t \in Threads : ~Busy(t)' /\ pc'[t] # "woken"
    BY <1>6 DEF Busy, Signals, Workers
  <2>2. region' <= Len(Script) => Len(batches') <= Len(Script[region'])
    <3> SUFFICES ASSUME region' <= Len(Script) PROVE Len(batches') <= Len(Script[region'])
      OBVIOUS
    <3>1. batches' = Script[region']
      BY <1>1, <1>2
    <3>2. Len(batches') \in Nat
      BY <1>3
    <3> QED
      BY <3>1, <3>2
  <2> QED
    BY <1>1, <1>2, <1>6, <2>1, <2>2 DEF RegionInv, Signals
<1>11. \A q \in Queues : taskQ'[q] = << >>
  BY <1>1, NothingLeft
<1>12. QueueInv'
  BY <1>6, <1>11 DEF QueueInv, Workers, myQ
<1> QED
  BY <1>5, <1>7, <1>9, <1>10, <1>12 DEF IInv

LEMMA WaitForEndKeeps == ASSUME IInv, waitForEnd PROVE IInv'
<1>1. pc[0] = "end" /\ 0 \in Threads
  BY ThreadZero DEF waitForEnd
<1>2. 0 \notin counted /\ ~Outside
  BY <1>1 DEF IInv, CountInv, Outside, Signals
<1>3. /\ threadCount' = threadCount + 1 /\ counted' = counted \cup {0}
      /\ UNCHANGED <<taskQ, lock, nextQ, execution, back, victim>>
  BY DEF waitForEnd, CountMe
<1>4. threadCount' = Cardinality(counted') /\ counted' \subseteq Threads
  BY <1>1, <1>2, <1>3, Counting DEF IInv, TypeOK, CountInv
<1>5. threadCount' = numThreads <=> counted' = Threads
  BY <1>4, Counting
<1>6. CASE threadCount + 1 = numThreads
  <2>1. AfterEnd(TRUE)
    BY <1>6 DEF waitForEnd
  <2>2. \A w \in Workers : w \in counted
    BY <1>3, <1>5, <1>6 DEF Workers
  <2> QED
    BY <1>1, <1>3, <1>4, <1>5, <1>6, <2>1, <2>2, GoOnKeeps
<1>7. CASE threadCount + 1 # numThreads
  <2>1. /\ pc' = [pc EXCEPT ![0] = "ending"]
        /\ UNCHANGED <<batches, region, parallelRegion, noMoreTasks, loop, executed,
                       enqueued, spawn, running>>
    BY <1>3, <1>7 DEF waitForEnd, GoTo, control, execution
  <2>2. TypeOK'
    <3>1. threadCount' \in Nat
      BY <1>3 DEF IInv, TypeOK
    <3> QED
      BY <1>3, <1>4, <2>1, <3>1 DEF IInv, TypeOK, Places
  <2>3. pc'[0] = "ending" /\ \A w \in Workers : pc'[w] = pc[w]
    BY <1>1, <2>1 DEF IInv, TypeOK, Workers
  <2>4. PlacesInv' /\ CountInv'
    BY <1>3, <1>4, <2>1, <2>3 DEF IInv, PlacesInv, CountInv, Outside, Signals, Workers
  <2>5. StartInv' /\ EndInv'
    BY <1>1, <1>3, <2>1, <2>3 DEF IInv, StartInv, EndInv, Signals, Workers
  <2>6. RegionInv'
    BY <1>1, <1>3, <2>1, <2>3 DEF IInv, RegionInv, Busy, Signals, Workers
  <2>7. QueueInv'
    <3>1. ~Outside'
      BY <2>3 DEF Outside, Signals
    <3>2. ~Looks(0) /\ \A u \in Threads \ {0} : Looks(u) => Looks(u)'
      BY <1>1, <1>3, <2>3 DEF Looks, Signals, Workers
    <3> QED
      BY <1>1, <1>2, <1>3, <2>3, <3>1, <3>2, QueueStep DEF Workers, myQ
  <2> QED
    BY <2>2, <2>4, <2>5, <2>6, <2>7 DEF IInv
<1> QED
  BY <1>6, <1>7

LEMMA EndOfWaitKeeps == ASSUME IInv, EndOfWait PROVE IInv'
<1>1. pc[0] = "ended" /\ 0 \in Threads /\ ~Outside
  BY ThreadZero DEF EndOfWait, Outside, Signals
<1>2. UNCHANGED <<taskQ, lock, nextQ, execution, back, victim, threadCount, counted>>
  BY DEF EndOfWait, counting
<1>3. threadCount = Cardinality(counted) /\ counted \subseteq Threads
  BY DEF IInv, CountInv, TypeOK
<1>4. region = 0 => counted = Threads
  BY <1>1 DEF IInv, StartInv
<1>5. CASE counted = Threads
  <2>1. threadCount = numThreads
    BY <1>3, <1>5, Counting
  <2>2. AfterEnd(TRUE)
    BY <2>1 DEF EndOfWait
  <2> QED
    BY <1>1, <1>2, <1>3, <1>5, <2>2, GoOnKeeps DEF Workers
<1>6. CASE counted # Threads
  <2>1. threadCount # numThreads /\ region # 0 /\ 0 \notin counted
    BY <1>1, <1>3, <1>4, <1>6, Counting DEF IInv, CountInv
  <2>2. /\ pc' = [pc EXCEPT ![0] = "own"]
        /\ UNCHANGED <<batches, region, parallelRegion, noMoreTasks, loop, executed,
                       enqueued, spawn, running>>
    BY <1>2, <2>1 DEF EndOfWait, AfterEnd, GoTo, control, execution
  <2>3. TypeOK'
    BY <1>2, <2>2 DEF IInv, TypeOK, Places
  <2>4. pc'[0] = "own" /\ \A w \in Workers : pc'[w] = pc[w]
    BY <1>1, <2>2 DEF IInv, TypeOK, Workers
  <2>5. PlacesInv' /\ CountInv'
    BY <1>2, <2>1, <2>2, <2>4 DEF IInv, PlacesInv, CountInv, Outside, Signals, Workers
  <2>6. StartInv' /\ EndInv'
    BY <1>1, <1>2, <2>1, <2>2, <2>4 DEF IInv, StartInv, EndInv, Signals, Workers
  <2>7. RegionInv'
    <3>1. parallelRegion' /\ pc'[0] = "own"
      BY <1>1, <2>1, <2>2, <2>4 DEF IInv, RegionInv
    <3> QED
      BY <3>1 DEF RegionInv, Signals
  <2>8. QueueInv'
    <3>1. ~Outside'
      BY <2>4 DEF Outside, Signals
    <3>2. Looks(0)' /\ \A u \in Threads \ {0} : Looks(u) => Looks(u)'
      BY <1>1, <1>2, <2>4 DEF Looks, Signals, Workers
    <3> QED
      BY <1>1, <1>2, <2>4, <3>1, <3>2, QueueStep DEF Workers, myQ
  <2> QED
    BY <2>3, <2>5, <2>6, <2>7, <2>8 DEF IInv
<1> QED
  BY <1>5, <1>6

-----------------------------------------------------------------------------
LEMMA NextKeepsIInv == IInv /\ [Next]_vars => IInv'
<1> SUFFICES ASSUME IInv, [Next]_vars PROVE IInv'
  OBVIOUS
<1>1. CASE MainStep
  BY <1>1, EnqueueKeeps, WaitKeeps, EndKeeps, WaitForEndKeeps, EndOfWaitKeeps DEF MainStep
<1>2. ASSUME NEW t \in Threads, Step(t) PROVE IInv'
  BY <1>2, SignalNeededKeeps, SignalKeeps, StartKeeps, SpawnKeeps, FinishKeeps,
     OutOfOwnKeeps, NothingToStealKeeps, LookKeeps, GrabKeeps, MoveKeeps,
     WaitForTasksKeeps, WakeUpKeeps DEF Step
<1>3. CASE UNCHANGED vars
  BY <1>3 DEF vars, IInv, TypeOK, PlacesInv, CountInv, StartInv, RegionInv, EndInv, QueueInv,
              Outside, Signals, Busy, Looks, Returned, myQ
<1> QED
  BY <1>1, <1>2, <1>3 DEF Next, Joined

LEMMA Invariance == Spec => []IInv
BY InitIInv, NextKeepsIInv, PTL DEF Spec

\* Type correctness of the task queues.
THEOREM TaskQTypes == Spec => []TypeOK
<1>1. IInv => TypeOK
  BY DEF IInv
<1> QED
  BY <1>1, Invariance, PTL

\* However many threads run out of tasks, enqueue and steal at the same time:
\* when taskQWait returns all queues are empty, and until the next parallel
\* region all threads but the first sleep.
THEOREM WaitIsComplete == Spec => []SerialAlone
BY Safe, Invariance, PTL

-----------------------------------------------------------------------------
(***************************************************************************)
(* Every task is executed once: from the moment it is enqueued until it    *)
(* has been executed it is in exactly one place, a position of one queue   *)
(* or the hands of one thread.  A task that is enqueued is a new one, for  *)
(* the batches and the tasks that are still to be enqueued are the rest of *)
(* what the program and the running tasks enqueue.                         *)
(***************************************************************************)
InTask(t) == pc[t] = "run" \/ (pc[t] \in Signals /\ back[t] = "run")

Queued(x) == \E q \in Queues : \E i \in 1..Len(taskQ[q]) : taskQ[q][i] = x

Runs(x) == \E t \in Threads : running[t] = x

\* What a running task has yet to enqueue is the end of what it enqueues.
IsEnd(s, all) ==
  /\ Len(s) <= Len(all)
  /\ \A i \in 1..Len(s) : s[i] = all[Len(all) - Len(s) + i]

SpawnInv ==
  \A t \in Threads :
     IF InTask(t) THEN running[t] # NoTask /\ IsEnd(spawn[t], Spawns[running[t]])
                  ELSE running[t] = NoTask

\* So are thread 0's batches of those of its region.
BatchInv ==
  batches # << >> =>
    /\ region \in DOMAIN Script
    /\ IsEnd(batches, Script[region])

\* A task is in one place.
PlaceInv ==
  /\ \A q, r \in Queues : \A i \in 1..Len(taskQ[q]), j \in 1..Len(taskQ[r]) :
        taskQ[q][i] = taskQ[r][j] => q = r /\ i = j
  /\ \A t, u \in Threads : running[t] = running[u] /\ running[t] # NoTask => t = u
  /\ \A x \in Tasks :
       /\ executed[x] \in {0, 1}
       /\ Queued(x) => executed[x] = 0 /\ ~Runs(x)
       /\ Runs(x) => executed[x] = 0
       /\ x \in enqueued <=> Queued(x) \/ Runs(x) \/ executed[x] = 1

\* It was enqueued where the program has come to.
SourceInv ==
  /\ \A r \in DOMAIN Script : \A b \in DOMAIN Script[r] :
       \A i \in DOMAIN Script[r][b].tasks :
         Script[r][b].tasks[i] \in enqueued =>
            r < region \/ (r = region /\ b + Len(batches) <= Len(Script[r]))
  /\ \A x \in Tasks : \A i \in DOMAIN Spawns[x] :
       Spawns[x][i] \in enqueued =>
          executed[x] = 1 \/ \E t \in Threads : running[t] = x /\ i + Len(spawn[t]) <= Len(Spawns[x])

TaskInv == SpawnInv /\ BatchInv /\ PlaceInv /\ SourceInv

LEMMA InitTaskInv == Init => TaskInv
<1> SUFFICES ASSUME Init PROVE TaskInv
  OBVIOUS
<1>1. SpawnInv /\ BatchInv
  BY DEF Init, SpawnInv, BatchInv, InTask, Signals
<1>2. \A x \in Tasks : ~Queued(x) /\ ~Runs(x)
  BY TaskQAssumption DEF Init, Queued, Runs, NoTask
<1>3. PlaceInv
  BY <1>2 DEF Init, PlaceInv
<1>4. SourceInv
  BY DEF Init, SourceInv
<1> QED
  BY <1>1, <1>3, <1>4 DEF TaskInv

\* A step that neither moves a task nor starts or ends one.
LEMMA FrameTask ==
  ASSUME TaskInv, UNCHANGED <<taskQ, execution, batches, region>>,
         \A t \in Threads : InTask(t)' <=> InTask(t)
  PROVE  TaskInv'
<1>1. UNCHANGED <<taskQ, running, spawn, executed, enqueued, batches, region>>
  BY DEF execution
<1>2. SpawnInv' /\ BatchInv'
  BY <1>1 DEF TaskInv, SpawnInv, BatchInv
<1>3. PlaceInv' /\ SourceInv'
  BY <1>1 DEF TaskInv, PlaceInv, SourceInv, Queued, Runs
<1> QED
  BY <1>2, <1>3 DEF TaskInv

\* The next region has new batches.
LEMMA RegionTask ==
  ASSUME IInv, TaskInv, UNCHANGED <<taskQ, execution>>,
         \A t \in Threads : InTask(t)' <=> InTask(t),
         region' = region + 1,
         batches' = IF region < Len(Script) THEN Script[region + 1] ELSE << >>
  PROVE  TaskInv'
<1>1. UNCHANGED <<taskQ, running, spawn, executed, enqueued>>
  BY DEF execution
<1>2. region \in Nat /\ Len(Script) \in Nat
  BY TaskQAssumption DEF IInv, TypeOK
<1>3. SpawnInv'
  BY <1>1 DEF TaskInv, SpawnInv
<1>4. BatchInv'
  <2> SUFFICES ASSUME batches' # << >>
               PROVE  region' \in DOMAIN Script /\ IsEnd(batches', Script[region'])
    BY DEF BatchInv
  <2>1. region' \in DOMAIN Script /\ batches' = Script[region']
    BY <1>2, TaskQAssumption
  <2>2. Script[region'] \in Seq(Batches)
    BY <2>1, TaskQAssumption
  <2>3. \A s \in Seq(Batches) : IsEnd(s, s)
    BY DEF IsEnd
  <2> QED
    BY <2>1, <2>2, <2>3
<1>5. SourceInv'
  <2>1. \A r \in DOMAIN Script : r < region \/ r = region => r < region'
    BY <1>2, TaskQAssumption
  <2> QED
    BY <1>1, <2>1 DEF TaskInv, SourceInv
<1>6. PlaceInv'
  BY <1>1 DEF TaskInv, PlaceInv, Queued, Runs
<1> QED
  BY <1>3, <1>4, <1>5, <1>6 DEF TaskInv

LEMMA FinishTaskInv == ASSUME IInv, TaskInv, NEW t \in Threads, FinishTask(t) PROVE TaskInv'
<1> DEFINE x == running[t]
<1>1. /\ pc[t] = "run" /\ spawn[t] = << >>
      /\ executed' = [executed EXCEPT ![x] = @ + 1]
      /\ running' = [running EXCEPT ![t] = NoTask]
      /\ pc' = [pc EXCEPT ![t] = loop[t]]
      /\ UNCHANGED <<taskQ, batches, region, spawn, back, enqueued>>
  BY DEF FinishTask, GoTo, control
<1>2. x \in Tasks /\ x # NoTask /\ Runs(x) /\ executed[x] = 0 /\ ~Queued(x)
  BY <1>1 DEF IInv, TypeOK, TaskInv, SpawnInv, PlaceInv, InTask, Runs
<1>3. \A y \in Tasks : executed'[y] = IF y = x THEN 1 ELSE executed[y]
  BY <1>1, <1>2 DEF IInv, TypeOK
<1>4. running'[t] = NoTask /\ \A u \in Threads \ {t} : running'[u] = running[u] /\ running[u] # x
  BY <1>1, <1>2 DEF IInv, TypeOK, TaskInv, PlaceInv
<1>5. \A y \in Tasks : /\ Queued(y)' <=> Queued(y)
                       /\ Runs(y)' <=> Runs(y) /\ y # x
  BY <1>1, <1>2, <1>4, TaskQAssumption DEF Queued, Runs, NoTask
<1>6. PlaceInv'
  BY <1>1, <1>2, <1>3, <1>4, <1>5 DEF TaskInv, PlaceInv
<1>7. SpawnInv'
  <2>1. pc'[t] \in {"own", "lastOwn"} /\ ~InTask(t)'
    BY <1>1 DEF IInv, TypeOK, InTask, Signals
  <2>2. \A u \in Threads \ {t} : (InTask(u)' <=> InTask(u)) /\ spawn'[u] = spawn[u]
    BY <1>1 DEF IInv, TypeOK, InTask
  <2> QED
    BY <1>4, <2>1, <2>2 DEF TaskInv, SpawnInv
<1>8. BatchInv'
  BY <1>1 DEF TaskInv, BatchInv
<1>9. SourceInv'
  BY <1>1, <1>2, <1>3, <1>4 DEF TaskInv, SourceInv
<1> QED
  BY <1>6, <1>7, <1>8, <1>9 DEF TaskInv

LEMMA StartTaskInv == ASSUME IInv, TaskInv, NEW t \in Threads, StartTask(t) PROVE TaskInv'
<1> DEFINE q == myQ(t)
           n == Len(taskQ[q])
           x == taskQ[q][n]
           rest == SubSeq(taskQ[q], 1, n - 1)
<1>1. /\ pc[t] \in {"own", "lastOwn"} /\ pc' = [pc EXCEPT ![t] = "run"]
      /\ n > 0 /\ taskQ' = [taskQ EXCEPT ![q] = rest]
      /\ running' = [running EXCEPT ![t] = x]
      /\ spawn' = [spawn EXCEPT ![t] = Spawns[x]]
      /\ UNCHANGED <<executed, enqueued, back, batches, region>>
  BY DEF StartTask, GoTo, control
<1>2. q \in Queues /\ taskQ[q] \in Seq(Tasks)
  BY OwnQueue DEF IInv, TypeOK
<1>3. n \in Nat /\ x \in Tasks
  BY <1>1, <1>2, ElementOfSeq
<1>4. /\ Len(rest) = n - 1 /\ \A i \in 1..n - 1 : rest[i] = taskQ[q][i]
  BY <1>1, <1>2, <1>3, SubSeqProperties
<1>5. Queued(x) /\ executed[x] = 0 /\ ~Runs(x)
  BY <1>1, <1>2, <1>3 DEF Queued, TaskInv, PlaceInv
<1> HIDE DEF x, rest, n
<1>6. /\ taskQ'[q] = rest /\ \A r \in Queues \ {q} : taskQ'[r] = taskQ[r]
      /\ running'[t] = x /\ \A u \in Threads \ {t} : running'[u] = running[u]
      /\ spawn'[t] = Spawns[x] /\ \A u \in Threads \ {t} : spawn'[u] = spawn[u]
  BY <1>1, <1>2 DEF IInv, TypeOK
<1>7. ~InTask(t) /\ running[t] = NoTask /\ x # NoTask
  <2>1. ~InTask(t)
    BY <1>1 DEF InTask, Signals
  <2> QED
    BY <1>3, <2>1, TaskQAssumption DEF TaskInv, SpawnInv, NoTask
<1>8. ASSUME NEW y \in Tasks
      PROVE  /\ Queued(y)' <=> Queued(y) /\ y # x
             /\ Runs(y)' <=> Runs(y) \/ y = x
  <2>1. Runs(y)' <=> Runs(y) \/ y = x
    <3>1. y # NoTask
      BY TaskQAssumption DEF NoTask
    <3> QED
      BY <1>6, <1>7, <3>1 DEF Runs
  <2>2. ASSUME Queued(y)' PROVE Queued(y) /\ y # x
    <3>0. PICK r \in Queues : \E i \in 1..Len(taskQ'[r]) : taskQ'[r][i] = y
      BY <2>2 DEF Queued
    <3>1. PICK i \in 1..Len(taskQ'[r]) : taskQ'[r][i] = y
      BY <3>0
    <3>2. i \in 1..Len(taskQ[r]) /\ taskQ[r][i] = y /\ ~(r = q /\ i = n)
      BY <1>1, <1>3, <1>4, <1>6, <3>1 DEF n
    <3>3. n \in 1..Len(taskQ[q]) /\ taskQ[q][n] = x
      BY <1>1, <1>3 DEF n, x
    <3> QED
      BY <1>2, <3>1, <3>2, <3>3 DEF Queued, TaskInv, PlaceInv
  <2>3. ASSUME Queued(y), y # x PROVE Queued(y)'
    <3>0. PICK r \in Queues : \E i \in 1..Len(taskQ[r]) : taskQ[r][i] = y
      BY <2>3 DEF Queued
    <3>1. PICK i \in 1..Len(taskQ[r]) : taskQ[r][i] = y
      BY <3>0
    <3>2. i \in 1..Len(taskQ'[r]) /\ taskQ'[r][i] = y
      BY <1>3, <1>4, <1>6, <2>3, <3>1 DEF n, x
    <3> QED
      BY <3>1, <3>2 DEF Queued
  <2> QED
    BY <2>1, <2>2, <2>3
<1>9. PlaceInv'
  <2>1. \A r, s \in Queues : \A i \in 1..Len(taskQ'[r]), j \in 1..Len(taskQ'[s]) :
          taskQ'[r][i] = taskQ'[s][j] => r = s /\ i = j
    <3>1. \A r \in Queues : \A i \in 1..Len(taskQ'[r]) :
             i \in 1..Len(taskQ[r]) /\ taskQ'[r][i] = taskQ[r][i]
      BY <1>3, <1>4, <1>6 DEF n
    <3> QED
      BY <3>1 DEF TaskInv, PlaceInv
  <2>2. \A u, v \in Threads : running'[u] = running'[v] /\ running'[u] # NoTask => u = v
    BY <1>5, <1>6, <1>7 DEF TaskInv, PlaceInv, Runs
  <2> QED
    BY <1>1, <1>3, <1>5, <1>8, <2>1, <2>2 DEF TaskInv, PlaceInv
<1>10. SpawnInv'
  <2>1. InTask(t)' /\ \A u \in Threads \ {t} : InTask(u)' <=> InTask(u)
    BY <1>1 DEF IInv, TypeOK, InTask
  <2>2. Spawns[x] \in Seq(Tasks) /\ IsEnd(Spawns[x], Spawns[x])
    BY <1>3, TaskQAssumption DEF IsEnd
  <2> QED
    BY <1>6, <1>7, <2>1, <2>2 DEF TaskInv, SpawnInv
<1>11. BatchInv'
  BY <1>1 DEF TaskInv, BatchInv
<1>12. SourceInv'
  <2>1. /\ enqueued' = enqueued /\ region' = region /\ batches' = batches
        /\ executed' = executed
    BY <1>1
  <2>2. ASSUME NEW y \in Tasks, NEW i \in DOMAIN Spawns[y], NEW u \in Threads,
               running[u] = y, i + Len(spawn[u]) <= Len(Spawns[y])
        PROVE  running'[u] = y /\ i + Len(spawn'[u]) <= Len(Spawns[y])
    <3>1. y # NoTask
      BY TaskQAssumption DEF NoTask
    <3>2. u \in Threads \ {t}
      BY <1>7, <2>2, <3>1
    <3> QED
      BY <1>6, <2>2, <3>2
  <2>3. SourceInv
    BY DEF TaskInv
  <2> QED
    BY <2>1, <2>2, <2>3 DEF SourceInv
<1> QED
  BY <1>9, <1>10, <1>11, <1>12 DEF TaskInv

\* New tasks are put at the end of a queue.
LEMMA AppendTasks ==
  ASSUME IInv, TaskInv, NEW q \in Queues, NEW s \in Seq(Tasks),
         \A i \in 1..Len(s) : s[i] \notin enqueued,
         \A i, j \in 1..Len(s) : s[i] = s[j] => i = j,
         taskQ' = [taskQ EXCEPT ![q] = @ \o s],
         enqueued' = enqueued \cup TasksOf(s), UNCHANGED <<running, executed>>
  PROVE  PlaceInv'
<1> DEFINE m == Len(taskQ[q])
<1>1. taskQ[q] \in Seq(Tasks) /\ m \in Nat
  BY DEF IInv, TypeOK
<1>2. /\ \A r \in Queues \ {q} : taskQ'[r] = taskQ[r]
      /\ Len(taskQ'[q]) = m + Len(s)
      /\ \A i \in 1..m : taskQ'[q][i] = taskQ[q][i]
      /\ \A i \in m + 1..m + Len(s) : taskQ'[q][i] = s[i - m]
  BY <1>1 DEF IInv, TypeOK
<1>3. \A r \in Queues : Len(taskQ[r]) \in Nat
  BY DEF IInv, TypeOK
<1>4. \A r \in Queues : \A i \in 1..Len(taskQ[r]) : Queued(taskQ[r][i]) /\ taskQ[r][i] \in enqueued
  <2> SUFFICES ASSUME NEW r \in Queues, NEW i \in 1..Len(taskQ[r])
               PROVE  Queued(taskQ[r][i]) /\ taskQ[r][i] \in enqueued
    OBVIOUS
  <2>1. taskQ[r][i] \in Tasks
    BY ElementOfSeq DEF IInv, TypeOK
  <2>2. Queued(taskQ[r][i])
    BY DEF Queued
  <2> QED
    BY <2>1, <2>2 DEF TaskInv, PlaceInv
<1>5. \A j \in 1..Len(s) : s[j] \in Tasks
  BY ElementOfSeq
<1> HIDE DEF m
<1>6. ASSUME NEW y \in Tasks PROVE Queued(y)' <=> Queued(y) \/ \E j \in 1..Len(s) : s[j] = y
  <2>1. ASSUME Queued(y)' PROVE Queued(y) \/ \E j \in 1..Len(s) : s[j] = y
    <3>1. PICK r \in Queues : \E i \in 1..Len(taskQ'[r]) : taskQ'[r][i] = y
      BY <2>1 DEF Queued
    <3>2. PICK i \in 1..Len(taskQ'[r]) : taskQ'[r][i] = y
      BY <3>1
    <3>3. CASE i \in 1..Len(taskQ[r])
      BY <1>2, <3>2, <3>3 DEF Queued, m
    <3>4. CASE i \notin 1..Len(taskQ[r])
      <4>1. r = q /\ i \in m + 1..m + Len(s) /\ i - m \in 1..Len(s)
        BY <1>1, <1>2, <3>2, <3>4 DEF m
      <4> QED
        BY <1>2, <3>2, <4>1
    <3> QED
      BY <3>3, <3>4
  <2>2. ASSUME Queued(y) PROVE Queued(y)'
    <3>1. PICK r \in Queues : \E i \in 1..Len(taskQ[r]) : taskQ[r][i] = y
      BY <2>2 DEF Queued
    <3>2. PICK i \in 1..Len(taskQ[r]) : taskQ[r][i] = y
      BY <3>1
    <3>3. i \in 1..Len(taskQ'[r]) /\ taskQ'[r][i] = y
      BY <1>1, <1>2, <3>2 DEF m
    <3> QED
      BY <3>3 DEF Queued
  <2>3. ASSUME NEW j \in 1..Len(s) PROVE Queued(s[j])'
    <3>1. m + j \in 1..Len(taskQ'[q]) /\ taskQ'[q][m + j] = s[j]
      BY <1>1, <1>2
    <3> QED
      BY <3>1 DEF Queued
  <2> QED
    BY <2>1, <2>2, <2>3
<1>7. \A r, v \in Queues : \A i \in 1..Len(taskQ'[r]), j \in 1..Len(taskQ'[v]) :
        taskQ'[r][i] = taskQ'[v][j] => r = v /\ i = j
  <2>1. ASSUME NEW r \in Queues, NEW i \in 1..Len(taskQ'[r])
        PROVE  \/ i \in 1..Len(taskQ[r]) /\ taskQ'[r][i] = taskQ[r][i]
               \/ r = q /\ i - m \in 1..Len(s) /\ taskQ'[r][i] = s[i - m]
    BY <1>1, <1>2, <1>3 DEF m
  <2> SUFFICES ASSUME NEW r \in Queues, NEW v \in Queues,
                      NEW i \in 1..Len(taskQ'[r]), NEW j \in 1..Len(taskQ'[v]),
                      taskQ'[r][i] = taskQ'[v][j]
               PROVE  r = v /\ i = j
    OBVIOUS
  <2>2. CASE i \in 1..Len(taskQ[r]) /\ taskQ'[r][i] = taskQ[r][i]
    <3>1. j \in 1..Len(taskQ[v]) /\ taskQ'[v][j] = taskQ[v][j]
      BY <1>4, <2>1, <2>2, SMTT(30)
    <3> QED
      BY <2>2, <3>1 DEF TaskInv, PlaceInv
  <2>3. CASE r = q /\ i - m \in 1..Len(s) /\ taskQ'[r][i] = s[i - m]
    <3>1. v = q /\ j - m \in 1..Len(s) /\ taskQ'[v][j] = s[j - m]
      BY <1>4, <2>1, <2>3
    <3>2. i - m = j - m
      BY <2>3, <3>1
    <3> QED
      BY <1>1, <2>3, <3>1, <3>2
  <2> QED
    BY <2>1, <2>2, <2>3
<1>8. TasksOf(s) = {s[j] : j \in 1..Len(s)}
  BY DEF TasksOf
<1>9. \A j \in 1..Len(s) : ~Runs(s[j]) /\ executed[s[j]] = 0 /\ ~Queued(s[j])
  BY <1>5 DEF TaskInv, PlaceInv
<1>10. \A y \in Tasks : Runs(y)' <=> Runs(y)
  BY DEF Runs
<1> QED
  BY <1>6, <1>7, <1>8, <1>9, <1>10 DEF TaskInv, PlaceInv

\* The next element of the rest of a sequence, and what is then left.
LEMMA NextOfEnd ==
  ASSUME NEW S, NEW s \in Seq(S), NEW all \in Seq(S), s # << >>, IsEnd(s, all),
         NEW k, k = Len(all) - Len(s) + 1
  PROVE  /\ k \in DOMAIN all /\ Head(s) = all[k]
         /\ ~(k + Len(s) <= Len(all)) /\ k + Len(Tail(s)) <= Len(all)
         /\ IsEnd(Tail(s), all)
         /\ Len(Tail(s)) \in Nat /\ Len(s) \in Nat /\ Len(Tail(s)) <= Len(s)
<1>1. /\ Len(s) \in Nat /\ Len(s) > 0 /\ Len(all) \in Nat /\ Head(s) = s[1]
      /\ Len(Tail(s)) = Len(s) - 1
      /\ \A i \in 1..Len(s) - 1 : Tail(s)[i] = s[i + 1]
  BY HeadTailProperties
<1>2. k \in 1..Len(all) /\ Head(s) = all[k]
  BY <1>1 DEF IsEnd
<1>3. IsEnd(Tail(s), all)
  BY <1>1 DEF IsEnd
<1> QED
  BY <1>1, <1>2, <1>3

LEMMA EnqueueTaskInv == ASSUME IInv, TaskInv, Enqueue PROVE TaskInv'
<1> DEFINE b == Head(batches)
           q == IF b.to = AnyQueue THEN pickQueue(0) ELSE b.to
           all == Script[region]
           k == Len(all) - Len(batches) + 1
<1>1. /\ batches # << >> /\ batches' = Tail(batches)
      /\ taskQ' = [taskQ EXCEPT ![q] = @ \o b.tasks]
      /\ enqueued' = enqueued \cup TasksOf(b.tasks)
      /\ UNCHANGED <<pc, back, region, running, spawn, executed>>
  BY DEF Enqueue
<1>2. batches \in Seq(Batches) /\ b \in Batches
  BY <1>1, HeadTailProperties DEF IInv, TypeOK
<1>3. q \in Queues
  BY <1>2, OwnQueue, ThreadZero DEF IInv, TypeOK, pickQueue, Batches, AnyQueue
<1>4. b.tasks \in Seq(Tasks)
  BY <1>2 DEF Batches
<1>5. region \in DOMAIN Script /\ IsEnd(batches, all)
  BY <1>1 DEF TaskInv, BatchInv
<1>6. all \in Seq(Batches)
  BY <1>5, TaskQAssumption
<1>7. /\ k \in DOMAIN Script[region] /\ b = Script[region][k]
      /\ ~(k + Len(batches) <= Len(all)) /\ k + Len(Tail(batches)) <= Len(all)
      /\ IsEnd(Tail(batches), all)
      /\ Len(Tail(batches)) \in Nat /\ Len(batches) \in Nat
      /\ Len(Tail(batches)) <= Len(batches)
  BY <1>1, <1>2, <1>5, <1>6, NextOfEnd
<1> HIDE DEF b, q, k
<1>8. \A i \in DOMAIN b.tasks : b.tasks[i] \notin enqueued
  <2>1. ~(region < region)
    BY <1>5, TaskQAssumption
  <2> QED
    BY <1>5, <1>7, <2>1 DEF TaskInv, SourceInv
<1>9. \A i, j \in DOMAIN b.tasks : b.tasks[i] = b.tasks[j] => i = j
  BY <1>5, <1>7, EnqueuedOnce
<1>10. PlaceInv'
  <2>1. DOMAIN b.tasks = 1..Len(b.tasks)
    BY <1>4
  <2> QED
    BY <1>1, <1>3, <1>4, <1>8, <1>9, <2>1, AppendTasks
<1>11. SpawnInv'
  BY <1>1 DEF TaskInv, SpawnInv, InTask
<1>12. BatchInv'
  BY <1>1, <1>5, <1>7 DEF BatchInv
<1>13. SourceInv'
  <2>1. Len(batches') <= Len(batches) /\ k + Len(batches') <= Len(all)
    BY <1>1, <1>7
  <2>2. ASSUME NEW r \in DOMAIN Script, NEW c \in DOMAIN Script[r],
               NEW i \in DOMAIN Script[r][c].tasks, Script[r][c].tasks[i] \in enqueued'
        PROVE  r < region' \/ (r = region' /\ c + Len(batches') <= Len(Script[r]))
    <3>1. CASE Script[r][c].tasks[i] \in enqueued
      <4>1. r < region \/ (r = region /\ c + Len(batches) <= Len(Script[r]))
        BY <3>1 DEF TaskInv, SourceInv
      <4>2. Len(Script[r]) \in Nat /\ c \in Nat
        <5>1. Script[r] \in Seq(Batches)
          BY TaskQAssumption
        <5> QED
          BY <5>1
      <4> QED
        BY <1>1, <1>7, <2>1, <4>1, <4>2
    <3>2. CASE Script[r][c].tasks[i] \in TasksOf(b.tasks)
      <4>1. PICK j \in DOMAIN b.tasks : Script[r][c].tasks[i] = b.tasks[j]
        BY <1>4, <3>2 DEF TasksOf
      <4>2. r = region /\ c = k
        BY <1>5, <1>7, <4>1, EnqueuedOnce
      <4> QED
        BY <1>1, <2>1, <4>2
    <3> QED
      BY <1>1, <2>2, <3>1, <3>2
  <2>3. ASSUME NEW x \in Tasks, NEW i \in DOMAIN Spawns[x], Spawns[x][i] \in enqueued'
        PROVE  Spawns[x][i] \in enqueued
    <3>1. \A j \in DOMAIN b.tasks : b.tasks[j] # Spawns[x][i]
      BY <1>5, <1>7, EnqueuedOnce
    <3> QED
      BY <1>1, <1>4, <2>3, <3>1 DEF TasksOf
  <2> QED
    BY <1>1, <2>2, <2>3 DEF TaskInv, SourceInv
<1> QED
  BY <1>10, <1>11, <1>12, <1>13 DEF TaskInv

LEMMA SpawnTaskInv == ASSUME IInv, TaskInv, NEW t \in Threads, Spawn(t) PROVE TaskInv'
<1> DEFINE q == myQ(t)
           c == Head(spawn[t])
           x == running[t]
           all == Spawns[x]
           k == Len(all) - Len(spawn[t]) + 1
<1>1. parallelRegion
  BY DEF Spawn, IInv, RegionInv, Busy
<1>2. /\ pc[t] = "run" /\ spawn[t] # << >>
      /\ pc' = [pc EXCEPT ![t] = "signal"]
      /\ back' = [back EXCEPT ![t] = "run"]
      /\ taskQ' = [taskQ EXCEPT ![q] = Append(@, c)]
      /\ enqueued' = enqueued \cup {c}
      /\ spawn' = [spawn EXCEPT ![t] = Tail(@)]
      /\ UNCHANGED <<executed, running, batches, region>>
  BY <1>1 DEF Spawn, pickQueue, CallSignal, GoTo, control
<1>3. q \in Queues /\ taskQ[q] \in Seq(Tasks) /\ spawn[t] \in Seq(Tasks)
  BY OwnQueue DEF IInv, TypeOK
<1>4. c \in Tasks
  BY <1>2, <1>3, HeadTailProperties
<1>5. InTask(t) /\ x \in Tasks /\ x # NoTask /\ IsEnd(spawn[t], all)
  <2>1. InTask(t)
    BY <1>2 DEF InTask
  <2> QED
    BY <2>1 DEF IInv, TypeOK, TaskInv, SpawnInv
<1>6. all \in Seq(Tasks) /\ all = Spawns[x] /\ x = running[t]
  BY <1>5, TaskQAssumption
<1>7. /\ k \in DOMAIN all /\ c = all[k]
      /\ ~(k + Len(spawn[t]) <= Len(all)) /\ k + Len(Tail(spawn[t])) <= Len(all)
      /\ IsEnd(Tail(spawn[t]), all)
      /\ Len(Tail(spawn[t])) \in Nat /\ Len(spawn[t]) \in Nat
      /\ Len(Tail(spawn[t])) <= Len(spawn[t])
  <2>1. spawn[t] # << >> /\ spawn[t] \in Seq(Tasks) /\ IsEnd(spawn[t], all)
    BY <1>2, <1>3, <1>5
  <2>2. all \in Seq(Tasks)
    BY <1>6
  <2> HIDE DEF x, all
  <2> QED
    BY <2>1, <2>2, NextOfEnd, ZenonT(60)
<1>8. Runs(x) /\ executed[x] = 0 /\ \A u \in Threads : running[u] = x => u = t
  BY <1>5 DEF Runs, TaskInv, PlaceInv
<1> HIDE DEF c, k, x, all
<1>9. c \notin enqueued
  <2>1. ASSUME c \in enqueued PROVE FALSE
    <3>0. k \in DOMAIN Spawns[x] /\ Spawns[x][k] \in enqueued /\ executed[x] # 1
      BY <1>6, <1>7, <1>8, <2>1
    <3>1. PICK u \in Threads : running[u] = x /\ k + Len(spawn[u]) <= Len(all)
      BY <1>5, <1>6, <3>0 DEF TaskInv, SourceInv
    <3> QED
      BY <1>7, <1>8, <3>1
  <2> QED
    BY <2>1
<1>10. PlaceInv'
  <2>1. /\ <<c>> \in Seq(Tasks) /\ Len(<<c>>) = 1 /\ <<c>>[1] = c
        /\ TasksOf(<<c>>) = {c} /\ Append(taskQ[q], c) = taskQ[q] \o <<c>>
    BY <1>3, <1>4 DEF TasksOf
  <2>2. \A i \in 1..Len(<<c>>) : i = 1
    BY <2>1
  <2>3. taskQ' = [taskQ EXCEPT ![q] = @ \o <<c>>]
    BY <1>2, <2>1
  <2>4. enqueued' = enqueued \cup TasksOf(<<c>>)
    BY <1>2, <2>1
  <2>5. \A i \in 1..Len(<<c>>) : <<c>>[i] \notin enqueued
    BY <1>9, <2>2
  <2>6. \A i, j \in 1..Len(<<c>>) : <<c>>[i] = <<c>>[j] => i = j
    BY <2>2
  <2> HIDE DEF q
  <2> QED
    BY <1>2, <1>3, <2>1, <2>3, <2>4, <2>5, <2>6, AppendTasks
<1>11. spawn'[t] = Tail(spawn[t]) /\ \A u \in Threads \ {t} : spawn'[u] = spawn[u]
  BY <1>2 DEF IInv, TypeOK
<1>12. SpawnInv'
  <2>1. InTask(t)' /\ \A u \in Threads \ {t} : InTask(u)' <=> InTask(u)
    BY <1>2 DEF IInv, TypeOK, InTask, Signals
  <2> QED
    BY <1>2, <1>5, <1>6, <1>7, <1>11, <2>1 DEF TaskInv, SpawnInv
<1>13. BatchInv'
  BY <1>2 DEF TaskInv, BatchInv
<1>14. SourceInv'
  <2>1. ASSUME NEW r \in DOMAIN Script, NEW b \in DOMAIN Script[r],
               NEW i \in DOMAIN Script[r][b].tasks, Script[r][b].tasks[i] \in enqueued'
        PROVE  Script[r][b].tasks[i] \in enqueued
    BY <1>2, <1>5, <1>6, <1>7, <2>1, EnqueuedOnce
  <2>2. ASSUME NEW y \in Tasks, NEW i \in DOMAIN Spawns[y], Spawns[y][i] \in enqueued'
        PROVE  executed[y] = 1 \/ \E u \in Threads : running[u] = y /\ i + Len(spawn'[u]) <= Len(Spawns[y])
    <3>1. CASE Spawns[y][i] = c
      <4>1. y = x /\ i = k
        BY <1>5, <1>6, <1>7, <3>1, EnqueuedOnce
      <4>2. i + Len(spawn'[t]) <= Len(Spawns[y])
        BY <1>6, <1>7, <1>11, <4>1
      <4> QED
        BY <1>6, <4>1, <4>2
    <3>2. CASE Spawns[y][i] \in enqueued
      <4>1. CASE executed[y] = 1
        BY <4>1
      <4>2. CASE executed[y] # 1
        <5>1. PICK u \in Threads : running[u] = y /\ i + Len(spawn[u]) <= Len(Spawns[y])
          BY <3>2, <4>2 DEF TaskInv, SourceInv
        <5>2. Len(spawn'[u]) <= Len(spawn[u]) /\ Len(spawn[u]) \in Nat /\ Len(spawn'[u]) \in Nat
          <6>1. CASE u = t
            BY <1>7, <1>11, <6>1
          <6>2. CASE u # t
            BY <1>11, <6>2 DEF IInv, TypeOK
          <6> QED
            BY <6>1, <6>2
        <5>3. Len(Spawns[y]) \in Nat /\ i \in Nat
          <6>1. Spawns[y] \in Seq(Tasks)
            BY TaskQAssumption
          <6> QED
            BY <6>1
        <5> QED
          BY <5>1, <5>2, <5>3
      <4> QED
        BY <4>1, <4>2
    <3> QED
      BY <1>2, <2>2, <3>1, <3>2
  <2> QED
    BY <1>2, <2>1, <2>2 DEF TaskInv, SourceInv
<1> QED
  BY <1>10, <1>12, <1>13, <1>14 DEF TaskInv

\* A thief moves tasks, it neither takes nor doubles one.
LEMMA MoveTaskInv == ASSUME IInv, TaskInv, NEW t \in Threads, MoveTasks(t) PROVE TaskInv'
<1> DEFINE q == myQ(t)
           v == victim[t]
           n == calculateNumSteal(Len(taskQ[v]))
           stolen == SubSeq(taskQ[v], 1, n)
           rest == SubSeq(taskQ[v], n + 1, Len(taskQ[v]))
           l == Len(taskQ[q])
<1>1. q \in Queues /\ v \in Queues /\ v # q
  BY OwnQueue DEF IInv, TypeOK, QueueInv, MoveTasks
<1>2. taskQ[q] \in Seq(Tasks) /\ taskQ[v] \in Seq(Tasks) /\ Len(taskQ[v]) \in Nat /\ l \in Nat
  BY <1>1 DEF IInv, TypeOK
<1>3. n \in Nat /\ n <= Len(taskQ[v])
  BY <1>2, StealAtMost
<1>4. /\ Len(stolen) = n /\ \A i \in 1..n : stolen[i] = taskQ[v][i]
      /\ Len(rest) = Len(taskQ[v]) - n
      /\ \A i \in 1..Len(taskQ[v]) - n : rest[i] = taskQ[v][i + n]
      /\ stolen \in Seq(Tasks)
  <2> HIDE DEF n, v
  <2>1. /\ Len(stolen) = n /\ \A i \in 1..n : stolen[i] = taskQ[v][i]
        /\ stolen \in Seq(Tasks)
    BY <1>2, <1>3, SubSeqProperties
  <2>2. /\ Len(rest) = Len(taskQ[v]) - n
        /\ \A i \in 1..Len(taskQ[v]) - n : rest[i] = taskQ[v][i + n]
    BY <1>2, <1>3, SubSeqProperties
  <2> QED
    BY <2>1, <2>2
<1>5. /\ pc[t] = "move"
      /\ pc' = [pc EXCEPT ![t] = IF n = 0 THEN "steal" ELSE IF t = 0 THEN "lastOwn" ELSE "own"]
      /\ taskQ' = [taskQ EXCEPT ![q] = @ \o stolen, ![v] = rest]
      /\ UNCHANGED <<batches, region, running, spawn, executed, enqueued, back>>
  BY <1>1 DEF MoveTasks, GoTo, control, execution, IInv, TypeOK
<1> HIDE DEF n, stolen, rest, q, v, l
<1>6. /\ \A r \in Queues \ {q, v} : taskQ'[r] = taskQ[r]
      /\ taskQ'[q] = taskQ[q] \o stolen /\ taskQ'[v] = rest
  BY <1>1, <1>5 DEF IInv, TypeOK
<1>7. /\ Len(taskQ'[q]) = l + n /\ \A i \in 1..l : taskQ'[q][i] = taskQ[q][i]
      /\ \A i \in l + 1..l + n : taskQ'[q][i] = stolen[i - l]
  <2>1. Len(taskQ[q] \o stolen) = l + n
    BY <1>2, <1>4, ConcatProperties DEF l
  <2>2. ASSUME NEW i \in 1..l PROVE (taskQ[q] \o stolen)[i] = taskQ[q][i]
    <3>1. i \in 1..l + n /\ i <= l
      BY <1>2, <1>3
    <3> QED
      BY <1>2, <1>4, <3>1, ConcatProperties DEF l
  <2>3. ASSUME NEW i \in l + 1..l + n PROVE (taskQ[q] \o stolen)[i] = stolen[i - l]
    <3>1. taskQ[q] \in Seq(Tasks) /\ stolen \in Seq(Tasks) /\ i \in 1..l + n /\ ~(i <= l)
      BY <1>2, <1>3, <1>4
    <3> QED
      BY <1>4, <3>1, ConcatProperties DEF l
  <2> QED
    BY <1>6, <2>1, <2>2, <2>3
<1>8. Len(taskQ[q]) = l /\ \A r \in Queues : Len(taskQ[r]) \in Nat
  BY DEF l, IInv, TypeOK
\* Where a task comes from.
<1> DEFINE from(r, i) == IF r = q /\ i > l THEN v ELSE r
           pos(r, i) == IF r = q /\ i > l THEN i - l ELSE IF r = v THEN i + n ELSE i
<1>9. ASSUME NEW r \in Queues, NEW i \in 1..Len(taskQ'[r])
      PROVE  /\ from(r, i) \in Queues /\ pos(r, i) \in 1..Len(taskQ[from(r, i)])
             /\ taskQ'[r][i] = taskQ[from(r, i)][pos(r, i)]
             /\ r = q /\ i > l => pos(r, i) <= n
  <2>1. CASE r \notin {q, v}
    BY <1>6, <2>1
  <2>2. CASE r = q /\ i <= l
    BY <1>1, <1>2, <1>7, <1>8, <2>2
  <2>3. CASE r = q /\ i > l
    <3>1. i - l \in 1..n /\ taskQ'[r][i] = stolen[i - l]
      <4>1. i \in 1..Len(taskQ'[q])
        BY <2>3
      <4>2. i \in l + 1..l + n
        BY <1>2, <1>3, <1>7, <2>3, <4>1
      <4> QED
        BY <1>2, <1>3, <1>7, <2>3, <4>2
    <3> QED
      BY <1>1, <1>2, <1>3, <1>4, <2>3, <3>1
  <2>4. CASE r = v
    BY <1>1, <1>2, <1>3, <1>4, <1>6, <2>4
  <2> QED
    BY <1>2, <2>1, <2>2, <2>3, <2>4
<1>10. \A r, s \in Queues : \A i \in 1..Len(taskQ'[r]), j \in 1..Len(taskQ'[s]) :
         taskQ'[r][i] = taskQ'[s][j] => r = s /\ i = j
  <2> SUFFICES ASSUME NEW r \in Queues, NEW s \in Queues,
                      NEW i \in 1..Len(taskQ'[r]), NEW j \in 1..Len(taskQ'[s]),
                      taskQ'[r][i] = taskQ'[s][j]
               PROVE  r = s /\ i = j
    OBVIOUS
  <2>1. from(r, i) = from(s, j) /\ pos(r, i) = pos(s, j)
    <3> HIDE DEF from, pos
    <3>1. /\ from(r, i) \in Queues /\ pos(r, i) \in 1..Len(taskQ[from(r, i)])
          /\ from(s, j) \in Queues /\ pos(s, j) \in 1..Len(taskQ[from(s, j)])
          /\ taskQ[from(r, i)][pos(r, i)] = taskQ[from(s, j)][pos(s, j)]
      BY <1>9
    <3> QED
      BY <3>1 DEF TaskInv, PlaceInv
  <2>2. (r = q /\ i > l => pos(r, i) <= n) /\ (s = q /\ j > l => pos(s, j) <= n)
    BY <1>9
  <2> QED
    BY <1>1, <1>2, <1>3, <2>1, <2>2
<1>11. ASSUME NEW y \in Tasks PROVE Queued(y)' <=> Queued(y)
  <2>1. ASSUME Queued(y)' PROVE Queued(y)
    <3>1. PICK r \in Queues : \E i \in 1..Len(taskQ'[r]) : taskQ'[r][i] = y
      BY <2>1 DEF Queued
    <3>2. PICK i \in 1..Len(taskQ'[r]) : taskQ'[r][i] = y
      BY <3>1
    <3> HIDE DEF from, pos
    <3> QED
      BY <1>9, <3>2 DEF Queued
  <2>2. ASSUME Queued(y) PROVE Queued(y)'
    <3>1. PICK r \in Queues : \E i \in 1..Len(taskQ[r]) : taskQ[r][i] = y
      BY <2>2 DEF Queued
    <3>2. PICK i \in 1..Len(taskQ[r]) : taskQ[r][i] = y
      BY <3>1
    <3>3. CASE r \notin {q, v}
      BY <1>6, <3>2, <3>3 DEF Queued
    <3>4. CASE r = q
      <4>1. i \in 1..Len(taskQ'[q]) /\ taskQ'[q][i] = y
        BY <1>2, <1>3, <1>7, <1>8, <3>2, <3>4
      <4> QED
        BY <1>1, <4>1 DEF Queued
    <3>5. CASE r = v /\ i \in 1..n
      <4>1. l + i \in 1..Len(taskQ'[q]) /\ l + i \in l + 1..l + n /\ (l + i) - l = i
        BY <1>2, <1>3, <1>7, <3>5
      <4>2. taskQ'[q][l + i] = y
        BY <1>4, <1>7, <3>2, <3>5, <4>1
      <4> QED
        BY <1>1, <4>1, <4>2 DEF Queued
    <3>6. CASE r = v /\ i \notin 1..n
      <4>1. i - n \in 1..Len(taskQ[v]) - n /\ (i - n) + n = i
        BY <1>2, <1>3, <3>2, <3>6
      <4>2. i - n \in 1..Len(taskQ'[v]) /\ taskQ'[v][i - n] = y
        BY <1>4, <1>6, <3>2, <3>6, <4>1
      <4> QED
        BY <1>1, <4>2 DEF Queued
    <3> QED
      BY <3>3, <3>4, <3>5, <3>6
  <2> QED
    BY <2>1, <2>2
<1>12. PlaceInv'
  <2>1. \A y \in Tasks : Runs(y)' <=> Runs(y)
    BY <1>5 DEF Runs
  <2> QED
    BY <1>5, <1>10, <1>11, <2>1 DEF TaskInv, PlaceInv
<1>13. SpawnInv'
  <2>1. \A u \in Threads : InTask(u)' <=> InTask(u)
    BY <1>5 DEF IInv, TypeOK, InTask, Signals
  <2> QED
    BY <1>5, <2>1 DEF TaskInv, SpawnInv
<1>14. BatchInv' /\ SourceInv'
  BY <1>5 DEF TaskInv, BatchInv, SourceInv
<1> QED
  BY <1>12, <1>13, <1>14 DEF TaskInv

-----------------------------------------------------------------------------
\* The steps between the tasks.
LEMMA OtherTaskInv ==
  ASSUME IInv, TaskInv, NEW t \in Threads,
         \/ SignalNeeded(t) \/ Signal(t) \/ OutOfOwn(t) \/ NothingToSteal(t)
         \/ LookAt(t) \/ Grab(t) \/ waitForTasks(t) \/ WakeUp(t)
  PROVE  TaskInv'
<1>1. UNCHANGED <<taskQ, execution, batches, region>>
  BY DEF SignalNeeded, Signal, OutOfOwn, NothingToSteal, LookAt, Grab, waitForTasks,
         WakeUp, control
<1>2. \A u \in Threads : InTask(u)' <=> InTask(u)
  <2> USE DEF IInv, TypeOK, InTask, Signals
  <2>1. CASE SignalNeeded(t)
    BY <2>1 DEF SignalNeeded, GoTo
  <2>2. CASE Signal(t)
    BY <2>2 DEF Signal
  <2>3. CASE OutOfOwn(t)
    BY <2>3 DEF OutOfOwn, GoTo
  <2>4. CASE NothingToSteal(t)
    BY <2>4 DEF NothingToSteal, GoTo
  <2>5. CASE LookAt(t)
    BY <2>5 DEF LookAt, GoTo
  <2>6. CASE Grab(t)
    BY <2>6 DEF Grab, GoTo
  <2>7. CASE waitForTasks(t)
    BY <2>7 DEF waitForTasks
  <2>8. CASE WakeUp(t)
    BY <2>8 DEF WakeUp, GoTo
  <2> QED
    BY <2>1, <2>2, <2>3, <2>4, <2>5, <2>6, <2>7, <2>8
<1> QED
  BY <1>1, <1>2, FrameTask

LEMMA MainTaskInv == ASSUME IInv, TaskInv, MainStep PROVE TaskInv'
<1> USE ThreadZero DEF IInv, TypeOK, InTask, Signals, GoTo, CallSignal
<1>1. CASE Enqueue
  BY <1>1, EnqueueTaskInv
<1>2. CASE taskQWait \/ taskQEnd
  <2>1. UNCHANGED <<taskQ, execution, batches, region>>
    BY <1>2 DEF taskQWait, taskQEnd
  <2>2. \A u \in Threads : InTask(u)' <=> InTask(u)
    BY <1>2 DEF taskQWait, taskQEnd
  <2> QED
    BY <2>1, <2>2, FrameTask
<1>3. CASE waitForEnd \/ EndOfWait
  <2>1. UNCHANGED <<taskQ, execution, back>> /\ pc[0] \in {"end", "ended"}
    BY <1>3 DEF waitForEnd, EndOfWait
  <2>2. \/ pc' = [pc EXCEPT ![0] = "ending"] /\ UNCHANGED control
        \/ AfterEnd(TRUE) \/ AfterEnd(FALSE)
    BY <1>3 DEF waitForEnd, EndOfWait, AfterEnd
  <2>3. pc' \in {[pc EXCEPT ![0] = x] : x \in {"ending", "serial", "own"}}
    BY <2>2 DEF AfterEnd
  <2>4. \A u \in Threads : InTask(u)' <=> InTask(u)
    BY <2>1, <2>3
  <2>5. \/ UNCHANGED <<batches, region>>
        \/ /\ region' = region + 1
           /\ batches' = IF region < Len(Script) THEN Script[region + 1] ELSE << >>
    BY <2>2 DEF AfterEnd, control
  <2> HIDE DEF IInv, InTask
  <2> QED
    BY <2>1, <2>4, <2>5, FrameTask, RegionTask
<1> QED
  BY <1>1, <1>2, <1>3 DEF MainStep

LEMMA NextKeepsTaskInv == IInv /\ TaskInv /\ [Next]_vars => TaskInv'
<1> SUFFICES ASSUME IInv, TaskInv, [Next]_vars PROVE TaskInv'
  OBVIOUS
<1>1. CASE MainStep
  BY <1>1, MainTaskInv
<1>2. ASSUME NEW t \in Threads, Step(t) PROVE TaskInv'
  BY <1>2, StartTaskInv, SpawnTaskInv, FinishTaskInv, MoveTaskInv, OtherTaskInv DEF Step
<1>3. CASE UNCHANGED vars
  <2>1. \A u \in Threads : InTask(u)' <=> InTask(u)
    BY <1>3 DEF vars, InTask
  <2> QED
    BY <1>3, <2>1, FrameTask DEF vars, execution
<1> QED
  BY <1>1, <1>2, <1>3 DEF Next, Joined

LEMMA TaskInvariance == Spec => []TaskInv
BY InitTaskInv, NextKeepsTaskInv, Invariance, PTL DEF Spec

\* No task is lost or executed twice, whoever steals it from whom: when
\* taskQWait returns, all that has been enqueued has been executed.
THEOREM AllTasksDone == Spec => []TasksDone
<1>1. IInv /\ TaskInv => TasksDone
  <2> SUFFICES ASSUME IInv, TaskInv PROVE TasksDone
    OBVIOUS
  <2>1. \A x \in Tasks : executed[x] <= 1
    BY DEF TaskInv, PlaceInv
  <2>2. ASSUME Returned, NEW x \in enqueued PROVE executed[x] = 1
    <3>1. x \in Tasks
      BY DEF IInv, TypeOK
    <3>2. ~Queued(x)
      <4>1. \A q \in Queues : taskQ[q] = << >>
        BY <2>2, Safe DEF SerialAlone
      <4> QED
        BY <4>1 DEF Queued
    <3>3. ~Runs(x)
      <4>1. \A t \in Threads : pc[t] \in {"serial", "idle"}
        BY <2>2, Safe DEF Returned, SerialAlone, Workers
      <4>2. \A t \in Threads : running[t] = NoTask
        BY <4>1 DEF TaskInv, SpawnInv, InTask, Signals
      <4> QED
        BY <3>1, <4>2, TaskQAssumption DEF Runs, NoTask
    <3> QED
      BY <3>1, <3>2, <3>3 DEF TaskInv, PlaceInv
  <2> QED
    BY <2>1, <2>2 DEF TasksDone
<1> QED
  BY <1>1, TaskInvariance, Invariance, PTL

-----------------------------------------------------------------------------
(***************************************************************************)
(* The grid of tasks.                                                      *)
(***************************************************************************)

-----------------------------------------------------------------------------
(***************************************************************************)
(* The recursion of enqueueGridRec: every call is for fewer queues.        *)
(***************************************************************************)

\* g does what enqueueGridRec does, for up to n queues.
Divides(g, n) == g = [total \in 1..n |-> [call \in Calls |-> Divided(g, total, call)]]

LEMMA HalfIsLess ==
  ASSUME NEW total \in Nat \ {0}, total # 1
  PROVE  /\ total \div 2 \in 1..(total - 1)
         /\ total - total \div 2 \in 1..(total - 1)
OBVIOUS

\* What a call does depends on the calls for fewer queues only.
LEMMA DividedDepends ==
  ASSUME NEW g, NEW h, NEW total \in Nat \ {0},
         \A n \in 1..(total - 1) : g[n] = h[n],
         NEW call
  PROVE  Divided(g, total, call) = Divided(h, total, call)
<1>1. CASE total = 1
  BY <1>1 DEF Divided
<1>2. CASE total # 1
  <2>1. /\ g[total \div 2] = h[total \div 2]
        /\ g[total - total \div 2] = h[total - total \div 2]
    BY <1>2, HalfIsLess
  <2> QED
    BY <1>2, <2>1 DEF Divided
<1> QED
  BY <1>1, <1>2

LEMMA DividesAt ==
  ASSUME NEW g, NEW n \in Nat, Divides(g, n), NEW total \in 1..n
  PROVE  g[total] = [call \in Calls |-> Divided(g, total, call)]
<1> DEFINE body(t) == [call \in Calls |-> Divided(g, t, call)]
<1>1. g = [t \in 1..n |-> body(t)]
  BY DEF Divides
<1> HIDE DEF body
<1>2. g[total] = body(total)
  BY <1>1
<1> QED
  BY <1>2 DEF body

LEMMA DividesUnique ==
  ASSUME NEW g, NEW m \in Nat, Divides(g, m), NEW h, NEW n \in Nat, Divides(h, n)
  PROVE  \A total \in Nat \ {0} : total <= m /\ total <= n => g[total] = h[total]
<1> DEFINE G == {t \in Nat : \A s \in 1..t : s <= m /\ s <= n => g[s] = h[s]}
<1>1. 0 \in G
  OBVIOUS
<1>2. ASSUME NEW t \in Nat, t \in G PROVE t + 1 \in G
  <2> SUFFICES ASSUME t + 1 <= m, t + 1 <= n PROVE g[t + 1] = h[t + 1]
    <3>1. \A s \in 1..(t + 1) : s \in 1..t \/ s = t + 1
      OBVIOUS
    <3> QED BY <1>2, <3>1
  <2>1. t + 1 \in 1..m /\ t + 1 \in 1..n /\ t + 1 \in Nat \ {0}
    OBVIOUS
  <2>2. \A s \in 1..((t + 1) - 1) : g[s] = h[s]
    BY <1>2
  <2>3. \A call \in Calls : Divided(g, t + 1, call) = Divided(h, t + 1, call)
    BY <2>1, <2>2, DividedDepends
  <2>4. /\ g[t + 1] = [call \in Calls |-> Divided(g, t + 1, call)]
        /\ h[t + 1] = [call \in Calls |-> Divided(h, t + 1, call)]
    BY <2>1, DividesAt
  <2> QED
    BY <2>3, <2>4
<1> HIDE DEF G
<1>3. \A t \in Nat : t \in G
  BY <1>1, <1>2, NaturalInduction
<1> QED
  BY <1>3 DEF G

LEMMA DividesExists == \A n \in Nat : \E g : Divides(g, n)
<1> DEFINE G == {n \in Nat : \E g : Divides(g, n)}
<1>1. 0 \in G
  <2> DEFINE g == [total \in 1..0 |-> 0]
  <2>1. Divides(g, 0)
    BY DEF Divides
  <2> QED BY <2>1
<1>2. ASSUME NEW n \in Nat, n \in G PROVE n + 1 \in G
  <2>1. PICK h : Divides(h, n)
    BY <1>2
  <2> DEFINE next == [call \in Calls |-> Divided(h, n + 1, call)]
             g == [total \in 1..(n + 1) |-> IF total = n + 1 THEN next ELSE h[total]]
  <2>2. \A total \in 1..n : g[total] = h[total]
    OBVIOUS
  <2>3. ASSUME NEW total \in 1..(n + 1)
        PROVE  g[total] = [call \in Calls |-> Divided(g, total, call)]
    <3>1. total \in Nat \ {0} /\ \A s \in 1..(total - 1) : s \in 1..n
      OBVIOUS
    <3>2. \A s \in 1..(total - 1) : g[s] = h[s]
      BY <2>2, <3>1
    <3>3. \A call \in Calls : Divided(g, total, call) = Divided(h, total, call)
      <4> HIDE DEF g
      <4> QED BY <3>1, <3>2, DividedDepends
    <3>4. CASE total = n + 1
      <4>1. g[total] = [call \in Calls |-> Divided(h, total, call)]
        BY <3>4
      <4> HIDE DEF g
      <4> QED BY <3>3, <4>1
    <3>5. CASE total # n + 1
      <4>1. total \in 1..n
        BY <3>5
      <4>2. g[total] = [call \in Calls |-> Divided(h, total, call)]
        <5>1. h[total] = [call \in Calls |-> Divided(h, total, call)]
          BY <2>1, <4>1, DividesAt
        <5> HIDE DEF g
        <5> QED BY <2>2, <4>1, <5>1
      <4> HIDE DEF g
      <4> QED BY <3>3, <4>2
    <3> QED BY <3>4, <3>5
  <2>4. g = [total \in 1..(n + 1) |-> g[total]]
    OBVIOUS
  <2> HIDE DEF g
  <2>5. Divides(g, n + 1)
    BY <2>3, <2>4 DEF Divides
  <2> QED BY <2>5
<1> HIDE DEF G
<1>3. \A n \in Nat : n \in G
  BY <1>1, <1>2, NaturalInduction
<1> QED
  BY <1>3 DEF G

\* There is such a function, so enqueueGridRec is one.
LEMMA Recursion ==
  ASSUME NEW total \in Nat \ {0}, NEW call \in Calls
  PROVE  enqueueGridRec[total][call] = Divided(enqueueGridRec, total, call)
<1> DEFINE All(g) == g = [t \in Nat \ {0} |-> [c \in Calls |-> Divided(g, t, c)]]
           part(n) == CHOOSE g : Divides(g, n)
           f == [t \in Nat \ {0} |-> part(t)[t]]
<1>1. \A n \in Nat : Divides(part(n), n)
  BY DividesExists
<1>2. ASSUME NEW t \in Nat \ {0} PROVE f[t] = [c \in Calls |-> Divided(f, t, c)]
  <2>1. f[t] = part(t)[t]
    OBVIOUS
  <2> HIDE DEF f
  <2>2. part(t)[t] = [c \in Calls |-> Divided(part(t), t, c)]
    <3>1. t \in Nat /\ t \in 1..t /\ Divides(part(t), t)
      BY <1>1
    <3> HIDE DEF part
    <3> QED BY <3>1, DividesAt
  <2>3. ASSUME NEW s \in 1..(t - 1) PROVE f[s] = part(t)[s]
    <3>1. s \in Nat \ {0} /\ s \in Nat /\ t \in Nat /\ s <= t /\ s <= s
      OBVIOUS
    <3>2. Divides(part(s), s) /\ Divides(part(t), t)
      BY <1>1, <3>1
    <3>3. f[s] = part(s)[s]
      BY <3>1 DEF f
    <3> HIDE DEF part
    <3>4. part(s)[s] = part(t)[s]
      BY <3>1, <3>2, DividesUnique
    <3> QED BY <3>3, <3>4
  <2> HIDE DEF part
  <2>4. \A c \in Calls : Divided(f, t, c) = Divided(part(t), t, c)
    BY <2>3, DividedDepends
  <2> QED BY <2>1, <2>2, <2>4
<1>3. f = [t \in Nat \ {0} |-> f[t]]
  OBVIOUS
<1> HIDE DEF f
<1>4. All(f)
  BY <1>2, <1>3
<1>5. enqueueGridRec = CHOOSE g : All(g)
  BY DEF enqueueGridRec
<1> HIDE DEF All
<1>6. All(enqueueGridRec)
  BY <1>4, <1>5
<1> USE DEF All
<1> DEFINE e == enqueueGridRec
           body(t) == [c \in Calls |-> Divided(e, t, c)]
<1>7. e = [t \in Nat \ {0} |-> body(t)]
  BY <1>6
<1> HIDE DEF e, body
<1>8. e[total] = body(total)
  BY <1>7
<1>9. body(total)[call] = Divided(e, total, call)
  BY DEF body
<1> QED
  BY <1>8, <1>9 DEF e

-----------------------------------------------------------------------------
(***************************************************************************)
(* The boxes of the two halves.                                            *)
(***************************************************************************)

\* A tile is in a box if each coordinate is between the corners.
LEMMA InBox ==
  ASSUME NEW n \in Nat, NEW min \in Seq(Nat), NEW max \in Seq(Nat),
         Len(min) = n, Len(max) = n, NEW tile
  PROVE  tile \in Box(min, max) <=>
           /\ tile = [k \in 1..n |-> tile[k]]
           /\ \A k \in 1..n : tile[k] \in Nat /\ min[k] <= tile[k] /\ tile[k] < max[k]
<1> DEFINE R == UNION {min[k]..(max[k] - 1) : k \in DOMAIN min}
<1>1. DOMAIN min = 1..n /\ \A k \in 1..n : min[k] \in Nat /\ max[k] \in Nat
  OBVIOUS
<1>2. Box(min, max) = {t \in [1..n -> R] : \A k \in 1..n : min[k] <= t[k] /\ t[k] < max[k]}
  BY <1>1 DEF Box
<1>3. ASSUME tile \in Box(min, max), NEW k \in 1..n PROVE tile[k] \in Nat
  <2>1. tile[k] \in R
    BY <1>2, <1>3
  <2>2. PICK j \in 1..n : tile[k] \in min[j]..(max[j] - 1)
    BY <1>1, <2>1
  <2> QED BY <1>1, <2>2
<1>4. ASSUME tile = [k \in 1..n |-> tile[k]],
             \A k \in 1..n : tile[k] \in Nat /\ min[k] <= tile[k] /\ tile[k] < max[k]
      PROVE  tile \in Box(min, max)
  <2>1. ASSUME NEW k \in 1..n PROVE tile[k] \in R
    <3>1. tile[k] \in min[k]..(max[k] - 1)
      <4>1. tile[k] \in Nat /\ min[k] <= tile[k] /\ tile[k] < max[k] /\ min[k] \in Nat
        BY <1>1, <1>4
      <4>2. max[k] \in Int
        BY <1>1
      <4> QED BY <4>1, <4>2
    <3> QED BY <1>1, <3>1
  <2> HIDE DEF R
  <2>2. tile \in [1..n -> R]
    BY <1>4, <2>1
  <2> QED BY <1>2, <1>4, <2>2
<1> HIDE DEF R
<1> QED BY <1>2, <1>3, <1>4

\* What enqueueGridHelper and every call of enqueueGridRec see: as many
\* coordinates for both corners, and a tile or more in every dimension.
IsCall(call, n) ==
  /\ call \in Calls /\ Len(call.min) = n /\ Len(call.max) = n
  /\ call.current \in 1..n
  /\ \A k \in 1..n : call.min[k] < call.max[k]

LEMMA DimensionIn ==
  ASSUME NEW n \in Nat \ {0}, NEW k \in 1..n, NEW i \in Nat
  PROVE  Dimension(k, i, n) \in 1..n
<1>1. k + i - 1 \in Nat
  OBVIOUS
<1>2. (k + i - 1) % n \in 0..(n - 1)
  BY <1>1
<1> HIDE DEF Dimension
<1>3. Dimension(k, i, n) = ((k + i - 1) % n) + 1
  BY DEF Dimension
<1> QED
  BY <1>2, <1>3

\* Min is the least element.
LEMMA MinIn ==
  ASSUME NEW S \in SUBSET Nat, S # {}
  PROVE  Min(S) \in S
<1>1. PICK n \in S : \A m \in S : <<m, n>> \notin OpToRel(<, Nat)
  <2> IsWellFoundedOn(OpToRel(<, Nat), Nat)
    BY NatLessThanWellFounded
  <2> QED BY Minimal
<1>2. \A m \in S : n <= m
  <2> TAKE m \in S
  <2>1. m \in Nat /\ n \in Nat /\ <<m, n>> \notin OpToRel(<, Nat)
    BY <1>1
  <2>2. ~(m < n)
    BY <2>1 DEF OpToRel
  <2>3. m \in Nat /\ n \in Nat
    BY <2>1
  <2> QED BY <2>2, <2>3
<1> QED
  BY <1>2 DEF Min

\* What enqueueGridRec computes for a call that is divided.
CutAt(call) == Dimension(call.current,
                         Min(CutDimensions(call.current, call.min, call.max)), Len(call.min))
Middle(call) == LET k == CutAt(call) IN call.min[k] + (call.max[k] - call.min[k]) \div 2
NextTile(call) == Dimension(CutAt(call), 1, Len(call.min))
Lower(call) ==
  [start |-> call.start, current |-> NextTile(call),
   min |-> call.min, max |-> [call.max EXCEPT ![CutAt(call)] = Middle(call)]]
Upper(call, half) ==
  [start |-> call.start + half, current |-> NextTile(call),
   min |-> UpperCorner(call.min, CutAt(call), Middle(call)), max |-> call.max]

\* A box is cut between its corners, and both halves are boxes again.
LEMMA Cutting ==
  ASSUME NEW n \in Nat \ {0}, NEW call, IsCall(call, n), NEW total \in Nat \ {0}, total # 1,
         CutDimensions(call.current, call.min, call.max) # {}
  PROVE  LET lower == Lower(call)
             upper == Upper(call, total \div 2)
         IN  /\ IsCall(lower, n) /\ IsCall(upper, n)
             /\ lower.start = call.start /\ upper.start = call.start + total \div 2
             /\ \A tile : tile \in Box(lower.min, lower.max) <=>
                            tile \in Box(call.min, call.max) /\ tile[CutAt(call)] < Middle(call)
             /\ \A tile : tile \in Box(upper.min, upper.max) <=>
                            tile \in Box(call.min, call.max) /\ ~(tile[CutAt(call)] < Middle(call))
<1> DEFINE cuts == CutDimensions(call.current, call.min, call.max)
           k == Dimension(call.current, Min(cuts), Len(call.min))
           middle == call.min[k] + (call.max[k] - call.min[k]) \div 2
           next == Dimension(k, 1, Len(call.min))
           lower == [start |-> call.start, current |-> next,
                     min |-> call.min, max |-> [call.max EXCEPT ![k] = middle]]
           upper == [start |-> call.start + total \div 2, current |-> next,
                     min |-> UpperCorner(call.min, k, middle), max |-> call.max]
           min == call.min
           max == call.max
<1>1. /\ min \in Seq(Nat) /\ max \in Seq(Nat) /\ Len(min) = n /\ Len(max) = n
      /\ call.start \in Nat /\ call.current \in 1..n
      /\ call = [start |-> call.start, current |-> call.current, min |-> min, max |-> max]
      /\ \A j \in 1..n : min[j] \in Nat /\ max[j] \in Nat /\ min[j] < max[j]
  BY DEF IsCall, Calls
<1>2. Min(cuts) \in 0..(n - 1) /\ max[k] - min[k] > 1
  <2>1. cuts = {i \in 0..(n - 1) : max[Dimension(call.current, i, n)] - min[Dimension(call.current, i, n)] > 1}
    BY <1>1 DEF CutDimensions
  <2>2. cuts \in SUBSET Nat
    BY <2>1
  <2>3. Min(cuts) \in cuts
    <3> HIDE DEF cuts
    <3> QED BY <2>2, MinIn DEF cuts
  <2> QED BY <1>1, <2>1, <2>3
<1>3. k \in 1..n
  <2> HIDE DEF cuts
  <2> QED BY <1>1, <1>2, DimensionIn
<1> HIDE DEF k
<1>4. next \in 1..n
  BY <1>1, <1>3, DimensionIn
<1>5. middle \in Nat /\ min[k] < middle /\ middle < max[k]
  <2>1. min[k] \in Nat /\ max[k] \in Nat
    BY <1>1, <1>3
  <2>2. \A a, b \in Nat : b - a > 1 =>
          a + (b - a) \div 2 \in Nat /\ a < a + (b - a) \div 2 /\ a + (b - a) \div 2 < b
    OBVIOUS
  <2> QED BY <1>2, <2>1, <2>2
<1> HIDE DEF middle, next
<1>6. /\ lower.start = call.start /\ lower.current = next /\ lower.min = min
      /\ lower.max = [max EXCEPT ![k] = middle]
      /\ upper.start = call.start + total \div 2 /\ upper.current = next /\ upper.max = max
      /\ upper.min = [min EXCEPT ![k] = middle]
  BY <1>1 DEF UpperCorner
<1> DEFINE newmax == [max EXCEPT ![k] = middle]
           newmin == [min EXCEPT ![k] = middle]
<1>7. /\ newmax \in Seq(Nat) /\ Len(newmax) = n
      /\ newmin \in Seq(Nat) /\ Len(newmin) = n
      /\ \A j \in 1..n : newmax[j] = IF j = k THEN middle ELSE max[j]
      /\ \A j \in 1..n : newmin[j] = IF j = k THEN middle ELSE min[j]
  <2> HIDE DEF min, max
  <2>1. newmax \in Seq(Nat) /\ Len(newmax) = n
    BY <1>1, <1>3, <1>5, ExceptSeq
  <2>2. newmin \in Seq(Nat) /\ Len(newmin) = n
    BY <1>1, <1>3, <1>5, ExceptSeq
  <2>3. \A j \in 1..n : newmax[j] = IF j = k THEN middle ELSE max[j]
    BY <1>1, <1>3
  <2>4. \A j \in 1..n : newmin[j] = IF j = k THEN middle ELSE min[j]
    BY <1>1, <1>3
  <2> QED BY <2>1, <2>2, <2>3, <2>4
<1>8. total \div 2 \in Nat
  OBVIOUS
<1>9. lower \in Calls /\ upper \in Calls
  <2>1. lower = [start |-> call.start, current |-> next, min |-> min, max |-> newmax]
    OBVIOUS
  <2>2. upper = [start |-> call.start + total \div 2, current |-> next,
                 min |-> newmin, max |-> max]
    BY DEF UpperCorner
  <2>3. call.start + total \div 2 \in Nat /\ next \in Nat
    BY <1>1, <1>4, <1>8
  <2> HIDE DEF lower, upper, newmin, newmax, min, max
  <2> QED BY <1>1, <1>7, <2>1, <2>2, <2>3 DEF Calls
<1>9a. lower.max = newmax /\ upper.min = newmin /\ lower.min = min /\ upper.max = max
  BY <1>6
<1> HIDE DEF lower, upper, min, max, newmin, newmax
<1>10. IsCall(lower, n)
  BY <1>1, <1>4, <1>5, <1>6, <1>7, <1>9, <1>9a DEF IsCall
<1>11. IsCall(upper, n)
  BY <1>1, <1>4, <1>5, <1>6, <1>7, <1>9, <1>9a DEF IsCall
<1>12. ASSUME NEW tile
       PROVE  tile \in Box(lower.min, lower.max) <=> tile \in Box(min, max) /\ tile[k] < middle
  <2>1. tile \in Box(min, max) <=>
           /\ tile = [j \in 1..n |-> tile[j]]
           /\ \A j \in 1..n : tile[j] \in Nat /\ min[j] <= tile[j] /\ tile[j] < max[j]
    BY <1>1, InBox
  <2>2. tile \in Box(lower.min, lower.max) <=>
           /\ tile = [j \in 1..n |-> tile[j]]
           /\ \A j \in 1..n : tile[j] \in Nat /\ min[j] <= tile[j] /\ tile[j] < lower.max[j]
    <3>1. min \in Seq(Nat) /\ newmax \in Seq(Nat) /\ Len(min) = n /\ Len(newmax) = n
      BY <1>1, <1>7
    <3>2. lower.min = min /\ lower.max = newmax
      BY <1>9a
    <3>3. n \in Nat
      OBVIOUS
    <3>4. tile \in Box(min, newmax) <=>
             /\ tile = [j \in 1..n |-> tile[j]]
             /\ \A j \in 1..n : tile[j] \in Nat /\ min[j] <= tile[j] /\ tile[j] < newmax[j]
      BY <3>1, <3>3, InBox
    <3> QED BY <3>2, <3>4
  <2>3. \A j \in 1..n : lower.max[j] = IF j = k THEN middle ELSE max[j]
    BY <1>7, <1>9a
  <2>4. ASSUME \A j \in 1..n : tile[j] \in Nat
        PROVE  (\A j \in 1..n : min[j] <= tile[j] /\ tile[j] < lower.max[j]) <=>
               (\A j \in 1..n : min[j] <= tile[j] /\ tile[j] < max[j]) /\ tile[k] < middle
    <3>1. ASSUME NEW j \in 1..n, j # k PROVE lower.max[j] = max[j]
      BY <2>3, <3>1
    <3>2. /\ lower.max[k] = middle /\ min[k] \in Nat /\ max[k] \in Nat /\ middle \in Nat
          /\ middle < max[k] /\ tile[k] \in Nat
      BY <1>1, <1>3, <1>5, <2>3, <2>4
    <3>3. (tile[k] < middle) => tile[k] < max[k]
      BY <3>2
    <3> QED BY <1>3, <3>1, <3>2, <3>3
  <2> QED BY <2>1, <2>2, <2>4
<1>13. ASSUME NEW tile
       PROVE  tile \in Box(upper.min, upper.max) <=> tile \in Box(min, max) /\ ~(tile[k] < middle)
  <2>1. tile \in Box(min, max) <=>
           /\ tile = [j \in 1..n |-> tile[j]]
           /\ \A j \in 1..n : tile[j] \in Nat /\ min[j] <= tile[j] /\ tile[j] < max[j]
    BY <1>1, InBox
  <2>2. tile \in Box(upper.min, upper.max) <=>
           /\ tile = [j \in 1..n |-> tile[j]]
           /\ \A j \in 1..n : tile[j] \in Nat /\ upper.min[j] <= tile[j] /\ tile[j] < max[j]
    <3>1. max \in Seq(Nat) /\ newmin \in Seq(Nat) /\ Len(max) = n /\ Len(newmin) = n
      BY <1>1, <1>7
    <3>2. upper.max = max /\ upper.min = newmin
      BY <1>9a
    <3>3. n \in Nat
      OBVIOUS
    <3>4. tile \in Box(newmin, max) <=>
             /\ tile = [j \in 1..n |-> tile[j]]
             /\ \A j \in 1..n : tile[j] \in Nat /\ newmin[j] <= tile[j] /\ tile[j] < max[j]
      BY <3>1, <3>3, InBox
    <3> QED BY <3>2, <3>4
  <2>3. \A j \in 1..n : upper.min[j] = IF j = k THEN middle ELSE min[j]
    BY <1>7, <1>9a
  <2>4. ASSUME \A j \in 1..n : tile[j] \in Nat
        PROVE  (\A j \in 1..n : upper.min[j] <= tile[j] /\ tile[j] < max[j]) <=>
               (\A j \in 1..n : min[j] <= tile[j] /\ tile[j] < max[j]) /\ ~(tile[k] < middle)
    <3>1. ASSUME NEW j \in 1..n, j # k PROVE upper.min[j] = min[j]
      BY <2>3, <3>1
    <3>2. /\ upper.min[k] = middle /\ min[k] \in Nat /\ max[k] \in Nat /\ middle \in Nat
          /\ min[k] < middle /\ tile[k] \in Nat
      BY <1>1, <1>3, <1>5, <2>3, <2>4
    <3>3. (middle <= tile[k] => min[k] <= tile[k]) /\ (middle <= tile[k] <=> ~(tile[k] < middle))
      BY <3>2
    <3> QED BY <1>3, <3>1, <3>2, <3>3
  <2> QED BY <2>1, <2>2, <2>4
<1>14. k = CutAt(call) /\ middle = Middle(call)
  BY DEF k, middle, cuts, min, max, CutAt, Middle
<1>15. lower = Lower(call) /\ upper = Upper(call, total \div 2)
  BY DEF lower, upper, k, middle, next, cuts, newmin, newmax, min, max,
         CutAt, Middle, NextTile, Lower, Upper
<1> QED
  BY <1>6, <1>10, <1>11, <1>12, <1>13, <1>14, <1>15 DEF min, max

-----------------------------------------------------------------------------
(***************************************************************************)
(* By induction on the number of queues, a call gives every tile of its    *)
(* box to exactly one of them.                                             *)
(***************************************************************************)
Tiled(share, total, call) ==
  /\ DOMAIN share = call.start..(call.start + total - 1)
  /\ \A q \in DOMAIN share : share[q] \subseteq Box(call.min, call.max)
  /\ \A tile \in Box(call.min, call.max) :
        \E q \in DOMAIN share : \A r \in DOMAIN share : tile \in share[r] <=> r = q

LEMMA CallTiles ==
  ASSUME NEW n \in Nat \ {0}, NEW total \in Nat \ {0},
         \A t \in 1..(total - 1) : \A c : IsCall(c, n) => Tiled(enqueueGridRec[t][c], t, c),
         NEW call, IsCall(call, n)
  PROVE  Tiled(enqueueGridRec[total][call], total, call)
<1> DEFINE share == enqueueGridRec[total][call]
           queues == call.start..(call.start + total - 1)
           cuts == CutDimensions(call.current, call.min, call.max)
           box == Box(call.min, call.max)
<1>1. share = Divided(enqueueGridRec, total, call) /\ call.start \in Nat
  BY Recursion DEF IsCall, Calls
<1>2. CASE total = 1 \/ cuts = {}
  <2>1. share = [q \in queues |-> IF q = call.start THEN box ELSE {}]
    BY <1>1, <1>2 DEF Divided
  <2>2. call.start \in queues
    BY <1>1
  <2> HIDE DEF share, box, queues
  <2>3. Tiled(share, total, call)
    BY <2>1, <2>2 DEF Tiled, queues, box
  <2> QED BY <2>3 DEF share
<1>3. CASE total # 1 /\ cuts # {}
  <2> DEFINE k == CutAt(call)
             middle == Middle(call)
             half == total \div 2
             lower == Lower(call)
             upper == Upper(call, half)
             low == enqueueGridRec[half][lower]
             up == enqueueGridRec[total - half][upper]
  <2>1. share = [q \in queues |-> IF q < call.start + half THEN low[q] ELSE up[q]]
    BY <1>1, <1>3 DEF Divided, CutAt, Middle, NextTile, Lower, Upper
  <2>2. /\ IsCall(lower, n) /\ IsCall(upper, n)
        /\ lower.start = call.start /\ upper.start = call.start + half
        /\ \A tile : tile \in Box(lower.min, lower.max) <=> tile \in box /\ tile[k] < middle
        /\ \A tile : tile \in Box(upper.min, upper.max) <=> tile \in box /\ ~(tile[k] < middle)
    <3>1. /\ n \in Nat \ {0} /\ IsCall(call, n) /\ total \in Nat \ {0} /\ total # 1
          /\ CutDimensions(call.current, call.min, call.max) # {}
      BY <1>3
    <3> QED BY <3>1, Cutting
  <2>3. half \in 1..(total - 1) /\ total - half \in 1..(total - 1)
    BY <1>3, HalfIsLess
  <2> HIDE DEF k, middle, half, lower, upper
  <2>4. Tiled(low, half, lower) /\ Tiled(up, total - half, upper)
    BY <2>2, <2>3
  <2> HIDE DEF low, up, share
  <2>5. /\ DOMAIN low = call.start..(call.start + half - 1)
        /\ DOMAIN up = (call.start + half)..(call.start + total - 1)
    <3>1. (call.start + half) + (total - half) - 1 = call.start + total - 1
      BY <1>1, <2>3
    <3> QED BY <2>2, <2>4, <3>1 DEF Tiled
  <2>6. /\ \A q \in queues : q \in DOMAIN low \/ q \in DOMAIN up
        /\ \A q \in DOMAIN low : q \in queues /\ q < call.start + half
        /\ \A q \in DOMAIN up : q \in queues /\ ~(q < call.start + half)
    BY <1>1, <2>3, <2>5
  <2>7. /\ DOMAIN share = queues
        /\ \A q \in DOMAIN low : q \in queues /\ share[q] = low[q]
        /\ \A q \in DOMAIN up : q \in queues /\ share[q] = up[q]
    <3> HIDE DEF queues
    <3> QED BY <2>1, <2>6
  <2> HIDE DEF queues, box
  <2>8. ASSUME NEW q \in queues PROVE share[q] \subseteq box
    <3>1. CASE q \in DOMAIN low
      BY <2>2, <2>4, <2>7, <3>1 DEF Tiled
    <3>2. CASE q \in DOMAIN up
      BY <2>2, <2>4, <2>7, <3>2 DEF Tiled
    <3> QED BY <2>6, <3>1, <3>2
  <2>9. ASSUME NEW tile \in box
        PROVE  \E q \in queues : \A r \in queues : tile \in share[r] <=> r = q
    <3>1. CASE tile[k] < middle
      <4>1. tile \in Box(lower.min, lower.max) /\ tile \notin Box(upper.min, upper.max)
        BY <2>2, <3>1
      <4>2. PICK q \in DOMAIN low : \A r \in DOMAIN low : tile \in low[r] <=> r = q
        BY <2>4, <4>1 DEF Tiled
      <4>3. \A r \in DOMAIN up : tile \notin up[r]
        BY <2>4, <4>1 DEF Tiled
      <4>4. \A r \in queues : tile \in share[r] <=> r = q
        BY <2>6, <2>7, <4>2, <4>3
      <4> QED BY <2>7, <4>4
    <3>2. CASE ~(tile[k] < middle)
      <4>1. tile \in Box(upper.min, upper.max) /\ tile \notin Box(lower.min, lower.max)
        BY <2>2, <3>2
      <4>2. PICK q \in DOMAIN up : \A r \in DOMAIN up : tile \in up[r] <=> r = q
        BY <2>4, <4>1 DEF Tiled
      <4>3. \A r \in DOMAIN low : tile \notin low[r]
        BY <2>4, <4>1 DEF Tiled
      <4>4. \A r \in queues : tile \in share[r] <=> r = q
        BY <2>6, <2>7, <4>2, <4>3
      <4> QED BY <2>7, <4>4
    <3> QED BY <3>1, <3>2
  <2>10. Tiled(share, total, call)
    BY <2>7, <2>8, <2>9 DEF Tiled, queues, box
  <2> QED BY <2>10 DEF share
<1> QED
  BY <1>2, <1>3

\* A grid of any size is divided among any number of queues without a gap and
\* without an overlap.
LEMMA EveryCallTiles ==
  ASSUME size \in Seq(Nat \ {0}), size # << >>, shares \in Nat \ {0}
  PROVE  GridTiled
<1> DEFINE n == Len(size)
           min == [k \in DOMAIN size |-> 0]
           call == [start |-> 0, current |-> 1, min |-> min, max |-> size]
           G == {t \in Nat : \A s \in 1..t : \A c : IsCall(c, n) => Tiled(enqueueGridRec[s][c], s, c)}
<1>1. n \in Nat \ {0}
  OBVIOUS
<1>2. 0 \in G
  OBVIOUS
<1>3. ASSUME NEW t \in Nat, t \in G PROVE t + 1 \in G
  <2>1. t + 1 \in Nat \ {0} /\ (t + 1) - 1 = t /\ \A s \in 1..(t + 1) : s \in 1..t \/ s = t + 1
    OBVIOUS
  <2>2. \A s \in 1..((t + 1) - 1) : \A c : IsCall(c, n) => Tiled(enqueueGridRec[s][c], s, c)
    BY <1>3, <2>1
  <2> HIDE DEF n
  <2>3. \A c : IsCall(c, n) => Tiled(enqueueGridRec[t + 1][c], t + 1, c)
    BY <1>1, <2>1, <2>2, CallTiles
  <2> QED BY <1>3, <2>1, <2>3
<1>4. shares \in G
  <2> HIDE DEF G
  <2> QED BY <1>2, <1>3, NaturalInduction
<1>5. IsCall(call, n)
  <2>1. min \in Seq(Nat) /\ Len(min) = n /\ \A k \in 1..n : min[k] = 0
    BY <1>1
  <2>2. size \in Seq(Nat) /\ \A k \in 1..n : 0 < size[k]
    BY <1>1
  <2> HIDE DEF min
  <2>3. call \in Calls
    BY <2>1, <2>2 DEF Calls
  <2> QED BY <1>1, <2>1, <2>2, <2>3 DEF IsCall
<1>6. Tiled(enqueueGridRec[shares][call], shares, call)
  <2>1. shares \in 1..shares
    OBVIOUS
  <2> HIDE DEF call, n
  <2> QED BY <1>4, <1>5, <2>1
<1>7. Shares = enqueueGridRec[shares][call]
  BY DEF Shares
<1> QED
  <2> DEFINE share == Shares
  <2>1. 0 + shares - 1 = shares - 1 /\ call.start = 0 /\ call.min = min /\ call.max = size
    OBVIOUS
  <2> HIDE DEF call
  <2>2. Tiled(share, shares, call)
    BY <1>6, <1>7
  <2> HIDE DEF share, min
  <2>3. DOMAIN share = 0..(shares - 1)
    BY <2>1, <2>2 DEF Tiled
  <2>4. \A tile \in Box(min, size) :
           \E q \in DOMAIN share : \A r \in DOMAIN share : tile \in share[r] <=> r = q
    BY <2>1, <2>2 DEF Tiled
  <2> QED BY <2>3, <2>4 DEF GridTiled, share, min

\* taskQEnqueueGrid gives every tile of a grid of any size to exactly one of any
\* number of queues, however the halves are cut.
THEOREM EveryTileOnce == GridSpec => []GridTiled
<1>1. GridInit => GridTiled
  <2> SUFFICES ASSUME GridInit PROVE GridTiled
    OBVIOUS
  <2>1. size \in Seq(Nat \ {0}) /\ size # << >> /\ shares \in Nat \ {0}
    BY GridAssumption DEF GridInit
  <2> QED BY <2>1, EveryCallTiles
<1>2. GridInit /\ [FALSE]_gridVars => GridInit'
  BY DEF GridInit, gridVars
<1> QED
  BY <1>1, <1>2, PTL DEF GridSpec

-----------------------------------------------------------------------------
(***************************************************************************)
(* Ferret: every query that has been loaded is in one place, so the        *)
(* counters agree only when all results are out.                           *)
(***************************************************************************)

LoadPlaces  == {"load", "enqueue", "not_full", "returned"}
StagePlaces == {"dequeue", "not_empty", "enqueue", "not_full"}
OutPlaces   == {"dequeue", "not_empty", "write", "count", "test", "done"}

AllPlaces   == LoadPlaces \cup StagePlaces \cup OutPlaces

PlacesOf(t) == CASE t = Load -> LoadPlaces
                 [] t = Out  -> OutPlaces
                 [] OTHER    -> StagePlaces

\* A thread at p works on an item or waits to pass it on.
HasItem(p) == p \in {"enqueue", "not_full", "write"}

Query == 1..cnt_enqueue

FerretTypeOK ==
  /\ queue \in [StageQueues -> Seq(Query)]
  /\ at \in [Thread -> AllPlaces] /\ \A t \in Thread : at[t] \in PlacesOf(t)
  /\ item \in [Thread -> Query \cup {0}]
  /\ cnt_enqueue \in 0..Queries /\ cnt_dequeue \in Nat
  /\ input_end \in BOOLEAN /\ output_end \in BOOLEAN
  /\ main \in {"start", "waiting", "woken", "cancelled"}
  /\ written \in Seq(Query)

ItemInv == \A t \in Thread : item[t] # 0 <=> HasItem(at[t])

InQueue(q)  == \E s \in StageQueues : \E i \in 1..Len(queue[s]) : queue[s][i] = q
Held(q)     == \E t \in Thread : item[t] = q
Answered(q) == \E i \in 1..Len(written) : written[i] = q

\* No query is twice in the queues, in two hands or twice in the output.
NoDoubles ==
  /\ \A s, r \in StageQueues : \A i \in 1..Len(queue[s]), j \in 1..Len(queue[r]) :
        queue[s][i] = queue[r][j] => s = r /\ i = j
  /\ \A t, u \in Thread : item[t] = item[u] /\ item[t] # 0 => t = u
  /\ \A i, j \in 1..Len(written) : written[i] = written[j] => i = j

\* Every query that has been counted is in a queue, in one hand, or answered,
\* and never two of these.
OnePlace ==
  \A q \in Query :
     /\ InQueue(q) \/ Held(q) \/ Answered(q)
     /\ ~(InQueue(q) /\ Held(q)) /\ ~(InQueue(q) /\ Answered(q)) /\ ~(Held(q) /\ Answered(q))

FerretCountInv ==
  /\ Len(written) = IF at[Out] = "count" THEN cnt_dequeue + 1 ELSE cnt_dequeue
  /\ input_end => cnt_enqueue = Queries

\* Main is told only after the last result.
FerretEndInv ==
  at[Out] = "done" \/ output_end \/ main \in {"woken", "cancelled"} => AllAnswered

FerretInv ==
  FerretTypeOK /\ ItemInv /\ NoDoubles /\ OnePlace /\ FerretCountInv /\ FerretEndInv

-----------------------------------------------------------------------------
\* The threads: every one but the last has a queue after it, every one but the
\* first a queue before it.
LEMMA EndsOfPipeline ==
  /\ Load \in Thread /\ Out \in Thread /\ Load # Out
  /\ stage(Load) = 1 /\ stage(Out) = Stages
  /\ \A t \in Thread : t # Out => stage(t) \in StageQueues
  /\ \A t \in Thread : t # Load => stage(t) - 1 \in StageQueues
<1>1. Stages \in Nat /\ Stages > 2 /\ PoolSize \in Nat \ {0}
  BY FerretAssumption
<1>2. /\ Load \in (1..Stages) \X (1..PoolSize) /\ Out \in (1..Stages) \X (1..PoolSize)
      /\ Load # Out /\ Load[1] = 1 /\ Out[1] = Stages /\ Load[2] = 1 /\ Out[2] = 1
  BY <1>1 DEF Load, Out
<1>3. Load \in Thread /\ Out \in Thread
  BY <1>1, <1>2 DEF Thread, NThread, Load, Out
<1>4. ASSUME NEW t \in Thread
      PROVE  (t # Out => t[1] \in 1..(Stages - 1)) /\ (t # Load => t[1] - 1 \in 1..(Stages - 1))
  <2>1. t = <<t[1], t[2]>> /\ t[1] \in 1..Stages /\ t[2] \in 1..PoolSize /\ t[2] <= NThread(t[1])
    BY DEF Thread
  <2>2. t[1] \in {1, Stages} => t[2] = 1
    BY <1>1, <2>1 DEF NThread
  <2> QED
    BY <1>1, <2>1, <2>2 DEF Load, Out
<1> QED
  BY <1>2, <1>3, <1>4 DEF stage, StageQueues

LEMMA FerretInitInv == FerretInit => FerretInv
<1> SUFFICES ASSUME FerretInit PROVE FerretInv
  OBVIOUS
<1>1. Load # Out /\ Load \in Thread /\ Out \in Thread
  BY EndsOfPipeline
<1>2. \A s \in StageQueues : queue[s] = << >> /\ Len(queue[s]) = 0
  BY DEF FerretInit
<1>3. \A t \in Thread : item[t] = 0 /\ at[t] = IF t = Load THEN "load" ELSE "dequeue"
  BY DEF FerretInit
<1>4. FerretTypeOK
  <2>1. at \in [Thread -> AllPlaces]
    BY DEF FerretInit, AllPlaces, LoadPlaces, StagePlaces, OutPlaces
  <2>2. \A t \in Thread : at[t] \in PlacesOf(t)
    BY <1>1, <1>3 DEF PlacesOf, LoadPlaces, StagePlaces, OutPlaces
  <2>3. queue \in [StageQueues -> Seq(Query)] /\ item \in [Thread -> Query \cup {0}] /\ written \in Seq(Query)
    BY DEF FerretInit
  <2>4. cnt_enqueue \in 0..Queries /\ cnt_dequeue \in Nat
    BY FerretAssumption DEF FerretInit
  <2>5. /\ input_end \in BOOLEAN /\ output_end \in BOOLEAN
        /\ main \in {"start", "waiting", "woken", "cancelled"}
    BY DEF FerretInit
  <2> QED
    BY <2>1, <2>2, <2>3, <2>4, <2>5 DEF FerretTypeOK
<1>5. ItemInv
  BY <1>3 DEF ItemInv, HasItem
<1>6. NoDoubles
  BY <1>2, <1>3 DEF FerretInit, NoDoubles
<1>7. OnePlace
  BY DEF FerretInit, OnePlace, Query
<1>8. FerretCountInv /\ FerretEndInv
  BY <1>1, <1>3 DEF FerretInit, FerretCountInv, FerretEndInv
<1> QED
  BY <1>4, <1>5, <1>6, <1>7, <1>8 DEF FerretInv

\* A thread that is woken goes from its sleep to the test of its loop; what it
\* holds does not change by that.
LEMMA FerretSignalKeeps ==
  ASSUME NEW moved \in [Thread -> AllPlaces],
         \A u \in Thread : moved[u] \in PlacesOf(u),
         NEW s, NEW asleep, NEW resumed,
         \/ asleep = "not_empty" /\ resumed = "dequeue"
         \/ asleep = "not_full" /\ resumed = "enqueue",
         NEW f \in CondSignal(moved, s, asleep, resumed)
  PROVE  /\ f \in [Thread -> AllPlaces]
         /\ \A u \in Thread : /\ f[u] \in PlacesOf(u)
                              /\ HasItem(f[u]) <=> HasItem(moved[u])
                              /\ f[u] \in {"count", "done"} => f[u] = moved[u]
                              /\ moved[u] \in {"count", "done"} => f[u] = moved[u]
<1>1. resumed \in AllPlaces
  BY DEF AllPlaces, StagePlaces
<1>2. \/ f = moved
      \/ \E w \in Thread : moved[w] = asleep /\ f = [moved EXCEPT ![w] = resumed]
  BY DEF CondSignal
<1>3. ASSUME NEW w \in Thread, moved[w] = asleep PROVE resumed \in PlacesOf(w)
  BY <1>3 DEF PlacesOf, LoadPlaces, StagePlaces, OutPlaces
<1>4. CASE f = moved
  BY <1>4
<1>5. ASSUME NEW w \in Thread, moved[w] = asleep, f = [moved EXCEPT ![w] = resumed]
      PROVE  /\ f \in [Thread -> AllPlaces]
             /\ \A u \in Thread : f[u] = IF u = w THEN resumed ELSE moved[u]
  BY <1>1, <1>5
<1>6. ASSUME NEW w \in Thread, moved[w] = asleep, f = [moved EXCEPT ![w] = resumed],
             NEW u \in Thread
      PROVE  /\ f[u] \in PlacesOf(u)
             /\ HasItem(f[u]) <=> HasItem(moved[u])
             /\ f[u] \in {"count", "done"} => f[u] = moved[u]
             /\ moved[u] \in {"count", "done"} => f[u] = moved[u]
  <2>1. f[u] = IF u = w THEN resumed ELSE moved[u]
    BY <1>5, <1>6
  <2>2. CASE u # w
    BY <2>1, <2>2
  <2>3. CASE u = w
    <3>1. f[u] = resumed /\ moved[u] = asleep /\ resumed \in PlacesOf(u)
      BY <1>3, <1>6, <2>1, <2>3
    <3>2. HasItem(resumed) <=> HasItem(asleep)
      BY DEF HasItem
    <3>3. resumed \notin {"count", "done"} /\ asleep \notin {"count", "done"}
      OBVIOUS
    <3> QED
      BY ONLY <3>1, <3>2, <3>3
  <2> QED
    BY <2>2, <2>3
<1> QED
  BY <1>2, <1>4, <1>5, <1>6

\* Where the queries are depends on these variables only.
LEMMA QueriesStay ==
  ASSUME FerretInv, UNCHANGED <<queue, item, written, cnt_enqueue>>
  PROVE  NoDoubles' /\ OnePlace'
BY DEF FerretInv, NoDoubles, OnePlace, Query, InQueue, Held, Answered

LEMMA LoadFileKeeps ==
  ASSUME FerretInv, LoadFile
  PROVE  FerretInv'
<1> USE DEF FerretInv
<1> DEFINE q == cnt_enqueue + 1
<1>1. /\ at[Load] = "load" /\ cnt_enqueue < Queries /\ cnt_enqueue' = q
      /\ item' = [item EXCEPT ![Load] = q] /\ at' = [at EXCEPT ![Load] = "enqueue"]
      /\ UNCHANGED <<queue, cnt_dequeue, input_end, output_end, main, written>>
  BY DEF LoadFile
<1>2. Load \in Thread /\ Out \in Thread /\ Load # Out
  BY EndsOfPipeline
<1>3. cnt_enqueue \in Nat /\ Queries \in Nat /\ Query' = Query \cup {q} /\ q \notin Query /\ q # 0
  BY <1>1, FerretAssumption DEF FerretTypeOK, Query
<1> HIDE DEF q
<1>4. \A t \in Thread : /\ at'[t] = IF t = Load THEN "enqueue" ELSE at[t]
                        /\ item'[t] = IF t = Load THEN q ELSE item[t]
  BY <1>1 DEF FerretTypeOK
<1>5. item[Load] = 0
  BY <1>1, <1>2 DEF ItemInv, HasItem
<1>6. FerretTypeOK'
  <2>1. at' \in [Thread -> AllPlaces]
    BY <1>1 DEF FerretTypeOK, AllPlaces, LoadPlaces
  <2>2. \A t \in Thread : at'[t] \in PlacesOf(t)
    BY <1>2, <1>4 DEF FerretTypeOK, PlacesOf, LoadPlaces
  <2>3. \A s \in StageQueues : queue[s] \in Seq(Query \cup {q})
    <3>1. ASSUME NEW s \in StageQueues PROVE queue[s] \in Seq(Query \cup {q})
      <4>1. queue[s] \in Seq(Query)
        BY DEF FerretTypeOK
      <4> QED
        BY <4>1
    <3> QED
      BY <3>1
  <2>4. queue' \in [StageQueues -> Seq(Query)]'
    BY <1>1, <1>3, <2>3 DEF FerretTypeOK
  <2>5. item' \in [Thread -> Query' \cup {0}]
    BY <1>1, <1>3 DEF FerretTypeOK
  <2>6. written \in Seq(Query \cup {q})
    <3>1. written \in Seq(Query)
      BY DEF FerretTypeOK
    <3> QED
      BY <3>1
  <2>7. cnt_enqueue' \in 0..Queries
    BY <1>1, <1>3 DEF q
  <2> QED
    BY <1>1, <1>3, <2>1, <2>2, <2>4, <2>5, <2>6, <2>7 DEF FerretTypeOK
<1>7. ItemInv'
  BY <1>3, <1>4 DEF ItemInv, HasItem
<1>8. ~InQueue(q) /\ ~Held(q) /\ ~Answered(q)
  <2>1. \A s \in StageQueues : \A i \in 1..Len(queue[s]) : queue[s][i] \in Query
    <3>1. ASSUME NEW s \in StageQueues, NEW i \in 1..Len(queue[s]) PROVE queue[s][i] \in Query
      <4>1. queue[s] \in Seq(Query)
        BY DEF FerretTypeOK
      <4> QED
        BY <4>1
    <3> QED
      BY <3>1
  <2>2. \A i \in 1..Len(written) : written[i] \in Query
    BY DEF FerretTypeOK
  <2>3. \A t \in Thread : item[t] # q
    BY <1>3 DEF FerretTypeOK
  <2> QED
    BY <1>3, <2>1, <2>2, <2>3 DEF InQueue, Held, Answered
<1>9. \A p : /\ InQueue(p)' <=> InQueue(p)
             /\ Answered(p)' <=> Answered(p)
             /\ p # 0 => (Held(p)' <=> Held(p) \/ p = q)
  <2>1. \A p : (InQueue(p)' <=> InQueue(p)) /\ (Answered(p)' <=> Answered(p))
    BY <1>1 DEF InQueue, Answered
  <2>2. \A p : p # 0 => (Held(p)' <=> Held(p) \/ p = q)
    BY <1>2, <1>4, <1>5 DEF Held
  <2> QED
    BY <2>1, <2>2
<1>10. OnePlace'
  <2>1. \A p \in Query \cup {q} : p # 0
    BY <1>3 DEF Query
  <2>2. ASSUME NEW p \in Query \cup {q}
        PROVE  /\ (InQueue(p) \/ Held(p) \/ Answered(p))'
               /\ ~(InQueue(p) /\ Held(p))' /\ ~(InQueue(p) /\ Answered(p))'
               /\ ~(Held(p) /\ Answered(p))'
    <3>1. CASE p = q
      BY <1>3, <1>8, <1>9, <3>1
    <3>2. CASE p # q /\ p \in Query
      BY <1>9, <2>1, <3>2 DEF OnePlace
    <3> QED
      BY <3>1, <3>2
  <2> QED
    BY <1>3, <2>2 DEF OnePlace
<1>11. NoDoubles'
  <2>1. \A t \in Thread : item[t] # q
    BY <1>8 DEF Held
  <2> QED
    BY <1>1, <1>4, <2>1 DEF NoDoubles
<1>12. FerretCountInv' /\ FerretEndInv'
  <2>1. at'[Out] = at[Out] /\ ~input_end
    BY <1>1, <1>2, <1>3, <1>4 DEF FerretCountInv
  <2> QED
    BY <1>1, <2>1 DEF FerretCountInv, FerretEndInv, AllAnswered
<1> QED
  BY <1>6, <1>7, <1>10, <1>11, <1>12


\* A step in which threads only move, none of them to where results are counted
\* or main is told, and none takes or gives an item.
LEMMA FerretMoveKeeps ==
  ASSUME FerretInv, UNCHANGED <<queue, item, counters, main, written>>,
         at' \in [Thread -> AllPlaces],
         \A u \in Thread : /\ at'[u] \in PlacesOf(u)
                           /\ HasItem(at'[u]) <=> HasItem(at[u])
                           /\ at'[u] = "count" <=> at[u] = "count"
                           /\ at'[u] = "done" => at[u] = "done"
  PROVE  FerretInv'
<1> USE DEF FerretInv, counters
<1>1. NoDoubles' /\ OnePlace'
  BY QueriesStay
<1>2. FerretTypeOK'
  BY DEF FerretTypeOK, Query
<1>3. ItemInv'
  BY DEF ItemInv
<1>4. FerretCountInv' /\ FerretEndInv'
  BY EndsOfPipeline DEF FerretCountInv, FerretEndInv, AllAnswered
<1> QED
  BY <1>1, <1>2, <1>3, <1>4

LEMMA EnqueueWaitKeeps ==
  ASSUME FerretInv, NEW t \in Thread, t # Out, EnqueueWait(t)
  PROVE  FerretInv'
<1> USE DEF FerretInv
<1> DEFINE s == stage(t)
           q == item[t]
<1>1. s \in StageQueues /\ at[t] = "enqueue" /\ UNCHANGED <<counters, main, written>>
  BY EndsOfPipeline DEF EnqueueWait
<1>2. at \in [Thread -> AllPlaces] /\ \A u \in Thread : at[u] \in PlacesOf(u)
  BY DEF FerretTypeOK
<1>3. CASE Len(queue[s]) >= DEPTH
  <2>1. at' = [at EXCEPT ![t] = "not_full"] /\ UNCHANGED <<queue, item>>
    BY <1>3 DEF EnqueueWait
  <2>2. \A u \in Thread : at'[u] = IF u = t THEN "not_full" ELSE at[u]
    BY <1>2, <2>1
  <2>3. "not_full" \in PlacesOf(t) /\ "not_full" \in AllPlaces
    BY DEF PlacesOf, LoadPlaces, StagePlaces, AllPlaces
  <2>4. at' \in [Thread -> AllPlaces]
    BY <1>2, <2>1, <2>3
  <2>5. \A u \in Thread : /\ at'[u] \in PlacesOf(u)
                          /\ HasItem(at'[u]) <=> HasItem(at[u])
                          /\ at'[u] = "count" <=> at[u] = "count"
                          /\ at'[u] = "done" => at[u] = "done"
    BY <1>1, <1>2, <2>2, <2>3 DEF HasItem
  <2> QED
    BY <1>1, <2>1, <2>4, <2>5, FerretMoveKeeps
<1>4. CASE ~(Len(queue[s]) >= DEPTH)
  <2> DEFINE next  == IF t = Load THEN "load" ELSE "dequeue"
             moved == [at EXCEPT ![t] = next]
  <2>1. /\ queue' = [queue EXCEPT ![s] = Append(@, q)]
        /\ item' = [item EXCEPT ![t] = 0]
        /\ at' \in CondSignal(moved, s + 1, "not_empty", "dequeue")
    BY <1>4 DEF EnqueueWait
  <2>2. next \in PlacesOf(t) /\ next \in AllPlaces /\ ~HasItem(next) /\ next \notin {"count", "done"}
    BY DEF PlacesOf, LoadPlaces, StagePlaces, AllPlaces, HasItem
  <2> HIDE DEF next
  <2>3. /\ moved \in [Thread -> AllPlaces]
        /\ \A u \in Thread : moved[u] = IF u = t THEN next ELSE at[u]
    BY <1>2, <2>2
  <2>4. \A u \in Thread : moved[u] \in PlacesOf(u)
    BY <1>2, <2>2, <2>3
  <2> HIDE DEF moved
  <2>5. /\ at' \in [Thread -> AllPlaces]
        /\ \A u \in Thread : /\ at'[u] \in PlacesOf(u)
                             /\ HasItem(at'[u]) <=> HasItem(moved[u])
                             /\ at'[u] \in {"count", "done"} => at'[u] = moved[u]
                             /\ moved[u] \in {"count", "done"} => at'[u] = moved[u]
    BY <2>1, <2>3, <2>4, FerretSignalKeeps
  <2>6. /\ \A u \in Thread : HasItem(at'[u]) <=> u # t /\ HasItem(at[u])
        /\ at'[Out] = "count" <=> at[Out] = "count"
        /\ at'[Out] = "done" <=> at[Out] = "done"
    BY <1>1, <2>2, <2>3, <2>5, EndsOfPipeline
  <2>7. \A u \in Thread : item'[u] = IF u = t THEN 0 ELSE item[u]
    BY <2>1 DEF FerretTypeOK
  <2>8. q \in Query /\ q # 0
    BY <1>1 DEF FerretTypeOK, ItemInv, HasItem, Query
  <2>9. queue[s] \in Seq(Query) /\ Len(queue[s]) \in Nat
    BY <1>1 DEF FerretTypeOK
  <2> HIDE DEF q, s
  <2>10. /\ Len(queue'[s]) = Len(queue[s]) + 1 /\ queue'[s][Len(queue[s]) + 1] = q
         /\ \A i \in 1..Len(queue[s]) : queue'[s][i] = queue[s][i]
         /\ queue'[s] \in Seq(Query)
    <3>1. queue'[s] = Append(queue[s], q)
      BY <1>1, <2>1 DEF FerretTypeOK
    <3> QED
      BY <2>8, <2>9, <3>1
  <2>11. \A r \in StageQueues : r # s => queue'[r] = queue[r]
    BY <2>1 DEF FerretTypeOK
  <2>12. FerretTypeOK'
    <3>1. queue' \in [StageQueues -> Seq(Query)]
      BY <2>1, <2>10, <2>11 DEF FerretTypeOK
    <3>2. item' \in [Thread -> Query \cup {0}]
      BY <2>1 DEF FerretTypeOK
    <3> QED
      BY <1>1, <2>5, <3>1, <3>2 DEF FerretTypeOK, Query, counters
  <2>13. ItemInv'
    BY <2>6, <2>7 DEF ItemInv
  <2>14. FerretCountInv' /\ FerretEndInv'
    BY <1>1, <2>6 DEF FerretCountInv, FerretEndInv, AllAnswered, counters
  <2>15. \A p \in Query : InQueue(p)' <=> InQueue(p) \/ p = q
    <3>1. ASSUME NEW p \in Query, InQueue(p) PROVE InQueue(p)'
      <4>1. PICK r \in StageQueues : \E i \in 1..Len(queue[r]) : queue[r][i] = p
        BY <3>1 DEF InQueue
      <4>2. PICK i \in 1..Len(queue[r]) : queue[r][i] = p
        BY <4>1
      <4>3. i \in 1..Len(queue'[r]) /\ queue'[r][i] = p
        BY <2>9, <2>10, <2>11, <4>2
      <4> QED
        BY <4>3 DEF InQueue
    <3>2. ASSUME NEW p \in Query, p = q PROVE InQueue(p)'
      <4>1. Len(queue[s]) + 1 \in 1..Len(queue'[s])
        BY <2>9, <2>10
      <4>2. \E r \in StageQueues : \E i \in 1..Len(queue'[r]) : queue'[r][i] = p
        BY <1>1, <2>10, <3>2, <4>1
      <4> QED
        BY <4>2 DEF InQueue
    <3>3. ASSUME NEW p \in Query, InQueue(p)' PROVE InQueue(p) \/ p = q
      <4>1. PICK r \in StageQueues : \E i \in 1..Len(queue'[r]) : queue'[r][i] = p
        BY <3>3 DEF InQueue
      <4>2. PICK i \in 1..Len(queue'[r]) : queue'[r][i] = p
        BY <4>1
      <4>3. p = q \/ (i \in 1..Len(queue[r]) /\ queue[r][i] = p)
        BY <2>9, <2>10, <2>11, <4>2
      <4> QED
        BY <4>3 DEF InQueue
    <3> QED
      BY <3>1, <3>2, <3>3
  <2>16. \A p \in Query : Held(p)' <=> Held(p) /\ p # q
    BY <2>7, <2>8 DEF Held, NoDoubles, Query, q
  <2>17. \A p : Answered(p)' <=> Answered(p)
    BY <1>1 DEF Answered
  <2>18. Held(q) /\ ~InQueue(q)
    BY <2>8 DEF Held, OnePlace, q
  <2>19. OnePlace'
    <3>1. Query' = Query
      BY <1>1 DEF Query, counters
    <3> QED
      BY <2>15, <2>16, <2>17, <2>18, <3>1 DEF OnePlace
  <2>20. NoDoubles'
    <3>1. ASSUME NEW r \in StageQueues, NEW i \in 1..Len(queue[r]) PROVE queue[r][i] # q
      BY <2>18 DEF InQueue
    <3>2. ASSUME NEW r \in StageQueues, NEW i \in 1..Len(queue'[r])
          PROVE  \/ i \in 1..Len(queue[r]) /\ queue'[r][i] = queue[r][i]
                 \/ r = s /\ i = Len(queue[s]) + 1 /\ queue'[r][i] = q
      BY <2>9, <2>10, <2>11
    <3>3. ASSUME NEW a \in StageQueues, NEW b \in StageQueues,
                 NEW i \in 1..Len(queue'[a]), NEW j \in 1..Len(queue'[b]),
                 queue'[a][i] = queue'[b][j]
          PROVE  a = b /\ i = j
      <4>1. CASE i \in 1..Len(queue[a]) /\ queue'[a][i] = queue[a][i]
        <5>1. j \in 1..Len(queue[b]) /\ queue'[b][j] = queue[b][j]
          BY <3>1, <3>2, <3>3, <4>1
        <5>2. queue[a][i] = queue[b][j]
          BY <3>3, <4>1, <5>1
        <5>3. \A c, d \in StageQueues : \A k \in 1..Len(queue[c]), m \in 1..Len(queue[d]) :
                 queue[c][k] = queue[d][m] => c = d /\ k = m
          BY DEF NoDoubles
        <5> QED
          BY <4>1, <5>1, <5>2, <5>3
      <4>2. CASE a = s /\ i = Len(queue[s]) + 1 /\ queue'[a][i] = q
        BY <3>1, <3>2, <3>3, <4>2
      <4> QED
        BY <3>2, <4>1, <4>2
    <3>4. \A u, w \in Thread : item'[u] = item'[w] /\ item'[u] # 0 => u = w
      BY <2>7 DEF NoDoubles
    <3> QED
      BY <1>1, <3>3, <3>4 DEF NoDoubles
  <2> QED
    BY <2>12, <2>13, <2>14, <2>19, <2>20
<1> QED
  BY <1>3, <1>4

LEMMA DequeueWaitKeeps ==
  ASSUME FerretInv, NEW t \in Thread, t # Load, DequeueWait(t)
  PROVE  FerretInv'
<1> USE DEF FerretInv
<1> DEFINE s == stage(t) - 1
           q == Head(queue[s])
<1>1. s \in StageQueues /\ at[t] = "dequeue" /\ UNCHANGED <<counters, main, written>>
  BY EndsOfPipeline DEF DequeueWait
<1>2. at \in [Thread -> AllPlaces] /\ \A u \in Thread : at[u] \in PlacesOf(u)
  BY DEF FerretTypeOK
<1>3. CASE queue[s] = << >>
  <2>1. at' = [at EXCEPT ![t] = "not_empty"] /\ UNCHANGED <<queue, item>>
    BY <1>3 DEF DequeueWait
  <2>2. \A u \in Thread : at'[u] = IF u = t THEN "not_empty" ELSE at[u]
    BY <1>2, <2>1
  <2>3. "not_empty" \in PlacesOf(t) /\ "not_empty" \in AllPlaces
    BY DEF PlacesOf, OutPlaces, StagePlaces, AllPlaces
  <2>4. at' \in [Thread -> AllPlaces]
    BY <1>2, <2>1, <2>3
  <2>5. \A u \in Thread : /\ at'[u] \in PlacesOf(u)
                          /\ HasItem(at'[u]) <=> HasItem(at[u])
                          /\ at'[u] = "count" <=> at[u] = "count"
                          /\ at'[u] = "done" => at[u] = "done"
    BY <1>1, <1>2, <2>2, <2>3 DEF HasItem
  <2> QED
    BY <1>1, <2>1, <2>4, <2>5, FerretMoveKeeps
<1>4. CASE queue[s] # << >>
  <2> DEFINE next  == IF t = Out THEN "write" ELSE "enqueue"
             moved == [at EXCEPT ![t] = next]
  <2>1. /\ queue' = [queue EXCEPT ![s] = Tail(@)]
        /\ item' = [item EXCEPT ![t] = q]
        /\ at' \in CondSignal(moved, s, "not_full", "enqueue")
    BY <1>4 DEF DequeueWait
  <2>2. next \in PlacesOf(t) /\ next \in AllPlaces /\ HasItem(next) /\ next \notin {"count", "done"}
    BY DEF PlacesOf, OutPlaces, StagePlaces, AllPlaces, HasItem
  <2> HIDE DEF next
  <2>3. /\ moved \in [Thread -> AllPlaces]
        /\ \A u \in Thread : moved[u] = IF u = t THEN next ELSE at[u]
    BY <1>2, <2>2
  <2>4. \A u \in Thread : moved[u] \in PlacesOf(u)
    BY <1>2, <2>2, <2>3
  <2> HIDE DEF moved
  <2>5. /\ at' \in [Thread -> AllPlaces]
        /\ \A u \in Thread : /\ at'[u] \in PlacesOf(u)
                             /\ HasItem(at'[u]) <=> HasItem(moved[u])
                             /\ at'[u] \in {"count", "done"} => at'[u] = moved[u]
                             /\ moved[u] \in {"count", "done"} => at'[u] = moved[u]
    BY <2>1, <2>3, <2>4, FerretSignalKeeps
  <2>6. /\ \A u \in Thread : HasItem(at'[u]) <=> u = t \/ HasItem(at[u])
        /\ at'[Out] = "count" <=> at[Out] = "count"
        /\ at'[Out] = "done" <=> at[Out] = "done"
    BY <1>1, <2>2, <2>3, <2>5, EndsOfPipeline
  <2>7. \A u \in Thread : item'[u] = IF u = t THEN q ELSE item[u]
    BY <2>1 DEF FerretTypeOK
  <2>8. item[t] = 0
    BY <1>1 DEF ItemInv, HasItem
  <2>9. queue[s] \in Seq(Query) /\ Len(queue[s]) \in Nat \ {0}
    BY <1>1, <1>4 DEF FerretTypeOK
  <2>10. q = queue[s][1] /\ q \in Query /\ q # 0
    <3>1. q = queue[s][1]
      BY <2>9
    <3>2. queue[s][1] \in Query
      BY <2>9
    <3> QED
      BY <3>1, <3>2 DEF Query
  <2>11. /\ Len(queue'[s]) = Len(queue[s]) - 1 /\ queue'[s] \in Seq(Query)
         /\ \A i \in 1..Len(queue'[s]) : queue'[s][i] = queue[s][i + 1]
    <3>1. queue'[s] = Tail(queue[s])
      BY <1>1, <2>1 DEF FerretTypeOK
    <3> QED
      BY <2>9, <3>1
  <2> HIDE DEF q, s
  <2>12. \A r \in StageQueues : r # s => queue'[r] = queue[r]
    BY <2>1 DEF FerretTypeOK
  <2>13. FerretTypeOK'
    <3>1. queue' \in [StageQueues -> Seq(Query)]
      BY <2>1, <2>11, <2>12 DEF FerretTypeOK
    <3>2. item' \in [Thread -> Query \cup {0}]
      BY <2>1, <2>10 DEF FerretTypeOK
    <3> QED
      BY <1>1, <2>5, <3>1, <3>2 DEF FerretTypeOK, Query, counters
  <2>14. ItemInv'
    BY <2>6, <2>7, <2>10 DEF ItemInv
  <2>15. FerretCountInv' /\ FerretEndInv'
    BY <1>1, <2>6 DEF FerretCountInv, FerretEndInv, AllAnswered, counters
  <2>16. \A a, b \in StageQueues : \A i \in 1..Len(queue[a]), j \in 1..Len(queue[b]) :
            queue[a][i] = queue[b][j] => a = b /\ i = j
    BY DEF NoDoubles
  \* What is in the queues afterwards was there before, and not at the head.
  <2>17. ASSUME NEW r \in StageQueues, NEW i \in 1..Len(queue'[r])
         PROVE  LET k == IF r = s THEN i + 1 ELSE i
                IN  k \in 1..Len(queue[r]) /\ queue'[r][i] = queue[r][k] /\ queue[r][k] # q
    <3>1. CASE r = s
      <4>1. i + 1 \in 1..Len(queue[s]) /\ i + 1 # 1 /\ queue'[s][i] = queue[s][i + 1]
        BY <2>9, <2>11, <2>17, <3>1
      <4>2. 1 \in 1..Len(queue[s])
        BY <2>9
      <4>3. queue[s][i + 1] # queue[s][1]
        BY <1>1, <2>16, <4>1, <4>2
      <4> QED
        BY <2>10, <3>1, <4>1, <4>3
    <3>2. CASE r # s
      <4>1. 1 \in 1..Len(queue[s]) /\ i \in 1..Len(queue[r]) /\ queue'[r][i] = queue[r][i]
        BY <2>9, <2>12, <2>17, <3>2
      <4>2. queue[r][i] # queue[s][1]
        BY <1>1, <2>16, <3>2, <4>1
      <4> QED
        BY <2>10, <3>2, <4>1, <4>2
    <3> QED
      BY <3>1, <3>2
  <2>18. \A p \in Query : InQueue(p)' <=> InQueue(p) /\ p # q
    <3>1. ASSUME NEW p \in Query, InQueue(p), p # q PROVE InQueue(p)'
      <4>1. PICK r \in StageQueues : \E i \in 1..Len(queue[r]) : queue[r][i] = p
        BY <3>1 DEF InQueue
      <4>2. PICK i \in 1..Len(queue[r]) : queue[r][i] = p
        BY <4>1
      <4>3. CASE r # s
        BY <2>12, <4>2, <4>3 DEF InQueue
      <4>4. CASE r = s
        <5>1. i # 1
          BY <2>10, <3>1, <4>2, <4>4
        <5>2. i - 1 \in 1..Len(queue'[s]) /\ (i - 1) + 1 = i
          BY <2>9, <2>11, <4>2, <4>4, <5>1
        <5>3. queue'[s][i - 1] = p
          BY <2>11, <4>2, <4>4, <5>2
        <5> QED
          BY <1>1, <5>2, <5>3 DEF InQueue
      <4> QED
        BY <4>3, <4>4
    <3>2. ASSUME NEW p \in Query, InQueue(p)' PROVE InQueue(p) /\ p # q
      <4>1. PICK r \in StageQueues : \E i \in 1..Len(queue'[r]) : queue'[r][i] = p
        BY <3>2 DEF InQueue
      <4>2. PICK i \in 1..Len(queue'[r]) : queue'[r][i] = p
        BY <4>1
      <4>3. PICK k \in 1..Len(queue[r]) : queue[r][k] = p /\ p # q
        BY <2>17, <4>2
      <4> QED
        BY <4>3 DEF InQueue
    <3> QED
      BY <3>1, <3>2
  <2>19. \A p \in Query : Held(p)' <=> Held(p) \/ p = q
    BY <2>7, <2>8 DEF Held, Query
  <2>20. \A p : Answered(p)' <=> Answered(p)
    BY <1>1 DEF Answered
  <2>21. InQueue(q) /\ ~Held(q)
    <3>1. InQueue(q)
      BY <1>1, <2>9, <2>10 DEF InQueue
    <3> QED
      BY <2>10, <3>1 DEF OnePlace
  <2>22. OnePlace'
    <3>1. Query' = Query
      BY <1>1 DEF Query, counters
    <3> QED
      BY <2>18, <2>19, <2>20, <2>21, <3>1 DEF OnePlace
  <2>23. NoDoubles'
    <3>1. ASSUME NEW a \in StageQueues, NEW b \in StageQueues,
                 NEW i \in 1..Len(queue'[a]), NEW j \in 1..Len(queue'[b]),
                 queue'[a][i] = queue'[b][j]
          PROVE  a = b /\ i = j
      <4> DEFINE k == IF a = s THEN i + 1 ELSE i
                 m == IF b = s THEN j + 1 ELSE j
      <4>1. k \in 1..Len(queue[a]) /\ queue'[a][i] = queue[a][k]
        BY <2>17
      <4>2. m \in 1..Len(queue[b]) /\ queue'[b][j] = queue[b][m]
        BY <2>17
      <4> HIDE DEF k, m
      <4>3. a = b /\ k = m
        <5>1. queue[a][k] = queue[b][m]
          BY <3>1, <4>1, <4>2
        <5> QED
          BY <2>16, <4>1, <4>2, <5>1
      <4>4. i \in Int /\ j \in Int
        OBVIOUS
      <4> QED
        BY <4>3, <4>4 DEF k, m
    <3>2. \A u, w \in Thread : item'[u] = item'[w] /\ item'[u] # 0 => u = w
      BY <2>7, <2>21 DEF NoDoubles, Held
    <3> QED
      BY <1>1, <3>1, <3>2 DEF NoDoubles
  <2> QED
    BY <2>13, <2>14, <2>15, <2>22, <2>23
<1> QED
  BY <1>3, <1>4

\* The directory ends: the loader has counted every query.
LEMMA EndInputKeeps ==
  ASSUME FerretInv, EndInput
  PROVE  FerretInv'
<1> USE DEF FerretInv
<1>1. /\ at[Load] = "load" /\ cnt_enqueue = Queries /\ input_end' = TRUE
      /\ at' = [at EXCEPT ![Load] = "returned"]
      /\ UNCHANGED <<queue, item, cnt_enqueue, cnt_dequeue, output_end, main, written>>
  BY DEF EndInput
<1>2. \A u \in Thread : at'[u] = IF u = Load THEN "returned" ELSE at[u]
  BY <1>1 DEF FerretTypeOK
<1>3. FerretTypeOK'
  <2>1. at' \in [Thread -> AllPlaces]
    BY <1>1 DEF FerretTypeOK, AllPlaces, LoadPlaces
  <2>2. "returned" \in PlacesOf(Load)
    BY EndsOfPipeline DEF PlacesOf, LoadPlaces
  <2>3. \A u \in Thread : at'[u] \in PlacesOf(u)
    BY <1>2, <2>2 DEF FerretTypeOK
  <2> QED
    BY <1>1, <2>1, <2>3 DEF FerretTypeOK, Query
<1>4. ItemInv'
  BY <1>1, <1>2, EndsOfPipeline DEF ItemInv, HasItem
<1>5. FerretCountInv' /\ FerretEndInv'
  BY <1>1, <1>2, EndsOfPipeline DEF FerretCountInv, FerretEndInv, AllAnswered
<1> QED
  BY <1>1, <1>3, <1>4, <1>5, QueriesStay

\* A sequence without repetitions is no longer than its elements are many.
LEMMA NoMoreThan ==
  ASSUME NEW N \in Nat, NEW w \in Seq(1..N),
         \A i, j \in 1..Len(w) : w[i] = w[j] => i = j
  PROVE  Len(w) <= N
<1>1. Len(w) \in Nat /\ w \in [1..Len(w) -> 1..N]
  BY DEF Seq
<1>2. /\ IsFiniteSet(1..Len(w)) /\ Cardinality(1..Len(w)) = Len(w)
      /\ IsFiniteSet(1..N) /\ Cardinality(1..N) = N
  <2>1. ASSUME NEW n \in Nat PROVE IsFiniteSet(1..n) /\ Cardinality(1..n) = n
    <3>1. 1 \in Int /\ n \in Int
      OBVIOUS
    <3>2. IsFiniteSet(1..n) /\ Cardinality(1..n) = IF 1 > n THEN 0 ELSE n - 1 + 1
      BY ONLY <3>1, FS_Interval
    <3> QED
      BY <2>1, <3>2
  <2> QED
    BY <1>1, <2>1
<1>3. ASSUME Cardinality(1..N) < Cardinality(1..Len(w)) PROVE FALSE
  <2> DEFINE S == 1..Len(w)
             T == 1..N
  <2>1. IsFiniteSet(S) /\ IsFiniteSet(T) /\ Cardinality(T) < Cardinality(S) /\ w \in [S -> T]
    BY <1>1, <1>2, <1>3
  <2> HIDE DEF S, T
  <2>2. \E x, y \in S : x # y /\ w[x] = w[y]
    BY ONLY <2>1, FS_PigeonHole
  <2> QED
    BY <2>2 DEF S
<1> QED
  BY <1>1, <1>2, <1>3

\* The result of a query that was held is written: it is a new one, so before
\* it not all were out.
LEMMA WriteResultKeeps ==
  ASSUME FerretInv, WriteResult
  PROVE  FerretInv'
<1> USE DEF FerretInv
<1> DEFINE q == item[Out]
<1>1. /\ at[Out] = "write" /\ written' = Append(written, q)
      /\ item' = [item EXCEPT ![Out] = 0] /\ at' = [at EXCEPT ![Out] = "count"]
      /\ UNCHANGED <<queue, cnt_enqueue, cnt_dequeue, input_end, output_end, main>>
  BY DEF WriteResult, counters
<1>2. Load \in Thread /\ Out \in Thread /\ Load # Out
  BY EndsOfPipeline
<1>3. /\ \A u \in Thread : at'[u] = IF u = Out THEN "count" ELSE at[u]
      /\ \A u \in Thread : item'[u] = IF u = Out THEN 0 ELSE item[u]
  BY <1>1 DEF FerretTypeOK
<1>4. q \in Query /\ q # 0
  BY <1>1, <1>2 DEF FerretTypeOK, ItemInv, HasItem
<1>5. Held(q)
  BY <1>2 DEF Held
<1>6. ~Answered(q) /\ ~InQueue(q)
  BY <1>4, <1>5 DEF OnePlace
<1>7. \A p \in Query : Held(p)' <=> Held(p) /\ p # q
  BY <1>2, <1>3, <1>4 DEF Held, NoDoubles, Query
<1> HIDE DEF q
<1>8. written \in Seq(Query) /\ Len(written) \in Nat
  BY DEF FerretTypeOK
<1>9. /\ written' \in Seq(Query) /\ Len(written') = Len(written) + 1
      /\ written'[Len(written) + 1] = q
      /\ \A i \in 1..Len(written) : written'[i] = written[i]
  BY <1>1, <1>4, <1>8
<1>10. FerretTypeOK'
  <2>1. at' \in [Thread -> AllPlaces]
    BY <1>1 DEF FerretTypeOK, AllPlaces, OutPlaces
  <2>2. \A u \in Thread : at'[u] \in PlacesOf(u)
    BY <1>2, <1>3 DEF FerretTypeOK, PlacesOf, OutPlaces
  <2>3. item' \in [Thread -> Query \cup {0}]
    BY <1>1 DEF FerretTypeOK
  <2> QED
    BY <1>1, <1>9, <2>1, <2>2, <2>3 DEF FerretTypeOK, Query
<1>11. ItemInv'
  BY <1>3 DEF ItemInv, HasItem
<1>12. \A p : InQueue(p)' <=> InQueue(p)
  BY <1>1 DEF InQueue
<1>13. \A p : Answered(p)' <=> Answered(p) \/ p = q
  <2>1. ASSUME NEW p, Answered(p) PROVE Answered(p)'
    <3>1. PICK i \in 1..Len(written) : written[i] = p
      BY <2>1 DEF Answered
    <3>2. i \in 1..Len(written') /\ written'[i] = p
      BY <1>8, <1>9, <3>1
    <3> QED
      BY <3>2 DEF Answered
  <2>2. ASSUME NEW p, p = q PROVE Answered(p)'
    <3>1. Len(written) + 1 \in 1..Len(written') /\ written'[Len(written) + 1] = p
      BY <1>8, <1>9, <2>2
    <3> QED
      BY <3>1 DEF Answered
  <2>3. ASSUME NEW p, Answered(p)' PROVE Answered(p) \/ p = q
    <3>1. PICK i \in 1..Len(written') : written'[i] = p
      BY <2>3 DEF Answered
    <3>2. p = q \/ (i \in 1..Len(written) /\ written[i] = p)
      BY <1>8, <1>9, <3>1
    <3> QED
      BY <3>2 DEF Answered
  <2> QED
    BY <2>1, <2>2, <2>3
<1>14. OnePlace'
  <2>1. Query' = Query
    BY <1>1 DEF Query
  <2> QED
    BY <1>5, <1>6, <1>7, <1>12, <1>13, <2>1 DEF OnePlace
<1>15. \A i, j \in 1..Len(written') : written'[i] = written'[j] => i = j
  <2>1. \A i \in 1..Len(written) : written[i] # q
    BY <1>6 DEF Answered
  <2>2. \A i, j \in 1..Len(written) : written[i] = written[j] => i = j
    BY DEF NoDoubles
  <2> QED
    BY <1>8, <1>9, <2>1, <2>2
<1>16. NoDoubles'
  BY <1>1, <1>3, <1>15 DEF NoDoubles
<1>17. FerretCountInv'
  BY <1>1, <1>2, <1>3, <1>9 DEF FerretCountInv, FerretTypeOK
<1>18. FerretEndInv'
  <2>1. cnt_enqueue \in Nat /\ Queries \in Nat /\ cnt_enqueue <= Queries
    BY FerretAssumption DEF FerretTypeOK
  <2>2. Len(written') <= cnt_enqueue
    BY <1>9, <1>15, <2>1, NoMoreThan DEF Query
  <2>3. ~AllAnswered
    BY <1>8, <1>9, <2>1, <2>2 DEF AllAnswered
  <2>4. at'[Out] # "done"
    BY <1>2, <1>3
  <2> QED
    BY <1>1, <2>3, <2>4 DEF FerretEndInv
<1> QED
  BY <1>10, <1>11, <1>14, <1>16, <1>17, <1>18

\* The rest of the output thread's loop.  It finds the counters equal only when
\* the loader is done and every query is answered.
LEMMA OutKeeps ==
  ASSUME FerretInv, CountResult \/ TestEnd \/ OutputEnd
  PROVE  FerretInv'
<1> USE DEF FerretInv
<1>1. UNCHANGED <<queue, item, cnt_enqueue, input_end, written>>
  BY DEF CountResult, TestEnd, OutputEnd, counters
<1>2. /\ Out \in Thread /\ Out # Load
      /\ Len(written) \in Nat /\ cnt_dequeue \in Nat
  BY EndsOfPipeline DEF FerretTypeOK
<1>3. PICK p \in {"test", "done", "dequeue"} : at' = [at EXCEPT ![Out] = p]
  BY DEF CountResult, TestEnd, OutputEnd
<1>4. \A u \in Thread : at'[u] = IF u = Out THEN p ELSE at[u]
  BY <1>3 DEF FerretTypeOK
<1>5. at[Out] \in {"count", "test", "done"}
  BY DEF CountResult, TestEnd, OutputEnd
<1>6. FerretTypeOK'
  <2>1. at' \in [Thread -> AllPlaces]
    BY <1>3 DEF FerretTypeOK, AllPlaces, OutPlaces
  <2>2. \A u \in Thread : at'[u] \in PlacesOf(u)
    BY <1>2, <1>4 DEF FerretTypeOK, PlacesOf, OutPlaces
  <2>3. cnt_dequeue' \in Nat
    BY <1>2 DEF CountResult, TestEnd, OutputEnd, counters
  <2>4. output_end' \in BOOLEAN /\ main' \in {"start", "waiting", "woken", "cancelled"}
    BY DEF CountResult, TestEnd, OutputEnd, counters, FerretTypeOK
  <2> QED
    BY <1>1, <2>1, <2>2, <2>3, <2>4 DEF FerretTypeOK, Query
<1>7. ItemInv'
  <2>1. ~HasItem(p) /\ ~HasItem(at[Out])
    BY <1>5 DEF HasItem
  <2> QED
    BY <1>1, <1>2, <1>4, <2>1 DEF ItemInv
<1>8. FerretCountInv' /\ FerretEndInv'
  <2>1. CASE CountResult
    <3>1. at[Out] = "count" /\ at'[Out] = "test" /\ cnt_dequeue' = cnt_dequeue + 1
          /\ UNCHANGED <<output_end, main>>
      BY <1>2, <2>1 DEF CountResult, FerretTypeOK
    <3> QED
      BY <1>1, <1>2, <3>1 DEF FerretCountInv, FerretEndInv, AllAnswered
  <2>2. CASE TestEnd
    <3>1. at[Out] = "test" /\ at'[Out] = (IF AllOut THEN "done" ELSE "dequeue")
          /\ UNCHANGED <<output_end, main, cnt_dequeue>>
      BY <1>2, <2>2 DEF TestEnd, FerretTypeOK, counters
    <3>2. AllOut => AllAnswered
      BY <1>2, <3>1 DEF AllOut, FerretCountInv, AllAnswered
    <3> QED
      BY <1>1, <1>2, <3>1, <3>2 DEF FerretCountInv, FerretEndInv, AllAnswered
  <2>3. CASE OutputEnd
    <3>1. at[Out] = "done" /\ at'[Out] = "dequeue" /\ UNCHANGED cnt_dequeue
      BY <1>2, <2>3 DEF OutputEnd, FerretTypeOK
    <3>2. AllAnswered
      BY <3>1 DEF FerretEndInv
    <3> QED
      BY <1>1, <1>2, <3>1, <3>2 DEF FerretCountInv, FerretEndInv, AllAnswered
  <2> QED
    BY <2>1, <2>2, <2>3
<1> QED
  BY <1>1, <1>6, <1>7, <1>8, QueriesStay

\* Main goes on only when it was told, or finds the flag.
LEMMA EndStepKeeps ==
  ASSUME FerretInv, EndStep
  PROVE  FerretInv'
<1> USE DEF FerretInv
<1>1. UNCHANGED <<queue, at, item, cnt_enqueue, cnt_dequeue, input_end, output_end, written>>
  BY DEF EndStep, WaitForEnd, CancelAll, counters
<1>2. FerretTypeOK'
  BY <1>1 DEF EndStep, WaitForEnd, CancelAll, FerretTypeOK, Query
<1>3. ItemInv' /\ FerretCountInv'
  BY <1>1 DEF ItemInv, FerretCountInv
<1>4. FerretEndInv'
  BY <1>1 DEF EndStep, WaitForEnd, CancelAll, FerretEndInv, AllAnswered
<1> QED
  BY <1>1, <1>2, <1>3, <1>4, QueriesStay

LEMMA FerretStaysPut ==
  ASSUME FerretInv, UNCHANGED ferretVars
  PROVE  FerretInv'
BY FerretMoveKeeps DEF ferretVars, counters, FerretInv, FerretTypeOK

LEMMA FerretInvariance == FerretSpec => []FerretInv
<1>1. FerretInv /\ [FerretNext]_ferretVars => FerretInv'
  <2> SUFFICES ASSUME FerretInv, [FerretNext]_ferretVars PROVE FerretInv'
    OBVIOUS
  <2>1. CASE LoadStep
    BY <2>1, LoadFileKeeps, EndInputKeeps, EnqueueWaitKeeps, EndsOfPipeline DEF LoadStep
  <2>2. CASE OutStep
    BY <2>2, DequeueWaitKeeps, WriteResultKeeps, OutKeeps, EndsOfPipeline DEF OutStep
  <2>3. CASE EndStep
    BY <2>3, EndStepKeeps
  <2>4. ASSUME NEW t \in Thread \ {Load, Out}, StageStep(t) PROVE FerretInv'
    BY <2>4, DequeueWaitKeeps, EnqueueWaitKeeps DEF StageStep
  <2>5. CASE UNCHANGED ferretVars
    BY <2>5, FerretStaysPut
  <2> QED
    BY <2>1, <2>2, <2>3, <2>4, <2>5 DEF FerretNext
<1> QED
  BY FerretInitInv, <1>1, PTL DEF FerretSpec

\* When main cancels the stages every query has its line in the output, and
\* none has two, for any number of stages, threads and queries and any size of
\* the queues: counting a query before it is queued and a result after it is
\* written makes the unlocked test of the counters safe.
THEOREM EveryQueryAnsweredOnce == FerretSpec => []NothingCancelled
<1>1. FerretInv => NothingCancelled
  <2> SUFFICES ASSUME FerretInv PROVE NothingCancelled
    OBVIOUS
  <2>1. DOMAIN written = 1..Len(written)
    BY DEF FerretInv, FerretTypeOK
  <2> QED
    BY <2>1 DEF FerretInv, NoDoubles, FerretEndInv, NothingCancelled
<1> QED
  BY FerretInvariance, <1>1, PTL

\* Between the loader and the output a query is in one queue, in one thread's
\* hands or answered, always in one of them and never in two.
THEOREM NoQueryLost == FerretSpec => [](NoDoubles /\ OnePlace)
BY FerretInvariance, PTL DEF FerretInv

=============================================================================
