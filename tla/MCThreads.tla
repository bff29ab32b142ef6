------------------------------ MODULE MCThreads -----------------------------
(***************************************************************************)
(* Instance for TLC of the annealing threads of canneal and of the thread  *)
(* library of bodytrack with its clients: the worker group, the barrier    *)
(* and the image loader.  They share no state, so a behaviour is of one of *)
(* them, which part says, and the others stay in their initial state:      *)
(* together they have the states of the four, not the product.             *)
(***************************************************************************)
EXTENDS Canneal, WorkerGroup, Barrier, AsyncImageLoader

CONSTANT Parts \* the parts that are run

VARIABLE part

\* canneal: every element has a location of its own.
OwnLocation == [x \in 1..NPtrs |-> x]

UntilConverged == -1

OneEdgeMap == <<"gradient", "filterRow", "filterColumn">>

TwoEdgeMaps == OneEdgeMap \o OneEdgeMap

swapVars   == <<vars, annealVars>>
threadVars == <<part, swapVars, workerVars, barrierVars, loaderVars>>

InCanneal(A) ==
  part = "canneal" /\ A /\ UNCHANGED <<part, workerVars, barrierVars, loaderVars>>

InWorkers(A) ==
  part = "workers" /\ A /\ UNCHANGED <<part, swapVars, barrierVars, loaderVars>>

InBarrier(A) ==
  part = "barrier" /\ A /\ UNCHANGED <<part, swapVars, workerVars, loaderVars>>

InLoader(A) ==
  part = "loader" /\ A /\ UNCHANGED <<part, swapVars, workerVars, barrierVars>>

ThreadsInit ==
  /\ part \in Parts
  /\ CannealInit /\ GroupInit /\ BarrierInit /\ LoaderInit

ThreadsNext ==
  \/ InCanneal(CannealNext) \/ InWorkers(GroupNext)
  \/ InBarrier(BarrierNext) \/ InLoader(LoaderNext)

\* The fairness of the four modules; a part's variables change in its steps only.
ThreadsSpec ==
  /\ ThreadsInit /\ [][ThreadsNext]_threadVars
  /\ WF_swapVars(part = "canneal" /\ Barrier)
  /\ \A t \in Threads : /\ WF_swapVars(part = "canneal" /\ SwapGoesOn(t))
                        /\ WF_swapVars(part = "canneal" /\ Run(t))
  /\ WF_workerVars(part = "workers" /\ Main)
  /\ WF_workerVars(part = "workers" /\ WorkInit)
  /\ WF_workerVars(part = "workers" /\ WorkDone)
  /\ \A w \in Workers : WF_workerVars(part = "workers" /\ Worker(w))
  /\ \A t \in Parties : WF_barrierVars(part = "barrier" /\ WaitGoesOn(t))
  /\ \A t \in Both : WF_loaderVars(part = "loader" /\ LoaderStep(t))

-----------------------------------------------------------------------------
\* The main thread gets all image sets, or learns that a load failed.
ImagesServed == part = "loader" => EventuallyServed

\* "run until design converges" (annealer_thread.cpp:314): all threads return.
AnnealersReturn == part = "canneal" => AllReturn

\* Each part comes to its end and stays there: every swap returns, the workers
\* have carried out all commands and left, and nobody is left in a complete
\* round of the barrier.
ThreadsEnd ==
  <>[](CASE part = "canneal" -> SwapsEnded
         [] part = "workers" -> Joined
         [] part = "barrier" -> CompleteRoundReturned
         [] part = "loader"  -> TRUE)
=============================================================================
