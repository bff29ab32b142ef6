------------------------------- MODULE MCTasks ------------------------------
(***************************************************************************)
(* Instance for TLC of the task queues of facesim, of the way a grid of    *)
(* tiles is divided among them, of the pipeline of ferret, and of a frame  *)
(* of fluidanimate with overflowing cells: more particles and fewer frames *)
(* than MCPhases has.  They share no state, so a behaviour is of one of    *)
(* them, which part says, and the others stay in their initial state:      *)
(* together they have the states of the four, not the product.  Of the     *)
(* grids each is a state of its own.                                       *)
(***************************************************************************)
EXTENDS TaskQ, Ferret, TaskGrid, Fluid

CONSTANTS Parts,   \* the parts that are run
          MaxSide  \* bound of the grids

VARIABLE part

SmallGrids == [1..3 -> 1..MaxSide]

\* The first task enqueues two more.
SevenTasks == 1..7

TwoSpawned == [t \in SevenTasks |-> IF t = 1 THEN <<6, 7>> ELSE << >>]

\* Two regions: the first with two tasks wherever pickQueue puts them, the
\* second with a small grid on two queues.
TwoRegions ==
  << << [to |-> AnyQueue, tasks |-> <<1>>], [to |-> AnyQueue, tasks |-> <<2>>] >>,
     << [to |-> 0, tasks |-> <<3>>], [to |-> 1, tasks |-> <<4>>],
        [to |-> 0, tasks |-> <<5>>] >> >>

tasksVars == <<part, vars, gridVars, ferretVars, fluidVars>>

InQueues(A) ==
  part = "taskq" /\ A /\ UNCHANGED <<part, gridVars, ferretVars, fluidVars>>

InSearch(A) ==
  part = "ferret" /\ A /\ UNCHANGED <<part, vars, gridVars, fluidVars>>

InFrame(A) ==
  part = "overflow" /\ A /\ UNCHANGED <<part, vars, gridVars, ferretVars>>

TasksInit ==
  /\ part \in Parts
  /\ Init /\ FerretInit
  /\ GridInit /\ fluidInit
  /\ part # "grid" => shares = 1 /\ \A k \in 1..3 : size[k] = 1
  /\ part # "overflow" => ~poolAbove

TasksNext == InQueues(Next) \/ InSearch(FerretNext) \/ InFrame(FluidNext)

\* The fairness of TaskQ and Ferret; a part's variables change in its steps only.
TasksSpec ==
  /\ TasksInit /\ [][TasksNext]_tasksVars
  /\ WF_vars(part = "taskq" /\ MainStep)
  /\ \A t \in Threads : /\ SF_vars(part = "taskq" /\ Step(t))
                        /\ SF_vars(part = "taskq" /\ StartTask(t))
  /\ WF_ferretVars(part = "ferret" /\ LoadStep)
  /\ WF_ferretVars(part = "ferret" /\ OutStep)
  /\ WF_ferretVars(part = "ferret" /\ EndStep)
  /\ \A t \in Thread \ {Load, Out} :
       WF_ferretVars(part = "ferret" /\ StageStep(t))

-----------------------------------------------------------------------------
\* Each part comes to its end and stays there: every taskQWait returns and
\* taskQEnd ends all threads; ferret answers all its queries.  That frames
\* end is part of PhasesEnd.
TasksEnd ==
  <>[](CASE part = "taskq"    -> Finished
         [] part = "ferret"   -> AllAnswered
         [] part = "overflow" -> TRUE
         [] part = "grid"     -> TRUE)
=============================================================================
