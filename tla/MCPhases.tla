------------------------------ MODULE MCPhases ------------------------------
(***************************************************************************)
(* Instance for TLC of the programs whose threads work in phases with a    *)
(* barrier between two of them: the PARSEC barrier, streamcluster's search *)
(* for medians and its loop over the stream, and fluidanimate's frames.    *)
(* They share no state, so a behaviour is of one of them, which part says, *)
(* and the others stay in their initial state: together they have the      *)
(* states of the four, not the product.                                    *)
(***************************************************************************)
EXTENDS ParsecBarrier, KMedian, Fluid, StreamChunks, TLC

CONSTANT Parts  \* the parts that are run

VARIABLE part

\* A point in one of three directions, as far away as c says.
P(d, c, w) == [coord |-> [e \in 1..3 |-> IF e = d THEN c ELSE 0], weight |-> w]

\* Three points far from each other: the search goes both ways and begins anew;
\* and points of different weight, two of them near.
ThreePoints ==
  {0 :> P(3, 24, 1) @@ 1 :> P(1, 16, 1) @@ 2 :> P(2, 16, 1),
   0 :> P(1, 0, 2)  @@ 1 :> P(2, 16, 1) @@ 2 :> P(1, 20, 1)}

NoPoints == {[j \in 0..2 |-> P(1, 0, 1)]}

allVars == <<part, barrierVars, medianVars, streamVars, fluidVars>>

InBarrier(A) ==
  part = "barrier" /\ A /\ UNCHANGED <<part, medianVars, streamVars, fluidVars>>

InMedian(A) ==
  part = "median" /\ A /\ UNCHANGED <<part, barrierVars, streamVars, fluidVars>>

InStream(A) ==
  part = "stream" /\ A /\ UNCHANGED <<part, barrierVars, medianVars, fluidVars>>

InFrame(A) ==
  part = "frame" /\ A /\ UNCHANGED <<part, barrierVars, medianVars, streamVars>>

\* What is read matters only to the part that reads it.
Fixed ==
  /\ part # "median" => point = CHOOSE c \in Chunks : TRUE
  /\ part # "stream" => left = 1 /\ kind = "sim"
  /\ part # "frame" => ~poolAbove

PhasesInit ==
  /\ part \in Parts
  /\ parsec_barrier_init /\ pkmedianInit /\ streamInit
  /\ fluidInit
  /\ Fixed

PhasesNext ==
  \/ InBarrier(BarrierNext)
  \/ InMedian(KMedianNext)
  \/ InStream(StreamNext)
  \/ InFrame(FluidNext)

\* The fairness of the modules; a part's variables change in its steps only.
PhasesSpec ==
  /\ PhasesInit /\ [][PhasesNext]_allVars
  /\ \A t \in Threads : WF_barrierVars(part = "barrier" /\ (Arrive(t) \/ Depart(t)))
  /\ \A t \in pids : WF_medianVars(part = "median" /\ Step(t))
  /\ WF_streamVars(part = "stream" /\ StreamNext)
  /\ WF_fluidVars(part = "frame" /\ InitSim)
  /\ \A t \in tids : WF_fluidVars(part = "frame" /\ AdvanceFrameMT(t))

-----------------------------------------------------------------------------
\* Each part comes to its end and stays there: pkmedian's threads all take the
\* same way through its barriers and return with the number of centers there
\* are, fluidanimate's do all their frames, and no thread is left at the PARSEC
\* barrier.
PhasesEnd ==
  <>[](CASE part = "median"  -> MedianFound
         [] part = "frame"   -> FramesDone
         [] part = "barrier" -> NobodyStaysBehind
         [] part = "stream"  -> state \in {"done", "exit"})
=============================================================================
