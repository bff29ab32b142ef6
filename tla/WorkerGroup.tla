----------------------------- MODULE WorkerGroup -----------------------------
(***************************************************************************)
(* The worker threads of bodytrack (threads/WorkerGroup.cpp) and the image *)
(* filters they run (TrackingModelPthread::Exec), which deal out rows with *)
(* a TicketDispenser.                                                      *)
(*                                                                         *)
(* The barriers are those of pthreads: the last thread to arrive releases  *)
(* all of them, and any one of them gets PTHREAD_BARRIER_SERIAL_THREAD.    *)
(* NotifyAll of workAvailable is called under workDispatch, so a step of   *)
(* a thread here is what it does under that lock.  The pixels of a row are *)
(* abstracted to how often the row was computed.                           *)
(***************************************************************************)
EXTENDS Integers, Sequences, FiniteSets

CONSTANTS NWorkers, \* threads of the group; their ranks are 0..NWorkers-1
          Script,   \* the commands the main thread sends, in order
          Height,   \* rows of an image
          Half,     \* kernelSize / 2
          WorkUnit  \* WORKUNIT_SIZE_*, rows per ticket

Cmds == {"gradient", "filterRow", "filterColumn"}

ASSUME WorkerGroupAssumption ==
  /\ NWorkers \in Nat \ {0} /\ WorkUnit \in Nat \ {0}
  /\ Half \in Nat /\ Height \in Nat
  /\ Script \in Seq(Cmds)

Workers == 0..NWorkers - 1
MainThread == -1
Rows == 0..Height - 1

VARIABLES cmd,       \* the command, "idle" or "shutdown"
          waiting,   \* workAvailable: who waits, and its nWakeupTickets
          tickets,
          mainPc,    \* main thread: "ready", "pool" (barrier), "joined"
          sent,      \* history: commands sent
          wpc,       \* per worker: where it is
          myCmd,     \* per worker: the command it received
          ticket,    \* per worker: the ticket it holds
          ran,       \* history, per worker: commands it has executed
          loopTickets, \* the dispenser
          computed   \* history, per row: how often the command computed it

workerVars == <<cmd, waiting, tickets, mainPc, sent, wpc, myCmd, ticket, ran,
                loopTickets, computed>>

None == [y \in Rows |-> 0]

GroupInit ==
  /\ cmd = "idle" /\ waiting = {} /\ tickets = 0
  /\ mainPc = "ready" /\ sent = 0
  /\ wpc = [w \in Workers |-> "recv"]
  /\ myCmd = [w \in Workers |-> "idle"]
  /\ ticket = [w \in Workers |-> 0]
  /\ ran = [w \in Workers |-> 0]
  /\ loopTickets = [init |-> 0, inc |-> 1, value |-> 0]
  /\ computed = None

\* wpc of the workers when w moves to place.
Moved(w, place) == [wpc EXCEPT ![w] = place]

-----------------------------------------------------------------------------
(* The main thread. *)

\* Faulty variant: nobody who waits is notified.
SendSilently ==
  /\ mainPc = "ready"
  /\ cmd' = IF sent < Len(Script) THEN Script[sent + 1] ELSE "shutdown"
  /\ sent' = sent + 1
  /\ mainPc' = "send"
  /\ computed' = None
  /\ UNCHANGED <<waiting, tickets, wpc, myCmd, ticket, ran, loopTickets>>

\* SendInternalCmd up to the barrier, for the next image operation or, at the
\* end, for the shutdown of JoinAll.
SendInternalCmd ==
  /\ mainPc = "ready"
  /\ cmd' = IF sent < Len(Script) THEN Script[sent + 1] ELSE "shutdown"
  /\ tickets' = Cardinality(waiting)
  /\ sent' = sent + 1
  /\ mainPc' = "send"
  /\ computed' = None
  /\ UNCHANGED <<waiting, wpc, myCmd, ticket, ran, loopTickets>>

\* poolReadyBarrier, with the threads in here at it: the last one to arrive
\* releases the others.
PoolReady(here) ==
  IF here = {MainThread} \cup Workers
  THEN /\ mainPc' = IF sent > Len(Script) THEN "joined" ELSE "ready"
       /\ wpc' = [w \in Workers |-> IF myCmd[w] = "shutdown" THEN "exited" ELSE "recv"]
  ELSE /\ mainPc' = IF MainThread \in here THEN "pool" ELSE mainPc
       /\ wpc' = [w \in Workers |-> IF w \in here THEN "pool" ELSE wpc[w]]

AtPool ==
  (IF mainPc = "pool" THEN {MainThread} ELSE {}) \cup {w \in Workers : wpc[w] = "pool"}

MainWaits ==
  /\ mainPc = "send"
  /\ PoolReady(AtPool \cup {MainThread})
  /\ UNCHANGED <<cmd, waiting, tickets, sent, myCmd, ticket, ran, loopTickets, computed>>

-----------------------------------------------------------------------------
(* RecvCmd of worker w. *)

Receive(w) ==
  /\ cmd # "idle"
  /\ myCmd' = [myCmd EXCEPT ![w] = cmd]
  /\ wpc' = Moved(w, IF cmd = "shutdown" THEN "ack" ELSE "exec")
  /\ UNCHANGED <<cmd, mainPc, sent, ticket, ran, loopTickets, computed>>

RecvCmd(w) ==
  /\ wpc[w] = "recv"
  /\ Receive(w)
  /\ UNCHANGED <<waiting, tickets>>

RecvWait(w) ==
  /\ wpc[w] = "recv"
  /\ cmd = "idle"
  /\ waiting' = waiting \cup {w}
  /\ wpc' = Moved(w, "wait")
  /\ UNCHANGED <<cmd, tickets, mainPc, sent, myCmd, ticket, ran, loopTickets, computed>>

\* Condition::Wait returns when the thread gets a wakeup ticket.
RecvWakeup(w) ==
  /\ wpc[w] = "wait"
  /\ tickets > 0
  /\ tickets' = tickets - 1
  /\ waiting' = waiting \ {w}
  /\ Receive(w)

-----------------------------------------------------------------------------
(* Exec of worker w.  The rows of the three filters. *)

First(c) == CASE c = "gradient" -> 0
              [] c = "filterRow" -> 0
              [] c = "filterColumn" -> Half

Limit(c) == CASE c = "gradient" -> Height - 2
              [] c = "filterRow" -> Height
              [] c = "filterColumn" -> Height - Half

\* The row computed for index i of the loop.
RowOf(c, i) == IF c = "gradient" THEN i + 1 ELSE i

\* Faulty variant: the row filter, too, sets the increment only.
ResetRowIncrement(c) ==
  IF c # "filterColumn"
  THEN [loopTickets EXCEPT !.inc = WorkUnit, !.value = loopTickets.init]
  ELSE [init |-> First(c), inc |-> WorkUnit, value |-> First(c)]

\* The resetDispenser of rank 0: the gradient sets the increment only and
\* starts where the dispenser was started last.
Reset(c) ==
  IF c = "gradient"
  THEN [loopTickets EXCEPT !.inc = WorkUnit, !.value = loopTickets.init]
  ELSE [init |-> First(c), inc |-> WorkUnit, value |-> First(c)]

\* dst->Set(0) for the filters, resetDispenser, then the barrier workInit.
Prepare(w) ==
  /\ wpc[w] = "exec"
  /\ loopTickets' = IF w = 0 THEN Reset(myCmd[w]) ELSE loopTickets
  /\ computed' = IF w = 0 /\ myCmd[w] # "gradient" THEN None ELSE computed
  /\ wpc' = Moved(w, "init")
  /\ UNCHANGED <<cmd, waiting, tickets, mainPc, sent, myCmd, ticket, ran>>

\* Faulty variant: a worker does not wait for the others.
WorkInitAlone ==
  \E w \in Workers :
     /\ wpc[w] = "init"
     /\ wpc' = Moved(w, "loop")
     /\ UNCHANGED <<cmd, waiting, tickets, mainPc, sent, myCmd, ticket, ran,
                    loopTickets, computed>>

\* All workers are at the barrier workInit and pass it.
WorkInit ==
  /\ \A w \in Workers : wpc[w] = "init"
  /\ wpc' = [w \in Workers |-> "loop"]
  /\ UNCHANGED <<cmd, waiting, tickets, mainPc, sent, myCmd, ticket, ran,
                 loopTickets, computed>>

GetTicket(w) ==
  /\ wpc[w] = "loop"
  /\ ticket' = [ticket EXCEPT ![w] = loopTickets.value]
  /\ loopTickets' = [loopTickets EXCEPT !.value = @ + loopTickets.inc]
  /\ wpc' = Moved(w, "unit")
  /\ UNCHANGED <<cmd, waiting, tickets, mainPc, sent, myCmd, ran, computed>>

Unit(c, from) == {RowOf(c, i) : i \in {j \in from..from + WorkUnit - 1 : j < Limit(c)}}

DoUnit(w) ==
  /\ wpc[w] = "unit"
  /\ ticket[w] < Limit(myCmd[w])
  /\ computed' = [y \in Rows |->
                    IF y \in Unit(myCmd[w], ticket[w]) THEN computed[y] + 1 ELSE computed[y]]
  /\ wpc' = Moved(w, "loop")
  /\ UNCHANGED <<cmd, waiting, tickets, mainPc, sent, myCmd, ticket, ran, loopTickets>>

EndLoop(w) ==
  /\ wpc[w] = "unit"
  /\ ticket[w] >= Limit(myCmd[w])
  /\ ran' = [ran EXCEPT ![w] = @ + 1]
  /\ wpc' = Moved(w, "ack")
  /\ UNCHANGED <<cmd, waiting, tickets, mainPc, sent, myCmd, ticket, loopTickets, computed>>

-----------------------------------------------------------------------------
(* AckCmd: workDoneBarrier, its master goes idle, poolReadyBarrier. *)

WorkDone ==
  /\ \A w \in Workers : wpc[w] = "ack"
  /\ \E master \in Workers :
       wpc' = [w \in Workers |-> IF w = master THEN "master" ELSE "done"]
  /\ UNCHANGED <<cmd, waiting, tickets, mainPc, sent, myCmd, ticket, ran,
                 loopTickets, computed>>

\* Faulty variant: the command is not taken back.
StayBusy(w) ==
  /\ wpc[w] = "master"
  /\ wpc' = Moved(w, "done")
  /\ UNCHANGED <<cmd, waiting, tickets, mainPc, sent, myCmd, ticket, ran,
                 loopTickets, computed>>

GoIdle(w) ==
  /\ wpc[w] = "master"
  /\ cmd' = "idle"
  /\ wpc' = Moved(w, "done")
  /\ UNCHANGED <<waiting, tickets, mainPc, sent, myCmd, ticket, ran, loopTickets, computed>>

WorkerWaits(w) ==
  /\ wpc[w] = "done"
  /\ PoolReady(AtPool \cup {w})
  /\ UNCHANGED <<cmd, waiting, tickets, sent, myCmd, ticket, ran, loopTickets, computed>>

Main == SendInternalCmd \/ MainWaits

Worker(w) ==
  \/ RecvCmd(w) \/ RecvWait(w) \/ RecvWakeup(w)
  \/ Prepare(w) \/ GetTicket(w) \/ DoUnit(w) \/ EndLoop(w)
  \/ GoIdle(w) \/ WorkerWaits(w)

GroupNext == Main \/ (\E w \in Workers : Worker(w)) \/ WorkInit \/ WorkDone

GroupSpec == GroupInit /\ [][GroupNext]_workerVars

GroupFairSpec ==
  /\ GroupSpec
  /\ WF_workerVars(Main) /\ WF_workerVars(WorkInit) /\ WF_workerVars(WorkDone)
  /\ \A w \in Workers : WF_workerVars(Worker(w))

-----------------------------------------------------------------------------
\* The rows an operation has to compute: those whose neighbourhood is in the
\* image.
RowsOf(c) ==
  CASE c = "gradient" -> 1..Height - 2
    [] c = "filterRow" -> Rows
    [] c = "filterColumn" -> Half..Height - 1 - Half

\* The operation whose SendCmd has returned last, if any.
Returned == mainPc = "ready" /\ sent > 0

\* Each worker executes each command once, and SendCmd returns when all have.
WorkersInStep ==
  /\ \A w \in Workers : ran[w] \in {sent - 1, sent}
  /\ Returned => \A w \in Workers : ran[w] = sent /\ myCmd[w] = Script[sent]

\* No row is computed twice, by whichever workers, and when SendCmd returns,
\* the filter has computed all its rows.
RowsOnce ==
  /\ \A y \in Rows : computed[y] <= 1
  /\ Returned /\ Script[sent] # "gradient" =>
        \A y \in RowsOf(Script[sent]) : computed[y] = 1

\* CreateEdgeMap: "compute gradient magnitude and threshold" of the image.
GradientComplete ==
  Returned /\ Script[sent] = "gradient" =>
     \A y \in RowsOf("gradient") : computed[y] > 0

\* All commands have been carried out, and all workers have left.  This must
\* come true and stay.
Joined == mainPc = "joined" /\ \A w \in Workers : wpc[w] = "exited"
=============================================================================
