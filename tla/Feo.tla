---------------------------------- MODULE Feo ----------------------------------
(***************************************************************************)
(* A FEO system with direct signalling: one scheduler and the workers of   *)
(* all agents, composed over the channels of Signalling.                   *)
(***************************************************************************)
EXTENDS Scheduler, Worker

vars == <<signallingVars, schedulerVars, workerVars>>

TypeOK == SignallingTypeOK /\ SchedulerTypeOK /\ WorkerTypeOK

Init == SignallingInit /\ SchedulerInit /\ WorkerInit

(* A worker thread that ends with its process leaves nothing running.      *)
JobsOfTheLiving == job' = [w \in Workers |-> IF w \in gone' THEN Idle ELSE job[w]]

(* A new task chain begins: nothing has been stepped in it.                *)
SchedulerMoves ==
  /\ SchedulerStep
  /\ JobsOfTheLiving
  /\ ran' = IF pc = "cycle" THEN {} ELSE ran
  /\ UNCHANGED <<synced, life>>

SignalMoves == CtrlC /\ JobsOfTheLiving /\ UNCHANGED <<synced, life, ran>>

WorkerMoves(w) == WorkerStep(w) /\ UNCHANGED schedulerVars

FaultMoves ==
  /\ \/ \E w \in Workers : WorkerPanics(w)
     \/ \E g \in Agents : AgentKilled(g)
  /\ UNCHANGED schedulerVars

(* The end of every run: no thread is left.                                *)
Finished == pc = "exited" /\ gone = Workers

Next ==
  \/ SchedulerMoves
  \/ SignalMoves
  \/ \E w \in Workers : WorkerMoves(w)
  \/ FaultMoves
  \/ Finished /\ UNCHANGED vars

Spec == Init /\ [][Next]_vars

(***************************************************************************)
(* The scheduler's thread and the worker threads are scheduled by the OS,  *)
(* activities' methods return and timeouts elapse.  No Ctrl-C and no fault *)
(* has to happen.                                                          *)
(***************************************************************************)
FairSpec ==
  /\ Spec
  /\ WF_vars(SchedulerMoves)
  /\ \A w \in Workers : WF_vars(WorkerMoves(w))

-----------------------------------------------------------------------------
Stepping == {a \in Activities : \E w \in Workers : job[w] = Step(a)}

(***************************************************************************)
(* The task chain (Scheduler::run, step_ready_activities) executes in the  *)
(* fixed order: while an activity's step() runs, everything it depends on  *)
(* has completed its own step in the same cycle, and the activity itself   *)
(* has not been stepped in this cycle yet.                                 *)
(***************************************************************************)
ExecutionOrder ==
  \A a \in Stepping : a \notin ran /\ Depends[a] \cap Activities \subseteq ran

(***************************************************************************)
(* Cycles do not overlap: when the scheduler is between two task chains    *)
(* (after the sleep, or before the first one) no signal is under way and   *)
(* no worker is busy, so a late Ready can never be taken for one of the    *)
(* next cycle.                                                             *)
(***************************************************************************)
QuietBetweenCycles ==
  pc \in {"cycle", "sleep"} =>
    \A w \in Workers : /\ up[w] = << >>
                       /\ w \notin gone => down[w] = << >> /\ job[w] = Idle

(***************************************************************************)
(* The methods of an activity are called in the order of the Activity      *)
(* trait: startup() once, steps only after a successful startup and never  *)
(* after a failed step, shutdown() last and at most once.                  *)
(***************************************************************************)
LifecycleOrder ==
  \A w \in Workers :
    /\ job[w].type = "Startup"  => life[job[w].id] = "built"
    /\ job[w].type = "Step"     => life[job[w].id] = "started"
    /\ job[w].type = "Shutdown" => life[job[w].id] \in {"started", "stepFailed"}

(***************************************************************************)
(* A worker calls timestamp() for every answer; the clock of its process   *)
(* has been initialised by then (it panics otherwise).                     *)
(***************************************************************************)
ClockInitialised ==
  \A w \in Workers : job[w] \in ActivitySignals => AgentOf[w] \in synced

(***************************************************************************)
(* Two-phase shutdown: a worker that acknowledges Terminate has run        *)
(* shutdown() for each of its activities the scheduler has seen ready      *)
(* (shutdown_gracefully sends Shutdown before broadcast_terminate).        *)
(***************************************************************************)
ShutDownBeforeTerminate ==
  \A w \in Workers : job[w] = Terminate =>
    \A a \in ever_ready : WorkerOf[a] = w => life[a] = "stopped"

AboutToAck(w) ==
  w \notin gone /\ job[w] = Idle /\ down[w] # << >> /\ Head(down[w]) = Terminate

(***************************************************************************)
(* No send on a bounded channel ever has to wait: the scheduler never      *)
(* finds a worker's channel full nor a worker the scheduler's.             *)
(***************************************************************************)
SendsNeverBlock ==
  /\ \A a \in Activities :
       (\/ pc \in {"startup", "shutdown"} /\ a \in todo
        \/ pc = "run" /\ a \in Steppable) => Len(down[WorkerOf[a]]) < ChannelBound
  /\ \A w \in Workers :
       /\ pc = "broadcast" /\ w \in untold => Len(down[w]) < ChannelBound
       /\ job[w] \in ActivitySignals \/ AboutToAck(w) => UpLoad < ChannelBound

(***************************************************************************)
(* The system implements the abstract task chain.                          *)
(***************************************************************************)
Chain == INSTANCE TaskChain WITH done <- ran, running <- Stepping

ImplementsTaskChain == Chain!Spec

(***************************************************************************)
(* shutdown_gracefully always returns, whatever has failed: no activity,   *)
(* worker or agent that does not answer can hold the scheduler up.         *)
(***************************************************************************)
ShuttingDown == pc \in {"shutdown", "shutdownWait", "broadcast", "terminateWait"}

Ending == ShuttingDown \/ pc \in {"join", "exited"}

SchedulerReturns == ShuttingDown ~> pc \in {"join", "exited"}

(***************************************************************************)
(* Once Ctrl-C was pressed, every thread of every agent ends.              *)
(***************************************************************************)
ShutdownCompletes == shutdown_requested ~> Finished

(***************************************************************************)
(* Every activity is stepped again and again until the scheduler shuts the *)
(* system down or dies; it never waits for ever for a signal that does not *)
(* come.                                                                   *)
(***************************************************************************)
EveryActivitySteps ==
  \A a \in Activities : /\ []<>(a \in ran \/ Ending)
                        /\ []<>(a \notin ran \/ Ending)

-----------------------------------------------------------------------------
(***************************************************************************)
(* A statement of a comment that the code does not keep.                   *)
(***************************************************************************)
(***************************************************************************)
(* agent/direct/primary.rs: after the scheduler has returned the local     *)
(* worker threads can be joined, so Primary::run comes to its end.         *)
(***************************************************************************)
JoinCompletes == pc = "join" ~> pc = "exited"
=============================================================================
