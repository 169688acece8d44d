------------------------------ MODULE Scheduler ------------------------------
(***************************************************************************)
(* The FEO scheduler (scheduler.rs) and the agent thread that runs it      *)
(* (agent/direct/primary.rs, primary_mpsc.rs): time synchronisation,       *)
(* startup of all activities, the cyclic task chain, the two-phase         *)
(* shutdown and the final join of the local worker threads.                *)
(*                                                                         *)
(* pc is the place in the code:                                            *)
(*   sync, startup      sending StartupSync / Startup, todo left           *)
(*   startupWait        waiting for the first Ready of every activity      *)
(*   cycle, run, sleep  head, body and end of the task chain loop          *)
(*   shutdown           sending Shutdown, todo left                        *)
(*   shutdownWait       waiting for pending_shutdown_ack                   *)
(*   broadcast          broadcast_terminate, untold left                   *)
(*   terminateWait      waiting for pending_agent_acks                     *)
(*   join, exited       joining local threads; the process has ended       *)
(***************************************************************************)
EXTENDS Signalling

CONSTANT Depends    \* activity_depends: activity -> ids it depends on

ASSUME DependsAssumption == Depends \in [Activities -> SUBSET Nat]

VARIABLES
  pc, todo, untold,
  triggered, ready, ever_ready,       \* the flags of ActivityState, as sets
  pending_shutdown_ack, pending_agent_acks,
  shutdown_requested

activityStates == <<triggered, ready, ever_ready>>
pendingAcks    == <<pending_shutdown_ack, pending_agent_acks>>
schedulerVars  == <<pc, todo, untold, activityStates, pendingAcks, shutdown_requested>>

PCs == {"sync", "startup", "startupWait", "cycle", "run", "sleep", "shutdown",
        "shutdownWait", "broadcast", "terminateWait", "join", "exited"}

SchedulerTypeOK ==
  /\ pc \in PCs
  /\ todo \subseteq Activities /\ untold \subseteq Workers
  /\ triggered \subseteq Activities /\ ready \subseteq Activities
  /\ ever_ready \subseteq Activities
  /\ pending_shutdown_ack \subseteq Activities
  /\ pending_agent_acks \subseteq Agents
  /\ shutdown_requested \in BOOLEAN

SchedulerInit ==
  /\ pc = "sync"
  /\ todo = IF Transport = "mpsc" THEN {} ELSE Activities
  /\ untold = {}
  /\ triggered = {} /\ ready = {} /\ ever_ready = {}
  /\ pending_shutdown_ack = {} /\ pending_agent_acks = {}
  /\ shutdown_requested = FALSE

IsFirst(a, S) == a \in S /\ \A b \in S : a <= b

(* The primary process ends, and with it its worker threads and sockets.   *)
ProcessEnds ==
  /\ pc' = "exited"
  /\ hungUp' = TRUE
  /\ gone' = gone \cup LocalWorkers
  /\ UNCHANGED <<down, up, todo, untold, activityStates, pendingAcks, shutdown_requested>>

-----------------------------------------------------------------------------
(***************************************************************************)
(* Time synchronisation: one StartupSync per activity, so that a worker    *)
(* with several activities gets several.                                   *)
(***************************************************************************)
SyncTime(a) ==
  /\ pc = "sync" /\ a \in todo
  /\ SendOk(WorkerOf[a], StartupSync)
  /\ todo' = todo \ {a}
  /\ UNCHANGED <<pc, untold, activityStates, pendingAcks, shutdown_requested>>

(* sync_remotes()? ends Primary::run.                                      *)
SyncFails(a) == pc = "sync" /\ a \in todo /\ SendErr(WorkerOf[a]) /\ ProcessEnds

(* Mutant: the startup does not wait for the synchronisation.              *)
SyncDoneEarly ==
  /\ pc = "sync"
  /\ pc' = "startup"
  /\ todo' = Activities
  /\ UNCHANGED <<signallingVars, untold, activityStates, pendingAcks, shutdown_requested>>

SyncDone ==
  /\ pc = "sync" /\ todo = {}
  /\ pc' = "startup"
  /\ todo' = Activities
  /\ UNCHANGED <<signallingVars, untold, activityStates, pendingAcks, shutdown_requested>>

(***************************************************************************)
(* Startup, in the order of the activity ids.                              *)
(***************************************************************************)
StartupActivity(a) ==
  /\ pc = "startup" /\ IsFirst(a, todo)
  /\ SendOk(WorkerOf[a], Startup(a))
  /\ todo' = todo \ {a}
  /\ pc' = IF todo' = {} THEN "startupWait" ELSE "startup"
  /\ UNCHANGED <<untold, activityStates, pendingAcks, shutdown_requested>>

(* .unwrap() on a failed send.                                             *)
StartupPanics(a) ==
  pc = "startup" /\ IsFirst(a, todo) /\ SendErr(WorkerOf[a]) /\ ProcessEnds

(* Mutant: Shutdown goes to all activities, started or not.                *)
ShutdownForAll ==
  /\ todo' = Activities
  /\ pending_shutdown_ack' = Activities
  /\ untold' = BroadcastTargets
  /\ pc' = "shutdown"
  /\ UNCHANGED <<activityStates, pending_agent_acks, shutdown_requested>>

(* Mutant: Terminate without Shutdown.                                     *)
TerminateOnly ==
  /\ todo' = {} /\ pending_shutdown_ack' = {}
  /\ untold' = BroadcastTargets
  /\ pc' = "broadcast"
  /\ UNCHANGED <<activityStates, pending_agent_acks, shutdown_requested>>

(***************************************************************************)
(* Head of shutdown_gracefully: every activity that was ever ready gets a  *)
(* Shutdown; with none of them the broadcast of Terminate comes at once.   *)
(***************************************************************************)
BeginShutdown ==
  /\ todo' = ever_ready
  /\ pending_shutdown_ack' = ever_ready
  /\ untold' = BroadcastTargets
  /\ pc' = IF ever_ready = {} THEN "broadcast" ELSE "shutdown"
  /\ UNCHANGED <<activityStates, pending_agent_acks, shutdown_requested>>

-----------------------------------------------------------------------------
(***************************************************************************)
(* The task chain.                                                         *)
(***************************************************************************)
(* Mutant: the ready flags of the last cycle stay set, which ends the next *)
(* one at once.                                                            *)
StartCycleStale ==
  /\ pc = "cycle"
  /\ ready' = ready /\ triggered' = {}
  /\ pc' = IF ready = Activities THEN "sleep" ELSE "run"
  /\ UNCHANGED <<signallingVars, todo, untold, ever_ready, pendingAcks, shutdown_requested>>

StartCycle ==
  /\ pc = "cycle"
  /\ ready' = {} /\ triggered' = {}
  /\ pc' = "run"
  /\ UNCHANGED <<signallingVars, todo, untold, ever_ready, pendingAcks, shutdown_requested>>

(* Mutant: dependencies need only have been triggered.                     *)
SteppableTooEarly ==
  {a \in Activities : a \notin triggered /\ Depends[a] \cap Activities \subseteq triggered}

(* Mutant: one ready dependency is enough.                                 *)
SteppableOnAny ==
  {a \in Activities : a \notin triggered
     /\ (Depends[a] \cap Activities = {} \/ Depends[a] \cap ready # {})}

(* Dependencies that name no known activity are ignored.                   *)
Steppable ==
  {a \in Activities : a \notin triggered /\ Depends[a] \cap Activities \subseteq ready}

(* Mutant: the activity is not marked as triggered.                        *)
StepActivityAgain(a) ==
  /\ pc = "run" /\ a \in Steppable
  /\ SendOk(WorkerOf[a], Step(a))
  /\ UNCHANGED <<pc, todo, untold, activityStates, pendingAcks, shutdown_requested>>

(* One send of step_ready_activities, in the map's arbitrary order.        *)
StepActivity(a) ==
  /\ pc = "run" /\ a \in Steppable
  /\ SendOk(WorkerOf[a], Step(a))
  /\ triggered' = triggered \cup {a}
  /\ UNCHANGED <<pc, todo, untold, ready, ever_ready, pendingAcks, shutdown_requested>>

(* .expect("failed to step activity")                                      *)
StepPanics(a) ==
  pc = "run" /\ a \in Steppable /\ SendErr(WorkerOf[a]) /\ ProcessEnds

(* The scheduler is in wait_next_ready().                                  *)
Waiting == pc = "startupWait" \/ (pc = "run" /\ Steppable = {})

(* Mutant: the first cycle begins when one activity is ready.              *)
OnReadyTooEarly(a) ==
  /\ ready' = ready \cup {a}
  /\ ever_ready' = ever_ready \cup {a}
  /\ pc' = IF pc = "startupWait" THEN "cycle"
           ELSE IF ready' = Activities THEN "sleep" ELSE pc
  /\ UNCHANGED <<todo, untold, triggered, pendingAcks, shutdown_requested>>

OnReady(a) ==
  /\ ready' = ready \cup {a}
  /\ ever_ready' = ever_ready \cup {a}
  /\ pc' = IF ready' # Activities THEN pc
           ELSE IF pc = "startupWait" THEN "cycle" ELSE "sleep"
  /\ UNCHANGED <<todo, untold, triggered, pendingAcks, shutdown_requested>>

WaitNextReady(w) ==
  /\ Waiting
  /\ Receive(w)
  /\ LET sig == Head(up[w]) IN
       IF sig.type = "Ready" THEN OnReady(sig.id)
       ELSE IF sig.type = "ActivityFailed" THEN BeginShutdown
       ELSE UNCHANGED schedulerVars

(* receive() timed out, failed, or the startup timeout has elapsed.        *)
WaitTimeout ==
  /\ Waiting
  /\ "timeout" \in Faults /\ NothingToReceive
  /\ BeginShutdown
  /\ UNCHANGED signallingVars

WaitError ==
  /\ Waiting
  /\ ReceiveErr
  /\ BeginShutdown
  /\ UNCHANGED signallingVars

StartupTimeout ==
  /\ pc = "startupWait"
  /\ "timeout" \in Faults
  /\ BeginShutdown
  /\ UNCHANGED signallingVars

(* After the sleep the loop looks at the flag of the signal handler.       *)
EndCycle ==
  /\ pc = "sleep"
  /\ \/ /\ shutdown_requested
        /\ BeginShutdown
     \/ /\ ~shutdown_requested
        /\ pc' = "cycle"
        /\ UNCHANGED <<todo, untold, activityStates, pendingAcks, shutdown_requested>>
  /\ UNCHANGED signallingVars

-----------------------------------------------------------------------------
(***************************************************************************)
(* Shutdown, phase 1.  A failed send is only logged.                       *)
(***************************************************************************)
ShutdownActivity(a) ==
  /\ pc = "shutdown" /\ IsFirst(a, todo)
  /\ \/ SendOk(WorkerOf[a], Shutdown(a))
     \/ SendErr(WorkerOf[a]) /\ UNCHANGED signallingVars
  /\ todo' = todo \ {a}
  /\ pc' = IF todo' = {} THEN "shutdownWait" ELSE "shutdown"
  /\ UNCHANGED <<untold, activityStates, pendingAcks, shutdown_requested>>

(* Ready and ActivityFailed both strike the activity off; any other signal *)
(* is ignored, and a receive error is logged and changes nothing.          *)
ShutdownConfirmed(w) ==
  /\ pc = "shutdownWait"
  /\ Receive(w)
  /\ LET sig == Head(up[w]) IN
       pending_shutdown_ack' =
         IF sig.type \in {"Ready", "ActivityFailed"}
         THEN pending_shutdown_ack \ {sig.id} ELSE pending_shutdown_ack
  /\ pc' = IF pending_shutdown_ack' = {} THEN "broadcast" ELSE "shutdownWait"
  /\ UNCHANGED <<todo, untold, activityStates, pending_agent_acks, shutdown_requested>>

(* Mutant: the loop goes on after the timeout.                             *)
ShutdownTimeoutIgnored ==
  /\ pc = "shutdownWait"
  /\ "timeout" \in Faults
  /\ UNCHANGED <<signallingVars, schedulerVars>>

ShutdownTimeout ==
  /\ pc = "shutdownWait"
  /\ "timeout" \in Faults
  /\ pc' = "broadcast"
  /\ UNCHANGED <<signallingVars, todo, untold, activityStates, pendingAcks, shutdown_requested>>

(***************************************************************************)
(* Shutdown, phase 2.  The broadcast stops at the first failed send.       *)
(***************************************************************************)
AwaitAgents ==
  /\ pending_agent_acks' = ConnectedAgents \ {PrimaryAgent}
  /\ pc' = IF pending_agent_acks' = {} THEN "join" ELSE "terminateWait"

BroadcastTerminate(w) ==
  /\ pc = "broadcast" /\ w \in untold
  /\ SendOk(w, Terminate)
  /\ untold' = untold \ {w}
  /\ IF untold' = {} THEN AwaitAgents ELSE UNCHANGED <<pc, pending_agent_acks>>
  /\ UNCHANGED <<todo, activityStates, pending_shutdown_ack, shutdown_requested>>

BroadcastFails(w) ==
  /\ pc = "broadcast" /\ w \in untold
  /\ SendErr(w)
  /\ AwaitAgents
  /\ UNCHANGED <<signallingVars, todo, untold, activityStates, pending_shutdown_ack,
                 shutdown_requested>>

AgentAcked(w) ==
  /\ pc = "terminateWait"
  /\ Receive(w)
  /\ LET sig == Head(up[w]) IN
       pending_agent_acks' =
         IF sig.type = "TerminateAck" THEN pending_agent_acks \ {sig.id}
         ELSE pending_agent_acks
  /\ pc' = IF pending_agent_acks' = {} THEN "join" ELSE "terminateWait"
  /\ UNCHANGED <<todo, untold, activityStates, pending_shutdown_ack, shutdown_requested>>

AgentAckTimeout ==
  /\ pc = "terminateWait"
  /\ "timeout" \in Faults
  /\ pc' = "join"
  /\ UNCHANGED <<signallingVars, todo, untold, activityStates, pendingAcks, shutdown_requested>>

(* The local threads are joined; then the agent, and its sockets, go away. *)
JoinWorkers == pc = "join" /\ LocalWorkers \subseteq gone /\ ProcessEnds

(***************************************************************************)
(* Signal handler: the first Ctrl-C asks, the second ends the process.     *)
(***************************************************************************)
CtrlC ==
  /\ pc # "exited"
  /\ IF shutdown_requested
     THEN ProcessEnds
     ELSE /\ shutdown_requested' = TRUE
          /\ UNCHANGED <<signallingVars, pc, todo, untold, activityStates, pendingAcks>>

SchedulerStep ==
  \/ \E a \in Activities :
       \/ SyncTime(a) \/ SyncFails(a)
       \/ StartupActivity(a) \/ StartupPanics(a)
       \/ StepActivity(a) \/ StepPanics(a)
       \/ ShutdownActivity(a)
  \/ \E w \in Workers :
       \/ WaitNextReady(w) \/ ShutdownConfirmed(w) \/ AgentAcked(w)
       \/ BroadcastTerminate(w) \/ BroadcastFails(w)
  \/ SyncDone \/ StartCycle \/ EndCycle \/ JoinWorkers
  \/ WaitTimeout \/ WaitError \/ StartupTimeout \/ ShutdownTimeout \/ AgentAckTimeout
=============================================================================
