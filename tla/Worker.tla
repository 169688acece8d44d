-------------------------------- MODULE Worker --------------------------------
(***************************************************************************)
(* The worker threads (worker/mod.rs) with the activities they host        *)
(* (activity.rs), and the agent processes the threads belong to.           *)
(*                                                                         *)
(* A worker takes one signal at a time.  Running an activity's method is a *)
(* stretch of time (BeginActivity ... EndActivity), during which all other *)
(* threads go on.                                                          *)
(***************************************************************************)
EXTENDS Signalling

VARIABLES
  job,      \* worker -> the signal it is busy with, or Idle
  synced,   \* agents whose startup time is set (timestamp.rs)
  life,     \* activity -> what its methods have gone through (history)
  ran       \* activities that completed step() in this task chain (history)

workerVars == <<job, synced, life, ran>>

Idle == [type |-> "Idle", id |-> 0]

LifeStates == {"built", "started", "startupFailed", "stepFailed", "stopped"}

WorkerTypeOK ==
  /\ job \in [Workers -> ActivitySignals \cup {Idle, Terminate}]
  /\ synced \subseteq Agents
  /\ life \in [Activities -> LifeStates]
  /\ ran \subseteq Activities

(* Primary::run initialises its own clock before it synchronises others.   *)
WorkerInit ==
  /\ job = [w \in Workers |-> Idle]
  /\ synced = {PrimaryAgent}
  /\ life = [a \in Activities |-> "built"]
  /\ ran = {}

(* Worker w is about to take the next signal from its channel.             *)
Takes(w) ==
  /\ w \notin gone /\ job[w] = Idle /\ down[w] # << >>
  /\ down' = [down EXCEPT ![w] = Tail(@)]

-----------------------------------------------------------------------------
(* StartupSync: timestamp::initialize_from, ignored if already set.        *)
ReceiveSync(w) ==
  /\ Takes(w) /\ Head(down[w]) = StartupSync
  /\ synced' = synced \cup {AgentOf[w]}
  /\ UNCHANGED <<up, gone, hungUp, job, life, ran>>

BeginActivity(w) ==
  /\ Takes(w) /\ Head(down[w]) \in ActivitySignals
  /\ job' = [job EXCEPT ![w] = Head(down[w])]
  /\ UNCHANGED <<up, gone, hungUp, synced, life, ran>>

(* What the activity's method leaves behind when it returns.               *)
LifeAfter(sig, ok) ==
  IF sig.type = "Startup" THEN IF ok THEN "started" ELSE "startupFailed"
  ELSE IF sig.type = "Step" THEN IF ok THEN life[sig.id] ELSE "stepFailed"
  ELSE "stopped"

(* The method returns Ok or Err and the worker answers Ready or            *)
(* ActivityFailed.  Once the primary is gone the answer is lost or the     *)
(* send fails and ends the worker.                                         *)
EndActivity(w, ok) ==
  /\ w \notin gone /\ job[w] \in ActivitySignals
  /\ ok \/ "activity" \in Faults
  /\ LET a == job[w].id IN
       /\ life' = [life EXCEPT ![a] = LifeAfter(job[w], ok)]
       /\ ran' = IF job[w].type = "Step" /\ ok THEN ran \cup {a} ELSE ran
       /\ \/ /\ ~hungUp /\ UpHasRoom
             /\ Reply(w, IF ok THEN Ready(a) ELSE ActivityFailed(a))
             /\ gone' = gone
          \/ /\ hungUp
             /\ up' = up
             /\ gone' \in {gone, gone \cup {w}}
  /\ job' = [job EXCEPT ![w] = Idle]
  /\ UNCHANGED <<down, hungUp, synced>>

(* Mutant: the worker acknowledges with its own id.                        *)
AckWithWorkerId(w) ==
  /\ Takes(w) /\ Head(down[w]) = Terminate
  /\ \/ ~hungUp /\ UpHasRoom /\ Reply(w, TerminateAck(w))
     \/ hungUp /\ up' = up
  /\ job' = [job EXCEPT ![w] = Terminate]
  /\ UNCHANGED <<gone, hungUp, synced, life, ran>>

(* Terminate: acknowledge, ignoring a failed send, linger, then exit.      *)
AckTerminate(w) ==
  /\ Takes(w) /\ Head(down[w]) = Terminate
  /\ \/ ~hungUp /\ UpHasRoom /\ Reply(w, TerminateAck(AgentOf[w]))
     \/ hungUp /\ up' = up
  /\ job' = [job EXCEPT ![w] = Terminate]
  /\ UNCHANGED <<gone, hungUp, synced, life, ran>>

ExitWorker(w) ==
  /\ w \notin gone /\ job[w] = Terminate
  /\ gone' = gone \cup {w}
  /\ job' = [job EXCEPT ![w] = Idle]
  /\ UNCHANGED <<down, up, hungUp, synced, life, ran>>

(* The primary hung up: receive() fails and ends the worker, even if there *)
(* are signals it has not looked at.                                       *)
Disconnect(w) ==
  /\ w \notin gone /\ job[w] = Idle /\ hungUp
  /\ gone' = gone \cup {w}
  /\ UNCHANGED <<down, up, hungUp, job, synced, life, ran>>

-----------------------------------------------------------------------------
(* The activity's method panics: the thread unwinds and its endpoint drops. *)
WorkerPanics(w) ==
  /\ "crash" \in Faults
  /\ w \notin gone /\ job[w] \in ActivitySignals
  /\ gone' = gone \cup {w}
  /\ job' = [job EXCEPT ![w] = Idle]
  /\ UNCHANGED <<down, up, hungUp, synced, life, ran>>

(* The process of a secondary agent dies with all its workers.             *)
AgentKilled(g) ==
  /\ "kill" \in Faults /\ g # PrimaryAgent
  /\ LET dead == {w \in Workers : AgentOf[w] = g} IN
       /\ ~(dead \subseteq gone)
       /\ gone' = gone \cup dead
       /\ job' = [w \in Workers |-> IF w \in dead THEN Idle ELSE job[w]]
  /\ UNCHANGED <<down, up, hungUp, synced, life, ran>>

WorkerStep(w) ==
  \/ ReceiveSync(w) \/ BeginActivity(w) \/ AckTerminate(w) \/ ExitWorker(w)
  \/ Disconnect(w)
  \/ \E ok \in BOOLEAN : EndActivity(w, ok)
=============================================================================
