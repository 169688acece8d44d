----------------------------- MODULE Signalling -----------------------------
(***************************************************************************)
(* The direct signalling layer of FEO: the signals scheduler and workers   *)
(* exchange (signalling/common/signals.rs) and the connector both sides    *)
(* use.  Two transports implement the same ConnectScheduler/ConnectWorker  *)
(* traits: "mpsc" (all workers are threads of the primary) and "sockets"   *)
(* (one TCP or Unix stream per worker).                                    *)
(*                                                                         *)
(* A transport is a FIFO channel per worker and direction.  The mpsc       *)
(* connector has one shared channel towards the scheduler; only the order  *)
(* within a worker is kept here, so every arrival order is covered.        *)
(***************************************************************************)
EXTENDS Naturals, Sequences, FiniteSetsExt

CONSTANTS
  Activities,     \* ActivityIds, the keys of activity_depends (u64 ids)
  Workers,        \* worker threads
  Agents,         \* AgentIds (u64)
  PrimaryAgent,   \* the agent that runs the scheduler
  WorkerOf,       \* activity -> worker that hosts it
  AgentOf,        \* worker -> agent whose process it is a thread of
  Transport,      \* "mpsc" or "sockets"
  ChannelBound,   \* MPSC_CHANNEL_BOUND, capacity of one mpsc channel
  Faults          \* the kinds of failure that may happen (see FaultKinds)

FaultKinds == {"activity", "timeout", "crash", "kill"}

ASSUME ConfigAssumption ==
  /\ Activities \subseteq Nat /\ Activities # {}
  /\ Agents \subseteq Nat /\ PrimaryAgent \in Agents
  /\ WorkerOf \in [Activities -> Workers]
  /\ \A w \in Workers : \E a \in Activities : WorkerOf[a] = w
  /\ AgentOf \in [Workers -> Agents]
  /\ Transport \in {"mpsc", "sockets"}
  /\ Transport = "mpsc" => \A w \in Workers : AgentOf[w] = PrimaryAgent
  /\ ChannelBound \in Nat \ {0}
  /\ Faults \subseteq FaultKinds

VARIABLES
  down,     \* worker -> signals sent by the scheduler, not yet received
  up,       \* worker -> signals sent to the scheduler, not yet received
  gone,     \* workers whose thread has ended and whose endpoint is dropped
  hungUp    \* the primary's endpoints are dropped

signallingVars == <<down, up, gone, hungUp>>

(***************************************************************************)
(* Signals.  Timestamps carry no control; StartupSync and Terminate have   *)
(* no addressee.                                                           *)
(***************************************************************************)
Startup(a)        == [type |-> "Startup", id |-> a]
Step(a)           == [type |-> "Step", id |-> a]
Shutdown(a)       == [type |-> "Shutdown", id |-> a]
Ready(a)          == [type |-> "Ready", id |-> a]
ActivityFailed(a) == [type |-> "ActivityFailed", id |-> a]
TerminateAck(g)   == [type |-> "TerminateAck", id |-> g]
StartupSync       == [type |-> "StartupSync", id |-> 0]
Terminate         == [type |-> "Terminate", id |-> 0]

ActivitySignals == [type : {"Startup", "Step", "Shutdown"}, id : Activities]
DownSignals     == ActivitySignals \cup {StartupSync, Terminate}
UpSignals       == [type : {"Ready", "ActivityFailed"}, id : Activities]
                     \cup [type : {"TerminateAck"}, id : Agents]

LocalWorkers == {w \in Workers : AgentOf[w] = PrimaryAgent}

(***************************************************************************)
(* Towards a worker.  A bounded mpsc channel blocks its sender while it is *)
(* full.  Sending to an ended worker is an error, except that the kernel   *)
(* may still take a write on a stream whose peer has just closed: the      *)
(* signal is then lost.                                                    *)
(***************************************************************************)
SendOk(w, sig) ==
  /\ \/ /\ w \notin gone
        /\ Transport = "mpsc" => Len(down[w]) < ChannelBound
        /\ down' = [down EXCEPT ![w] = Append(@, sig)]
     \/ /\ w \in gone /\ Transport = "sockets"
        /\ down' = down
  /\ UNCHANGED <<up, gone, hungUp>>

SendErr(w) == w \in gone

(* Mutant: the local workers are forgotten.                                *)
RemoteTargets == {WorkerOf[a] : a \in Activities} \ LocalWorkers

(* Workers broadcast_terminate addresses: those that host an activity.     *)
BroadcastTargets == {WorkerOf[a] : a \in Activities}

(* get_connected_agent_ids: none in mpsc mode.                             *)
ConnectedAgents ==
  IF Transport = "mpsc" THEN {} ELSE {AgentOf[WorkerOf[a]] : a \in Activities}

(***************************************************************************)
(* Towards the scheduler.                                                  *)
(***************************************************************************)
(* The next signal of worker w is handed to the scheduler.                 *)
Receive(w) ==
  /\ up[w] # << >>
  /\ up' = [up EXCEPT ![w] = Tail(@)]
  /\ UNCHANGED <<down, gone, hungUp>>

(* receive() finds nothing before its timeout.                             *)
NothingToReceive == \A w \in Workers : up[w] = << >>

(* receive() reports an error: a closed stream, or all senders dropped.    *)
ReceiveErr ==
  \/ Transport = "sockets" /\ gone # {}
  \/ Transport = "mpsc" /\ gone = Workers /\ NothingToReceive

(* The signals in the scheduler's channel, worker by worker.               *)
UpLoad == Cardinality(UNION {{w} \X DOMAIN up[w] : w \in Workers})

(* Mutant: the channel's capacity is one less.                             *)
UpHasLessRoom == Transport = "mpsc" => UpLoad + 1 < ChannelBound

(* A worker's send may proceed: the shared mpsc channel has room.          *)
UpHasRoom == Transport = "mpsc" => UpLoad < ChannelBound

Reply(w, sig) == up' = [up EXCEPT ![w] = Append(@, sig)]

SignallingInit ==
  /\ down = [w \in Workers |-> << >>]
  /\ up = [w \in Workers |-> << >>]
  /\ gone = {}
  /\ hungUp = FALSE

SignallingTypeOK ==
  /\ down \in [Workers -> Seq(DownSignals)]
  /\ up \in [Workers -> Seq(UpSignals)]
  /\ gone \subseteq Workers
  /\ hungUp \in BOOLEAN
=============================================================================
