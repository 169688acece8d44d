---------------------------- MODULE RelayChannels ----------------------------
(***************************************************************************)
(* The channels of relayed signalling (signalling/relayed): bounded mpsc   *)
(* channels inside a process, one socket per direction between a secondary *)
(* agent and the primary.  The numbers of signals under way stay far below *)
(* the capacity of the mpsc channels (128), which is left out.             *)
(***************************************************************************)
EXTENDS Naturals, Sequences, FiniteSets

CONSTANTS
  Activities,      \* ActivityIds
  Workers,         \* WorkerIds, none of them 0
  Agents,          \* AgentIds
  PrimaryAgent,    \* the agent that runs the scheduler
  WorkerOf,        \* activity_worker_map
  AgentOf,         \* worker_agent_map
  MaxSignals,      \* bound on the signals the scheduler sends to activities
  Faults           \* subset of FaultKinds

FaultKinds == {"timeout", "crash", "kill"}

ASSUME RelayAssumption ==
  /\ Activities \subseteq Nat
  /\ Workers \subseteq Nat \ {0} /\ Agents \subseteq Nat \ {0}
  /\ PrimaryAgent \in Agents
  /\ WorkerOf \in [Activities -> Workers]
  /\ AgentOf \in [Workers -> Agents]
  /\ \A g \in Agents : \E w \in Workers : AgentOf[w] = g
  /\ MaxSignals \in Nat
  /\ Faults \subseteq FaultKinds

VARIABLES
  pc,          \* control of the primary's main thread
  receiveRelay, \* control of the thread of PrimaryReceiveRelay
  ipc_to_local, \* agent -> control of the thread of SecondaryReceiveRelay
  local_to_ipc, \* agent -> control of the secondary's main thread
  worker,      \* worker -> control of its thread
  inbox,       \* channel of the scheduler's intra_receiver
  sockDown,    \* agent -> socket from PrimarySendRelay
  sockUp,      \* agent -> socket to PrimaryReceiveRelay
  workerQ,     \* worker -> channel of its ProtocolReceiver
  agentQ,      \* agent -> channel of the intra_receiver of SecondarySendRelay
  hello,       \* agents whose ChannelHello waits at PrimarySendRelay
  missing,     \* channels not connected yet: at the intra-process receiver
               \* of an agent, and (at RelayChannel) at PrimaryReceiveRelay
  todo,        \* agents not reached yet by a loop of the primary
  synced,      \* agents whose clock is initialised
  sent,        \* signals the scheduler has sent to activities
  crashed      \* workers whose thread has panicked

primaryVars   == <<pc, receiveRelay, todo, sent>>
secondaryVars == <<ipc_to_local, local_to_ipc>>
channelVars   == <<inbox, sockDown, sockUp, workerQ, agentQ, hello, missing>>
workerVars    == <<worker, synced, crashed>>
vars == <<primaryVars, secondaryVars, channelVars, workerVars>>

-----------------------------------------------------------------------------
(* Signals; the types of activity signals and their timestamps carry no    *)
(* control in this layer.                                                  *)
Activity(a)     == [type |-> "Activity", id |-> a]
Terminate       == [type |-> "Terminate", id |-> 0]
StartupSync     == [type |-> "StartupSync", id |-> 0]
Ready(a)        == [type |-> "Ready", id |-> a]
TerminateAck(g) == [type |-> "TerminateAck", id |-> g]
Connect(c)      == [type |-> "Connect", id |-> c]
ChannelHello(g) == [type |-> "ChannelHello", id |-> g]

(* RelayId::new(0), the channel of PrimaryReceiveRelay at the scheduler.   *)
RelayChannel == 0

Signals == [type : {"Activity", "Terminate", "StartupSync", "Ready",
                    "TerminateAck", "Connect", "ChannelHello"}, id : Nat]

Core(sig) == sig.type \notin {"Connect", "ChannelHello"}

WorkersOf(g) == {w \in Workers : AgentOf[w] = g}

LocalWorkers == WorkersOf(PrimaryAgent)

RemoteAgents == {AgentOf[w] : w \in Workers} \ {PrimaryAgent}

(* The process of the primary has ended.                                   *)
PrimaryDown == pc \in {"failed", "exited"}

AgentDown(g) == IF g = PrimaryAgent THEN PrimaryDown
                                    ELSE local_to_ipc[g] = "exited"

(* A receiver has gone on although channels were missing.                  *)
Incomplete(g) ==
  /\ missing[g] # {}
  /\ IF g = PrimaryAgent THEN pc \notin {"spawn", "listen", "intra"}
                         ELSE local_to_ipc[g] # "intra"

(* Bound on the failures of a behaviour: a process is killed, a worker     *)
(* crashes or a timeout comes too early only while nothing has failed yet. *)
(* A timeout may follow where there is nothing to receive.                 *)
Intact == /\ crashed = {} /\ ~PrimaryDown
          /\ receiveRelay = "ended" => missing[RelayChannel] = {}
          /\ \A g \in Agents : ~Incomplete(g)

MayFail(kind) == kind \in Faults /\ Intact
MayTimeOut(nothing) == "timeout" \in Faults /\ (Intact \/ nothing)

(* The end of a process takes its threads and its channels with it.        *)
ProcessEnds(g) ==
  /\ worker' = [w \in Workers |-> IF w \in WorkersOf(g) THEN "gone" ELSE worker[w]]
  /\ workerQ' = [w \in Workers |-> IF w \in WorkersOf(g) THEN << >> ELSE workerQ[w]]
  /\ IF g = PrimaryAgent
     THEN /\ inbox' = << >> /\ hello' = {}
          /\ sockUp' = [h \in RemoteAgents |-> << >>]
          /\ UNCHANGED <<agentQ, sockDown>>
     ELSE /\ agentQ' = [agentQ EXCEPT ![g] = << >>]
          /\ sockDown' = [sockDown EXCEPT ![g] = << >>]
          /\ UNCHANGED <<inbox, hello, sockUp>>

-----------------------------------------------------------------------------
(***************************************************************************)
(* mpsc endpoints (common/mpsc/endpoint.rs).                               *)
(***************************************************************************)
(* ProtocolMultiReceiver::create and ProtocolMultiSender::create.          *)
NewChannels ==
  /\ inbox = << >>
  /\ agentQ = [g \in RemoteAgents |-> << >>]
  /\ workerQ = [w \in Workers |-> << >>]

(* ProtocolMultiSender::send: an error if the worker has dropped its end.  *)
SendToWorker(w, sig) ==
  workerQ' = IF worker[w] = "gone" THEN workerQ
             ELSE [workerQ EXCEPT ![w] = Append(@, sig)]

(* ProtocolMultiSender::broadcast visits the senders in the order of a     *)
(* hash map and stops at the first closed channel.                         *)
BroadcastReach(ws) ==
  LET open == {w \in ws : worker[w] # "gone"} IN
  IF open = ws THEN {ws} ELSE SUBSET open

BroadcastToWorkers(ws, sig) ==
  \E reach \in BroadcastReach(ws) :
    workerQ' = [w \in Workers |-> IF w \in reach THEN Append(workerQ[w], sig)
                                                 ELSE workerQ[w]]

(* ProtocolMultiSender::connect_receivers; Err at the first closed channel. *)
ConnectReceivers(ws) ==
  workerQ' = [w \in Workers |-> IF w \in ws THEN Append(workerQ[w], Connect(w))
                                            ELSE workerQ[w]]

(***************************************************************************)
(* One round of ProtocolMultiReceiver::connect_senders at the receiver of  *)
(* agent g: the signal at the head of its channel q is a Connect that was  *)
(* missing, or is logged and dropped.  The loop ends without an error once *)
(* its time is over, whatever is still missing.                            *)
(***************************************************************************)
ConnectSender(g, q, complete) ==
  LET left == IF Head(q).type = "Connect" THEN missing[g] \ {Head(q).id}
                                          ELSE missing[g] IN
  /\ q # << >>
  /\ missing' = [missing EXCEPT ![g] = left]
  /\ \/ complete = (left = {})
     \/ complete = TRUE /\ MayFail("timeout")

(* The channel of worker w's ProtocolSender, while its receiver exists.    *)
ReceiverAlive(g) ==
  IF g = PrimaryAgent THEN ~PrimaryDown
                      ELSE local_to_ipc[g] \in {"intra", "inter", "run"}

SendFromWorker(w, sig) ==
  IF AgentOf[w] = PrimaryAgent
  THEN inbox' = Append(inbox, sig) /\ UNCHANGED agentQ
  ELSE /\ agentQ' = [agentQ EXCEPT ![AgentOf[w]] = Append(@, sig)]
       /\ UNCHANGED inbox

(* The sender of worker w's channel is dropped.                            *)
SenderDropped(w) ==
  IF AgentOf[w] = PrimaryAgent THEN PrimaryDown
                               ELSE ipc_to_local[AgentOf[w]] = "ended"

-----------------------------------------------------------------------------
(***************************************************************************)
(* Socket endpoints (relayed/sockets/endpoint.rs).                         *)
(***************************************************************************)
(* ProtocolMultiEndpoint::connect has created its server.                  *)
DownListening == pc \notin {"spawn", "failed", "exited"} /\ RemoteAgents # {}
UpListening   == receiveRelay \in {"accept", "connect", "run"} /\ ~PrimaryDown

(* The secondary's end of a socket is not closed; its main thread drops    *)
(* SecondarySendRelay before it joins the workers.                         *)
UpClosed(g) == local_to_ipc[g] \in {"join", "exited"}
DownOpen(g) == ipc_to_local[g] # "ended" /\ ~AgentDown(g)

(* ProtocolMultiEndpoint::send.  A write to a socket whose peer has closed *)
(* it is lost or fails.                                                    *)
SendToAgent(g, sig) ==
  sockDown' = IF DownOpen(g) THEN [sockDown EXCEPT ![g] = Append(@, sig)] ELSE sockDown

SendToAgentFails(g) == ~DownOpen(g)

(* ProtocolEndpoint::send, towards the primary.                            *)
SendToPrimary(g, sig) ==
  sockUp' = IF UpListening THEN [sockUp EXCEPT ![g] = Append(@, sig)] ELSE sockUp

SendToPrimaryFails(g) == ~UpListening
=============================================================================
