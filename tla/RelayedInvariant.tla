--------------------------- MODULE RelayedInvariant ---------------------------
(***************************************************************************)
(* The inductive invariant of relayed signalling: which signals can be in  *)
(* which channel while the parts of the system start and stop.             *)
(***************************************************************************)
EXTENDS Relayed, Functions

Early    == {"spawn", "listen", "intra"}
Starting == Early \cup {"workers", "sync"}
Started  == {"run", "broadcast", "local", "acks", "join", "joinRelay"}

(* The signals each channel may hold: those that are on the way to their   *)
(* worker or from their agent; signals that mean work not before the       *)
(* primary is connected, and activities' only where the clock is set.      *)
DownSet(g) ==
  {StartupSync} \cup IF pc \in Starting THEN {} ELSE UNION {For(w) : w \in WorkersOf(g)}
UpSet(g)    == {ChannelHello(g)} \cup IF pc \in Starting THEN {} ELSE From(g)
AgentSet(g) ==
  {Connect(w) : w \in WorkersOf(g)} \cup IF pc \in Starting THEN {} ELSE From(g)
WorkSet(w) ==
  {StartupSync, Connect(w)} \cup
    IF pc \in Starting THEN {}
    ELSE {sig \in For(w) : sig = Terminate \/ AgentOf[w] \in synced}
InSet ==
  {Connect(c) : c \in LocalChannels} \cup
    IF pc \in Starting THEN {} ELSE UNION {From(g) : g \in Agents}

Addressed ==
  /\ \A g \in RemoteAgents : /\ Range(sockDown[g]) \subseteq DownSet(g)
                             /\ Range(sockUp[g]) \subseteq UpSet(g)
                             /\ Range(agentQ[g]) \subseteq AgentSet(g)
  /\ \A w \in Workers : Range(workerQ[w]) \subseteq WorkSet(w)
  /\ Range(inbox) \subseteq InSet

(* A clock is set before the part of the process that works starts.        *)
ClocksSet ==
  /\ pc \in {"sync"} \cup Started => PrimaryAgent \in synced
  /\ \A g \in RemoteAgents : ipc_to_local[g] = "run" => g \in synced

(* PrimaryReceiveRelay is connected to all agents before it says so, and   *)
(* the primary goes on only after that.                                    *)
RelayReady ==
  /\ missing[RelayChannel] = {} /\ receiveRelay \in {"run", "ended"}
  /\ \A g \in RemoteAgents : local_to_ipc[g] \notin {"intra", "inter"}

Handshake ==
  /\ pc = "spawn" => receiveRelay = "none"
  /\ receiveRelay \in {"connect", "run"} => missing[RelayChannel] = {}
  /\ \A g \in RemoteAgents :
       /\ local_to_ipc[g] \in {"intra", "inter"} =>
            sockUp[g] = << >> /\ g \in missing[RelayChannel]
       /\ local_to_ipc[g] = "run" => receiveRelay # "none"
  /\ Connect(RelayChannel) \in Range(inbox) => RelayReady
  /\ RelayChannel \notin missing[PrimaryAgent] => RelayReady
  /\ pc \in {"workers", "sync"} \cup Started => RelayReady \/ Incomplete(PrimaryAgent)

(* StartupSync is the first signal to a secondary, and sent only once.     *)
SyncSent(g) == pc \in Started \/ (pc = "sync" /\ g \notin todo)

SyncAt(g) ==
  /\ ipc_to_local[g] \in {"intra", "inter", "sync"} /\ ~PrimaryDown /\ ~AgentDown(g) =>
       IF SyncSent(g) THEN sockDown[g] # << >> /\ Head(sockDown[g]) = StartupSync
                      ELSE sockDown[g] = << >>
  /\ ipc_to_local[g] = "run" => SyncSent(g) \/ PrimaryDown
  /\ \A i \in DOMAIN sockDown[g] :
       sockDown[g][i] = StartupSync => i = 1 /\ ipc_to_local[g] # "run"

SyncFirst == \A g \in RemoteAgents : SyncAt(g)

(* Connect is the first signal to a worker.                                *)
ConnectSent(w) ==
  IF w \in LocalWorkers THEN pc \in {"sync"} \cup Started
                        ELSE ipc_to_local[AgentOf[w]] \in {"inter", "sync", "run"}

ConnectAt(w) ==
  worker[w] \in {"start", "await"} /\ ~AgentDown(AgentOf[w]) =>
    \/ ConnectSent(w) /\ workerQ[w] # << >> /\ Head(workerQ[w]) = Connect(w)
    \/ ~ConnectSent(w) /\ workerQ[w] = << >>
    \/ w \notin LocalWorkers /\ ipc_to_local[AgentOf[w]] = "ended"

ConnectFirst == \A w \in Workers : ConnectAt(w)

(* Terminate is the last, and a worker stays until it has taken it.        *)
Final(g) ==
  \/ pc \in {"local", "acks", "join", "joinRelay", "failed", "exited"}
  \/ pc = "broadcast" /\ g \notin todo

Finishing(w) ==
  \/ Terminate \in Range(workerQ[w])
  \/ worker[w] = "linger"
  \/ /\ worker[w] = "gone" /\ w \notin crashed /\ ~AgentDown(AgentOf[w])
     /\ w \notin LocalWorkers => ipc_to_local[AgentOf[w]] # "ended"

TerminateLast ==
  /\ \A g \in RemoteAgents : \A i \in DOMAIN sockDown[g] :
       sockDown[g][i] = Terminate => Final(g) /\ i = Len(sockDown[g])
  /\ \A w \in Workers : Finishing(w) =>
       IF w \in LocalWorkers THEN pc \in {"acks", "join", "joinRelay", "failed", "exited"}
       ELSE Final(AgentOf[w]) /\ sockDown[AgentOf[w]] = << >>

RelayedInv ==
  /\ TypeOK /\ Addressed /\ ClocksSet /\ Handshake
  /\ SyncFirst /\ ConnectFirst /\ TerminateLast
=============================================================================
