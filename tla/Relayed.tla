------------------------------- MODULE Relayed -------------------------------
(***************************************************************************)
(* A FEO system with relayed signalling: the primary, the secondaries and  *)
(* the workers of all of them over the channels of RelayChannels.          *)
(***************************************************************************)
EXTENDS RelayedPrimary, RelayedSecondary

(* The channels each receiver is created for: PrimaryReceiveRelay waits    *)
(* for the agents, the scheduler for its workers and the relay, a          *)
(* SecondarySendRelay for the workers of its agent.                        *)
Expected ==
  [c \in Agents \cup {RelayChannel} |->
     IF c = RelayChannel THEN RemoteAgents
     ELSE IF c = PrimaryAgent THEN LocalChannels ELSE WorkersOf(c)]

Init ==
  /\ NewChannels /\ PrimaryInit /\ SecondaryInit
  /\ sockDown = [g \in RemoteAgents |-> << >>]
  /\ sockUp = [g \in RemoteAgents |-> << >>]
  /\ hello = {}
  /\ missing = Expected
  /\ worker = [w \in Workers |-> "start"]
  /\ synced = {}
  /\ crashed = {}

(* Every process has ended.                                                *)
AllEnded == PrimaryDown /\ \A g \in RemoteAgents : AgentDown(g)

Next ==
  \/ PrimaryMain \/ ReceiveRelayThread
  \/ StartTerminate \/ \E a \in Activities : SendToActivity(a)
  \/ \E g \in RemoteAgents : SecondaryMain(g) \/ SecondaryReceiveRelay(g)
  \/ \E w \in Workers : WorkerThread(w)
  \/ PrimaryKilled \/ \E g \in RemoteAgents : SecondaryKilled(g)

Spec == Init /\ [][Next]_vars

(***************************************************************************)
(* Every thread is scheduled again and again and timeouts elapse; nobody   *)
(* has to send signals, to press Ctrl-C or to kill a process.              *)
(***************************************************************************)
FairSpec ==
  /\ Spec
  /\ WF_vars(PrimaryMain) /\ WF_vars(ReceiveRelayThread)
  /\ \A g \in RemoteAgents : /\ WF_vars(SecondaryMain(g))
                             /\ WF_vars(SecondaryReceiveRelay(g))
  /\ \A w \in Workers : WF_vars(WorkerThread(w))

-----------------------------------------------------------------------------
TypeOK ==
  /\ pc \in {"spawn", "listen", "intra", "workers", "sync", "run", "broadcast",
             "local", "acks", "join", "joinRelay", "failed", "exited"}
  /\ receiveRelay \in {"none", "accept", "connect", "run", "ended"}
  /\ ipc_to_local \in [RemoteAgents -> {"intra", "inter", "sync", "run", "ended"}]
  /\ local_to_ipc \in [RemoteAgents -> {"intra", "inter", "run", "join", "exited"}]
  /\ worker \in [Workers -> {"start", "await", "run", "linger", "gone"}]
  /\ inbox \in Seq(Signals)
  /\ sockDown \in [RemoteAgents -> Seq(Signals)]
  /\ sockUp \in [RemoteAgents -> Seq(Signals)]
  /\ workerQ \in [Workers -> Seq(Signals)]
  /\ agentQ \in [RemoteAgents -> Seq(Signals)]
  /\ hello \subseteq RemoteAgents
  /\ missing \in [Agents \cup {RelayChannel} -> SUBSET Nat]
  /\ todo \subseteq RemoteAgents
  /\ synced \subseteq Agents
  /\ sent \in Nat
  /\ crashed \subseteq Workers

(***************************************************************************)
(* A worker calls timestamp() when it answers, which panics in a process   *)
(* whose clock is not initialised: no activity signal waits for a worker   *)
(* before Primary::run or SecondaryReceiveRelay has set the startup time.  *)
(* Every thread and queue is well-typed meanwhile.                         *)
(***************************************************************************)
ClockBeforeWork ==
  /\ TypeOK
  /\ \A w \in Workers : AgentOf[w] \notin synced =>
       \A i \in DOMAIN workerQ[w] : workerQ[w][i].type # "Activity"

(***************************************************************************)
(* Once connected without a timeout, each agent is a pipe: relaying        *)
(* neither loses nor duplicates, reorders or misroutes a signal, in either *)
(* direction, as long as the processes and threads on its way live.        *)
(***************************************************************************)
Broken(g) ==
  \/ PrimaryDown \/ AgentDown(g) \/ Incomplete(PrimaryAgent)
  \/ WorkersOf(g) \cap crashed # {}
  \/ g \in RemoteAgents /\ (\/ receiveRelay = "ended" \/ UpClosed(g)
                            \/ ipc_to_local[g] = "ended")

(* The signals for worker w, and those of the workers of agent g.          *)
For(w)  == {Activity(a) : a \in {b \in Activities : WorkerOf[b] = w}} \cup {Terminate}
From(g) == {Ready(a) : a \in {b \in Activities : AgentOf[WorkerOf[b]] = g}}
             \cup {TerminateAck(g)}
CoreSignals == {sig \in Signals : Core(sig)}

(* The entries of s that are in S, in their order; a SelectSeq that can be *)
(* reasoned about.                                                         *)
Only(s, S) ==
  LET only[i \in 0..Len(s)] ==
        IF i = 0 THEN << >>
        ELSE IF s[i] \in S THEN Append(only[i - 1], s[i]) ELSE only[i - 1]
  IN  only[Len(s)]

UnderWayTo(w) ==
  Only(workerQ[w], CoreSignals) \o
    IF w \in LocalWorkers THEN << >> ELSE Only(sockDown[AgentOf[w]], For(w))

UnderWayFrom(g) ==
  Only(inbox, From(g)) \o
    IF g = PrimaryAgent THEN << >>
    ELSE Only(sockUp[g], CoreSignals) \o Only(agentQ[g], CoreSignals)

Pipe == INSTANCE SignalPipe WITH
  toWorker    <- [w \in Workers |-> UnderWayTo(w)],
  toScheduler <- [g \in Agents |-> UnderWayFrom(g)],
  broken      <- {g \in Agents : Broken(g)}

ImplementsPipe == Pipe!PipeSpec

(***************************************************************************)
(* Terminate ends the whole system - relays, workers and every process -   *)
(* unless a process was killed, a worker panicked or the primary started   *)
(* incompletely.                                                           *)
(***************************************************************************)
TerminateEndsAll ==
  pc = "broadcast" ~>
    AllEnded \/ Incomplete(PrimaryAgent) \/ crashed # {}

(***************************************************************************)
(* A secondary never outlives its primary: once both its sockets were      *)
(* connected, the end of the primary reaches the relays, the workers and   *)
(* the main thread, and the process ends.                                  *)
(***************************************************************************)
OrphansEnd ==
  \A g \in RemoteAgents :
    (PrimaryDown /\ ipc_to_local[g] \in {"sync", "run"} /\ local_to_ipc[g] = "run")
      ~> AgentDown(g)
=============================================================================
