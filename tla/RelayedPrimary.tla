---------------------------- MODULE RelayedPrimary ----------------------------
(***************************************************************************)
(* The primary agent in relayed signalling: its main thread with the       *)
(* SchedulerConnector (relayed/connectors/scheduler.rs) and                *)
(* PrimarySendRelay, and the thread of PrimaryReceiveRelay.  The scheduler *)
(* is any caller of the connector: it sends signals to activities, takes   *)
(* what arrives, and at some time terminates all agents.                   *)
(***************************************************************************)
EXTENDS RelayChannels

(* The first step that has something to do: the relays exist only if there *)
(* are remote agents.                                                      *)
IfRemote(there, otherwise) == IF RemoteAgents # {} THEN there ELSE otherwise

(* SchedulerConnector::new: the scheduler expects a Connect from every     *)
(* local worker and from the relay.                                        *)
LocalChannels == LocalWorkers \cup {RelayChannel}

PrimaryInit ==
  /\ pc = "spawn"
  /\ receiveRelay = "none"
  /\ todo = RemoteAgents
  /\ sent = 0

(* The main thread returns from Primary::new or Primary::run.              *)
PrimaryEnds(how) ==
  /\ pc' = how
  /\ ProcessEnds(PrimaryAgent)
  /\ UNCHANGED <<receiveRelay, todo, sent, secondaryVars, missing, synced, crashed>>

-----------------------------------------------------------------------------
(* run_and_connect: the receive relay gets its thread and listens.         *)
SpawnReceiveRelay ==
  /\ pc = "spawn"
  /\ pc' = IfRemote("listen", "intra")
  /\ receiveRelay' = IfRemote("accept", "none")
  /\ UNCHANGED <<todo, sent, secondaryVars, channelVars, workerVars>>

(* PrimarySendRelay::connect: wait for the ChannelHello of every agent.    *)
ConnectAgent(g) ==
  /\ pc = "listen" /\ g \in hello
  /\ hello' = hello \ {g}
  /\ todo' = todo \ {g}
  /\ pc' = IF todo' = {} THEN "intra" ELSE pc
  /\ UNCHANGED <<receiveRelay, sent, secondaryVars, inbox, sockDown, sockUp,
                 workerQ, agentQ, missing, workerVars>>

(* intra_receiver.connect_senders.                                         *)
ConnectLocalSenders ==
  /\ pc = "intra"
  /\ \E complete \in BOOLEAN :
       /\ ConnectSender(PrimaryAgent, inbox, complete)
       /\ pc' = IF complete THEN "workers" ELSE pc
  /\ inbox' = Tail(inbox)
  /\ UNCHANGED <<receiveRelay, todo, sent, secondaryVars, sockDown, sockUp,
                 workerQ, agentQ, hello, workerVars>>

(* A wait of connect_remotes runs into its timeout: Primary::new fails.    *)
ConnectTimesOut ==
  /\ \/ pc = "listen" /\ MayTimeOut(hello = {})
     \/ pc = "intra" /\ MayTimeOut(inbox = << >>)
  /\ PrimaryEnds("failed")

(* worker_sender.connect_receivers, the last step of run_and_connect; then *)
(* Primary::run initialises its own clock.                                 *)
ConnectLocalWorkers ==
  /\ pc = "workers"
  /\ \/ /\ \A w \in LocalWorkers : worker[w] # "gone"
        /\ ConnectReceivers(LocalWorkers)
        /\ pc' = IfRemote("sync", "run")
        /\ synced' = synced \cup {PrimaryAgent}
        /\ todo' = RemoteAgents
        /\ UNCHANGED <<receiveRelay, sent, secondaryVars, inbox, sockDown, sockUp,
                       agentQ, hello, missing, worker, crashed>>
     \/ /\ \E w \in LocalWorkers : worker[w] = "gone"
        /\ PrimaryEnds("failed")

(* PrimarySendRelay::sync_time; an error ends Primary::run.                *)
SyncTime(g) ==
  /\ pc = "sync" /\ g \in todo
  /\ \/ /\ SendToAgent(g, StartupSync)
        /\ todo' = todo \ {g}
        /\ pc' = IF todo' = {} THEN "run" ELSE pc
        /\ UNCHANGED <<receiveRelay, sent, secondaryVars, inbox, sockUp, workerQ,
                       agentQ, hello, missing, workerVars>>
     \/ SendToAgentFails(g) /\ PrimaryEnds("failed")

(* Bound on the signals: after a failure a single one.                     *)
SignalBound == IF Intact THEN MaxSignals ELSE 1

(* send_to_activity: to the worker of the primary itself, or through the   *)
(* relay to the agent the worker lives in.  The scheduler logs the error   *)
(* of a Shutdown; one of a Startup or Step is a panic of the main thread.  *)
SendToActivity(a) ==
  LET w == WorkerOf[a]
      fails == IF w \in LocalWorkers THEN worker[w] = "gone" ELSE SendToAgentFails(AgentOf[w])
  IN
  /\ pc = "run" /\ sent < SignalBound
  /\ \/ /\ sent' = sent + 1
        /\ IF w \in LocalWorkers
           THEN SendToWorker(w, Activity(a)) /\ UNCHANGED sockDown
           ELSE SendToAgent(AgentOf[w], Activity(a)) /\ UNCHANGED workerQ
        /\ UNCHANGED <<pc, receiveRelay, todo, secondaryVars, inbox, sockUp,
                       agentQ, hello, missing, workerVars>>
     \/ fails /\ PrimaryEnds("failed")

(* receive, as the scheduler's loops call it; in terminate_all_agents an   *)
(* acknowledgement takes its agent off the list.                           *)
Receive ==
  /\ pc \in {"run", "acks"} /\ inbox # << >>
  /\ inbox' = Tail(inbox)
  /\ IF pc = "acks" /\ Head(inbox).type = "TerminateAck"
     THEN /\ todo' = todo \ {Head(inbox).id}
          /\ pc' = IF todo' = {} THEN "join" ELSE pc
     ELSE UNCHANGED <<pc, todo>>
  /\ UNCHANGED <<receiveRelay, sent, secondaryVars, sockDown, sockUp, workerQ,
                 agentQ, hello, missing, workerVars>>

(* terminate_all_agents begins.                                            *)
StartTerminate ==
  /\ pc = "run"
  /\ pc' = IfRemote("broadcast", "local")
  /\ todo' = RemoteAgents
  /\ UNCHANGED <<receiveRelay, sent, secondaryVars, channelVars, workerVars>>

(* broadcast_terminate, remote agents: the first error ends it, before the *)
(* local workers are told.                                                 *)
BroadcastRemote(g) ==
  /\ pc = "broadcast" /\ g \in todo
  /\ \/ /\ SendToAgent(g, Terminate)
        /\ todo' = todo \ {g}
        /\ pc' = IF todo' = {} THEN "local" ELSE pc
     \/ /\ SendToAgentFails(g) /\ UNCHANGED sockDown
        /\ todo' = RemoteAgents /\ pc' = "acks"
  /\ UNCHANGED <<receiveRelay, sent, secondaryVars, inbox, sockUp, workerQ,
                 agentQ, hello, missing, workerVars>>

(* broadcast_terminate, local workers.                                     *)
BroadcastLocal ==
  /\ pc = "local"
  /\ BroadcastToWorkers(LocalWorkers, Terminate)
  /\ todo' = RemoteAgents
  /\ pc' = IfRemote("acks", "join")
  /\ UNCHANGED <<receiveRelay, sent, secondaryVars, inbox, sockDown, sockUp,
                 agentQ, hello, missing, workerVars>>

(* The scheduler stops waiting for acknowledgements.                       *)
AckTimeout ==
  /\ pc = "acks"
  /\ pc' = "join"
  /\ UNCHANGED <<receiveRelay, todo, sent, secondaryVars, channelVars, workerVars>>

(* Primary::run joins the worker threads; one that panicked panics it too. *)
JoinWorkers ==
  /\ pc = "join"
  /\ \/ LocalWorkers \cap crashed # {} /\ PrimaryEnds("exited")
     \/ /\ LocalWorkers \cap crashed = {}
        /\ \A w \in LocalWorkers : worker[w] = "gone"
        /\ pc' = "joinRelay"
        /\ UNCHANGED <<receiveRelay, todo, sent, secondaryVars, channelVars,
                       workerVars>>

JoinRelay ==
  /\ pc = "joinRelay" /\ receiveRelay \in {"none", "ended"}
  /\ PrimaryEnds("exited")

PrimaryMain ==
  \/ SpawnReceiveRelay \/ ConnectLocalSenders \/ ConnectTimesOut
  \/ ConnectLocalWorkers \/ Receive \/ BroadcastLocal
  \/ AckTimeout \/ JoinWorkers \/ JoinRelay
  \/ \E g \in RemoteAgents : ConnectAgent(g) \/ SyncTime(g) \/ BroadcastRemote(g)

-----------------------------------------------------------------------------
(***************************************************************************)
(* The thread of PrimaryReceiveRelay.                                      *)
(***************************************************************************)
(* connect: inter_receiver.connect_senders reads the sockets; what is not  *)
(* a ChannelHello is logged and dropped.                                   *)
AcceptAgent(g) ==
  /\ receiveRelay = "accept" /\ sockUp[g] # << >> /\ ~PrimaryDown
  /\ sockUp' = [sockUp EXCEPT ![g] = Tail(@)]
  /\ missing' = IF Head(sockUp[g]).type = "ChannelHello"
                THEN [missing EXCEPT ![RelayChannel] = @ \ {g}] ELSE missing
  /\ receiveRelay' = IF missing'[RelayChannel] = {} THEN "connect" ELSE "accept"
  /\ UNCHANGED <<pc, todo, sent, secondaryVars, inbox, sockDown, workerQ,
                 agentQ, hello, workerVars>>

(* connect fails: thread_main panics.                                      *)
AcceptTimesOut ==
  /\ receiveRelay = "accept" /\ ~PrimaryDown
  /\ MayTimeOut(\A g \in RemoteAgents : sockUp[g] = << >>)
  /\ receiveRelay' = "ended"
  /\ UNCHANGED <<pc, todo, sent, secondaryVars, channelVars, workerVars>>

(* connect: intra_sender.connect_receiver.                                 *)
ConnectToScheduler ==
  /\ receiveRelay = "connect" /\ ~PrimaryDown
  /\ inbox' = Append(inbox, Connect(RelayChannel))
  /\ receiveRelay' = "run"
  /\ UNCHANGED <<pc, todo, sent, secondaryVars, sockDown, sockUp, workerQ,
                 agentQ, hello, missing, workerVars>>

(* thread_main: forward to the scheduler what agent g has sent.            *)
RelayToScheduler(g) ==
  /\ receiveRelay = "run" /\ sockUp[g] # << >> /\ ~PrimaryDown
  /\ sockUp' = [sockUp EXCEPT ![g] = Tail(@)]
  /\ inbox' = IF Core(Head(sockUp[g])) THEN Append(inbox, Head(sockUp[g])) ELSE inbox
  /\ UNCHANGED <<pc, receiveRelay, todo, sent, secondaryVars, sockDown, workerQ,
                 agentQ, hello, missing, workerVars>>

(* thread_main: a closed socket makes receive fail, with or without        *)
(* signals it has not looked at; the thread ends and drops all sockets.    *)
ReceiveRelayEnds ==
  /\ receiveRelay = "run" /\ ~PrimaryDown
  /\ \E g \in RemoteAgents : UpClosed(g)
  /\ receiveRelay' = "ended"
  /\ UNCHANGED <<pc, todo, sent, secondaryVars, channelVars, workerVars>>

ReceiveRelayThread ==
  \/ AcceptTimesOut \/ ConnectToScheduler \/ ReceiveRelayEnds
  \/ \E g \in RemoteAgents : AcceptAgent(g) \/ RelayToScheduler(g)

(* The process of the primary is killed.                                   *)
PrimaryKilled ==
  /\ MayFail("kill")
  /\ PrimaryEnds("exited")
=============================================================================
