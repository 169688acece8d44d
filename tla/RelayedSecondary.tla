--------------------------- MODULE RelayedSecondary ---------------------------
(***************************************************************************)
(* A secondary agent in relayed signalling (agent/relayed/secondary.rs):   *)
(* its main thread runs SecondarySendRelay, a thread of its own runs       *)
(* SecondaryReceiveRelay; and the worker threads of all agents with their  *)
(* mpsc WorkerConnector.                                                   *)
(***************************************************************************)
EXTENDS RelayChannels

SecondaryInit ==
  /\ ipc_to_local = [g \in RemoteAgents |-> "intra"]
  /\ local_to_ipc = [g \in RemoteAgents |-> "intra"]

(* The main thread of the process returns or panics.                       *)
SecondaryEnds(g) ==
  /\ local_to_ipc' = [local_to_ipc EXCEPT ![g] = "exited"]
  /\ ipc_to_local' = [ipc_to_local EXCEPT ![g] = "ended"]
  /\ ProcessEnds(g)
  /\ UNCHANGED <<primaryVars, missing, synced>>

-----------------------------------------------------------------------------
(***************************************************************************)
(* The thread of SecondaryReceiveRelay.                                    *)
(***************************************************************************)
(* intra_sender.connect_receivers; a closed channel panics the thread.     *)
ConnectWorkers(g) ==
  /\ ipc_to_local[g] = "intra" /\ ~AgentDown(g)
  /\ IF \A w \in WorkersOf(g) : worker[w] # "gone"
     THEN /\ ConnectReceivers(WorkersOf(g))
          /\ ipc_to_local' = [ipc_to_local EXCEPT ![g] = "inter"]
     ELSE /\ ipc_to_local' = [ipc_to_local EXCEPT ![g] = "ended"]
          /\ UNCHANGED workerQ
  /\ UNCHANGED <<primaryVars, local_to_ipc, inbox, sockDown, sockUp, agentQ,
                 hello, missing, workerVars>>

(* inter_receiver.connect_sender: the client tries again until the primary *)
(* listens, then says hello.                                               *)
ConnectDown(g) ==
  /\ ipc_to_local[g] = "inter" /\ ~AgentDown(g) /\ DownListening
  /\ hello' = hello \cup {g}
  /\ ipc_to_local' = [ipc_to_local EXCEPT ![g] = "sync"]
  /\ UNCHANGED <<primaryVars, local_to_ipc, inbox, sockDown, sockUp, workerQ,
                 agentQ, missing, workerVars>>

(* The next signal of the primary reaches the relay in state s.            *)
TakeDown(g, s) ==
  /\ ipc_to_local[g] = s /\ sockDown[g] # << >> /\ ~AgentDown(g)
  /\ sockDown' = [sockDown EXCEPT ![g] = Tail(@)]

(* Mutant: the startup time is received but not stored.                    *)
SyncForgotten(g) ==
  /\ TakeDown(g, "sync")
  /\ ipc_to_local' = [ipc_to_local EXCEPT ![g] = "run"]
  /\ UNCHANGED <<primaryVars, local_to_ipc, inbox, sockUp, workerQ, agentQ,
                 hello, missing, workerVars>>

(* Wait for StartupSync and initialise the clock; others are dropped.      *)
WaitStartupSync(g) ==
  /\ TakeDown(g, "sync")
  /\ IF Head(sockDown[g]) = StartupSync
     THEN /\ synced' = synced \cup {g}
          /\ ipc_to_local' = [ipc_to_local EXCEPT ![g] = "run"]
     ELSE UNCHANGED <<synced, ipc_to_local>>
  /\ UNCHANGED <<primaryVars, local_to_ipc, inbox, sockUp, workerQ, agentQ,
                 hello, missing, worker, crashed>>

(* Mutant: the signal goes to all workers of the agent.                    *)
ForwardToAll(g) ==
  /\ TakeDown(g, "run") /\ Head(sockDown[g]).type = "Activity"
  /\ BroadcastToWorkers(WorkersOf(g), Head(sockDown[g]))
  /\ UNCHANGED <<primaryVars, secondaryVars, inbox, sockUp, agentQ, hello,
                 missing, workerVars>>

(* A signal for one activity goes to the worker that hosts it.             *)
ForwardToWorker(g) ==
  /\ TakeDown(g, "run") /\ Head(sockDown[g]).type = "Activity"
  /\ SendToWorker(WorkerOf[Head(sockDown[g]).id], Head(sockDown[g]))
  /\ UNCHANGED <<primaryVars, secondaryVars, inbox, sockUp, agentQ, hello,
                 missing, workerVars>>

(* Terminate (or another StartupSync) goes to all workers of the agent.    *)
ForwardBroadcast(g) ==
  /\ TakeDown(g, "run") /\ Head(sockDown[g]) \in {Terminate, StartupSync}
  /\ BroadcastToWorkers(WorkersOf(g), Head(sockDown[g]))
  /\ UNCHANGED <<primaryVars, secondaryVars, inbox, sockUp, agentQ, hello,
                 missing, workerVars>>

(* Mutant: the relay tries again after an error.                           *)
KeepReceiving(g) ==
  /\ ipc_to_local[g] \in {"sync", "run"} /\ PrimaryDown /\ ~AgentDown(g)
  /\ UNCHANGED vars

(* receive_helper fails: the primary has closed the socket, which may hold *)
(* signals not looked at.  The workers' channels are dropped.              *)
LosePrimary(g) ==
  /\ ipc_to_local[g] \in {"sync", "run"} /\ PrimaryDown /\ ~AgentDown(g)
  /\ ipc_to_local' = [ipc_to_local EXCEPT ![g] = "ended"]
  /\ UNCHANGED <<primaryVars, local_to_ipc, channelVars, workerVars>>

SecondaryReceiveRelay(g) ==
  \/ ConnectWorkers(g) \/ ConnectDown(g) \/ WaitStartupSync(g)
  \/ ForwardToWorker(g) \/ ForwardBroadcast(g) \/ LosePrimary(g)

-----------------------------------------------------------------------------
(***************************************************************************)
(* The main thread: SecondarySendRelay::connect and run, then the joins.   *)
(***************************************************************************)
(* intra_receiver.connect_senders.                                         *)
ConnectAgentSenders(g) ==
  /\ local_to_ipc[g] = "intra"
  /\ \E complete \in BOOLEAN :
       /\ ConnectSender(g, agentQ[g], complete)
       /\ local_to_ipc' = [local_to_ipc EXCEPT ![g] = IF complete THEN "inter" ELSE @]
  /\ agentQ' = [agentQ EXCEPT ![g] = Tail(@)]
  /\ UNCHANGED <<primaryVars, ipc_to_local, inbox, sockDown, sockUp, workerQ,
                 hello, workerVars>>

(* connect fails: run_and_connect panics in the main thread.               *)
ConnectSendersTimesOut(g) ==
  /\ local_to_ipc[g] = "intra" /\ MayTimeOut(agentQ[g] = << >>)
  /\ SecondaryEnds(g)
  /\ crashed' = crashed \cup WorkersOf(g)

(* inter_sender.connect_receiver.                                          *)
ConnectUp(g) ==
  /\ local_to_ipc[g] = "inter" /\ UpListening
  /\ sockUp' = [sockUp EXCEPT ![g] = <<ChannelHello(g)>>]
  /\ local_to_ipc' = [local_to_ipc EXCEPT ![g] = "run"]
  /\ UNCHANGED <<primaryVars, ipc_to_local, inbox, sockDown, workerQ, agentQ,
                 hello, missing, workerVars>>

(* run: forward a worker's signal; an error of the socket ends the relay.  *)
ForwardToPrimary(g) ==
  /\ local_to_ipc[g] = "run" /\ agentQ[g] # << >>
  /\ agentQ' = [agentQ EXCEPT ![g] = Tail(@)]
  /\ IF Core(Head(agentQ[g]))
     THEN \/ SendToPrimary(g, Head(agentQ[g])) /\ UNCHANGED local_to_ipc
          \/ /\ SendToPrimaryFails(g) /\ UNCHANGED sockUp
             /\ local_to_ipc' = [local_to_ipc EXCEPT ![g] = "join"]
     ELSE UNCHANGED <<sockUp, local_to_ipc>>
  /\ UNCHANGED <<primaryVars, ipc_to_local, inbox, sockDown, workerQ, hello,
                 missing, workerVars>>

(* Mutant: a closed channel is taken for a timeout.                        *)
SendRelayStays(g) ==
  /\ local_to_ipc[g] = "run" /\ agentQ[g] = << >>
  /\ \A w \in WorkersOf(g) : worker[w] = "gone"
  /\ UNCHANGED vars

(* run: all workers have dropped their senders.                            *)
SendRelayEnds(g) ==
  /\ local_to_ipc[g] = "run" /\ agentQ[g] = << >>
  /\ \A w \in WorkersOf(g) : worker[w] = "gone"
  /\ local_to_ipc' = [local_to_ipc EXCEPT ![g] = "join"]
  /\ UNCHANGED <<primaryVars, ipc_to_local, channelVars, workerVars>>

(* Secondary::run joins the workers; one that panicked panics it too.      *)
JoinAndExit(g) ==
  /\ local_to_ipc[g] = "join"
  /\ \/ WorkersOf(g) \cap crashed # {}
     \/ \A w \in WorkersOf(g) : worker[w] = "gone"
  /\ SecondaryEnds(g)
  /\ UNCHANGED crashed

SecondaryMain(g) ==
  \/ ConnectAgentSenders(g) \/ ConnectSendersTimesOut(g) \/ ConnectUp(g)
  \/ ForwardToPrimary(g) \/ SendRelayEnds(g) \/ JoinAndExit(g)

(* The process of a secondary is killed.                                   *)
SecondaryKilled(g) ==
  /\ MayFail("kill") /\ ~AgentDown(g)
  /\ SecondaryEnds(g)
  /\ crashed' = crashed \cup WorkersOf(g)

-----------------------------------------------------------------------------
(***************************************************************************)
(* The worker threads.                                                     *)
(***************************************************************************)
Alive(w, s) == worker[w] = s /\ ~AgentDown(AgentOf[w])

(* connect_remote: announce the worker, ...                                *)
WorkerConnects(w) ==
  /\ Alive(w, "start") /\ ReceiverAlive(AgentOf[w])
  /\ SendFromWorker(w, Connect(w))
  /\ worker' = [worker EXCEPT ![w] = "await"]
  /\ UNCHANGED <<primaryVars, secondaryVars, sockDown, sockUp, workerQ, hello,
                 missing, synced, crashed>>

(* ... and wait for the answer; other signals are dropped.                 *)
WorkerConnected(w) ==
  /\ Alive(w, "await") /\ workerQ[w] # << >>
  /\ workerQ' = [workerQ EXCEPT ![w] = Tail(@)]
  /\ worker' = IF Head(workerQ[w]).type = "Connect"
               THEN [worker EXCEPT ![w] = "run"] ELSE worker
  /\ UNCHANGED <<primaryVars, secondaryVars, inbox, sockDown, sockUp, agentQ,
                 hello, missing, synced, crashed>>

(* connect_remote fails: a channel is closed, or 60 s have passed.         *)
WorkerConnectFails(w) ==
  /\ \/ Alive(w, "start") /\ ~ReceiverAlive(AgentOf[w])
     \/ Alive(w, "await") /\ workerQ[w] = << >> /\ (SenderDropped(w) \/ MayFail("timeout"))
  /\ worker' = [worker EXCEPT ![w] = "gone"]
  /\ crashed' = crashed \cup {w}
  /\ UNCHANGED <<primaryVars, secondaryVars, channelVars, synced>>

(* An activity's method runs and the worker answers.  If the method panics *)
(* or there is no relay to take the answer, the thread panics.             *)
RunActivity(w) ==
  /\ Alive(w, "run") /\ workerQ[w] # << >> /\ Head(workerQ[w]).type = "Activity"
  /\ workerQ' = [workerQ EXCEPT ![w] = Tail(@)]
  /\ \/ /\ ReceiverAlive(AgentOf[w])
        /\ SendFromWorker(w, Ready(Head(workerQ[w]).id))
        /\ UNCHANGED <<worker, crashed>>
     \/ /\ MayFail("crash") \/ ~ReceiverAlive(AgentOf[w])
        /\ worker' = [worker EXCEPT ![w] = "gone"]
        /\ crashed' = crashed \cup {w}
        /\ UNCHANGED <<inbox, agentQ>>
  /\ UNCHANGED <<primaryVars, secondaryVars, sockDown, sockUp, hello, missing,
                 synced>>

(* Terminate: acknowledge if there is someone to take it, linger and exit. *)
RunTerminate(w) ==
  /\ Alive(w, "run") /\ workerQ[w] # << >> /\ Head(workerQ[w]) = Terminate
  /\ workerQ' = [workerQ EXCEPT ![w] = Tail(@)]
  /\ IF ReceiverAlive(AgentOf[w]) THEN SendFromWorker(w, TerminateAck(AgentOf[w]))
                                  ELSE UNCHANGED <<inbox, agentQ>>
  /\ worker' = [worker EXCEPT ![w] = "linger"]
  /\ UNCHANGED <<primaryVars, secondaryVars, sockDown, sockUp, hello, missing,
                 synced, crashed>>

(* The worker's thread ends: after Terminate, or when the relay is gone    *)
(* and its channel is empty.                                               *)
WorkerExits(w) ==
  /\ \/ Alive(w, "linger")
     \/ Alive(w, "run") /\ workerQ[w] = << >> /\ SenderDropped(w)
  /\ worker' = [worker EXCEPT ![w] = "gone"]
  /\ UNCHANGED <<primaryVars, secondaryVars, channelVars, synced, crashed>>

WorkerThread(w) ==
  \/ WorkerConnects(w) \/ WorkerConnected(w) \/ WorkerConnectFails(w)
  \/ RunActivity(w) \/ RunTerminate(w) \/ WorkerExits(w)
=============================================================================
