----------------------------- MODULE DirectConnect -----------------------------
(***************************************************************************)
(* The SchedulerConnector of direct socket signalling                      *)
(* (signalling/direct/scheduler.rs) on a SocketServer: connect_remotes,    *)
(* sync_time, and the calls the scheduler makes afterwards.                *)
(***************************************************************************)
EXTENDS SocketServer

CONSTANT MaxSends   \* bound on the signals sent to activities

VARIABLES
  pc,        \* "bind", "connect", "sync", "run", "terminate", "done", "failed"
  token,     \* activity_id_token_map; 0 where there is no entry
  missing,   \* missing_activities
  todo,      \* connections a loop over the map has not reached yet
  sends,     \* signals sent to activities so far
  outcome    \* what a receive() of the scheduler has just returned, or "-"

connectorVars == <<pc, token, missing, todo, sends, outcome>>
vars == <<socketVars, connectorVars>>

StartupSync == [type |-> "StartupSync", id |-> 0]
Terminate   == [type |-> "Terminate", id |-> 0]

ConnectedTokens(map) == {map[a] : a \in Activities}

Init ==
  /\ SocketInit
  /\ pc = "bind" /\ token = [a \in Activities |-> 0]
  /\ missing = Activities /\ todo = {} /\ sends = 0 /\ outcome = "-"

Start ==
  /\ pc = "bind" /\ Bind /\ pc' = "connect"
  /\ UNCHANGED <<opened, accepted, owner, toServer, buffered, readable, events,
                 closed, toClient, said, token, missing, todo, sends>>
  /\ outcome' = "-"

(* Mutant: every hello is booked on the first connection.                  *)
HelloOfAnother(c) ==
  /\ pc = "connect" /\ ReceiveSignal(c)
  /\ LET sig == Head(toServer[c]) IN
       /\ token' = [token EXCEPT ![sig.id] = 1]
       /\ missing' = missing \ {sig.id}
  /\ IF missing' = {} THEN pc' = "sync" /\ todo' = Activities
                      ELSE UNCHANGED <<pc, todo>>
  /\ UNCHANGED sends /\ outcome' = "-"

(* connect_remotes takes a hello (and drops any other signal).             *)
ReceiveHello(c) ==
  /\ pc = "connect" /\ ReceiveSignal(c)
  /\ LET sig == Head(toServer[c]) IN
       IF sig.type = "ActivityHello"
       THEN /\ token' = [token EXCEPT ![sig.id] = c]
            /\ missing' = missing \ {sig.id}
       ELSE UNCHANGED <<token, missing>>
  /\ IF missing' = {} THEN pc' = "sync" /\ todo' = Activities
                      ELSE UNCHANGED <<pc, todo>>
  /\ UNCHANGED sends /\ outcome' = "-"

(* connect_remotes goes on after an error and after nothing.               *)
ConnectGoesOn ==
  /\ pc = "connect"
  /\ ReceiveNothing \/ \E c \in Tokens : ReceiveError(c)
  /\ UNCHANGED <<pc, token, missing, todo, sends>> /\ outcome' = "-"

(* connection_timeout has passed; it is taken to be long enough as long as *)
(* no worker has died.                                                     *)
ConnectTimesOut ==
  /\ pc = "connect" /\ closed # {}
  /\ pc' = "failed"
  /\ UNCHANGED <<socketVars, token, missing, todo, sends>> /\ outcome' = "-"

(* sync_time: once per activity; an error ends Primary::run.               *)
SyncTime(a) ==
  /\ pc = "sync" /\ a \in todo
  /\ todo' = todo \ {a}
  /\ \/ /\ Send(token[a], StartupSync)
        /\ pc' = IF todo' = {} THEN "run" ELSE pc
     \/ SendFails(token[a]) /\ UNCHANGED toClient /\ pc' = "failed"
  /\ UNCHANGED <<serverVars, clientVars, events, toServer, token, missing, sends>>
  /\ outcome' = "-"

(* send_to_activity; what the scheduler does with an error is not here.    *)
SendToActivity(a) ==
  /\ pc = "run" /\ sends < MaxSends
  /\ sends' = sends + 1
  /\ Send(token[a], Core(a))
  /\ UNCHANGED <<serverVars, clientVars, events, toServer, pc, token, missing, todo>>
  /\ outcome' = "-"

(* receive: a signal, nothing or an error; a late hello counts as nothing. *)
Receive ==
  /\ pc = "run"
  /\ \/ ReceiveNothing /\ outcome' = "none"
     \/ \E c \in Tokens :
          \/ ReceiveError(c) /\ outcome' = "error"
          \/ /\ ReceiveSignal(c)
             /\ outcome' = IF Head(toServer[c]).type = "Core" THEN "signal" ELSE "hello"
  /\ UNCHANGED <<pc, token, missing, todo, sends>>

(* broadcast_terminate: once per connection; the first error ends it.      *)
StartTerminate ==
  /\ pc = "run"
  /\ pc' = "terminate" /\ todo' = ConnectedTokens(token)
  /\ UNCHANGED <<socketVars, token, missing, sends>> /\ outcome' = "-"

BroadcastTerminate(c) ==
  /\ pc = "terminate" /\ c \in todo
  /\ todo' = todo \ {c}
  /\ \/ Send(c, Terminate) /\ pc' = IF todo' = {} THEN "done" ELSE pc
     \/ SendFails(c) /\ UNCHANGED toClient /\ pc' = "done"
  /\ UNCHANGED <<serverVars, clientVars, events, toServer, token, missing, sends>>
  /\ outcome' = "-"

Scheduler ==
  \/ Start \/ ConnectGoesOn \/ ConnectTimesOut
  \/ \E c \in Tokens : ReceiveHello(c) \/ BroadcastTerminate(c)
  \/ \E a \in Activities : SyncTime(a)

Worker(w) ==
  /\ Client(w)
  /\ UNCHANGED <<pc, token, missing, todo, sends>> /\ outcome' = "-"

WorkerDies(w) ==
  /\ Die(w)
  /\ UNCHANGED <<pc, token, missing, todo, sends>> /\ outcome' = "-"

Next ==
  \/ Scheduler \/ Receive \/ StartTerminate
  \/ \E a \in Activities : SendToActivity(a)
  \/ \E w \in Workers : Worker(w) \/ WorkerDies(w)

Spec == Init /\ [][Next]_vars

(***************************************************************************)
(* The threads of the primary and of the workers run.  No order of the     *)
(* hash map is promised, and nobody has to die.                            *)
(***************************************************************************)
FairSpec ==
  /\ Spec
  /\ WF_vars(Scheduler)
  /\ \A w \in Workers : WF_vars(Worker(w))

-----------------------------------------------------------------------------
TypeOK ==
  /\ bound \in BOOLEAN
  /\ opened \in 0..MaxConnections /\ accepted \in 0..opened
  /\ owner \in [Tokens -> Workers]
  /\ \A c \in Tokens : buffered[c] \in 0..Len(toServer[c])
  /\ readable \subseteq 1..accepted /\ events \subseteq 1..opened /\ closed \subseteq 1..opened
  /\ pc \in {"bind", "connect", "sync", "run", "terminate", "done", "failed"}
  /\ token \in [Activities -> 0..accepted]
  /\ missing \subseteq Activities
  /\ outcome \in {"-", "none", "error", "signal", "hello"}

(***************************************************************************)
(* Once connect_remotes has returned every activity has a connection, so   *)
(* send_to_activity never panics; and whatever connections died or were    *)
(* opened again meanwhile, its signals go to a worker that hosts it.  The  *)
(* tokens in the map are those of accepted connections (TypeOK).           *)
(***************************************************************************)
RoutedToHost ==
  /\ TypeOK
  /\ pc \in {"sync", "run", "terminate", "done"} => missing = {}
  /\ \A a \in Activities \ missing : token[a] # 0 /\ Hosts(owner[token[a]], a)
  /\ \A c \in Tokens : \A i \in DOMAIN toClient[c] :
       toClient[c][i].type = "Core" => Hosts(owner[c], toClient[c][i].id)

(***************************************************************************)
(* A dead worker is never mistaken for a silent one, nor an answer for a   *)
(* missing one: a receive() of the scheduler that runs into its timeout    *)
(* has not left out a closed connection or an unread signal, although the  *)
(* poll reports each only once, earlier receive() calls have returned      *)
(* before they came to it, and only flags and buffers keep it in mind.     *)
(***************************************************************************)
NoFalseSilence ==
  [][outcome' = "none" => \A c \in 1..accepted : c \notin closed /\ toServer[c] = << >>]_vars

(***************************************************************************)
(* connect_remotes succeeds if all workers live: no hello is overlooked    *)
(* between the polls, whichever connection is read first.                  *)
(***************************************************************************)
ConnectCompletes == pc = "connect" ~> pc = "sync" \/ closed # {}
=============================================================================
