----------------------------- MODULE TopicService -----------------------------
(***************************************************************************)
(* Topic initialisation (feo/src/agent/com_init.rs) on the LinuxShm        *)
(* backend: the primary creates a shared memory segment per topic and then *)
(* starts a service thread that answers a number of requests fixed         *)
(* beforehand; each secondary asks it for every topic it uses, one         *)
(* connection per topic, and maps the segment with the rights its          *)
(* activities need.  Secondaries may start too early, die and come back.   *)
(***************************************************************************)
EXTENDS Naturals, Sequences, FiniteSets

CONSTANTS
  Agents, Primary,
  Activities,
  AgentOf,          \* activity -> agent (agent_assignments)
  Topics,
  Peers,            \* topic -> set of <<activity, direction>>
  SpecsOf,          \* agent -> the topics of its topic_specs, in their order
  MaxAdditional,    \* max_additional_readers
  MaxDeaths         \* bound on the ends of secondary processes

Directions == {"Incoming", "Outgoing"}
Secondaries == Agents \ {Primary}

local_activities(g) == {a \in Activities : AgentOf[a] = g}

remote_activities == Activities \ local_activities(Primary)

Uses(g, t) == \E p \in Peers[t] : p[1] \in local_activities(g)

(***************************************************************************)
(* The primary is given the specifications of all topics, a secondary      *)
(* those of the topics it uses, as the documentation of com_init says.     *)
(***************************************************************************)
ASSUME TopicAssumption ==
  /\ IsFiniteSet(Agents) /\ IsFiniteSet(Activities) /\ IsFiniteSet(Topics)
  /\ Primary \in Agents
  /\ AgentOf \in [Activities -> Agents]
  /\ Peers \in [Topics -> SUBSET (Activities \X Directions)]
  /\ SpecsOf \in [Agents -> Seq(Topics)]
  /\ \A g \in Agents, t \in Topics :
       LET at == {i \in DOMAIN SpecsOf[g] : SpecsOf[g][i] = t}
       IN  at = {} \/ (Cardinality(at) = 1 /\ (g = Primary \/ Uses(g, t)))
  /\ \A t \in Topics : \A g \in Agents :
       g = Primary \/ Uses(g, t) => \E i \in DOMAIN SpecsOf[g] : SpecsOf[g][i] = t
  /\ MaxAdditional \in Nat /\ MaxDeaths \in Nat

VARIABLES
  pc,        \* agent -> where it is
  failure,   \* agent -> why it panicked, or "-"
  done,      \* agent -> number of topics it has initialised
  topics,    \* agent -> topic -> its TopicMapping: "none", "unmapped", "read", "write"
  service,   \* the service thread: "off", "spawned", "listening", "reading", "ended"
  to_serve,  \* requests_to_serve
  backlog,   \* connections waiting for accept: <<agent, life>>
  serving,   \* the connection being served
  answer,    \* agent -> the response on its connection, or "-"
  life,      \* agent -> how often it has ended
  wasted     \* responses given to processes that have ended since

processVars == <<pc, failure, done, topics>>
serviceVars == <<service, to_serve, serving>>
vars == <<processVars, serviceVars, backlog, answer, life, wasted>>

Init ==
  /\ pc = [g \in Agents |-> IF g = Primary THEN "topics" ELSE "off"]
  /\ failure = [g \in Agents |-> "-"]
  /\ done = [g \in Agents |-> 0]
  /\ topics = [g \in Agents |-> [t \in Topics |-> "none"]]
  /\ service = "off" /\ to_serve = 0 /\ backlog = << >>
  /\ serving = <<Primary, 0>>
  /\ answer = [g \in Agents |-> "-"]
  /\ life = [g \in Agents |-> 0]
  /\ wasted = 0

Panic(g, why) ==
  /\ pc' = [pc EXCEPT ![g] = "panicked"]
  /\ failure' = [failure EXCEPT ![g] = why]

-----------------------------------------------------------------------------
(***************************************************************************)
(* com_init.rs                                                             *)
(***************************************************************************)
(* Mutant: an agent may write if all its peers do.                         *)
is_write_all(g, t) ==
  \A p \in Peers[t] : p[1] \in local_activities(g) => p[2] = "Outgoing"

is_write(g, t) ==
  \E p \in Peers[t] : p[1] \in local_activities(g) /\ p[2] = "Outgoing"

(* MappingMode, from is_local_write.                                       *)
MappingMode(g, t) == IF is_write(g, t) THEN "write" ELSE "read"

(* One request for each remote activity that is a peer of a topic.         *)
remote_requests ==
  Cardinality({x \in Topics \X (remote_activities \X Directions) : x[2] \in Peers[x[1]]})
  + Cardinality(Topics) * MaxAdditional

TopicOf(g) == SpecsOf[g][done[g] + 1]
HasSpec(g) == done[g] < Len(SpecsOf[g])

(* init_topic_primary: the segment is created, filled with the default     *)
(* value and registered; it is mapped only if a local activity uses it.    *)
InitTopicPrimary ==
  /\ pc[Primary] = "topics" /\ HasSpec(Primary)
  /\ LET t == TopicOf(Primary) IN
       topics' = [topics EXCEPT ![Primary][t] =
                    IF Uses(Primary, t) THEN MappingMode(Primary, t) ELSE "unmapped"]
  /\ done' = [done EXCEPT ![Primary] = @ + 1]
  /\ UNCHANGED <<pc, failure, serviceVars, backlog, answer, life, wasted>>

RunBackend ==
  /\ pc[Primary] = "topics" /\ ~HasSpec(Primary)
  /\ service' = "spawned" /\ to_serve' = remote_requests
  /\ pc' = [pc EXCEPT ![Primary] = "create"]
  /\ UNCHANGED <<failure, done, topics, serving, backlog, answer, life, wasted>>

-----------------------------------------------------------------------------
(***************************************************************************)
(* service_main, serve_connection                                          *)
(***************************************************************************)
(* A connection whose client process is still there.                       *)
Open(c) == life[c[1]] = c[2] /\ pc[c[1]] # "panicked"

Waiting == {backlog[i][1] : i \in {j \in DOMAIN backlog : Open(backlog[j])}}

(* When the listener is dropped the connections in its backlog are reset.  *)
EndService ==
  /\ service' = "ended"
  /\ backlog' = << >>

ServiceBind ==
  /\ service = "spawned"
  /\ IF to_serve < 1 THEN EndService ELSE service' = "listening" /\ UNCHANGED backlog
  /\ UNCHANGED <<processVars, to_serve, serving, answer, life, wasted>>

Accept ==
  /\ service = "listening" /\ backlog # << >>
  /\ service' = "reading" /\ serving' = Head(backlog) /\ backlog' = Tail(backlog)
  /\ UNCHANGED <<processVars, to_serve, answer, life, wasted>>

(* Mutant: a request whose client is gone is counted, too.                 *)
CountedAlways(c) == TRUE

(* serve_connection's result: the response could be written.               *)
Served(c) == Open(c) /\ topics[Primary][TopicOf(c[1])] # "none"

(* Mutant: the end of the stream is not noticed if the client is gone.     *)
RequestNeeded(c) == Open(c) /\ pc[c[1]] = "await"

RequestComplete(c) == Open(c) => pc[c[1]] = "await"

(* The request is complete at the end of the stream, which is reached too  *)
(* if the client has gone.                                                 *)
ServeConnection ==
  /\ service = "reading"
  /\ RequestComplete(serving)
  /\ LET g    == serving[1]
         left == IF Served(serving) THEN to_serve - 1 ELSE to_serve
         last == left < 1
         response == IF Served(serving) THEN "ok" ELSE "error"
     IN  /\ to_serve' = left
         /\ IF last THEN EndService ELSE service' = "listening" /\ UNCHANGED backlog
         /\ answer' = [h \in Agents |->
              IF h = g /\ Open(serving) THEN response
              ELSE IF last /\ h \in Waiting THEN "reset" ELSE answer[h]]
  /\ UNCHANGED <<processVars, serving, life, wasted>>

-----------------------------------------------------------------------------
(***************************************************************************)
(* initialize_com_secondary, request_primary                               *)
(***************************************************************************)
Start(g) ==
  /\ pc[g] = "off"
  /\ pc' = [pc EXCEPT ![g] = IF HasSpec(g) THEN "topics" ELSE "create"]
  /\ UNCHANGED <<failure, done, topics, serviceVars, backlog, answer, life, wasted>>

Connect(g) ==
  /\ pc[g] = "topics"
  /\ IF service \in {"listening", "reading"}
     THEN /\ backlog' = Append(backlog, <<g, life[g]>>)
          /\ pc' = [pc EXCEPT ![g] = "write"]
          /\ UNCHANGED failure
     ELSE Panic(g, IF service = "ended" THEN "late" ELSE "early") /\ UNCHANGED backlog
  /\ UNCHANGED <<done, topics, serviceVars, answer, life, wasted>>

(* write_all, then the end of the stream.                                  *)
WriteRequest(g) ==
  /\ pc[g] = "write"
  /\ IF answer[g] = "reset" THEN Panic(g, "reset")
     ELSE pc' = [pc EXCEPT ![g] = "await"] /\ UNCHANGED failure
  /\ UNCHANGED <<done, topics, serviceVars, backlog, answer, life, wasted>>

(* init_topic_secondary with the response; anything but "ok" is a panic.   *)
ReadAnswer(g) ==
  /\ pc[g] = "await" /\ answer[g] # "-"
  /\ IF answer[g] = "ok"
     THEN /\ topics' = [topics EXCEPT ![g][TopicOf(g)] = MappingMode(g, TopicOf(g))]
          /\ done' = [done EXCEPT ![g] = @ + 1]
          /\ pc' = [pc EXCEPT ![g] = IF done[g] + 1 < Len(SpecsOf[g]) THEN "topics" ELSE "create"]
          /\ UNCHANGED failure
     ELSE Panic(g, answer[g]) /\ UNCHANGED <<topics, done>>
  /\ answer' = [answer EXCEPT ![g] = "-"]
  /\ UNCHANGED <<serviceVars, backlog, life, wasted>>

(***************************************************************************)
(* The activities of an agent create their inputs and outputs:             *)
(* topic_mapping asserts that the topic is known and, for an output, that  *)
(* it is writable; the first access asserts that it is mapped.             *)
(***************************************************************************)
Provides(mapping, direction) ==
  mapping = "write" \/ (mapping = "read" /\ direction = "Incoming")

CreateActivities(g) ==
  /\ pc[g] = "create"
  /\ IF \A t \in Topics : \A p \in Peers[t] :
          p[1] \in local_activities(g) => Provides(topics[g][t], p[2])
     THEN pc' = [pc EXCEPT ![g] = "running"] /\ UNCHANGED failure
     ELSE Panic(g, "mapping")
  /\ UNCHANGED <<done, topics, serviceVars, backlog, answer, life, wasted>>

(* A secondary process ends, killed or panicked, and can be started again. *)
ProcessEnds(g) ==
  /\ g # Primary /\ pc[g] # "off" /\ life[g] < MaxDeaths
  /\ life' = [life EXCEPT ![g] = @ + 1]
  /\ wasted' = wasted + done[g] + (IF answer[g] = "ok" THEN 1 ELSE 0)
  /\ pc' = [pc EXCEPT ![g] = "off"] /\ failure' = [failure EXCEPT ![g] = "-"]
  /\ done' = [done EXCEPT ![g] = 0]
  /\ topics' = [topics EXCEPT ![g] = [t \in Topics |-> "none"]]
  /\ answer' = [answer EXCEPT ![g] = "-"]
  /\ UNCHANGED <<serviceVars, backlog>>

PrimaryProcess == InitTopicPrimary \/ RunBackend \/ CreateActivities(Primary)
ServiceThread  == ServiceBind \/ Accept \/ ServeConnection
Secondary(g) ==
  Start(g) \/ Connect(g) \/ WriteRequest(g) \/ ReadAnswer(g) \/ CreateActivities(g)

Next ==
  \/ PrimaryProcess \/ ServiceThread
  \/ \E g \in Secondaries : Secondary(g) \/ ProcessEnds(g)

(* Every process runs; nothing has to end.                                 *)
FairSpec ==
  /\ Init /\ [][Next]_vars
  /\ WF_vars(PrimaryProcess) /\ WF_vars(ServiceThread)
  /\ \A g \in Secondaries : WF_vars(Secondary(g))

-----------------------------------------------------------------------------
TypeOK ==
  /\ pc \in [Agents -> {"off", "topics", "write", "await", "create", "running", "panicked"}]
  /\ failure \in [Agents -> {"-", "early", "late", "reset", "error", "mapping"}]
  /\ \A g \in Agents : done[g] \in 0..Len(SpecsOf[g])
  /\ topics \in [Agents -> [Topics -> {"none", "unmapped", "read", "write"}]]
  /\ service \in {"off", "spawned", "listening", "reading", "ended"}
  /\ to_serve \in 0..remote_requests
  /\ answer \in [Agents -> {"-", "ok", "error", "reset"}]

(***************************************************************************)
(* The rights an agent maps a topic with are those its activities need: no *)
(* agent panics when it creates its activities, whatever the order of the  *)
(* processes, and an agent that does not write a topic cannot.  TypeOK     *)
(* says, too, that the service never counts below zero.                    *)
(***************************************************************************)
RightsMatch ==
  /\ TypeOK
  /\ \A g \in Agents :
       /\ failure[g] # "mapping"
       /\ \A t \in Topics : topics[g][t] = "write" =>
            \E p \in Peers[t] : AgentOf[p[1]] = g /\ p[2] = "Outgoing"

(***************************************************************************)
(* The number of requests computed beforehand is large enough: as long as  *)
(* no process that had been answered has ended, the service neither ends   *)
(* before everyone is served nor refuses a topic, even if secondaries came *)
(* too early, panicked and were started again, or died while asking.       *)
(***************************************************************************)
ServiceOutlastsRequests ==
  wasted = 0 =>
    \A g \in Secondaries :
      /\ failure[g] \notin {"late", "reset", "error"}
      /\ service = "ended" => pc[g] \in {"off", "await", "create", "running"}
                              /\ (pc[g] = "off" => SpecsOf[g] = << >>)
                              /\ (pc[g] = "await" => answer[g] = "ok")

(***************************************************************************)
(* A secondary that has reached the service gets all its activities        *)
(* running, unless answers were wasted or it ends itself: requests are     *)
(* served one after the other, and none can hold up the others for ever.   *)
(***************************************************************************)
ConnectedGetRunning ==
  \A g \in Secondaries :
    pc[g] = "write" ~> pc[g] = "running" \/ wasted > 0 \/ pc[g] = "off"
=============================================================================
