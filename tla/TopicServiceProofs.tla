-------------------------- MODULE TopicServiceProofs --------------------------
(***************************************************************************)
(* Topic initialisation for any number of agents, activities and topics:   *)
(* every agent gets the rights its activities need, and the number of      *)
(* requests the service counts down from is never too small.               *)
(***************************************************************************)
EXTENDS TopicService, Integers, FiniteSetTheorems, FunctionTheorems, TLAPS

-----------------------------------------------------------------------------
(* The inductive invariant.                                                *)

Types ==
  /\ TypeOK
  /\ done \in [Agents -> Nat] /\ life \in [Agents -> Nat] /\ wasted \in Nat

(* What init_topic_primary and init_topic_secondary map a topic with.      *)
MappingOf(g, t) == IF Uses(g, t) THEN MappingMode(g, t) ELSE "unmapped"

Initialised(g) == {SpecsOf[g][i] : i \in 1..done[g]}

Mapped ==
  \A g \in Agents, t \in Topics :
    topics[g][t] = IF t \in Initialised(g) THEN MappingOf(g, t) ELSE "none"

Progress ==
  /\ pc[Primary] \in {"topics", "create", "running"}
  /\ service = "off" <=> pc[Primary] = "topics"
  /\ \A g \in Agents :
       /\ failure[g] # "mapping"
       /\ pc[g] \in {"create", "running"} => done[g] = Len(SpecsOf[g])
  /\ \A g \in Secondaries :
       /\ pc[g] \in {"topics", "write", "await", "panicked"} => done[g] < Len(SpecsOf[g])
       /\ pc[g] = "off" => done[g] = 0 /\ failure[g] = "-"

(* A process whose connection is open is the one that asks on it, and has  *)
(* not been answered.                                                      *)
Asking(c) ==
  /\ c[2] <= life[c[1]]
  /\ Open(c) => pc[c[1]] \in {"write", "await"} /\ answer[c[1]] = "-"

Connections ==
  /\ backlog \in Seq(Secondaries \X Nat)
  /\ service \in {"off", "spawned", "ended"} => backlog = << >>
  /\ service = "reading" => /\ serving \in Secondaries \X Nat /\ Asking(serving)
                            /\ \A i \in DOMAIN backlog : Open(serving) => backlog[i] # serving
  /\ \A i \in DOMAIN backlog : Asking(backlog[i])
  /\ \A i, j \in DOMAIN backlog : i # j /\ Open(backlog[i]) => backlog[i] # backlog[j]
  /\ \A g \in Secondaries : /\ answer[g] = "ok" => pc[g] = "await"
                            /\ answer[g] # "-" => pc[g] \in {"write", "await", "panicked"}

(* The requests there will be, and those that were answered.               *)
Pairs == {c \in Secondaries \X Nat : c[2] \in 1..Len(SpecsOf[c[1]])}

Delivered ==
  {c \in Pairs : c[2] <= done[c[1]] \/ (c[2] = done[c[1]] + 1 /\ answer[c[1]] = "ok")}

Budget ==
  /\ service \in {"off", "spawned"} => \A g \in Secondaries : done[g] = 0 /\ answer[g] = "-"
  /\ service \in {"listening", "reading"} => to_serve >= 1
  /\ service = "ended" => to_serve = 0
  /\ wasted = 0 /\ service # "off" => to_serve + Cardinality(Delivered) = remote_requests
  /\ \A g \in Secondaries : answer[g] # "error" /\ failure[g] # "error"
  /\ wasted = 0 => \A g \in Secondaries : answer[g] # "reset" /\ failure[g] \notin {"late", "reset"}

ServiceInv == Types /\ Mapped /\ Progress /\ Connections /\ Budget

-----------------------------------------------------------------------------
(* The configuration.                                                      *)
LEMMA Configuration ==
  /\ Primary \in Agents /\ Primary \notin Secondaries /\ Secondaries \subseteq Agents
  /\ \A g \in Agents : /\ g = Primary \/ g \in Secondaries
                       /\ SpecsOf[g] \in Seq(Topics) /\ Len(SpecsOf[g]) \in Nat
                       /\ \A i \in 1..Len(SpecsOf[g]) : SpecsOf[g][i] \in Topics
  BY TopicAssumption DEF Secondaries

LEMMA SecondaryUses ==
  ASSUME NEW g \in Secondaries, NEW i \in 1..Len(SpecsOf[g])
  PROVE  Uses(g, SpecsOf[g][i])
  <1>. DEFINE t == SpecsOf[g][i]
              at == {j \in DOMAIN SpecsOf[g] : SpecsOf[g][j] = t}
  <1>1. g \in Agents /\ t \in Topics /\ i \in DOMAIN SpecsOf[g]
    BY Configuration
  <1>2. at = {} \/ (Cardinality(at) = 1 /\ (g = Primary \/ Uses(g, t)))
    BY <1>1, TopicAssumption
  <1>3. i \in at
    BY <1>1
  <1>. QED  BY <1>2, <1>3, Configuration

LEMMA SpecsDistinct ==
  ASSUME NEW g \in Agents, NEW i \in 1..Len(SpecsOf[g]), NEW j \in 1..Len(SpecsOf[g]),
         SpecsOf[g][i] = SpecsOf[g][j]
  PROVE  i = j
  <1>. DEFINE t == SpecsOf[g][i]
              at == {k \in DOMAIN SpecsOf[g] : SpecsOf[g][k] = t}
  <1>1. t \in Topics /\ DOMAIN SpecsOf[g] = 1..Len(SpecsOf[g]) /\ Len(SpecsOf[g]) \in Nat
    BY Configuration
  <1>2. at = {} \/ Cardinality(at) = 1
    BY <1>1, TopicAssumption
  <1>3. i \in at /\ j \in at
    BY <1>1
  <1>4. IsFiniteSet(at)
    <2>1. IsFiniteSet(1..Len(SpecsOf[g]))
      BY <1>1, FS_Interval
    <2>2. at \subseteq 1..Len(SpecsOf[g])
      BY <1>1
    <2>. QED  BY <2>1, <2>2, FS_Subset
  <1>5. PICK x : at = {x}
    BY <1>2, <1>3, <1>4, FS_Singleton
  <1>. QED  BY <1>3, <1>5

(* The requests remote_requests counts: one for each remote peer.          *)
Requests == {x \in Topics \X (remote_activities \X Directions) : x[2] \in Peers[x[1]]}

LEMMA RequestsFinite == IsFiniteSet(Requests) /\ Cardinality(Requests) \in Nat
  <1>1. IsFiniteSet(Directions)
    <2>1. Directions = {"Incoming"} \cup {"Outgoing"}
      BY DEF Directions
    <2>. QED  BY <2>1, FS_Singleton, FS_AddElement
  <1>2. IsFiniteSet(remote_activities)
    BY TopicAssumption, FS_Subset DEF remote_activities
  <1>3. IsFiniteSet(remote_activities \X Directions)
    BY <1>1, <1>2, FS_Product
  <1>4. IsFiniteSet(Topics \X (remote_activities \X Directions))
    BY <1>3, TopicAssumption, FS_Product
  <1>5. Requests \in SUBSET (Topics \X (remote_activities \X Directions))
    BY DEF Requests
  <1>. QED  BY <1>4, <1>5, FS_Subset, FS_CardinalityType

(* Every topic of a secondary has a request of its own.                    *)
LEMMA RequestsSuffice ==
  /\ IsFiniteSet(Pairs) /\ Cardinality(Pairs) \in Nat
  /\ remote_requests \in Nat /\ Cardinality(Pairs) <= remote_requests
  <1>. DEFINE Of(c, x) == x[1] = SpecsOf[c[1]][c[2]] /\ AgentOf[x[2][1]] = c[1]
              f == [c \in Pairs |-> CHOOSE x \in Requests : Of(c, x)]
  <1>1. ASSUME NEW c \in Pairs PROVE \E x \in Requests : Of(c, x)
    <2>. DEFINE t == SpecsOf[c[1]][c[2]]
    <2>1. c[1] \in Secondaries /\ c[2] \in 1..Len(SpecsOf[c[1]])
      BY DEF Pairs
    <2>2. t \in Topics /\ Uses(c[1], t)
      BY <2>1, Configuration, SecondaryUses
    <2>3. PICK q \in Peers[t] : q[1] \in local_activities(c[1])
      BY <2>2 DEF Uses
    <2>4. q \in Activities \X Directions
      BY <2>2, <2>3, TopicAssumption
    <2>5. q[1] \in remote_activities /\ AgentOf[q[1]] = c[1]
      BY <2>1, <2>3, Configuration DEF local_activities, remote_activities
    <2>6. q \in remote_activities \X Directions
      BY <2>4, <2>5
    <2>7. <<t, q>> \in Requests
      BY <2>2, <2>3, <2>6 DEF Requests
    <2>8. Of(c, <<t, q>>)
      BY <2>5
    <2>. QED  BY <2>7, <2>8
  <1>2. \A c \in Pairs : f[c] \in Requests /\ Of(c, f[c])
    BY <1>1
  <1>3. ASSUME NEW a \in Pairs, NEW b \in Pairs, f[a] = f[b] PROVE a = b
    <2>1. a[1] = b[1] /\ SpecsOf[a[1]][a[2]] = SpecsOf[b[1]][b[2]]
      BY <1>2, <1>3
    <2>2. /\ a \in Secondaries \X Nat /\ b \in Secondaries \X Nat /\ a[1] \in Agents
          /\ a[2] \in 1..Len(SpecsOf[a[1]]) /\ b[2] \in 1..Len(SpecsOf[a[1]])
      BY <2>1, Configuration DEF Pairs
    <2>3. a[2] = b[2]
      BY <2>1, <2>2, SpecsDistinct
    <2>. QED  BY <2>1, <2>2, <2>3
  <1>. HIDE DEF f
  <1>4. f \in Injection(Pairs, Requests)
    <2>1. f \in [Pairs -> Requests]
      BY <1>2 DEF f
    <2>. QED  BY <1>3, <2>1, Fun_IsInj
  <1>5. IsFiniteSet(Pairs) /\ Cardinality(Pairs) <= Cardinality(Requests)
    BY <1>4, RequestsFinite, FS_Injection
  <1>6. remote_requests = Cardinality(Requests) + Cardinality(Topics) * MaxAdditional
    BY DEF remote_requests, Requests
  <1>7. Cardinality(Topics) \in Nat /\ MaxAdditional \in Nat
    BY TopicAssumption, FS_CardinalityType
  <1>8. Cardinality(Topics) * MaxAdditional \in Nat
    BY <1>7
  <1>9. Cardinality(Pairs) \in Nat
    BY <1>5, FS_CardinalityType
  <1>. QED  BY <1>5, <1>6, <1>8, <1>9, RequestsFinite

(* When the service has answered as often as it meant to, everyone has     *)
(* been served.                                                            *)
LEMMA AllDelivered ==
  ASSUME NEW D \in SUBSET Pairs, Cardinality(D) >= remote_requests
  PROVE  D = Pairs
  <1>1. IsFiniteSet(D) /\ Cardinality(D) <= Cardinality(Pairs) /\ Cardinality(D) \in Nat
    BY RequestsSuffice, FS_Subset, FS_CardinalityType
  <1>2. Cardinality(Pairs) = Cardinality(D)
    BY <1>1, RequestsSuffice
  <1>. QED  BY <1>2, RequestsSuffice, FS_Subset

LEMMA DeliveredFinite ==
  /\ Delivered \in SUBSET Pairs /\ IsFiniteSet(Delivered) /\ Cardinality(Delivered) \in Nat
  <1>1. Delivered \in SUBSET Pairs
    BY DEF Delivered
  <1>. QED  BY <1>1, RequestsSuffice, FS_Subset, FS_CardinalityType

-----------------------------------------------------------------------------
(* The rights.                                                             *)
LEMMA ModeTypes ==
  ASSUME NEW g, NEW t
  PROVE  /\ MappingMode(g, t) \in {"read", "write"}
         /\ MappingOf(g, t) \in {"unmapped", "read", "write"}
  BY DEF MappingMode, MappingOf

LEMMA NextTopic ==
  ASSUME Types, NEW g \in Agents, done[g] < Len(SpecsOf[g])
  PROVE  /\ TopicOf(g) \in Topics /\ done[g] + 1 \in 1..Len(SpecsOf[g])
         /\ g \in Secondaries => MappingOf(g, TopicOf(g)) = MappingMode(g, TopicOf(g))
         /\ \A h \in Agents : done' = [done EXCEPT ![g] = @ + 1] =>
              Initialised(h)' = IF h = g THEN Initialised(g) \cup {TopicOf(g)} ELSE Initialised(h)
  <1>1. done[g] \in Nat /\ done[g] + 1 \in 1..Len(SpecsOf[g])
    BY Configuration DEF Types
  <1>2. TopicOf(g) \in Topics
    BY <1>1, Configuration DEF TopicOf
  <1>3. g \in Secondaries => MappingOf(g, TopicOf(g)) = MappingMode(g, TopicOf(g))
    BY <1>1, SecondaryUses DEF MappingOf, TopicOf
  <1>4. ASSUME NEW h \in Agents, done' = [done EXCEPT ![g] = done[g] + 1]
        PROVE  Initialised(h)' = IF h = g THEN Initialised(g) \cup {TopicOf(g)} ELSE Initialised(h)
    <2>1. done'[h] = IF h = g THEN done[g] + 1 ELSE done[h]
      BY <1>4, <1>1 DEF Types
    <2>2. 1..(done[g] + 1) = 1..done[g] \cup {done[g] + 1}
      BY <1>1
    <2>. QED  BY <2>1, <2>2 DEF Initialised, TopicOf
  <1>. QED  BY <1>1, <1>2, <1>3, <1>4

LEMMA InitInvariant == Init => ServiceInv
  <1>. SUFFICES ASSUME Init PROVE ServiceInv
    OBVIOUS
  <1>. USE Configuration
  <1>1. Types
    <2>1. done \in [Agents -> Nat] /\ \A g \in Agents : done[g] \in 0..Len(SpecsOf[g])
      BY DEF Init
    <2>2. to_serve \in 0..remote_requests
      BY RequestsSuffice DEF Init
    <2>. QED  BY <2>1, <2>2 DEF Init, Types, TypeOK
  <1>2. Mapped
    BY DEF Init, Mapped, Initialised
  <1>3. Progress
    BY DEF Init, Progress
  <1>4. Connections
    BY DEF Init, Connections
  <1>5. Budget
    BY DEF Init, Budget
  <1>. QED  BY <1>1, <1>2, <1>3, <1>4, <1>5 DEF ServiceInv

-----------------------------------------------------------------------------
(* Steps that change neither topics nor what has been initialised.         *)
LEMMA MappedFrame ==
  ASSUME Mapped, UNCHANGED <<topics, done>>
  PROVE  Mapped'
  BY DEF Mapped, Initialised

LEMMA MappedAdd ==
  ASSUME Types, Mapped, NEW g \in Agents, NEW t \in Topics, done[g] < Len(SpecsOf[g]), t = TopicOf(g),
         done' = [done EXCEPT ![g] = @ + 1],
         topics' = [topics EXCEPT ![g][t] = MappingOf(g, t)]
  PROVE  Mapped'
  <1>. SUFFICES ASSUME NEW h \in Agents, NEW u \in Topics
                PROVE  topics'[h][u] = IF u \in Initialised(h)' THEN MappingOf(h, u) ELSE "none"
    BY DEF Mapped, MappingOf, MappingMode
  <1>1. Initialised(h)' = IF h = g THEN Initialised(g) \cup {t} ELSE Initialised(h)
    BY NextTopic
  <1>2. topics'[h][u] = IF h = g /\ u = t THEN MappingOf(g, t) ELSE topics[h][u]
    BY DEF Types, TypeOK
  <1>3. topics[h][u] = IF u \in Initialised(h) THEN MappingOf(h, u) ELSE "none"
    BY DEF Mapped
  <1>. QED  BY <1>1, <1>2, <1>3

LEMMA MappedStep ==
  ASSUME Types, Mapped, Progress, Next
  PROVE  Mapped'
  <1>. USE Configuration
  <1>1. CASE InitTopicPrimary
    <2>. PICK t : t = TopicOf(Primary)
      OBVIOUS
    <2>1. /\ done[Primary] < Len(SpecsOf[Primary]) /\ done' = [done EXCEPT ![Primary] = @ + 1]
          /\ topics' = [topics EXCEPT ![Primary][t] = MappingOf(Primary, t)]
      BY <1>1 DEF InitTopicPrimary, HasSpec, MappingOf
    <2>. QED  BY <2>1, NextTopic, MappedAdd
  <1>2. ASSUME NEW g \in Secondaries, ReadAnswer(g), answer[g] = "ok"
        PROVE  Mapped'
    <2>. PICK t : t = TopicOf(g)
      OBVIOUS
    <2>1. /\ done[g] < Len(SpecsOf[g]) /\ done' = [done EXCEPT ![g] = @ + 1]
          /\ topics' = [topics EXCEPT ![g][t] = MappingMode(g, t)]
      BY <1>2 DEF ReadAnswer, Progress
    <2>2. MappingMode(g, t) = MappingOf(g, t)
      BY <2>1, NextTopic
    <2>. QED  BY <2>1, <2>2, NextTopic, MappedAdd
  <1>3. ASSUME NEW g \in Secondaries, ProcessEnds(g)
        PROVE  Mapped'
    <2>1. /\ done' = [done EXCEPT ![g] = 0]
          /\ topics' = [topics EXCEPT ![g] = [t \in Topics |-> "none"]]
      BY <1>3 DEF ProcessEnds
    <2>2. \A h \in Agents : Initialised(h)' = IF h = g THEN {} ELSE Initialised(h)
      BY <2>1 DEF Types, Initialised
    <2>. QED  BY <2>1, <2>2 DEF Types, TypeOK, Mapped
  <1>4. CASE /\ ~InitTopicPrimary
             /\ ~ \E g \in Secondaries : ProcessEnds(g) \/ (ReadAnswer(g) /\ answer[g] = "ok")
    <2>1. UNCHANGED <<topics, done>>
      BY <1>4 DEF Next, PrimaryProcess, ServiceThread, Secondary, RunBackend, CreateActivities,
         ServiceBind, Accept, ServeConnection, Start, Connect, WriteRequest, ReadAnswer, processVars
    <2>. QED  BY <2>1, MappedFrame
  <1>. QED  BY <1>1, <1>2, <1>3, <1>4

(***************************************************************************)
(* An agent that has initialised all its topics can create its activities. *)
(***************************************************************************)
LEMMA AllProvided ==
  ASSUME Types, Mapped, NEW g \in Agents, done[g] = Len(SpecsOf[g]),
         NEW t \in Topics, NEW q \in Peers[t], q[1] \in local_activities(g)
  PROVE  Provides(topics[g][t], q[2])
  <1>. USE Configuration
  <1>1. Uses(g, t)
    BY DEF Uses
  <1>2. PICK i \in DOMAIN SpecsOf[g] : SpecsOf[g][i] = t
    BY <1>1, TopicAssumption
  <1>3. t \in Initialised(g)
    BY <1>2 DEF Initialised
  <1>4. topics[g][t] = MappingMode(g, t)
    BY <1>1, <1>3 DEF Mapped, MappingOf
  <1>5. q[2] \in Directions
    BY TopicAssumption
  <1>6. CASE q[2] = "Outgoing"
    BY <1>4, <1>6 DEF MappingMode, is_write, Provides
  <1>7. CASE q[2] = "Incoming"
    BY <1>4, <1>7, ModeTypes DEF Provides
  <1>. QED  BY <1>5, <1>6, <1>7 DEF Directions

-----------------------------------------------------------------------------
LEMMA TypesStep ==
  ASSUME Types, Progress, Budget, Next
  PROVE  Types'
  <1>. USE Configuration DEF Types, TypeOK
  <1>1. CASE InitTopicPrimary
    <2>. PICK m \in {"unmapped", "read", "write"} : m = MappingOf(Primary, TopicOf(Primary))
      BY ModeTypes
    <2>1. /\ done[Primary] < Len(SpecsOf[Primary]) /\ done' = [done EXCEPT ![Primary] = @ + 1]
          /\ topics' = [topics EXCEPT ![Primary][TopicOf(Primary)] = m]
          /\ UNCHANGED <<pc, failure, service, to_serve, serving, backlog, answer, life, wasted>>
      BY <1>1 DEF InitTopicPrimary, HasSpec, MappingOf, serviceVars
    <2>2. done' \in [Agents -> Nat] /\ \A g \in Agents : done'[g] \in 0..Len(SpecsOf[g])
      BY <2>1
    <2>3. topics' \in [Agents -> [Topics -> {"none", "unmapped", "read", "write"}]]
      BY <2>1
    <2>. QED  BY <2>1, <2>2, <2>3
  <1>2. CASE RunBackend \/ ServiceBind \/ Accept
    <2>1. /\ UNCHANGED <<failure, done, topics, answer, life, wasted>>
          /\ pc' = pc \/ pc' = [pc EXCEPT ![Primary] = "create"]
          /\ service' \in {"spawned", "ended", "listening", "reading"}
          /\ to_serve' = to_serve \/ to_serve' = remote_requests
      BY <1>2 DEF RunBackend, ServiceBind, Accept, EndService, processVars
    <2>. QED  BY <2>1, RequestsSuffice
  <1>3. CASE ServeConnection
    <2>1. to_serve >= 1
      BY <1>3 DEF ServeConnection, Budget
    <2>2. /\ to_serve' = to_serve \/ to_serve' = to_serve - 1
          /\ service' \in {"ended", "listening"}
          /\ answer' \in [Agents -> {"-", "ok", "error", "reset"}]
          /\ UNCHANGED <<pc, failure, done, topics, life, wasted>>
      BY <1>3 DEF ServeConnection, EndService, processVars
    <2>3. to_serve' \in 0..remote_requests
      BY <2>1, <2>2, RequestsSuffice
    <2>. QED  BY <2>2, <2>3
  <1>4. ASSUME NEW g \in Agents, CreateActivities(g) PROVE Types'
    <2>1. /\ \E q \in {"running", "panicked"} : pc' = [pc EXCEPT ![g] = q]
          /\ failure' = failure \/ failure' = [failure EXCEPT ![g] = "mapping"]
          /\ UNCHANGED <<done, topics, service, to_serve, answer, life, wasted>>
      BY <1>4 DEF CreateActivities, Panic, serviceVars
    <2>. QED  BY ZenonT(40), <2>1
  <1>5. ASSUME NEW g \in Secondaries, Start(g) \/ Connect(g) \/ WriteRequest(g) PROVE Types'
    <2>1. /\ \E q \in {"topics", "create", "write", "await", "panicked"} : pc' = [pc EXCEPT ![g] = q]
          /\ failure' = failure
             \/ \E q \in {"late", "early", "reset"} : failure' = [failure EXCEPT ![g] = q]
          /\ UNCHANGED <<done, topics, service, to_serve, answer, life, wasted>>
      BY <1>5 DEF Start, Connect, WriteRequest, Panic, serviceVars
    <2>2. pc' \in [Agents -> {"off", "topics", "write", "await", "create", "running", "panicked"}]
      BY <2>1
    <2>3. failure' \in [Agents -> {"-", "early", "late", "reset", "error", "mapping"}]
      BY <2>1
    <2>. QED  BY <2>1, <2>2, <2>3
  <1>6. ASSUME NEW g \in Secondaries, ReadAnswer(g) PROVE Types'
    <2>. PICK m \in {"read", "write"} : m = MappingMode(g, TopicOf(g))
      BY ModeTypes
    <2>1. /\ \E q \in {"topics", "create", "panicked"} : pc' = [pc EXCEPT ![g] = q]
          /\ failure' = failure
             \/ (answer[g] \in {"error", "reset"} /\ failure' = [failure EXCEPT ![g] = answer[g]])
          /\ done' = done \/ done' = [done EXCEPT ![g] = @ + 1]
          /\ topics' = topics \/ topics' = [topics EXCEPT ![g][TopicOf(g)] = m]
          /\ answer' = [answer EXCEPT ![g] = "-"]
          /\ UNCHANGED <<service, to_serve, life, wasted>>
      BY <1>6 DEF ReadAnswer, Panic, serviceVars
    <2>2. done[g] < Len(SpecsOf[g])
      BY <1>6 DEF ReadAnswer, Progress
    <2>3. done' \in [Agents -> Nat] /\ \A h \in Agents : done'[h] \in 0..Len(SpecsOf[h])
      <3>1. CASE done' = done
        BY <3>1
      <3>2. CASE done' = [done EXCEPT ![g] = @ + 1]
        BY <3>2, <2>2
      <3>. QED  BY <3>1, <3>2, <2>1
    <2>4. topics' \in [Agents -> [Topics -> {"none", "unmapped", "read", "write"}]]
      <3>1. [topics EXCEPT ![g][TopicOf(g)] = m]
              \in [Agents -> [Topics -> {"none", "unmapped", "read", "write"}]]
        OBVIOUS
      <3>. QED  BY <2>1, <3>1
    <2>5. failure' \in [Agents -> {"-", "early", "late", "reset", "error", "mapping"}]
      BY <2>1
    <2>6. /\ pc' \in [Agents -> {"off", "topics", "write", "await", "create", "running", "panicked"}]
          /\ answer' \in [Agents -> {"-", "ok", "error", "reset"}]
      BY <2>1
    <2>. QED  BY <2>1, <2>3, <2>4, <2>5, <2>6
  <1>7. ASSUME NEW g \in Secondaries, ProcessEnds(g) PROVE Types'
    <2>1. /\ pc' = [pc EXCEPT ![g] = "off"] /\ failure' = [failure EXCEPT ![g] = "-"]
          /\ done' = [done EXCEPT ![g] = 0] /\ life' = [life EXCEPT ![g] = @ + 1]
          /\ topics' = [topics EXCEPT ![g] = [t \in Topics |-> "none"]]
          /\ answer' = [answer EXCEPT ![g] = "-"]
          /\ UNCHANGED <<service, to_serve>>
      BY <1>7 DEF ProcessEnds, serviceVars
    <2>2. wasted' \in Nat
      BY <1>7 DEF ProcessEnds
    <2>3. done' \in [Agents -> Nat] /\ \A h \in Agents : done'[h] \in 0..Len(SpecsOf[h])
      BY <2>1
    <2>4. topics' \in [Agents -> [Topics -> {"none", "unmapped", "read", "write"}]]
      BY <2>1
    <2>. QED  BY <2>1, <2>2, <2>3, <2>4
  <1>. QED  BY <1>1, <1>2, <1>3, <1>4, <1>5, <1>6, <1>7
            DEF Next, PrimaryProcess, ServiceThread, Secondary

-----------------------------------------------------------------------------
LEMMA ProgressStep ==
  ASSUME Types, Mapped, Progress, Next
  PROVE  Progress'
  <1>. USE Configuration DEF Types, TypeOK
  <1>1. CASE InitTopicPrimary
    <2>1. /\ pc[Primary] = "topics" /\ done[Primary] < Len(SpecsOf[Primary])
          /\ done' = [done EXCEPT ![Primary] = @ + 1] /\ UNCHANGED <<pc, failure, service>>
      BY <1>1 DEF InitTopicPrimary, HasSpec, serviceVars
    <2>. QED  BY <2>1 DEF Progress
  <1>2. CASE RunBackend
    <2>1. /\ pc[Primary] = "topics" /\ ~(done[Primary] < Len(SpecsOf[Primary])) /\ service' = "spawned"
          /\ pc' = [pc EXCEPT ![Primary] = "create"] /\ UNCHANGED <<done, failure>>
      BY <1>2 DEF RunBackend, HasSpec
    <2>2. done[Primary] = Len(SpecsOf[Primary])
      BY <2>1
    <2>. QED  BY <2>1, <2>2 DEF Progress
  <1>3. CASE ServiceThread
    <2>1. service # "off" /\ service' # "off" /\ UNCHANGED <<pc, failure, done>>
      BY <1>3 DEF ServiceThread, ServiceBind, Accept, ServeConnection, EndService, processVars
    <2>. QED  BY <2>1 DEF Progress
  <1>4. ASSUME NEW g \in Agents, CreateActivities(g) PROVE Progress'
    <2>1. pc[g] = "create" /\ done[g] = Len(SpecsOf[g])
      BY <1>4 DEF CreateActivities, Progress
    <2>2. /\ pc' = [pc EXCEPT ![g] = "running"] /\ UNCHANGED <<failure, done, service>>
      BY <1>4, <2>1, AllProvided DEF CreateActivities, serviceVars
    <2>3. service # "off" \/ g # Primary
      BY <2>1 DEF Progress
    <2>. QED  BY <2>1, <2>2, <2>3 DEF Progress
  <1>5. ASSUME NEW g \in Secondaries, Start(g) PROVE Progress'
    <2>1. /\ pc[g] = "off" /\ done[g] = 0 /\ done[g] <= Len(SpecsOf[g])
          /\ pc' = [pc EXCEPT ![g] = IF done[g] < Len(SpecsOf[g]) THEN "topics" ELSE "create"]
          /\ UNCHANGED <<failure, done, service>>
      BY <1>5 DEF Start, HasSpec, serviceVars, Progress
    <2>. QED  BY <2>1 DEF Progress
  <1>6. ASSUME NEW g \in Secondaries, Connect(g) \/ WriteRequest(g) PROVE Progress'
    <2>1. /\ pc[g] \in {"topics", "write"}
          /\ \E q \in {"write", "await", "panicked"} : pc' = [pc EXCEPT ![g] = q]
          /\ failure' = failure \/ \E q \in {"late", "early", "reset"} : failure' = [failure EXCEPT ![g] = q]
          /\ failure' # failure => pc'[g] = "panicked"
          /\ UNCHANGED <<done, service>>
      BY <1>6 DEF Connect, WriteRequest, Panic, serviceVars
    <2>. QED  BY <2>1 DEF Progress
  <1>7. ASSUME NEW g \in Secondaries, ReadAnswer(g) PROVE Progress'
    <2>1. pc[g] = "await" /\ done[g] < Len(SpecsOf[g]) /\ done[g] \in Nat
      BY <1>7 DEF ReadAnswer, Progress
    <2>2. CASE answer[g] = "ok"
      <3>1. /\ done' = [done EXCEPT ![g] = done[g] + 1]
            /\ pc' = [pc EXCEPT ![g] = IF done[g] + 1 < Len(SpecsOf[g]) THEN "topics" ELSE "create"]
            /\ UNCHANGED <<failure, service>>
        BY <1>7, <2>2 DEF ReadAnswer, serviceVars
      <3>2. CASE done[g] + 1 < Len(SpecsOf[g])
        BY <3>1, <3>2, <2>1 DEF Progress
      <3>3. CASE done[g] + 1 = Len(SpecsOf[g])
        BY <3>1, <3>3, <2>1 DEF Progress
      <3>. QED  BY <3>2, <3>3, <2>1
    <2>3. CASE answer[g] # "ok"
      <3>1. /\ pc' = [pc EXCEPT ![g] = "panicked"] /\ failure' = [failure EXCEPT ![g] = answer[g]]
            /\ answer[g] # "mapping" /\ UNCHANGED <<done, service>>
        BY <1>7, <2>3 DEF ReadAnswer, Panic, serviceVars
      <3>. QED  BY <3>1, <2>1 DEF Progress
    <2>. QED  BY <2>2, <2>3
  <1>8. ASSUME NEW g \in Secondaries, ProcessEnds(g) PROVE Progress'
    <2>1. /\ pc' = [pc EXCEPT ![g] = "off"] /\ failure' = [failure EXCEPT ![g] = "-"]
          /\ done' = [done EXCEPT ![g] = 0] /\ UNCHANGED service
      BY <1>8 DEF ProcessEnds, serviceVars
    <2>. QED  BY <2>1 DEF Progress
  <1>. QED  BY <1>1, <1>2, <1>3, <1>4, <1>5, <1>6, <1>7, <1>8 DEF Next, PrimaryProcess, Secondary

-----------------------------------------------------------------------------
LEMMA BacklogTypes ==
  ASSUME Connections, NEW i \in DOMAIN backlog
  PROVE  /\ backlog[i] \in Secondaries \X Nat /\ backlog[i][1] \in Secondaries
         /\ backlog[i][2] \in Nat /\ backlog[i] = <<backlog[i][1], backlog[i][2]>>
  BY DEF Connections

(* A step of one process, which opens no connection that was closed.       *)
LEMMA ConnectionsFrame ==
  ASSUME Connections, NEW g \in Agents, UNCHANGED <<backlog, serving, service>>,
         \A h \in Agents \ {g} : pc'[h] = pc[h] /\ answer'[h] = answer[h] /\ life'[h] = life[h],
         \A c \in Secondaries \X Nat : c[1] = g /\ Asking(c) => Asking(c)' /\ (Open(c)' => Open(c)),
         g \in Secondaries => /\ answer'[g] = "ok" => pc'[g] = "await"
                              /\ answer'[g] # "-" => pc'[g] \in {"write", "await", "panicked"}
  PROVE  Connections'
  <1>. USE Configuration
  <1>1. ASSUME NEW c \in Secondaries \X Nat, Asking(c)
        PROVE  Asking(c)' /\ (Open(c)' => Open(c))
    <2>1. CASE c[1] = g
      BY <1>1, <2>1
    <2>2. CASE c[1] # g
      BY <1>1, <2>2 DEF Asking, Open
    <2>. QED  BY <2>1, <2>2
  <1>2. \A c \in Secondaries \X Nat : Asking(c) => Asking(c)' /\ (Open(c)' => Open(c))
    BY <1>1
  <1>3. \A i \in DOMAIN backlog : Asking(backlog[i])' /\ (Open(backlog[i])' => Open(backlog[i]))
    <2>. SUFFICES ASSUME NEW i \in DOMAIN backlog
                  PROVE  Asking(backlog[i])' /\ (Open(backlog[i])' => Open(backlog[i]))
      OBVIOUS
    <2>. PICK c \in Secondaries \X Nat : c = backlog[i]
      BY BacklogTypes
    <2>1. Asking(c)' /\ (Open(c)' => Open(c))
      BY <1>2 DEF Connections
    <2>2. backlog'[i] = c
      OBVIOUS
    <2>. QED  BY <2>1, <2>2 DEF Asking, Open
  <1>4. service = "reading" => Asking(serving)' /\ (Open(serving)' => Open(serving))
    <2>. SUFFICES ASSUME service = "reading"
                  PROVE  Asking(serving)' /\ (Open(serving)' => Open(serving))
      OBVIOUS
    <2>. PICK c \in Secondaries \X Nat : c = serving
      BY DEF Connections
    <2>1. Asking(c)' /\ (Open(c)' => Open(c))
      BY <1>2 DEF Connections
    <2>2. serving' = c
      OBVIOUS
    <2>. QED  BY <2>1, <2>2 DEF Asking, Open
  <1>5. \A h \in Secondaries : /\ answer'[h] = "ok" => pc'[h] = "await"
                               /\ answer'[h] # "-" => pc'[h] \in {"write", "await", "panicked"}
    BY DEF Connections
  <1>. QED  BY <1>3, <1>4, <1>5 DEF Connections

LEMMA ConnectionsStep ==
  ASSUME Types, Mapped, Progress, Connections, Next
  PROVE  Connections'
  <1>. USE Configuration
  <1>1. CASE InitTopicPrimary \/ RunBackend \/ CreateActivities(Primary)
    <2>1. /\ UNCHANGED <<backlog, serving, answer, life>>
          /\ service' = service \/ (service = "off" /\ service' = "spawned")
          /\ \A h \in Secondaries : pc'[h] = pc[h]
      BY <1>1 DEF InitTopicPrimary, RunBackend, CreateActivities, Panic, serviceVars, Types, TypeOK, Progress
    <2>2. ASSUME NEW c \in Secondaries \X Nat PROVE (Asking(c)' <=> Asking(c)) /\ (Open(c)' <=> Open(c))
      BY <2>1 DEF Asking, Open
    <2>3. \A i \in DOMAIN backlog : (Asking(backlog[i])' <=> Asking(backlog[i])) /\ (Open(backlog[i])' <=> Open(backlog[i]))
      BY <2>1, BacklogTypes DEF Asking, Open
    <2>4. service = "reading" => (Asking(serving)' <=> Asking(serving)) /\ (Open(serving)' <=> Open(serving))
      BY <2>1 DEF Asking, Open, Connections
    <2>. QED  BY <2>1, <2>3, <2>4 DEF Connections
  <1>2. CASE ServiceBind
    <2>1. backlog = << >> /\ service' # "reading" /\ backlog' = << >> /\ UNCHANGED <<pc, answer>>
      BY <1>2 DEF ServiceBind, EndService, Connections, processVars
    <2>2. backlog' \in Seq(Secondaries \X Nat) /\ DOMAIN backlog' = {}
      BY <2>1
    <2>. QED  BY <2>1, <2>2 DEF Connections
  <1>3. CASE Accept
    <2>1. /\ backlog # << >> /\ service = "listening" /\ service' = "reading"
          /\ serving' = Head(backlog) /\ backlog' = Tail(backlog)
          /\ UNCHANGED <<pc, answer, life>>
      BY <1>3 DEF Accept, processVars
    <2>2. /\ backlog' \in Seq(Secondaries \X Nat) /\ serving' = backlog[1]
          /\ 1 \in DOMAIN backlog
          /\ \A i \in DOMAIN backlog' : i + 1 \in DOMAIN backlog /\ i + 1 # 1 /\ backlog'[i] = backlog[i + 1]
          /\ \A i, j \in DOMAIN backlog' : i # j => i + 1 # j + 1
      BY <2>1 DEF Connections
    <2>4. \A i \in DOMAIN backlog' : Asking(backlog[i + 1])
      BY <2>2 DEF Connections
    <2>5. \A i \in DOMAIN backlog' : Asking(backlog[i])'
      BY <2>1, <2>2, <2>4 DEF Asking, Open
    <2>6. Asking(serving)'
      BY <2>1, <2>2 DEF Connections, Asking, Open
    <2>7. ASSUME NEW i \in DOMAIN backlog', Open(serving)'
          PROVE  backlog'[i] # serving'
      <3>1. Open(backlog[1])
        BY <2>1, <2>2, <2>7 DEF Open
      <3>2. i + 1 \in DOMAIN backlog /\ i + 1 # 1
        BY <2>2
      <3>3. backlog[1] # backlog[i + 1]
        BY <3>1, <3>2, <2>2 DEF Connections
      <3>. QED  BY <3>3, <2>2
    <2>8. \A i, j \in DOMAIN backlog' : i # j /\ Open(backlog[i])' => backlog'[i] # backlog'[j]
      BY <2>1, <2>2 DEF Connections, Open
    <2>9. serving' \in Secondaries \X Nat
      BY <2>2, BacklogTypes
    <2>. QED  BY <2>1, <2>2, <2>5, <2>6, <2>7, <2>8, <2>9 DEF Connections
  <1>4. CASE ServeConnection
    <2>1. /\ service = "reading" /\ RequestComplete(serving) /\ serving \in Secondaries \X Nat
          /\ Asking(serving)
          /\ UNCHANGED <<serving, pc, life, topics, done>>
      BY <1>4 DEF ServeConnection, Connections, processVars
    <2>2. ASSUME NEW h \in Secondaries, answer'[h] # answer[h], answer'[h] # "reset"
          PROVE  h = serving[1] /\ Open(serving) /\ pc[h] = "await"
      BY <1>4, <2>1, <2>2 DEF ServeConnection, RequestComplete
    <2>3. ASSUME NEW h \in Secondaries, answer'[h] # answer[h], answer'[h] = "reset"
          PROVE  pc[h] \in {"write", "await"} /\ service' = "ended"
      <3>1. h \in Waiting /\ service' = "ended"
        BY <1>4, <2>3 DEF ServeConnection, EndService
      <3>2. PICK i \in DOMAIN backlog : Open(backlog[i]) /\ backlog[i][1] = h
        BY <3>1 DEF Waiting
      <3>. QED  BY <3>1, <3>2 DEF Connections, Asking
    <2>4. \A h \in Secondaries : /\ answer'[h] = "ok" => pc'[h] = "await"
                                 /\ answer'[h] # "-" => pc'[h] \in {"write", "await", "panicked"}
      BY <2>1, <2>2, <2>3 DEF Connections
    <2>5. CASE service' = "ended"
      <3>1. backlog' = << >>
        BY <1>4, <2>5 DEF ServeConnection, EndService
      <3>. QED  BY <3>1, <2>4, <2>5 DEF Connections
    <2>6. CASE service' # "ended"
      <3>1. service' = "listening" /\ backlog' = backlog
        BY <1>4, <2>6 DEF ServeConnection, EndService
      <3>2. ASSUME NEW i \in DOMAIN backlog
            PROVE  Asking(backlog[i])'
        <4>1. backlog[i] \in Secondaries \X Nat /\ Asking(backlog[i])
          BY BacklogTypes DEF Connections
        <4>2. ASSUME Open(backlog[i]) PROVE answer'[backlog[i][1]] = answer[backlog[i][1]]
          <5>1. CASE backlog[i][1] = serving[1] /\ Open(serving)
            <6>1. backlog[i][2] = serving[2]
              BY <4>2, <5>1 DEF Open
            <6>2. backlog[i] = serving
              BY <4>1, <2>1, <5>1, <6>1
            <6>. QED  BY <6>2, <5>1, <2>1 DEF Connections
          <5>2. CASE ~(backlog[i][1] = serving[1] /\ Open(serving))
            BY <5>2, <4>1, <2>2, <2>3, <2>6
          <5>. QED  BY <5>1, <5>2
        <4>. QED  BY <4>1, <4>2, <3>1, <2>1 DEF Asking, Open
      <3>3. \A i, j \in DOMAIN backlog' : i # j /\ Open(backlog[i])' => backlog'[i] # backlog'[j]
        BY <3>1, <2>1 DEF Connections, Open
      <3>4. \A i \in DOMAIN backlog' : Asking(backlog[i])'
        BY <3>1, <3>2
      <3>. QED  BY <3>1, <3>3, <3>4, <2>4 DEF Connections
    <2>. QED  BY <2>5, <2>6
  <1>5. ASSUME NEW g \in Secondaries, Connect(g), service \in {"listening", "reading"}
        PROVE  Connections'
    <2>. PICK new \in Secondaries \X Nat : new = <<g, life[g]>>
      BY DEF Types
    <2>1. /\ pc[g] = "topics" /\ pc' = [pc EXCEPT ![g] = "write"] /\ backlog' = Append(backlog, new)
          /\ UNCHANGED <<service, serving, answer, life>>
      BY <1>5 DEF Connect, serviceVars
    <2>2. answer[g] = "-"
      BY <2>1 DEF Connections
    <2>3. ASSUME NEW c \in Secondaries \X Nat, Asking(c)
          PROVE  Asking(c)' /\ (Open(c)' <=> Open(c)) /\ (Open(c) => c # new)
      BY <2>1, <2>3 DEF Asking, Open, Types, TypeOK
    <2>4. \A c \in Secondaries \X Nat : Asking(c) =>
            Asking(c)' /\ (Open(c)' <=> Open(c)) /\ (Open(c) => c # new)
      BY <2>3
    <2>5. /\ backlog' \in Seq(Secondaries \X Nat) /\ Len(backlog) \in Nat
          /\ DOMAIN backlog' = DOMAIN backlog \cup {Len(backlog) + 1} /\ Len(backlog) + 1 \notin DOMAIN backlog
          /\ backlog'[Len(backlog) + 1] = new
          /\ \A i \in DOMAIN backlog : backlog'[i] = backlog[i]
      BY <2>1 DEF Connections
    <2>6. Asking(new)'
      BY <2>1, <2>2 DEF Asking, Types, TypeOK
    <2>7. ASSUME NEW i \in DOMAIN backlog'
          PROVE  Asking(backlog[i])' /\ (backlog'[i] # new => i \in DOMAIN backlog)
      <3>1. CASE i \in DOMAIN backlog
        <4>. PICK c \in Secondaries \X Nat : c = backlog[i]
          BY <3>1, BacklogTypes
        <4>1. Asking(c)' /\ backlog'[i] = c
          BY <3>1, <2>4, <2>5 DEF Connections
        <4>. QED  BY <3>1, <4>1 DEF Asking, Open
      <3>2. CASE i = Len(backlog) + 1
        BY <3>2, <2>5, <2>6 DEF Asking, Open
      <3>. QED  BY <3>1, <3>2, <2>5
    <2>8. ASSUME NEW i \in DOMAIN backlog', NEW j \in DOMAIN backlog', i # j, Open(backlog[i])'
          PROVE  backlog'[i] # backlog'[j]
      <3>1. ASSUME NEW k \in DOMAIN backlog, Open(backlog[k])'
            PROVE  Open(backlog[k]) /\ backlog[k] # new
        <4>. PICK c \in Secondaries \X Nat : c = backlog[k]
          BY BacklogTypes
        <4>1. Asking(c) /\ backlog'[k] = c
          BY <2>5 DEF Connections
        <4>2. Open(c)'
          BY <3>1, <4>1 DEF Open
        <4>. QED  BY <4>1, <4>2, <2>4
      <3>2. CASE i \in DOMAIN backlog /\ j \in DOMAIN backlog
        BY <3>1, <3>2, <2>5, <2>8 DEF Connections
      <3>3. CASE i \in DOMAIN backlog /\ j = Len(backlog) + 1
        BY <3>1, <3>3, <2>5, <2>8
      <3>4. CASE i = Len(backlog) + 1 /\ j \in DOMAIN backlog
        <4>. SUFFICES ASSUME backlog'[j] = new PROVE FALSE
          BY <3>4, <2>5
        <4>1. Open(backlog[j])'
          BY <3>4, <2>5, <2>8 DEF Open
        <4>. QED  BY <4>1, <3>1, <3>4, <2>5
      <3>. QED  BY <3>2, <3>3, <3>4, <2>5, <2>8
    <2>9. service = "reading" => /\ Asking(serving)'
                                 /\ \A i \in DOMAIN backlog' : Open(serving)' => backlog'[i] # serving'
      <3>. SUFFICES ASSUME service = "reading"
                    PROVE  /\ Asking(serving)'
                           /\ \A i \in DOMAIN backlog' : Open(serving)' => backlog'[i] # serving'
        OBVIOUS
      <3>. PICK c \in Secondaries \X Nat : c = serving
        BY DEF Connections
      <3>1. Asking(c)' /\ (Open(c)' <=> Open(c)) /\ (Open(c) => c # new)
        BY <2>4 DEF Connections
      <3>2. serving' = c
        BY <2>1
      <3>3. Asking(serving)' /\ (Open(serving)' => Open(serving) /\ serving # new)
        BY <3>1, <3>2 DEF Asking, Open
      <3>. QED  BY <3>2, <3>3, <2>5 DEF Connections
    <2>10. \A h \in Secondaries : /\ answer'[h] = "ok" => pc'[h] = "await"
                                  /\ answer'[h] # "-" => pc'[h] \in {"write", "await", "panicked"}
      BY <2>1, <2>2 DEF Connections, Types, TypeOK
    <2>11. \A i \in DOMAIN backlog' : Asking(backlog[i])'
      BY <2>7
    <2>12. \A i, j \in DOMAIN backlog' : i # j /\ Open(backlog[i])' => backlog'[i] # backlog'[j]
      BY <2>8
    <2>13. service' = service /\ serving' = serving /\ service \notin {"off", "spawned", "ended"}
      BY <1>5, <2>1
    <2>14. service' = "reading" =>
             /\ serving' \in Secondaries \X Nat /\ Asking(serving)'
             /\ \A i \in DOMAIN backlog' : Open(serving)' => backlog'[i] # serving'
      BY <2>9, <2>13 DEF Connections
    <2>. QED  BY <2>5, <2>10, <2>11, <2>12, <2>13, <2>14 DEF Connections
  <1>6. ASSUME NEW g \in Secondaries,
               \/ Start(g) \/ WriteRequest(g) \/ ReadAnswer(g) \/ CreateActivities(g) \/ ProcessEnds(g)
               \/ Connect(g) /\ service \notin {"listening", "reading"}
        PROVE  Connections'
    <2>. USE DEF Types, TypeOK
    <2>1. /\ UNCHANGED <<backlog, serving, service>>
          /\ \A h \in Agents \ {g} : pc'[h] = pc[h] /\ answer'[h] = answer[h] /\ life'[h] = life[h]
      BY <1>6 DEF Start, WriteRequest, ReadAnswer, CreateActivities, ProcessEnds, Connect, Panic, serviceVars
    <2>2. ASSUME NEW c \in Secondaries \X Nat, c[1] = g, Asking(c)
          PROVE  Asking(c)' /\ (Open(c)' => Open(c))
      <3>1. CASE Start(g)
        BY <2>2, <3>1 DEF Start, Asking, Open
      <3>2. CASE WriteRequest(g)
        BY <2>2, <3>2 DEF WriteRequest, Panic, Asking, Open
      <3>3. CASE ReadAnswer(g)
        BY <2>2, <3>3 DEF ReadAnswer, Panic, Asking, Open
      <3>4. CASE CreateActivities(g)
        BY <2>2, <3>4 DEF CreateActivities, Panic, Asking, Open
      <3>5. CASE ProcessEnds(g)
        <4>1. life'[g] = life[g] + 1 /\ life[g] \in Nat /\ c[2] \in Nat /\ c[2] <= life[g]
          BY <2>2, <3>5 DEF ProcessEnds, Asking
        <4>2. c[2] <= life'[g] /\ c[2] # life'[g]
          BY <4>1
        <4>. QED  BY <2>2, <4>2 DEF Asking, Open
      <3>6. CASE Connect(g) /\ service \notin {"listening", "reading"}
        BY <2>2, <3>6 DEF Connect, Panic, Asking, Open
      <3>. QED  BY <1>6, <3>1, <3>2, <3>3, <3>4, <3>5, <3>6
    <2>3. /\ answer'[g] = "ok" => pc'[g] = "await"
          /\ answer'[g] # "-" => pc'[g] \in {"write", "await", "panicked"}
      <3>1. CASE Start(g) \/ CreateActivities(g) \/ Connect(g)
        BY <1>6, <3>1 DEF Start, CreateActivities, Connect, Panic, Connections
      <3>2. CASE WriteRequest(g)
        BY <3>2 DEF WriteRequest, Panic, Connections
      <3>3. CASE ReadAnswer(g) \/ ProcessEnds(g)
        BY <3>3 DEF ReadAnswer, ProcessEnds
      <3>. QED  BY <1>6, <3>1, <3>2, <3>3
    <2>. QED  BY <2>1, <2>2, <2>3, ConnectionsFrame
  <1>. QED  BY <1>1, <1>2, <1>3, <1>4, <1>5, <1>6
            DEF Next, PrimaryProcess, ServiceThread, Secondary

-----------------------------------------------------------------------------
(* The requests and the answers.                                           *)
LEMMA DeliveredFrame ==
  ASSUME \A g \in Secondaries : done'[g] = done[g] /\ (answer'[g] = "ok" <=> answer[g] = "ok")
  PROVE  Delivered' = Delivered
  BY DEF Delivered, Pairs

(* The service is started when the primary has initialised every topic.    *)
LEMMA PrimaryReady ==
  ASSUME Types, Mapped, Progress, service # "off", NEW g \in Secondaries, done[g] < Len(SpecsOf[g])
  PROVE  topics[Primary][TopicOf(g)] # "none"
  <1>. USE Configuration
  <1>. PICK t \in Topics : t = TopicOf(g)
    BY NextTopic
  <1>1. done[Primary] = Len(SpecsOf[Primary])
    BY DEF Progress
  <1>2. PICK i \in DOMAIN SpecsOf[Primary] : SpecsOf[Primary][i] = t
    BY TopicAssumption
  <1>3. t \in Initialised(Primary)
    BY <1>1, <1>2 DEF Initialised
  <1>4. topics[Primary][t] = MappingOf(Primary, t)
    BY <1>3 DEF Mapped
  <1>. QED  BY <1>4, ModeTypes

LEMMA NextPair ==
  ASSUME Types, NEW g \in Secondaries, done[g] < Len(SpecsOf[g])
  PROVE  <<g, done[g] + 1>> \in Pairs /\ <<g, done[g] + 1>>[2] > done[g]
  <1>1. done[g] \in Nat /\ done[g] + 1 \in 1..Len(SpecsOf[g])
    BY Configuration DEF Types
  <1>. QED  BY <1>1 DEF Pairs

(* A service that has ended has answered everyone who still asks.          *)
LEMMA EndedServed ==
  ASSUME Types, Budget, service = "ended", wasted = 0,
         NEW g \in Secondaries, done[g] < Len(SpecsOf[g])
  PROVE  answer[g] = "ok"
  <1>1. Cardinality(Delivered) = remote_requests
    BY DeliveredFinite, RequestsSuffice DEF Budget
  <1>2. Delivered = Pairs
    BY <1>1, DeliveredFinite, AllDelivered, RequestsSuffice
  <1>3. <<g, done[g] + 1>> \in Delivered
    BY <1>2, NextPair
  <1>4. done[g] \in Nat
    BY Configuration DEF Types
  <1>. QED  BY <1>3, <1>4 DEF Delivered

(* Steps that neither start nor end the service, nor answer.               *)
LEMMA BudgetFrame ==
  ASSUME Budget, UNCHANGED to_serve,
         service' = service \/ (service = "listening" /\ service' = "reading"),
         wasted' = 0 => wasted = 0 /\ Delivered' = Delivered,
         service \in {"off", "spawned"} => \A g \in Secondaries : done'[g] = 0,
         \A g \in Secondaries :
           /\ answer'[g] \in {answer[g], "-"}
           /\ failure'[g] \in {failure[g], "-", "early", "mapping"}
              \/ (failure'[g] \in {"late", "reset"} /\ wasted' # 0)
  PROVE  Budget'
  <1>1. CASE service' = service
    BY <1>1 DEF Budget
  <1>2. CASE service = "listening" /\ service' = "reading"
    BY <1>2 DEF Budget
  <1>. QED  BY <1>1, <1>2

(* One more answer, to a client that waits for it.                         *)
LEMMA DeliveredMore ==
  ASSUME Types, NEW g \in Secondaries, done[g] < Len(SpecsOf[g]), answer[g] # "ok", answer'[g] = "ok",
         UNCHANGED done,
         \A h \in Secondaries \ {g} : answer'[h] = "ok" <=> answer[h] = "ok"
  PROVE  Cardinality(Delivered') = Cardinality(Delivered) + 1
  <1>. DEFINE d == <<g, done[g] + 1>>
  <1>1. done[g] \in Nat /\ d \in Pairs
    BY NextPair, Configuration DEF Types
  <1>2. d \notin Delivered
    BY <1>1 DEF Delivered
  <1>3. ASSUME NEW c \in Pairs
        PROVE  (c[2] <= done'[c[1]] \/ (c[2] = done'[c[1]] + 1 /\ answer'[c[1]] = "ok"))
               <=> (c \in Delivered \/ c = d)
    <2>1. c[1] \in Secondaries /\ c = <<c[1], c[2]>>
      BY DEF Pairs
    <2>2. CASE c[1] # g
      BY <2>1, <2>2 DEF Delivered
    <2>3. CASE c[1] = g
      BY <2>1, <2>3, <1>1 DEF Delivered
    <2>. QED  BY <2>2, <2>3
  <1>4. Delivered' = Delivered \cup {d}
    BY <1>1, <1>3 DEF Delivered, Pairs
  <1>. QED  BY <1>2, <1>4, DeliveredFinite, FS_AddElement

LEMMA BudgetServe ==
  ASSUME ServiceInv, ServeConnection
  PROVE  Budget'
  <1>. USE Configuration DEF ServiceInv
  <1>. PICK g \in Secondaries, n \in Nat : serving = <<g, n>>
    BY DEF ServeConnection, Connections
  <1>1. /\ service = "reading" /\ Asking(serving) /\ RequestComplete(serving) /\ to_serve >= 1
        /\ to_serve \in Nat /\ service' \in {"listening", "ended"}
        /\ UNCHANGED <<failure, done, wasted>>
    BY RequestsSuffice DEF ServeConnection, EndService, Connections, Budget, Types, TypeOK, processVars
  <1>2. CASE ~Open(serving)
    <2>1. ~Served(serving) /\ to_serve' = to_serve /\ service' = "listening"
          /\ \A h \in Agents : answer'[h] = answer[h]
      BY <1>1, <1>2 DEF ServeConnection, Served
    <2>2. Delivered' = Delivered
      BY <1>1, <2>1, DeliveredFrame
    <2>. QED  BY <1>1, <2>1, <2>2 DEF Budget
  <1>3. CASE Open(serving)
    <2>1. pc[g] = "await" /\ answer[g] = "-" /\ done[g] < Len(SpecsOf[g])
      BY <1>1, <1>3 DEF RequestComplete, Asking, Progress
    <2>2. Served(serving)
      BY <1>1, <1>3, <2>1, PrimaryReady DEF Served
    <2>3. /\ to_serve' = to_serve - 1
          /\ service' = IF to_serve - 1 < 1 THEN "ended" ELSE "listening"
          /\ answer'[g] = "ok"
          /\ \A h \in Agents \ {g} :
               answer'[h] = IF to_serve - 1 < 1 /\ h \in Waiting THEN "reset" ELSE answer[h]
      BY <1>3, <2>2 DEF ServeConnection, EndService
    <2>4. ASSUME NEW h \in Agents, h \in Waiting
          PROVE  h \in Secondaries /\ answer[h] = "-" /\ done[h] < Len(SpecsOf[h])
      <3>1. PICK i \in DOMAIN backlog : Open(backlog[i]) /\ backlog[i][1] = h
        BY <2>4 DEF Waiting
      <3>2. h \in Secondaries /\ answer[h] = "-" /\ pc[h] \in {"write", "await"}
        BY <3>1, BacklogTypes DEF Connections, Asking
      <3>. QED  BY <3>2 DEF Progress
    <2>5. \A h \in Secondaries \ {g} : answer'[h] = "ok" <=> answer[h] = "ok"
      BY <2>3, <2>4
    <2>6. Cardinality(Delivered') = Cardinality(Delivered) + 1
      BY <1>1, <2>1, <2>3, <2>5, DeliveredMore
    <2>7. wasted' = 0 => to_serve' + Cardinality(Delivered') = remote_requests
      BY <1>1, <2>3, <2>6, DeliveredFinite, RequestsSuffice DEF Budget
    <2>8. ASSUME wasted' = 0, NEW h \in Secondaries, h # g, to_serve - 1 < 1, h \in Waiting
          PROVE  FALSE
      <3>1. to_serve' = 0
        BY <1>1, <2>3, <2>8
      <3>2. /\ Delivered' \in SUBSET Pairs
            /\ Cardinality(Delivered') = remote_requests
        <4>1. Delivered' \in SUBSET Pairs
          BY DEF Delivered, Pairs
        <4>. QED  BY <4>1, <2>6, <2>7, <2>8, <3>1, DeliveredFinite, RequestsSuffice
      <3>. PICK D \in SUBSET Pairs : D = Delivered'
        BY <3>2
      <3>3. D = Pairs
        BY <3>2, AllDelivered, RequestsSuffice
      <3>4. done[h] < Len(SpecsOf[h]) /\ answer[h] = "-"
        BY <2>4, <2>8
      <3>5. <<h, done[h] + 1>> \in Delivered' /\ done[h] \in Nat
        BY <3>3, <3>4, NextPair DEF Types
      <3>6. done'[h] = done[h] /\ answer'[h] = "reset"
        BY <1>1, <2>3, <2>8
      <3>. QED  BY <3>5, <3>6 DEF Delivered
    <2>9. \A h \in Secondaries : /\ answer'[h] # "error"
                                 /\ wasted' = 0 => answer'[h] # "reset"
      BY <1>1, <2>3, <2>8 DEF Budget
    <2>10. service' = "listening" => to_serve' >= 1
      BY <1>1, <2>3
    <2>11. service' = "ended" => to_serve' = 0
      BY <1>1, <2>3
    <2>. QED  BY <1>1, <2>7, <2>9, <2>10, <2>11 DEF Budget
  <1>. QED  BY <1>2, <1>3

LEMMA BudgetStart ==
  ASSUME ServiceInv, RunBackend \/ ServiceBind
  PROVE  Budget'
  <1>. USE Configuration DEF ServiceInv
  <1>1. /\ UNCHANGED <<failure, done, answer, wasted>>
        /\ service \in {"off", "spawned"}
    BY DEF RunBackend, ServiceBind, Progress, processVars
  <1>2. Delivered = {} /\ Delivered' = Delivered
    <2>1. Delivered' = Delivered
      BY <1>1, DeliveredFrame
    <2>2. Delivered = {}
      BY <1>1 DEF Budget, Delivered, Pairs
    <2>. QED  BY <2>1, <2>2
  <1>3. Cardinality(Delivered') = 0
    BY <1>2, FS_EmptySet
  <1>4. wasted' = 0 => to_serve' = remote_requests
    <2>1. CASE RunBackend
      BY <2>1 DEF RunBackend
    <2>2. CASE ServiceBind
      BY <2>2, <1>2, <1>3, RequestsSuffice DEF ServiceBind, Budget, Types, TypeOK
    <2>. QED  BY <2>1, <2>2
  <1>5. /\ service' \in {"spawned", "listening", "ended"}
        /\ service' = "listening" => to_serve' >= 1
        /\ service' = "ended" => to_serve' = 0
    BY RequestsSuffice DEF RunBackend, ServiceBind, EndService, Types, TypeOK
  <1>. QED  BY <1>1, <1>3, <1>4, <1>5, RequestsSuffice DEF Budget

LEMMA BudgetStep ==
  ASSUME ServiceInv, Next
  PROVE  Budget'
  <1>. USE Configuration DEF ServiceInv
  <1>1. CASE InitTopicPrimary \/ CreateActivities(Primary) \/ Accept
    <2>1. /\ UNCHANGED <<to_serve, answer, wasted>>
          /\ \A g \in Secondaries : done'[g] = done[g] /\ failure'[g] = failure[g]
          /\ service' = service \/ (service = "listening" /\ service' = "reading")
      BY <1>1 DEF InitTopicPrimary, CreateActivities, Panic, Accept, serviceVars, processVars, Types, TypeOK
    <2>2. Delivered' = Delivered
      BY <2>1, DeliveredFrame
    <2>. QED  BY <2>1, <2>2, BudgetFrame DEF Budget
  <1>2. ASSUME NEW g \in Secondaries, Start(g) \/ CreateActivities(g) \/ Connect(g) \/ WriteRequest(g)
        PROVE  Budget'
    <2>1. UNCHANGED <<to_serve, service, done, answer, wasted>>
      BY <1>2 DEF Start, CreateActivities, Connect, WriteRequest, serviceVars
    <2>2. Delivered' = Delivered
      BY <2>1, DeliveredFrame
    <2>3. \A h \in Secondaries \ {g} : failure'[h] = failure[h]
      BY <1>2 DEF Start, CreateActivities, Connect, WriteRequest, Panic, Types, TypeOK
    <2>4. \/ failure'[g] \in {failure[g], "-", "early", "mapping"}
          \/ failure'[g] \in {"late", "reset"} /\ wasted # 0
      <3>1. CASE Start(g) \/ CreateActivities(g)
        BY <3>1 DEF Start, CreateActivities, Panic, Types, TypeOK
      <3>2. CASE Connect(g)
        <4>1. failure'[g] \in {failure[g], "early"} \/ (failure'[g] = "late" /\ service = "ended")
          BY <3>2 DEF Connect, Panic, Types, TypeOK
        <4>2. answer[g] # "ok" /\ done[g] < Len(SpecsOf[g])
          BY <3>2 DEF Connect, Connections, Progress
        <4>. QED  BY <4>1, <4>2, EndedServed
      <3>3. CASE WriteRequest(g)
        BY <3>3 DEF WriteRequest, Panic, Types, TypeOK, Budget
      <3>. QED  BY <1>2, <3>1, <3>2, <3>3
    <2>. QED  BY <2>1, <2>2, <2>3, <2>4, BudgetFrame DEF Budget
  <1>3. ASSUME NEW g \in Secondaries, ReadAnswer(g)
        PROVE  Budget'
    <2>1. /\ UNCHANGED <<to_serve, service, wasted>> /\ answer[g] # "-"
          /\ service \notin {"off", "spawned"}
          /\ \A h \in Secondaries : answer'[h] = IF h = g THEN "-" ELSE answer[h]
          /\ \A h \in Secondaries \ {g} : failure'[h] = failure[h] /\ done'[h] = done[h]
      BY <1>3 DEF ReadAnswer, Panic, serviceVars, Types, TypeOK, Budget
    <2>2. CASE answer[g] = "ok"
      <3>1. failure' = failure /\ done'[g] = done[g] + 1 /\ done[g] \in Nat
        BY <1>3, <2>2 DEF ReadAnswer, Types
      <3>2. ASSUME NEW c \in Pairs
            PROVE  (c[2] <= done'[c[1]] \/ (c[2] = done'[c[1]] + 1 /\ answer'[c[1]] = "ok"))
                   <=> c \in Delivered
        <4>1. c[1] \in Secondaries /\ c[2] \in Nat
          BY DEF Pairs
        <4>2. CASE c[1] # g
          BY <4>1, <4>2, <2>1 DEF Delivered
        <4>3. CASE c[1] = g
          <5>1. /\ done'[c[1]] = done[g] + 1 /\ answer'[c[1]] = "-"
                /\ done[c[1]] = done[g] /\ answer[c[1]] = "ok"
            BY <4>3, <2>1, <2>2, <3>1
          <5>2. c \in Delivered <=> c[2] <= done[g] \/ c[2] = done[g] + 1
            BY <5>1 DEF Delivered
          <5>. QED  BY <5>1, <5>2, <4>1, <3>1
        <4>. QED  BY <4>2, <4>3
      <3>3. Delivered' = Delivered
        BY <3>2 DEF Delivered, Pairs
      <3>. QED  BY <2>1, <3>1, <3>3, BudgetFrame
    <2>3. CASE answer[g] # "ok"
      <3>1. done' = done /\ failure'[g] = "reset" /\ wasted # 0
        BY <1>3, <2>1, <2>3 DEF ReadAnswer, Panic, Types, TypeOK, Budget
      <3>. QED  BY <2>1, <3>1, BudgetFrame
    <2>. QED  BY <2>2, <2>3
  <1>4. ASSUME NEW g \in Secondaries, ProcessEnds(g)
        PROVE  Budget'
    <2>1. /\ UNCHANGED <<to_serve, service>> /\ wasted \in Nat /\ done[g] \in Nat
          /\ wasted' = wasted + done[g] + (IF answer[g] = "ok" THEN 1 ELSE 0)
          /\ \A h \in Secondaries : /\ answer'[h] = IF h = g THEN "-" ELSE answer[h]
                                    /\ done'[h] = IF h = g THEN 0 ELSE done[h]
                                    /\ failure'[h] = IF h = g THEN "-" ELSE failure[h]
      BY <1>4 DEF ProcessEnds, serviceVars, Types, TypeOK
    <2>2. wasted' = 0 => wasted = 0 /\ done[g] = 0 /\ answer[g] # "ok"
      <3>. PICK more \in {0, 1} : more = IF answer[g] = "ok" THEN 1 ELSE 0
        OBVIOUS
      <3>1. wasted' = wasted + done[g] + more
        BY <2>1
      <3>2. wasted' = 0 => wasted = 0 /\ done[g] = 0 /\ more = 0
        BY <2>1, <3>1
      <3>. QED  BY <3>2
    <2>3. ASSUME wasted' = 0 PROVE Delivered' = Delivered
      <3>1. \A h \in Secondaries : done'[h] = done[h] /\ (answer'[h] = "ok" <=> answer[h] = "ok")
        BY <2>1, <2>2, <2>3
      <3>. QED  BY <3>1, DeliveredFrame
    <2>4. service \in {"off", "spawned"} => \A h \in Secondaries : done'[h] = 0
      BY <2>1 DEF Budget
    <2>. QED  BY <2>1, <2>2, <2>3, <2>4, BudgetFrame
  <1>. QED  BY <1>1, <1>2, <1>3, <1>4, BudgetServe, BudgetStart
            DEF Next, PrimaryProcess, ServiceThread, Secondary

-----------------------------------------------------------------------------
LEMMA StepInvariant == ServiceInv /\ [Next]_vars => ServiceInv'
  <1>1. ASSUME ServiceInv, Next PROVE ServiceInv'
    <2>1. Types /\ Mapped /\ Progress /\ Connections /\ Budget
      BY <1>1 DEF ServiceInv
    <2>. QED  BY <1>1, <2>1, TypesStep, MappedStep, ProgressStep, ConnectionsStep, BudgetStep DEF ServiceInv
  <1>2. ASSUME ServiceInv, UNCHANGED vars PROVE ServiceInv'
    <2>1. UNCHANGED <<pc, failure, done, topics, service, to_serve, serving, backlog, answer, life, wasted>>
      BY <1>2 DEF vars, processVars, serviceVars
    <2>2. Types'
      BY <1>2, <2>1 DEF ServiceInv, Types, TypeOK
    <2>3. Mapped' /\ Progress'
      BY <1>2, <2>1 DEF ServiceInv, Mapped, Initialised, Progress
    <2>4. Connections'
      BY <1>2, <2>1 DEF ServiceInv, Connections, Asking, Open
    <2>5. Budget'
      BY <1>2, <2>1, DeliveredFrame DEF ServiceInv, Budget
    <2>. QED  BY <2>2, <2>3, <2>4, <2>5 DEF ServiceInv
  <1>. QED  BY <1>1, <1>2

(***************************************************************************)
(* The state of the agents, the connections to the service and the number  *)
(* of requests it still has to serve go together, whatever the processes   *)
(* do and in whatever order.                                               *)
(***************************************************************************)
THEOREM ServiceInvariant == FairSpec => []ServiceInv
  <1>1. FairSpec => Init /\ [][Next]_vars
    BY PTL DEF FairSpec
  <1>. QED  BY <1>1, InitInvariant, StepInvariant, PTL

(***************************************************************************)
(* com_init.rs: every agent maps a topic with the rights its activities    *)
(* need, so topic_mapping's assertions hold, and a topic is writable only  *)
(* where an activity writes it; requests_to_serve is not counted below     *)
(* zero.                                                                   *)
(***************************************************************************)
THEOREM AgentsGetTheirRights == FairSpec => []RightsMatch
  <1>1. ServiceInv => RightsMatch
    <2>. SUFFICES ASSUME ServiceInv PROVE RightsMatch
      OBVIOUS
    <2>1. TypeOK /\ \A g \in Agents : failure[g] # "mapping"
      BY DEF ServiceInv, Types, Progress
    <2>2. ASSUME NEW g \in Agents, NEW t \in Topics, topics[g][t] = "write"
          PROVE  \E q \in Peers[t] : AgentOf[q[1]] = g /\ q[2] = "Outgoing"
      <3>1. MappingOf(g, t) = "write"
        BY <2>2 DEF ServiceInv, Mapped
      <3>2. is_write(g, t)
        BY <3>1 DEF MappingOf, MappingMode
      <3>. QED  BY <3>2 DEF is_write, local_activities
    <2>. QED  BY <2>1, <2>2 DEF RightsMatch
  <1>. QED  BY <1>1, ServiceInvariant, PTL

(***************************************************************************)
(* service_main: as long as no process that had been answered has ended,   *)
(* requests_to_serve does not run out before everyone is served.           *)
(***************************************************************************)
THEOREM RequestsLastLongEnough == FairSpec => []ServiceOutlastsRequests
  <1>1. ServiceInv => ServiceOutlastsRequests
    <2>. SUFFICES ASSUME ServiceInv, wasted = 0, NEW g \in Secondaries
                  PROVE  /\ failure[g] \notin {"late", "reset", "error"}
                         /\ service = "ended" =>
                              /\ pc[g] \in {"off", "await", "create", "running"}
                              /\ (pc[g] = "off" => SpecsOf[g] = << >>)
                              /\ (pc[g] = "await" => answer[g] = "ok")
      BY DEF ServiceOutlastsRequests
    <2>. USE Configuration DEF ServiceInv
    <2>1. failure[g] \notin {"late", "reset", "error"}
      BY DEF Budget
    <2>2. ASSUME service = "ended"
          PROVE  done[g] < Len(SpecsOf[g]) => answer[g] = "ok" /\ pc[g] = "await"
      BY <2>2, EndedServed DEF Connections
    <2>3. pc[g] \in {"topics", "write", "await", "panicked"} => done[g] < Len(SpecsOf[g])
      BY DEF Progress
    <2>4. pc[g] = "off" /\ ~(done[g] < Len(SpecsOf[g])) => SpecsOf[g] = << >>
      BY DEF Progress
    <2>. QED  BY <2>1, <2>2, <2>3, <2>4 DEF Types, TypeOK
  <1>. QED  BY <1>1, ServiceInvariant, PTL
=============================================================================
