------------------------------- MODULE FeoProofs -------------------------------
(***************************************************************************)
(* Proofs about the direct-signalling system, for every configuration: any *)
(* activities and dependencies, any assignment to workers and agents, both *)
(* transports and all faults.                                              *)
(* First the protocol between scheduler and workers and its refinement of  *)
(* TaskChain; then clocks, life cycle and the room on bounded channels.    *)
(***************************************************************************)
EXTENDS FeoInvariant, SequenceTheorems, FunctionTheorems, FiniteSetTheorems, TLAPS

(* What Append and Tail do to the entries of a channel.                    *)
LEMMA AppendFacts ==
  ASSUME NEW S, NEW s \in Seq(S), NEW x \in S
  PROVE  /\ Append(s, x) \in Seq(S)
         /\ Len(Append(s, x)) = Len(s) + 1
         /\ \A i \in 1 .. Len(s) : Append(s, x)[i] = s[i]
         /\ Append(s, x)[Len(s) + 1] = x
  BY AppendProperties

LEMMA TailFacts ==
  ASSUME NEW S, NEW s \in Seq(S), s # << >>
  PROVE  /\ Tail(s) \in Seq(S)
         /\ Len(s) \in Nat /\ Len(s) >= 1
         /\ Len(Tail(s)) = Len(s) - 1
         /\ \A i \in 1 .. Len(s) - 1 : Tail(s)[i] = s[i + 1]
         /\ Head(s) = s[1]
         /\ Head(s) \in S
  BY HeadTailProperties, EmptySeq

(* The signals of Signalling have the types of the channels they go on.    *)
LEMMA SignalTypes ==
  ASSUME NEW a \in Activities, NEW g \in Agents
  PROVE  /\ Startup(a) \in ActivitySignals /\ Startup(a) \in DownSignals
         /\ Step(a) \in ActivitySignals /\ Step(a) \in DownSignals
         /\ Shutdown(a) \in ActivitySignals /\ Shutdown(a) \in DownSignals
         /\ StartupSync \in DownSignals /\ Terminate \in DownSignals
         /\ StartupSync \notin ActivitySignals /\ Terminate \notin ActivitySignals
         /\ Idle \notin ActivitySignals
         /\ Ready(a) \in UpSignals /\ ActivityFailed(a) \in UpSignals
         /\ TerminateAck(g) \in UpSignals
  BY DEF Startup, Step, Shutdown, StartupSync, Terminate, Ready, ActivityFailed, Idle,
         TerminateAck, ActivitySignals, DownSignals, UpSignals

(***************************************************************************)
(* Type correctness, operation by operation.                               *)
(***************************************************************************)
LEMMA SendOkType ==
  ASSUME SignallingTypeOK, NEW w \in Workers, NEW sig \in DownSignals, SendOk(w, sig)
  PROVE  SignallingTypeOK'
  <1>1. Append(down[w], sig) \in Seq(DownSignals)
    BY AppendFacts DEF SignallingTypeOK
  <1>. QED  BY <1>1 DEF SignallingTypeOK, SendOk

LEMMA ReceiveType ==
  ASSUME SignallingTypeOK, NEW w \in Workers, Receive(w)
  PROVE  SignallingTypeOK' /\ Head(up[w]) \in UpSignals
  <1>1. Tail(up[w]) \in Seq(UpSignals) /\ Head(up[w]) \in UpSignals
    BY TailFacts DEF SignallingTypeOK, Receive
  <1>. QED  BY <1>1 DEF SignallingTypeOK, Receive

LEMMA BeginShutdownType ==
  ASSUME SchedulerTypeOK, BeginShutdown
  PROVE  SchedulerTypeOK'
  BY ConfigAssumption DEF SchedulerTypeOK, BeginShutdown, activityStates, PCs, BroadcastTargets

LEMMA ProcessEndsType ==
  ASSUME SignallingTypeOK, SchedulerTypeOK, ProcessEnds
  PROVE  SignallingTypeOK' /\ SchedulerTypeOK'
  BY DEF SignallingTypeOK, SchedulerTypeOK, ProcessEnds, activityStates, pendingAcks, PCs,
         LocalWorkers

LEMMA AwaitAgentsType ==
  ASSUME AwaitAgents
  PROVE  pending_agent_acks' \subseteq Agents /\ pc' \in PCs
  BY ConfigAssumption DEF AwaitAgents, ConnectedAgents, PCs

LEMMA SchedulerStepType ==
  ASSUME SignallingTypeOK, SchedulerTypeOK, SchedulerStep
  PROVE  SignallingTypeOK' /\ SchedulerTypeOK'
  <1>. USE DEF activityStates, pendingAcks, signallingVars, PCs
  <1>1. ASSUME NEW a \in Activities,
               SyncTime(a) \/ StartupActivity(a) \/ StepActivity(a) \/ ShutdownActivity(a)
        PROVE  SignallingTypeOK' /\ SchedulerTypeOK'
    <2>1. WorkerOf[a] \in Workers
      BY ConfigAssumption
    <2>2. /\ StartupSync \in DownSignals /\ Startup(a) \in DownSignals
          /\ Step(a) \in DownSignals /\ Shutdown(a) \in DownSignals
      BY SignalTypes, ConfigAssumption
    <2>3. SignallingTypeOK'
      <3>1. CASE SyncTime(a)
        BY <3>1, <2>1, <2>2, SendOkType DEF SyncTime
      <3>2. CASE StartupActivity(a)
        BY <3>2, <2>1, <2>2, SendOkType DEF StartupActivity
      <3>3. CASE StepActivity(a)
        BY <3>3, <2>1, <2>2, SendOkType DEF StepActivity
      <3>4. CASE ShutdownActivity(a)
        <4>1. CASE SendOk(WorkerOf[a], Shutdown(a))
          BY <4>1, <2>1, <2>2, SendOkType
        <4>2. CASE UNCHANGED signallingVars
          BY <4>2 DEF SignallingTypeOK
        <4>. QED  BY <3>4, <4>1, <4>2 DEF ShutdownActivity
      <3>. QED  BY <1>1, <3>1, <3>2, <3>3, <3>4
    <2>4. SchedulerTypeOK'
      BY <1>1 DEF SyncTime, StartupActivity, StepActivity, ShutdownActivity, SchedulerTypeOK
    <2>. QED  BY <2>3, <2>4
  <1>2. ASSUME NEW a \in Activities, SyncFails(a) \/ StartupPanics(a) \/ StepPanics(a)
        PROVE  SignallingTypeOK' /\ SchedulerTypeOK'
    BY <1>2, ProcessEndsType DEF SyncFails, StartupPanics, StepPanics
  <1>3. ASSUME NEW w \in Workers, WaitNextReady(w)
        PROVE  SignallingTypeOK' /\ SchedulerTypeOK'
    <2>1. SignallingTypeOK' /\ Head(up[w]) \in UpSignals
      BY <1>3, ReceiveType DEF WaitNextReady
    <2>2. CASE Head(up[w]).type = "Ready"
      <3>1. Head(up[w]).id \in Activities
        BY <2>1, <2>2 DEF UpSignals
      <3>2. OnReady(Head(up[w]).id)
        BY <1>3, <2>2 DEF WaitNextReady
      <3>. QED  BY <2>1, <3>1, <3>2 DEF OnReady, SchedulerTypeOK
    <2>3. CASE Head(up[w]).type = "ActivityFailed"
      <3>1. BeginShutdown
        BY <1>3, <2>3 DEF WaitNextReady
      <3>. QED  BY <2>1, <3>1, BeginShutdownType
    <2>4. CASE Head(up[w]).type = "TerminateAck"
      <3>1. UNCHANGED schedulerVars
        BY <1>3, <2>4 DEF WaitNextReady
      <3>. QED  BY <2>1, <3>1 DEF schedulerVars, SchedulerTypeOK
    <2>5. Head(up[w]).type \in {"Ready", "ActivityFailed", "TerminateAck"}
      BY <2>1 DEF UpSignals
    <2>. QED  BY <2>2, <2>3, <2>4, <2>5
  <1>4. ASSUME NEW w \in Workers, ShutdownConfirmed(w) \/ AgentAcked(w)
        PROVE  SignallingTypeOK' /\ SchedulerTypeOK'
    <2>1. SignallingTypeOK'
      BY <1>4, ReceiveType DEF ShutdownConfirmed, AgentAcked
    <2>2. SchedulerTypeOK'
      BY <1>4 DEF ShutdownConfirmed, AgentAcked, SchedulerTypeOK
    <2>. QED  BY <2>1, <2>2
  <1>5. ASSUME NEW w \in Workers, BroadcastTerminate(w)
        PROVE  SignallingTypeOK' /\ SchedulerTypeOK'
    <2>1. Terminate \in DownSignals
      BY DEF DownSignals
    <2>2. SignallingTypeOK'
      BY <1>5, <2>1, SendOkType DEF BroadcastTerminate
    <2>3. pending_agent_acks' \subseteq Agents /\ pc' \in PCs
      BY <1>5, AwaitAgentsType DEF BroadcastTerminate, SchedulerTypeOK
    <2>. QED  BY <1>5, <2>2, <2>3 DEF BroadcastTerminate, SchedulerTypeOK
  <1>6. ASSUME NEW w \in Workers, BroadcastFails(w)
        PROVE  SignallingTypeOK' /\ SchedulerTypeOK'
    <2>1. pending_agent_acks' \subseteq Agents /\ pc' \in PCs
      BY <1>6, AwaitAgentsType DEF BroadcastFails
    <2>. QED  BY <1>6, <2>1 DEF BroadcastFails, SchedulerTypeOK, SignallingTypeOK
  <1>7. CASE SyncDone \/ StartCycle \/ ShutdownTimeout \/ AgentAckTimeout
    BY <1>7 DEF SyncDone, StartCycle, ShutdownTimeout, AgentAckTimeout, SchedulerTypeOK,
                SignallingTypeOK
  <1>8. CASE WaitTimeout \/ WaitError \/ StartupTimeout
    BY <1>8, BeginShutdownType DEF WaitTimeout, WaitError, StartupTimeout, SignallingTypeOK
  <1>9. CASE EndCycle
    <2>1. SignallingTypeOK'
      BY <1>9 DEF EndCycle, SignallingTypeOK
    <2>2. SchedulerTypeOK'
      BY <1>9, BeginShutdownType DEF EndCycle, SchedulerTypeOK
    <2>. QED  BY <2>1, <2>2
  <1>10. CASE JoinWorkers
    BY <1>10, ProcessEndsType DEF JoinWorkers
  <1>. QED
    BY <1>1, <1>2, <1>3, <1>4, <1>5, <1>6, <1>7, <1>8, <1>9, <1>10 DEF SchedulerStep

LEMMA ReplyType ==
  ASSUME SignallingTypeOK, NEW w \in Workers, NEW sig \in UpSignals, Reply(w, sig)
  PROVE  up' \in [Workers -> Seq(UpSignals)]
  <1>1. Append(up[w], sig) \in Seq(UpSignals)
    BY AppendFacts DEF SignallingTypeOK
  <1>. QED  BY <1>1 DEF SignallingTypeOK, Reply

LEMMA TakesType ==
  ASSUME SignallingTypeOK, NEW w \in Workers, Takes(w)
  PROVE  down' \in [Workers -> Seq(DownSignals)]
  <1>1. Tail(down[w]) \in Seq(DownSignals)
    BY TailFacts DEF SignallingTypeOK, Takes
  <1>. QED  BY <1>1 DEF SignallingTypeOK, Takes

LEMMA WorkerStepType ==
  ASSUME SignallingTypeOK, WorkerTypeOK, NEW w \in Workers, WorkerStep(w)
  PROVE  SignallingTypeOK' /\ WorkerTypeOK'
  <1>1. CASE ReceiveSync(w)
    <2>1. AgentOf[w] \in Agents
      BY ConfigAssumption
    <2>2. down' \in [Workers -> Seq(DownSignals)]
      BY <1>1, TakesType DEF ReceiveSync
    <2>. QED  BY <1>1, <2>1, <2>2 DEF ReceiveSync, SignallingTypeOK, WorkerTypeOK
  <1>2. CASE BeginActivity(w)
    BY <1>2, TakesType DEF BeginActivity, SignallingTypeOK, WorkerTypeOK
  <1>3. CASE AckTerminate(w)
    <2>1. TerminateAck(AgentOf[w]) \in UpSignals
      BY ConfigAssumption DEF TerminateAck, UpSignals
    <2>2. up' \in [Workers -> Seq(UpSignals)]
      BY <1>3, <2>1, ReplyType DEF AckTerminate, SignallingTypeOK
    <2>. QED  BY <1>3, <2>2, TakesType DEF AckTerminate, SignallingTypeOK, WorkerTypeOK
  <1>4. CASE ExitWorker(w) \/ Disconnect(w)
    BY <1>4 DEF ExitWorker, Disconnect, SignallingTypeOK, WorkerTypeOK
  <1>5. ASSUME NEW ok \in BOOLEAN, EndActivity(w, ok)
        PROVE  SignallingTypeOK' /\ WorkerTypeOK'
    <2>. DEFINE a == job[w].id
    <2>1. a \in Activities
      BY <1>5 DEF EndActivity, ActivitySignals
    <2>2. Ready(a) \in UpSignals /\ ActivityFailed(a) \in UpSignals
      BY <2>1, SignalTypes, ConfigAssumption
    <2>3. up' \in [Workers -> Seq(UpSignals)]
      BY <1>5, <2>2, ReplyType DEF EndActivity, SignallingTypeOK
    <2>4. LifeAfter(job[w], ok) \in LifeStates
      BY <2>1 DEF LifeAfter, LifeStates, WorkerTypeOK
    <2>. QED  BY <1>5, <2>1, <2>3, <2>4 DEF EndActivity, SignallingTypeOK, WorkerTypeOK
  <1>. QED  BY <1>1, <1>2, <1>3, <1>4, <1>5 DEF WorkerStep

LEMMA TypeStep == TypeOK /\ [Next]_vars => TypeOK'
  <1>. SUFFICES ASSUME TypeOK, [Next]_vars PROVE TypeOK'
    OBVIOUS
  <1>. USE DEF TypeOK
  <1>1. CASE SchedulerMoves
    <2>1. SignallingTypeOK' /\ SchedulerTypeOK'
      BY <1>1, SchedulerStepType DEF SchedulerMoves
    <2>. QED  BY <1>1, <2>1 DEF SchedulerMoves, JobsOfTheLiving, WorkerTypeOK
  <1>2. CASE SignalMoves
    <2>1. SignallingTypeOK' /\ SchedulerTypeOK'
      BY <1>2, ProcessEndsType DEF SignalMoves, CtrlC, signallingVars, activityStates,
                                   pendingAcks, SignallingTypeOK, SchedulerTypeOK
    <2>. QED  BY <1>2, <2>1 DEF SignalMoves, JobsOfTheLiving, WorkerTypeOK
  <1>3. ASSUME NEW w \in Workers, WorkerMoves(w) PROVE TypeOK'
    BY <1>3, WorkerStepType DEF WorkerMoves, schedulerVars, activityStates, pendingAcks,
                                SchedulerTypeOK
  <1>4. CASE FaultMoves
    BY <1>4 DEF FaultMoves, WorkerPanics, AgentKilled, schedulerVars, activityStates,
                pendingAcks, SchedulerTypeOK, SignallingTypeOK, WorkerTypeOK
  <1>5. CASE UNCHANGED vars
    BY <1>5 DEF vars, signallingVars, schedulerVars, workerVars, activityStates, pendingAcks,
                SchedulerTypeOK, SignallingTypeOK, WorkerTypeOK
  <1>. QED  BY <1>1, <1>2, <1>3, <1>4, <1>5 DEF Next

LEMMA TypeInit == Init => TypeOK
  <1>1. ASSUME Init PROVE SignallingTypeOK
    <2>1. << >> \in Seq(DownSignals) /\ << >> \in Seq(UpSignals)
      BY EmptySeq
    <2>. QED  BY <1>1, <2>1 DEF Init, SignallingInit, SignallingTypeOK
  <1>2. ASSUME Init PROVE SchedulerTypeOK
    BY <1>2 DEF Init, SchedulerInit, SchedulerTypeOK, PCs
  <1>3. ASSUME Init PROVE WorkerTypeOK
    BY <1>3, ConfigAssumption DEF Init, WorkerInit, WorkerTypeOK, LifeStates
  <1>. QED  BY <1>1, <1>2, <1>3 DEF TypeOK

(***************************************************************************)
(* Type correctness: every reachable state of scheduler, workers and       *)
(* channels has its declared type; in particular every signal on a channel *)
(* is one its receiver handles.                                            *)
(***************************************************************************)
THEOREM TypeCorrect == Spec => []TypeOK
  BY TypeInit, TypeStep, PTL DEF Spec

-----------------------------------------------------------------------------
(***************************************************************************)
(* Sets of entries, and uniqueness, under Append and Tail.                 *)
(***************************************************************************)
LEMMA AppendRange ==
  ASSUME NEW S, NEW s \in Seq(S), NEW x \in S
  PROVE  /\ Range(Append(s, x)) = Range(s) \cup {x}
         /\ \A T : AtMostOne(s, T) /\ (x \in T => Range(s) \cap T = {})
                     => AtMostOne(Append(s, x), T)
  <1>1. /\ DOMAIN s = 1 .. Len(s) /\ Len(s) \in Nat
        /\ DOMAIN Append(s, x) = 1 .. Len(s) + 1
        /\ \A i \in 1 .. Len(s) : Append(s, x)[i] = s[i]
        /\ Append(s, x)[Len(s) + 1] = x
    BY AppendProperties, LenProperties
  <1>2. Range(Append(s, x)) = Range(s) \cup {x}
    BY <1>1 DEF Range
  <1>3. ASSUME NEW T, AtMostOne(s, T), x \in T => Range(s) \cap T = {}
        PROVE  AtMostOne(Append(s, x), T)
    <2>1. \A i \in DOMAIN s : s[i] \in Range(s)
      BY DEF Range
    <2>. QED  BY <1>1, <1>3, <2>1 DEF AtMostOne
  <1>. QED  BY <1>2, <1>3

LEMMA TailRange ==
  ASSUME NEW S, NEW s \in Seq(S), s # << >>
  PROVE  /\ Range(Tail(s)) \subseteq Range(s) /\ Head(s) \in Range(s)
         /\ Range(s) \subseteq S
         /\ \A T : AtMostOne(s, T) => AtMostOne(Tail(s), T)
         /\ \A T : AtMostOne(s, T) /\ Head(s) \in T => Range(Tail(s)) \cap T = {}
  <1>1. /\ DOMAIN s = 1 .. Len(s) /\ Len(s) \in Nat /\ Len(s) >= 1
        /\ DOMAIN Tail(s) = 1 .. Len(s) - 1
        /\ \A i \in 1 .. Len(s) - 1 : Tail(s)[i] = s[i + 1]
        /\ Head(s) = s[1] 
        /\ \A i \in 1 .. Len(s) : s[i] \in S
    BY HeadTailProperties, LenProperties, ElementOfSeq, EmptySeq
  <1>2. Range(Tail(s)) \subseteq Range(s) /\ Head(s) \in Range(s) /\ Range(s) \subseteq S
    BY <1>1 DEF Range
  <1>3. ASSUME NEW T, AtMostOne(s, T) PROVE AtMostOne(Tail(s), T)
    BY <1>1, <1>3 DEF AtMostOne
  <1>4. ASSUME NEW T, AtMostOne(s, T), Head(s) \in T PROVE Range(Tail(s)) \cap T = {}
    <2>1. \A i \in DOMAIN Tail(s) : Tail(s)[i] \notin T
      BY <1>1, <1>4 DEF AtMostOne
    <2>. QED  BY <2>1 DEF Range
  <1>. QED  BY <1>2, <1>3, <1>4

LEMMA TakesFacts ==
  ASSUME SignallingTypeOK, NEW w \in Workers, Takes(w)
  PROVE  /\ \A v \in Workers : v # w => down'[v] = down[v]
         /\ Range(down'[w]) \subseteq Range(down[w]) /\ Head(down[w]) \in Range(down[w])
         /\ \A T : AtMostOne(down[w], T) => AtMostOne(down'[w], T)
         /\ \A T : AtMostOne(down[w], T) /\ Head(down[w]) \in T => Range(down'[w]) \cap T = {}
  <1>1. /\ down[w] \in Seq(DownSignals) /\ down[w] # << >>
        /\ down'[w] = Tail(down[w])
        /\ \A v \in Workers : v # w => down'[v] = down[v]
    BY DEF SignallingTypeOK, Takes
  <1>. QED  BY <1>1, TailRange

LEMMA ReceiveFacts ==
  ASSUME SignallingTypeOK, NEW w \in Workers, Receive(w)
  PROVE  /\ \A v \in Workers : v # w => up'[v] = up[v]
         /\ Range(up'[w]) \subseteq Range(up[w]) /\ Head(up[w]) \in Range(up[w])
         /\ \A T : AtMostOne(up[w], T) => AtMostOne(up'[w], T)
         /\ \A T : AtMostOne(up[w], T) /\ Head(up[w]) \in T => Range(up'[w]) \cap T = {}
         /\ down' = down /\ gone' = gone
  <1>1. /\ up[w] \in Seq(UpSignals) /\ up[w] # << >>
        /\ up'[w] = Tail(up[w]) /\ down' = down /\ gone' = gone
        /\ \A v \in Workers : v # w => up'[v] = up[v]
    BY DEF SignallingTypeOK, Receive
  <1>. QED  BY <1>1, TailRange

LEMMA ReplyFacts ==
  ASSUME SignallingTypeOK, NEW w \in Workers, NEW sig \in UpSignals, Reply(w, sig)
  PROVE  /\ \A v \in Workers : v # w => up'[v] = up[v]
         /\ Range(up'[w]) = Range(up[w]) \cup {sig}
         /\ \A T : AtMostOne(up[w], T) /\ (sig \in T => Range(up[w]) \cap T = {})
                     => AtMostOne(up'[w], T)
  <1>1. /\ up[w] \in Seq(UpSignals)
        /\ up'[w] = Append(up[w], sig)
        /\ \A v \in Workers : v # w => up'[v] = up[v]
    BY DEF SignallingTypeOK, Reply
  <1>. QED  BY <1>1, AppendRange

(* A send leaves the channel alone (the signal is lost) or extends it.     *)
LEMMA SendFacts ==
  ASSUME SignallingTypeOK, NEW w \in Workers, NEW sig \in DownSignals, SendOk(w, sig)
  PROVE  /\ \A v \in Workers : v # w => down'[v] = down[v]
         /\ Range(down'[w]) \subseteq Range(down[w]) \cup {sig}
         /\ \A T : AtMostOne(down[w], T) /\ (sig \in T => Range(down[w]) \cap T = {})
                     => AtMostOne(down'[w], T)
         /\ up' = up /\ gone' = gone
  <1>1. /\ down[w] \in Seq(DownSignals)
        /\ down'[w] = Append(down[w], sig) \/ down'[w] = down[w]
        /\ \A v \in Workers : v # w => down'[v] = down[v]
        /\ up' = up /\ gone' = gone
    BY DEF SignallingTypeOK, SendOk
  <1>2. CASE down'[w] = Append(down[w], sig)
    BY <1>1, <1>2, AppendRange
  <1>3. CASE down'[w] = down[w]
    BY <1>1, <1>3
  <1>. QED  BY <1>1, <1>2, <1>3

-----------------------------------------------------------------------------
(***************************************************************************)
(* The signals of different activities, and of different kinds, differ.    *)
(***************************************************************************)
LEMMA SignalsDiffer ==
  /\ \A a, b : a # b => Work(a) \cap Work(b) = {} /\ Answers(a) \cap Answers(b) = {}
  /\ \A a : /\ Idle \notin Work(a) /\ StartupSync \notin Work(a) /\ Terminate \notin Work(a)
            /\ \A b : Shutdown(b) \notin Work(a)
            /\ \A g : TerminateAck(g) \notin Answers(a)
            /\ \A sig \in Work(a) : sig.id = a /\ sig.type \in {"Startup", "Step"}
            /\ \A sig \in Answers(a) : sig.id = a /\ sig.type \in {"Ready", "ActivityFailed"}
  BY DEF Work, Answers, Idle, StartupSync, Terminate, Shutdown, TerminateAck, Startup, Step,
         Ready, ActivityFailed

(* What an entry of a worker's channel, or its job, can be.                *)
LEMMA OrderSignals ==
  ASSUME TypeOK, NEW w \in Workers, NEW sig \in Range(down[w]) \cup {job[w]},
         sig.type \in {"Startup", "Step"}
  PROVE  sig \in ActivitySignals /\ sig.id \in Activities /\ sig \in Work(sig.id)
  <1>1. Range(down[w]) \subseteq DownSignals
    BY RangeOfSeq DEF TypeOK, SignallingTypeOK
  <1>2. sig \in DownSignals \cup {Idle}
    BY <1>1 DEF TypeOK, WorkerTypeOK, DownSignals
  <1>3. sig \in ActivitySignals
    BY <1>2 DEF DownSignals, StartupSync, Terminate, Idle
  <1>. QED  BY <1>3 DEF ActivitySignals, Work, Startup, Step

LEMMA AnswerSignals ==
  ASSUME TypeOK, NEW w \in Workers, NEW sig \in Range(up[w]),
         sig.type # "TerminateAck"
  PROVE  sig.id \in Activities /\ sig \in Answers(sig.id)
  <1>1. Range(up[w]) \subseteq UpSignals
    BY RangeOfSeq DEF TypeOK, SignallingTypeOK
  <1>. QED  BY <1>1 DEF UpSignals, Answers, Ready, ActivityFailed

LEMMA Home == \A a \in Activities : WorkerOf[a] \in Workers
  BY ConfigAssumption

(***************************************************************************)
(* A step that adds nothing but harmless signals keeps the invariant, if   *)
(* it leaves the scheduler's flags alone or the shutdown has begun.        *)
(***************************************************************************)
Harmless(w) ==
  {Idle, StartupSync}
    \cup IF pc' \in Normal THEN {}
         ELSE {Terminate} \cup {Shutdown(a) : a \in {b \in Activities : WorkerOf[b] = w}}

HarmlessUp == IF pc' \in Normal THEN {} ELSE {TerminateAck(g) : g \in Agents}

LEMMA HarmlessFacts ==
  ASSUME NEW w \in Workers, NEW sig \in Harmless(w)
  PROVE  /\ sig.type # "Startup" /\ sig.type # "Step"
         /\ pc' \in Normal => sig.type \notin {"Shutdown", "Terminate"}
         /\ sig \in ActivitySignals => WorkerOf[sig.id] = w
         /\ \A a : sig \notin Work(a)
  BY DEF Harmless, Work, Startup, Step, Idle, StartupSync, Terminate, Shutdown, ActivitySignals

LEMMA HarmlessKeeps ==
  ASSUME IInv, TypeOK',
         \A w \in Workers : /\ Range(down'[w]) \subseteq Range(down[w]) \cup Harmless(w)
                            /\ job'[w] \in {job[w]} \cup Harmless(w)
                            /\ Range(up'[w]) \subseteq Range(up[w]) \cup HarmlessUp,
         \A a \in Activities :
           /\ AtMostOne(down[WorkerOf[a]], Work(a)) => AtMostOne(down'[WorkerOf[a]], Work(a))
           /\ pc' \in Normal /\ AtMostOne(up[WorkerOf[a]], Answers(a))
                => AtMostOne(up'[WorkerOf[a]], Answers(a)),
         ran' = ran,
         pc' \in Normal => /\ pc' = pc /\ ready' = ready /\ triggered' = triggered
                           /\ todo' = todo \/ pc = "sync"
  PROVE  IInv'
  <1>1. ASSUME NEW a \in Activities
        PROVE  /\ Queued(a)' => Queued(a)
               /\ Busy(a)' => Busy(a)
               /\ pc' \in Normal => (Answered(a)' => Answered(a))
    <2>1. WorkerOf[a] \in Workers
      BY Home
    <2>2. \A sig \in Harmless(WorkerOf[a]) : sig \notin Work(a)
      BY <2>1, HarmlessFacts
    <2>3. Queued(a)' => Queued(a)
      BY <2>1, <2>2 DEF Queued
    <2>4. Busy(a)' => Busy(a)
      BY <2>1, <2>2 DEF Busy
    <2>5. pc' \in Normal => (Answered(a)' => Answered(a))
      BY <2>1 DEF Answered, HarmlessUp
    <2>. QED  BY <2>3, <2>4, <2>5
  <1>2. ASSUME NEW a \in Activities, pc' \in Normal PROVE InFlight(a) => InFlight(a)'
    BY <1>2 DEF InFlight
  <1>3. ASSUME NEW w \in Workers, NEW sig \in Range(down'[w]) \cup {job'[w]}
        PROVE  sig \in Range(down[w]) \cup {job[w]} \/ sig \in Harmless(w)
    BY <1>3
  <1>4. Addressed'
    <2>1. ASSUME NEW w \in Workers, NEW sig \in Range(down'[w]) \cup {job'[w]},
                 sig \in ActivitySignals
          PROVE  WorkerOf[sig.id] = w
      BY <2>1, <1>3, HarmlessFacts DEF IInv, Addressed
    <2>2. ASSUME NEW w \in Workers, NEW sig \in Range(up'[w]), sig.type # "TerminateAck"
          PROVE  WorkerOf[sig.id] = w
      <3>1. sig \notin HarmlessUp
        BY <2>2 DEF HarmlessUp, TerminateAck
      <3>. QED  BY <2>2, <3>1 DEF IInv, Addressed
    <2>. QED  BY <2>1, <2>2 DEF Addressed
  <1>5. OneOrder'
    BY <1>1 DEF IInv, OneOrder
  <1>6. OneAnswer'
    BY <1>1 DEF IInv, OneAnswer
  <1>7. Accounted'
    BY <1>1, <1>2 DEF IInv, Accounted
  <1>8. PhaseSignals'
    <2>1. ASSUME NEW w \in Workers, NEW sig \in Range(down'[w]) \cup {job'[w]}
          PROVE  /\ pc' \in Normal => sig.type \notin {"Shutdown", "Terminate"}
                 /\ pc' = "run" => sig.type # "Startup"
      <3>1. CASE sig \in Harmless(w)
        BY <3>1, HarmlessFacts
      <3>2. CASE sig \in Range(down[w]) \cup {job[w]}
        BY <3>2 DEF IInv, PhaseSignals, Normal
      <3>. QED  BY <1>3, <2>1, <3>1, <3>2
    <2>2. ASSUME NEW w \in Workers, pc' \in Normal, NEW sig \in Range(up'[w])
          PROVE  sig.type # "TerminateAck"
      BY <2>2 DEF IInv, PhaseSignals, HarmlessUp
    <2>. QED  BY <2>1, <2>2 DEF PhaseSignals
  <1>9. CycleProgress'
    <2>1. pc' \in Normal => \A w \in Workers : Range(up'[w]) \subseteq Range(up[w])
      BY DEF HarmlessUp
    <2>. QED  BY <2>1 DEF IInv, CycleProgress, Normal
  <1>10. StepsLater'
    <2>1. ASSUME NEW w \in Workers, NEW sig \in Range(down'[w]) \cup {job'[w]},
                 pc' \in {"sync", "startup", "startupWait"}
          PROVE  sig.type # "Step"
      <3>1. CASE sig \in Harmless(w)
        BY <3>1, HarmlessFacts
      <3>2. CASE sig \in Range(down[w]) \cup {job[w]}
        BY <2>1, <3>2 DEF IInv, StepsLater, Normal
      <3>. QED  BY <1>3, <2>1, <3>1, <3>2
    <2>. QED  BY <2>1 DEF StepsLater
  <1>11. StepsDue'
    <2>1. ASSUME NEW w \in Workers, NEW sig \in Range(down'[w]) \cup {job'[w]},
                 sig.type = "Step"
          PROVE  Due(sig.id)
      BY <2>1, <1>3, HarmlessFacts DEF IInv, StepsDue
    <2>. QED  BY <2>1 DEF StepsDue, Due
  <1>. QED  BY <1>4, <1>5, <1>6, <1>7, <1>8, <1>9, <1>10, <1>11 DEF IInv

-----------------------------------------------------------------------------
(***************************************************************************)
(* The invariant is kept by each operation of a worker.                    *)
(***************************************************************************)
LEMMA BeginActivityInv ==
  ASSUME IInv, TypeOK', NEW w \in Workers, BeginActivity(w), UNCHANGED schedulerVars
  PROVE  IInv'
  <1>. DEFINE sig == Head(down[w])
  <1>1. /\ \A v \in Workers : v # w => down'[v] = down[v]
        /\ Range(down'[w]) \subseteq Range(down[w]) /\ sig \in Range(down[w])
        /\ \A T : AtMostOne(down[w], T) => AtMostOne(down'[w], T)
        /\ \A T : AtMostOne(down[w], T) /\ sig \in T => Range(down'[w]) \cap T = {}
    BY TakesFacts DEF BeginActivity, IInv, TypeOK
  <1>2. /\ job'[w] = sig /\ job[w] = Idle
        /\ \A v \in Workers : v # w => job'[v] = job[v]
    BY DEF BeginActivity, Takes, IInv, TypeOK, WorkerTypeOK
  <1>3. /\ up' = up /\ ran' = ran /\ pc' = pc /\ todo' = todo
        /\ ready' = ready /\ triggered' = triggered
    BY DEF BeginActivity, schedulerVars, activityStates
  <1>. HIDE DEF sig
  <1>4. \A v \in Workers : Range(down'[v]) \cup {job'[v]} \subseteq Range(down[v]) \cup {job[v]}
    BY <1>1, <1>2
  <1>5. ASSUME NEW a \in Activities
        PROVE  /\ AtMostOne(down[WorkerOf[a]], Work(a))
                    => AtMostOne(down'[WorkerOf[a]], Work(a)) /\ ~(Queued(a)' /\ Busy(a)' /\ ~Busy(a))
               /\ Queued(a)' => Queued(a)
               /\ Busy(a)' => Busy(a) \/ Queued(a)
               /\ Answered(a)' <=> Answered(a)
    <2>1. WorkerOf[a] \in Workers
      BY Home
    <2>2. CASE WorkerOf[a] = w
      BY <2>2, <1>1, <1>2, <1>3, SignalsDiffer DEF Queued, Busy, Answered
    <2>3. CASE WorkerOf[a] # w
      BY <2>1, <2>3, <1>1, <1>2, <1>3 DEF Queued, Busy, Answered
    <2>. QED  BY <2>2, <2>3
  <1>6. \A a \in Activities : InFlight(a)' <=> InFlight(a)
    BY <1>3 DEF InFlight
  <1>7. Addressed'
    BY <1>3, <1>4 DEF IInv, Addressed
  <1>8. OneOrder'
    BY <1>5 DEF IInv, OneOrder
  <1>9. OneAnswer'
    BY <1>3, <1>5 DEF IInv, OneAnswer
  <1>10. Accounted'
    BY <1>3, <1>5, <1>6 DEF IInv, Accounted
  <1>11. PhaseSignals' /\ StepsLater' /\ StepsDue'
    BY <1>3, <1>4 DEF IInv, PhaseSignals, StepsLater, StepsDue, Due
  <1>12. CycleProgress'
    BY <1>3 DEF IInv, CycleProgress
  <1>. QED  BY <1>7, <1>8, <1>9, <1>10, <1>11, <1>12 DEF IInv

LEMMA EndActivityInv ==
  ASSUME IInv, TypeOK', NEW w \in Workers, NEW ok \in BOOLEAN, EndActivity(w, ok),
         UNCHANGED schedulerVars
  PROVE  IInv'
  <1>. DEFINE a == job[w].id
              answer == IF ok THEN Ready(a) ELSE ActivityFailed(a)
  <1>1. /\ a \in Activities /\ job[w] \in ActivitySignals /\ WorkerOf[a] = w
        /\ job'[w] = Idle /\ \A v \in Workers : v # w => job'[v] = job[v]
        /\ ran' = IF job[w].type = "Step" /\ ok THEN ran \cup {a} ELSE ran
    BY DEF EndActivity, IInv, Addressed, TypeOK, WorkerTypeOK, ActivitySignals
  <1>2. /\ down' = down /\ pc' = pc /\ todo' = todo
        /\ ready' = ready /\ triggered' = triggered
    BY DEF EndActivity, schedulerVars, activityStates
  <1>3. answer \in UpSignals /\ answer \in Answers(a)
    BY <1>1, SignalTypes, ConfigAssumption DEF Answers
  <1>4. /\ \A v \in Workers : v # w => up'[v] = up[v]
        /\ Range(up'[w]) \subseteq Range(up[w]) \cup {answer}
        /\ \A T : AtMostOne(up[w], T) /\ (answer \in T => Range(up[w]) \cap T = {})
                    => AtMostOne(up'[w], T)
    <2>1. CASE Reply(w, answer)
      BY <2>1, <1>3, ReplyFacts DEF IInv, TypeOK
    <2>2. CASE up' = up
      BY <2>2
    <2>. QED  BY <2>1, <2>2 DEF EndActivity
  <1>5. job[w].type \in {"Startup", "Step", "Shutdown"}
    BY <1>1 DEF ActivitySignals
  <1>6. job[w].type # "Shutdown" => Busy(a)
    BY <1>1, <1>5 DEF Busy, Work, Startup, Step, ActivitySignals
  <1>7. pc \in Normal => Busy(a)
    BY <1>6 DEF IInv, PhaseSignals
  <1>8. answer.type \in {"Ready", "ActivityFailed"} /\ answer.id = a
        /\ (answer.type = "Ready" => ok)
    BY DEF Ready, ActivityFailed
  <1>. HIDE DEF answer
  <1>9. ASSUME NEW b \in Activities
        PROVE  /\ Queued(b)' <=> Queued(b)
               /\ Busy(b)' => Busy(b) /\ b # a
               /\ Answered(b)' => Answered(b) \/ b = a
               /\ AtMostOne(up[WorkerOf[b]], Answers(b)) /\ (b = a => ~Answered(b))
                    => AtMostOne(up'[WorkerOf[b]], Answers(b))
    <2>1. WorkerOf[b] \in Workers
      BY Home
    <2>2. Queued(b)' <=> Queued(b)
      BY <1>2 DEF Queued
    <2>3. Busy(b)' => Busy(b) /\ b # a
      BY <2>1, <1>1, SignalsDiffer DEF Busy
    <2>4. b # a => answer \notin Answers(b)
      BY <1>3, SignalsDiffer
    <2>5. Answered(b)' => Answered(b) \/ b = a
      BY <2>1, <2>4, <1>1, <1>4 DEF Answered
    <2>6. AtMostOne(up[WorkerOf[b]], Answers(b)) /\ (b = a => ~Answered(b))
            => AtMostOne(up'[WorkerOf[b]], Answers(b))
      BY <2>1, <2>4, <1>1, <1>4 DEF Answered
    <2>. QED  BY <2>2, <2>3, <2>5, <2>6
  <1>10. \A v \in Workers : Range(down'[v]) \cup {job'[v]} \subseteq Range(down[v]) \cup {job[v], Idle}
    BY <1>1, <1>2
  <1>11. Addressed'
    BY <1>1, <1>4, <1>8, <1>10, SignalTypes DEF IInv, Addressed, Idle, ActivitySignals
  <1>12. OneOrder'
    BY <1>2, <1>9 DEF IInv, OneOrder
  <1>13. OneAnswer'
    BY <1>1, <1>2, <1>7, <1>9 DEF IInv, OneAnswer, OneOrder
  <1>14. \A b \in Activities : InFlight(b)' <=> InFlight(b)
    BY <1>2 DEF InFlight
  <1>15. Accounted'
    BY <1>1, <1>2, <1>7, <1>9, <1>14 DEF IInv, Accounted
  <1>16. PhaseSignals'
    BY <1>2, <1>4, <1>8, <1>10 DEF IInv, PhaseSignals, Idle
  <1>17. StepsLater'
    BY <1>2, <1>10 DEF IInv, StepsLater, Idle
  <1>18. CycleProgress'
    <2>1. pc \in Normal => InFlight(a)
      BY <1>1, <1>7 DEF IInv, Accounted
    <2>2. pc \in Normal /\ ran' # ran => pc = "run" /\ a \in triggered /\ ran' = ran \cup {a}
      BY <1>1, <2>1 DEF InFlight, IInv, StepsLater
    <2>3. pc = "run" => (answer.type = "Ready" => a \in ran')
      BY <1>1, <1>5, <1>8 DEF IInv, PhaseSignals, Normal
    <2>4. pc = "run" => \A v \in Workers : \A sig \in Range(up'[v]) :
                          sig.type = "Ready" => sig.id \in ran'
      BY <1>1, <1>4, <1>8, <2>3 DEF IInv, CycleProgress
    <2>. QED  BY <1>2, <2>2, <2>4 DEF IInv, CycleProgress, Normal
  <1>19. StepsDue'
    <2>1. ASSUME NEW v \in Workers, NEW sig \in Range(down'[v]) \cup {job'[v]},
                 sig.type = "Step"
          PROVE  Due(sig.id)'
      <3>1. sig \in Range(down[v]) \cup {job[v]} /\ Due(sig.id)
        BY <2>1, <1>10 DEF IInv, StepsDue, Idle
      <3>2. ran' # ran => sig.id # a
        <4>1. SUFFICES ASSUME job[w].type = "Step", sig.id = a PROVE FALSE
          BY <1>1
        <4>2. Busy(a)
          BY <4>1, <1>6
        <4>3. sig \in ActivitySignals /\ sig \in Work(a)
          BY <4>1, <2>1, <3>1, OrderSignals DEF IInv
        <4>4. v = w
          BY <4>1, <4>3, <3>1, <1>1 DEF IInv, Addressed
        <4>5. sig \notin Range(down[w])
          BY <4>2, <4>3, <1>1 DEF IInv, OneOrder, Queued
        <4>. QED  BY <4>1, <4>4, <4>5, <2>1, <1>1, <1>2 DEF Idle
      <3>. QED  BY <3>1, <3>2, <1>1 DEF Due
    <2>. QED  BY <2>1 DEF StepsDue
  <1>. QED  BY <1>11, <1>12, <1>13, <1>15, <1>16, <1>17, <1>18, <1>19 DEF IInv

(* Taking StartupSync or Terminate, and ending, leave the orders alone.    *)
LEMMA OtherWorkerStepInv ==
  ASSUME IInv, TypeOK', NEW w \in Workers, UNCHANGED schedulerVars,
         ReceiveSync(w) \/ AckTerminate(w) \/ ExitWorker(w) \/ Disconnect(w)
  PROVE  IInv'
  <1>1. /\ ran' = ran /\ pc' = pc /\ todo' = todo
        /\ ready' = ready /\ triggered' = triggered
    BY DEF ReceiveSync, AckTerminate, ExitWorker, Disconnect, schedulerVars, activityStates
  <1>2. /\ \A v \in Workers : Range(down'[v]) \subseteq Range(down[v])
        /\ \A v \in Workers : \A T : AtMostOne(down[v], T) => AtMostOne(down'[v], T)
    <2>1. CASE Takes(w)
      BY <2>1, TakesFacts DEF IInv, TypeOK
    <2>2. CASE down' = down
      BY <2>2
    <2>. QED  BY <2>1, <2>2 DEF ReceiveSync, AckTerminate, ExitWorker, Disconnect
  <1>3. CASE AckTerminate(w)
    <2>1. Head(down[w]) = Terminate /\ Head(down[w]) \in Range(down[w])
      BY <1>3, TakesFacts DEF AckTerminate, IInv, TypeOK
    <2>2. pc \notin Normal
      BY <2>1 DEF IInv, PhaseSignals, Terminate
    <2>3. TerminateAck(AgentOf[w]) \in UpSignals /\ AgentOf[w] \in Agents
      BY ConfigAssumption DEF TerminateAck, UpSignals
    <2>4. \A v \in Workers : Range(up'[v]) \subseteq Range(up[v]) \cup HarmlessUp
      <3>1. CASE Reply(w, TerminateAck(AgentOf[w]))
        BY <3>1, <2>2, <2>3, <1>1, ReplyFacts DEF IInv, TypeOK, HarmlessUp
      <3>2. CASE up' = up
        BY <3>2
      <3>. QED  BY <1>3, <3>1, <3>2 DEF AckTerminate
    <2>5. \A v \in Workers : job'[v] \in {job[v]} \cup Harmless(v)
      BY <1>1, <1>3, <2>2 DEF AckTerminate, Harmless, IInv, TypeOK, WorkerTypeOK
    <2>. QED  BY <1>1, <1>2, <2>2, <2>4, <2>5, Home, HarmlessKeeps
  <1>4. CASE ~AckTerminate(w)
    <2>1. up' = up
      BY <1>4 DEF ReceiveSync, ExitWorker, Disconnect
    <2>2. \A v \in Workers : job'[v] \in {job[v]} \cup Harmless(v)
      BY <1>4 DEF ReceiveSync, ExitWorker, Disconnect, Harmless, IInv, TypeOK, WorkerTypeOK
    <2>. QED  BY <1>1, <1>2, <2>1, <2>2, Home, HarmlessKeeps
  <1>. QED  BY <1>3, <1>4

LEMMA FaultInv ==
  ASSUME IInv, TypeOK', FaultMoves
  PROVE  IInv'
  <1>1. /\ ran' = ran /\ pc' = pc /\ todo' = todo
        /\ ready' = ready /\ triggered' = triggered /\ down' = down /\ up' = up
    BY DEF FaultMoves, WorkerPanics, AgentKilled, schedulerVars, activityStates
  <1>2. \A v \in Workers : job'[v] \in {job[v]} \cup Harmless(v)
    BY DEF FaultMoves, WorkerPanics, AgentKilled, Harmless, IInv, TypeOK, WorkerTypeOK
  <1>. QED  BY <1>1, <1>2, HarmlessKeeps

-----------------------------------------------------------------------------
(***************************************************************************)
(* The invariant is kept by the scheduler.  JobsOfTheLiving idles workers  *)
(* at most.                                                                *)
(***************************************************************************)
LEMMA LivingFacts ==
  ASSUME JobsOfTheLiving
  PROVE  \A v \in Workers : job'[v] \in {job[v], Idle} /\ job'[v] \in {job[v]} \cup Harmless(v)
  BY DEF JobsOfTheLiving, Harmless

(* An order to an activity that has none under way.                        *)
LEMMA OrderInv ==
  ASSUME IInv, TypeOK', JobsOfTheLiving, NEW a \in Activities, NEW sig \in Work(a),
         SendOk(WorkerOf[a], sig), ~InFlight(a), pc \in Normal,
         \A b \in Activities : InFlight(b) \/ b = a => InFlight(b)'
  PROVE  /\ Addressed' /\ OneOrder' /\ OneAnswer' /\ Accounted'
         /\ \A v \in Workers : Range(down'[v]) \cup {job'[v]}
                                 \subseteq Range(down[v]) \cup {job[v], Idle, sig}
         /\ up' = up
  <1>. DEFINE w == WorkerOf[a]
  <1>1. w \in Workers /\ sig \in DownSignals /\ sig \in ActivitySignals /\ sig.id = a
    BY Home DEF Work, Startup, Step, DownSignals, ActivitySignals
  <1>2. /\ \A v \in Workers : v # w => down'[v] = down[v]
        /\ Range(down'[w]) \subseteq Range(down[w]) \cup {sig}
        /\ \A T : AtMostOne(down[w], T) /\ (sig \in T => Range(down[w]) \cap T = {})
                    => AtMostOne(down'[w], T)
        /\ up' = up
    BY <1>1, SendFacts DEF IInv, TypeOK
  <1>3. \A v \in Workers : job'[v] \in {job[v], Idle}
    BY LivingFacts
  <1>4. ~Busy(a) /\ ~Queued(a) /\ ~Answered(a)
    BY DEF IInv, Accounted
  <1>5. ASSUME NEW b \in Activities
        PROVE  /\ Queued(b)' => Queued(b) \/ b = a
               /\ Busy(b)' => Busy(b)
               /\ Answered(b)' <=> Answered(b)
               /\ AtMostOne(down[WorkerOf[b]], Work(b)) => AtMostOne(down'[WorkerOf[b]], Work(b))
    <2>1. WorkerOf[b] \in Workers
      BY Home
    <2>2. b # a => sig \notin Work(b)
      BY SignalsDiffer
    <2>3. Queued(b)' => Queued(b) \/ b = a
      BY <2>1, <2>2, <1>2 DEF Queued
    <2>4. Busy(b)' => Busy(b)
      BY <2>1, <1>3, SignalsDiffer DEF Busy
    <2>5. Answered(b)' <=> Answered(b)
      BY <1>2 DEF Answered
    <2>6. AtMostOne(down[WorkerOf[b]], Work(b)) => AtMostOne(down'[WorkerOf[b]], Work(b))
      BY <2>1, <2>2, <1>1, <1>2, <1>4 DEF Queued
    <2>. QED  BY <2>3, <2>4, <2>5, <2>6
  <1>6. \A v \in Workers : Range(down'[v]) \cup {job'[v]}
                             \subseteq Range(down[v]) \cup {job[v], Idle, sig}
    BY <1>1, <1>2, <1>3
  <1>7. Addressed'
    <2>1. ASSUME NEW v \in Workers, NEW s \in Range(down'[v]) \cup {job'[v]},
                 s \in ActivitySignals
          PROVE  WorkerOf[s.id] = v
      <3>1. s \in Range(down[v]) \cup {job[v]} \/ (s = sig /\ v = w)
        BY <2>1, <1>1, <1>2, <1>3, SignalTypes, ConfigAssumption DEF Idle, ActivitySignals
      <3>. QED  BY <2>1, <3>1, <1>1 DEF IInv, Addressed
    <2>. QED  BY <2>1, <1>2 DEF IInv, Addressed
  <1>8. OneOrder'
    BY <1>4, <1>5 DEF IInv, OneOrder
  <1>9. OneAnswer'
    BY <1>2, <1>4, <1>5 DEF IInv, OneAnswer
  <1>10. Accounted'
    BY <1>4, <1>5 DEF IInv, Accounted
  <1>. QED  BY <1>2, <1>6, <1>7, <1>8, <1>9, <1>10

LEMMA StartupActivityInv ==
  ASSUME IInv, TypeOK', JobsOfTheLiving, NEW a \in Activities, StartupActivity(a), ran' = ran
  PROVE  IInv'
  <1>1. /\ pc = "startup" /\ a \in todo /\ todo' = todo \ {a}
        /\ pc' = IF todo' = {} THEN "startupWait" ELSE "startup"
        /\ ready' = ready /\ triggered' = triggered
    BY DEF StartupActivity, IsFirst, activityStates
  <1>2. pc \in Normal /\ pc' \in Normal /\ ready = {}
    BY <1>1 DEF Normal, IInv, CycleProgress
  <1>3. ~InFlight(a) /\ \A b \in Activities : InFlight(b) \/ b = a => InFlight(b)'
    BY <1>1, <1>2 DEF InFlight
  <1>4. /\ Addressed' /\ OneOrder' /\ OneAnswer' /\ Accounted'
        /\ \A v \in Workers : Range(down'[v]) \cup {job'[v]}
                                \subseteq Range(down[v]) \cup {job[v], Idle, Startup(a)}
        /\ up' = up
    BY <1>2, <1>3, OrderInv DEF StartupActivity, Work
  <1>5. PhaseSignals'
    BY <1>1, <1>2, <1>4 DEF IInv, PhaseSignals, Idle, Startup
  <1>6. CycleProgress'
    BY <1>1, <1>2 DEF IInv, CycleProgress
  <1>7. StepsLater'
    BY <1>1, <1>4 DEF IInv, StepsLater, Idle, Startup
  <1>8. StepsDue'
    BY <1>4 DEF IInv, StepsDue, Due, Idle, Startup
  <1>. QED  BY <1>4, <1>5, <1>6, <1>7, <1>8 DEF IInv

LEMMA StepActivityInv ==
  ASSUME IInv, TypeOK', JobsOfTheLiving, NEW a \in Activities, StepActivity(a), ran' = ran
  PROVE  IInv'
  <1>1. /\ pc = "run" /\ pc' = pc /\ a \in Steppable /\ triggered' = triggered \cup {a}
        /\ ready' = ready /\ todo' = todo
    BY DEF StepActivity
  <1>2. a \notin triggered /\ Depends[a] \cap Activities \subseteq ready
    BY <1>1 DEF Steppable
  <1>3. pc \in Normal /\ ready \subseteq ran /\ ran \subseteq triggered
    BY <1>1 DEF Normal, IInv, CycleProgress
  <1>4. ~InFlight(a) /\ \A b \in Activities : InFlight(b) \/ b = a => InFlight(b)'
    BY <1>1, <1>2, <1>3 DEF InFlight
  <1>5. Step(a) \in Work(a)
    BY DEF Work
  <1>6. /\ Addressed' /\ OneOrder' /\ OneAnswer' /\ Accounted'
        /\ \A v \in Workers : Range(down'[v]) \cup {job'[v]}
                                \subseteq Range(down[v]) \cup {job[v], Idle, Step(a)}
        /\ up' = up
    BY <1>3, <1>4, <1>5, OrderInv DEF StepActivity
  <1>7. PhaseSignals'
    BY <1>1, <1>6 DEF IInv, PhaseSignals, Idle, Step
  <1>8. CycleProgress'
    BY <1>1, <1>6 DEF IInv, CycleProgress
  <1>9. StepsLater'
    BY <1>1 DEF StepsLater
  <1>10. StepsDue'
    <2>1. Due(a)
      BY <1>2, <1>3 DEF Due
    <2>. QED  BY <1>6, <2>1 DEF IInv, StepsDue, Due, Idle, Step
  <1>. QED  BY <1>6, <1>7, <1>8, <1>9, <1>10 DEF IInv

(* The answer of activity a reaches the scheduler: nothing of a is left.   *)
LEMMA OnReadyInv ==
  ASSUME IInv, TypeOK', JobsOfTheLiving, NEW w \in Workers, Receive(w), ran' = ran,
         Waiting, NEW a, Head(up[w]) = Ready(a), OnReady(a)
  PROVE  IInv'
  <1>1. /\ \A v \in Workers : v # w => up'[v] = up[v]
        /\ Range(up'[w]) \subseteq Range(up[w]) /\ Ready(a) \in Range(up[w])
        /\ \A T : AtMostOne(up[w], T) => AtMostOne(up'[w], T)
        /\ \A T : AtMostOne(up[w], T) /\ Ready(a) \in T => Range(up'[w]) \cap T = {}
        /\ down' = down
    BY ReceiveFacts DEF IInv, TypeOK
  <1>2. pc \in {"startupWait", "run"} /\ pc \in Normal
    BY DEF Waiting, Normal
  <1>3. /\ ready' = ready \cup {a} /\ triggered' = triggered /\ todo' = todo
        /\ pc' = IF ready' # Activities THEN pc
                 ELSE IF pc = "startupWait" THEN "cycle" ELSE "sleep"
    BY DEF OnReady
  <1>4. Ready(a).type = "Ready" /\ Ready(a).id = a /\ Ready(a) \in Answers(a)
    BY DEF Ready, Answers
  <1>5. a \in Activities /\ WorkerOf[a] = w
    BY <1>1, <1>4, AnswerSignals DEF IInv, Addressed
  <1>6. Answered(a) /\ ~Busy(a) /\ ~Queued(a) /\ ~Answered(a)'
    BY <1>1, <1>2, <1>4, <1>5 DEF IInv, OneAnswer, Answered
  <1>7. ASSUME NEW b \in Activities
        PROVE  /\ Queued(b)' <=> Queued(b)
               /\ Busy(b)' => Busy(b)
               /\ Answered(b)' => Answered(b)
               /\ AtMostOne(up[WorkerOf[b]], Answers(b)) => AtMostOne(up'[WorkerOf[b]], Answers(b))
    <2>1. WorkerOf[b] \in Workers
      BY Home
    <2>2. Queued(b)' <=> Queued(b)
      BY <1>1 DEF Queued
    <2>3. Busy(b)' => Busy(b)
      BY <2>1, LivingFacts, SignalsDiffer DEF Busy
    <2>4. Answered(b)' => Answered(b)
      BY <2>1, <1>1 DEF Answered
    <2>5. AtMostOne(up[WorkerOf[b]], Answers(b)) => AtMostOne(up'[WorkerOf[b]], Answers(b))
      BY <2>1, <1>1
    <2>. QED  BY <2>2, <2>3, <2>4, <2>5
  <1>8. \A v \in Workers : /\ Range(down'[v]) \cup {job'[v]} \subseteq Range(down[v]) \cup {job[v], Idle}
                           /\ Range(up'[v]) \subseteq Range(up[v])
    BY <1>1, LivingFacts
  <1>9. pc' \in Normal /\ pc' \in {"startupWait", "run", "cycle", "sleep"}
    BY <1>2, <1>3 DEF Normal
  <1>10. Addressed'
    <2>1. Idle \notin ActivitySignals
      BY DEF Idle, ActivitySignals
    <2>. QED  BY <1>8, <2>1 DEF IInv, Addressed
  <1>11. OneOrder'
    BY <1>1, <1>7 DEF IInv, OneOrder
  <1>12. OneAnswer'
    BY <1>2, <1>7 DEF IInv, OneAnswer
  <1>13. Accounted'
    <2>1. ASSUME NEW b \in Activities, b # a, InFlight(b) PROVE InFlight(b)'
      <3>1. b \notin ready' /\ ready' # Activities /\ pc' = pc
        BY <2>1, <1>2, <1>3 DEF InFlight
      <3>. QED  BY <2>1, <3>1, <1>3 DEF InFlight
    <2>. QED  BY <2>1, <1>2, <1>6, <1>7 DEF IInv, Accounted
  <1>14. PhaseSignals'
    BY <1>2, <1>3, <1>8 DEF IInv, PhaseSignals, Idle, Normal
  <1>15. CycleProgress'
    <2>1. pc = "run" => a \in ran /\ ready' \subseteq ran
      BY <1>1, <1>3, <1>4 DEF IInv, CycleProgress
    <2>2. pc' = "run" => pc = "run"
      BY <1>2, <1>3
    <2>3. pc' = "sleep" => pc = "run" /\ ready' = Activities
      BY <1>2, <1>3
    <2>4. pc' = "cycle" => pc = "startupWait" /\ ready' = Activities
      BY <1>2, <1>3
    <2>5. ran \subseteq Activities
      BY DEF IInv, TypeOK, WorkerTypeOK
    <2>. QED  BY <1>2, <1>3, <1>8, <1>9, <2>1, <2>2, <2>3, <2>4, <2>5 DEF IInv, CycleProgress
  <1>16. StepsLater'
    BY <1>2, <1>3, <1>8 DEF IInv, StepsLater, Idle
  <1>17. StepsDue'
    BY <1>8 DEF IInv, StepsDue, Due, Idle
  <1>. QED  BY <1>10, <1>11, <1>12, <1>13, <1>14, <1>15, <1>16, <1>17 DEF IInv

(* Where the flags say that nothing is in flight there is no signal.       *)
LEMMA QuietFacts ==
  ASSUME IInv, pc \in Normal, \A a \in Activities : ~InFlight(a), NEW w \in Workers
  PROVE  /\ \A sig \in Range(down[w]) \cup {job[w]} : sig.type \notin {"Startup", "Step"}
         /\ Range(up[w]) = {}
  <1>1. ASSUME NEW sig \in Range(down[w]) \cup {job[w]}, sig.type \in {"Startup", "Step"}
        PROVE  FALSE
    <2>1. /\ sig \in ActivitySignals /\ sig.id \in Activities /\ sig \in Work(sig.id)
      BY <1>1, OrderSignals DEF IInv
    <2>2. WorkerOf[sig.id] = w
      BY <2>1, <1>1 DEF IInv, Addressed
    <2>3. Queued(sig.id) \/ Busy(sig.id)
      BY <2>1, <2>2, <1>1 DEF Queued, Busy
    <2>. QED  BY <2>1, <2>3 DEF IInv, Accounted
  <1>2. ASSUME NEW sig \in Range(up[w]) PROVE FALSE
    <2>1. sig.type # "TerminateAck"
      BY <1>2 DEF IInv, PhaseSignals
    <2>2. sig.id \in Activities /\ sig \in Answers(sig.id) /\ WorkerOf[sig.id] = w
      BY <1>2, <2>1, AnswerSignals DEF IInv, Addressed
    <2>3. Answered(sig.id)
      BY <1>2, <2>2 DEF Answered
    <2>. QED  BY <2>2, <2>3 DEF IInv, Accounted
  <1>. QED  BY <1>1, <1>2

(* Steps of the scheduler between phases in which nothing is under way.    *)
LEMMA QuietStepInv ==
  ASSUME IInv, TypeOK', JobsOfTheLiving, UNCHANGED signallingVars,
         ran' = IF pc = "cycle" THEN {} ELSE ran,
         SyncDone \/ StartCycle \/ (EndCycle /\ pc' = "cycle")
  PROVE  IInv'
  <1>1. /\ down' = down /\ up' = up
        /\ \A v \in Workers : job'[v] \in {job[v], Idle}
    BY LivingFacts DEF signallingVars
  <1>2. /\ \/ pc = "sync" /\ pc' = "startup" /\ todo' = Activities /\ ready' = ready
           \/ pc = "cycle" /\ pc' = "run" /\ ready' = {} /\ triggered' = {}
           \/ pc = "sleep" /\ pc' = "cycle" /\ ready' = ready
    BY DEF SyncDone, StartCycle, EndCycle, BeginShutdown, activityStates
  <1>3. pc \in Normal /\ pc' \in Normal /\ \A a \in Activities : ~InFlight(a)
    BY <1>2 DEF Normal, InFlight
  <1>4. ASSUME NEW w \in Workers
        PROVE  /\ \A sig \in Range(down'[w]) \cup {job'[w]} :
                    sig.type \notin {"Startup", "Step", "Shutdown", "Terminate"}
               /\ Range(up'[w]) = {}
    BY <1>1, <1>3, QuietFacts DEF IInv, PhaseSignals, Idle
  <1>5. ASSUME NEW a \in Activities PROVE ~Busy(a)' /\ ~Queued(a)' /\ ~Answered(a)'
    BY <1>4, Home, SignalsDiffer DEF Busy, Queued, Answered
  <1>6. Addressed'
    BY <1>4 DEF Addressed, ActivitySignals
  <1>7. OneOrder' /\ OneAnswer'
    BY <1>1, <1>3, <1>5 DEF IInv, OneOrder, OneAnswer
  <1>8. Accounted'
    BY <1>5 DEF Accounted
  <1>9. PhaseSignals' /\ StepsLater' /\ StepsDue'
    BY <1>4 DEF PhaseSignals, StepsLater, StepsDue
  <1>10. CycleProgress'
    BY <1>2, <1>4 DEF IInv, CycleProgress
  <1>. QED  BY <1>6, <1>7, <1>8, <1>9, <1>10 DEF IInv

(* Steps into and inside the shutdown, where orders are no longer given.   *)
LEMMA LeavingInv ==
  ASSUME IInv, TypeOK', JobsOfTheLiving, ran' = ran, down' = down, pc' \notin Normal,
         up' = up \/ \E w \in Workers : Receive(w)
  PROVE  IInv'
  <1>1. \A v \in Workers : Range(up'[v]) \subseteq Range(up[v])
    BY ReceiveFacts DEF IInv, TypeOK
  <1>. QED  BY <1>1, LivingFacts, HarmlessKeeps

(* Sends of StartupSync, Shutdown and Terminate.                           *)
LEMMA HarmlessSendInv ==
  ASSUME IInv, TypeOK', JobsOfTheLiving, ran' = ran, NEW w \in Workers,
         NEW sig \in DownSignals, sig \in Harmless(w), SendOk(w, sig),
         pc' \in Normal => /\ pc' = pc /\ ready' = ready /\ triggered' = triggered
                           /\ todo' = todo \/ pc = "sync"
  PROVE  IInv'
  <1>1. /\ \A v \in Workers : v # w => down'[v] = down[v]
        /\ Range(down'[w]) \subseteq Range(down[w]) \cup {sig}
        /\ \A T : AtMostOne(down[w], T) /\ (sig \in T => Range(down[w]) \cap T = {})
                    => AtMostOne(down'[w], T)
        /\ up' = up
    BY SendFacts DEF IInv, TypeOK
  <1>2. \A a \in Activities : sig \notin Work(a)
    BY HarmlessFacts
  <1>3. \A a \in Activities : AtMostOne(down[WorkerOf[a]], Work(a))
                                => AtMostOne(down'[WorkerOf[a]], Work(a))
    BY <1>1, <1>2, Home
  <1>4. \A v \in Workers : Range(down'[v]) \subseteq Range(down[v]) \cup Harmless(v)
    BY <1>1
  <1>. QED  BY <1>1, <1>3, <1>4, LivingFacts, HarmlessKeeps

LEMMA WaitNextReadyInv ==
  ASSUME IInv, TypeOK', JobsOfTheLiving, ran' = ran, NEW w \in Workers, WaitNextReady(w)
  PROVE  IInv'
  <1>1. Waiting /\ Receive(w) /\ pc \in Normal /\ down' = down
    BY DEF WaitNextReady, Waiting, Normal, Receive
  <1>2. Head(up[w]) \in Range(up[w]) /\ Head(up[w]) \in UpSignals
    BY <1>1, ReceiveFacts, ReceiveType DEF IInv, TypeOK
  <1>3. Head(up[w]).type \in {"Ready", "ActivityFailed"}
    BY <1>1, <1>2 DEF IInv, PhaseSignals, UpSignals
  <1>4. CASE Head(up[w]).type = "Ready"
    <2>1. OnReady(Head(up[w]).id) /\ Head(up[w]) = Ready(Head(up[w]).id)
      BY <1>2, <1>4 DEF WaitNextReady, UpSignals, Ready
    <2>. QED  BY <1>1, <2>1, OnReadyInv
  <1>5. CASE Head(up[w]).type = "ActivityFailed"
    <2>1. pc' \notin Normal
      BY <1>5 DEF WaitNextReady, BeginShutdown, Normal
    <2>. QED  BY <1>1, <2>1, LeavingInv
  <1>. QED  BY <1>3, <1>4, <1>5

LEMMA SchedulerInv ==
  ASSUME IInv, TypeOK', SchedulerMoves
  PROVE  IInv'
  <1>1. /\ SchedulerStep /\ JobsOfTheLiving
        /\ ran' = IF pc = "cycle" THEN {} ELSE ran
    BY DEF SchedulerMoves
  <1>2. ASSUME NEW a \in Activities, SyncTime(a) PROVE IInv'
    <2>1. pc = "sync" /\ pc' = pc /\ ready' = ready /\ triggered' = triggered
      BY <1>2 DEF SyncTime, activityStates
    <2>2. StartupSync \in DownSignals /\ StartupSync \in Harmless(WorkerOf[a])
      BY DEF DownSignals, Harmless
    <2>. QED  BY <1>1, <1>2, <2>1, <2>2, Home, HarmlessSendInv DEF SyncTime
  <1>3. ASSUME NEW a \in Activities, SyncFails(a) \/ StartupPanics(a) \/ StepPanics(a)
        PROVE  IInv'
    BY <1>1, <1>3, LeavingInv DEF SyncFails, StartupPanics, StepPanics, ProcessEnds, Normal
  <1>4. ASSUME NEW a \in Activities, StartupActivity(a) PROVE IInv'
    BY <1>1, <1>4, StartupActivityInv DEF StartupActivity
  <1>5. ASSUME NEW a \in Activities, StepActivity(a) PROVE IInv'
    BY <1>1, <1>5, StepActivityInv DEF StepActivity
  <1>6. ASSUME NEW a \in Activities, ShutdownActivity(a) PROVE IInv'
    <2>1. pc = "shutdown" /\ pc' \notin Normal
      BY <1>6 DEF ShutdownActivity, Normal
    <2>2. Shutdown(a) \in DownSignals /\ Shutdown(a) \in Harmless(WorkerOf[a])
      BY <2>1 DEF DownSignals, ActivitySignals, Shutdown, Harmless
    <2>3. CASE SendOk(WorkerOf[a], Shutdown(a))
      BY <1>1, <2>1, <2>2, <2>3, Home, HarmlessSendInv
    <2>4. CASE UNCHANGED signallingVars
      BY <1>1, <2>1, <2>4, LeavingInv DEF signallingVars
    <2>. QED  BY <1>6, <2>3, <2>4 DEF ShutdownActivity
  <1>7. ASSUME NEW w \in Workers, WaitNextReady(w) PROVE IInv'
    BY <1>1, <1>7, WaitNextReadyInv DEF WaitNextReady, Waiting
  <1>8. ASSUME NEW w \in Workers, ShutdownConfirmed(w) \/ AgentAcked(w) PROVE IInv'
    BY <1>1, <1>8, LeavingInv DEF ShutdownConfirmed, AgentAcked, Normal, Receive
  <1>9. ASSUME NEW w \in Workers, BroadcastTerminate(w) PROVE IInv'
    <2>1. pc = "broadcast" /\ pc' \notin Normal
      BY <1>9 DEF BroadcastTerminate, AwaitAgents, Normal
    <2>2. Terminate \in DownSignals /\ Terminate \in Harmless(w)
      BY <2>1 DEF DownSignals, Harmless
    <2>. QED  BY <1>1, <1>9, <2>1, <2>2, HarmlessSendInv DEF BroadcastTerminate
  <1>10. ASSUME NEW w \in Workers, BroadcastFails(w) PROVE IInv'
    BY <1>1, <1>10, LeavingInv DEF BroadcastFails, AwaitAgents, signallingVars, Normal
  <1>11. CASE SyncDone \/ StartCycle
    BY <1>1, <1>11, QuietStepInv DEF SyncDone, StartCycle
  <1>12. CASE EndCycle
    <2>1. CASE pc' = "cycle"
      BY <1>1, <1>12, <2>1, QuietStepInv DEF EndCycle
    <2>2. CASE pc' # "cycle"
      BY <1>1, <1>12, <2>2, LeavingInv DEF EndCycle, BeginShutdown, signallingVars, Normal
    <2>. QED  BY <2>1, <2>2
  <1>13. CASE JoinWorkers
    BY <1>1, <1>13, LeavingInv DEF JoinWorkers, ProcessEnds, Normal
  <1>14. CASE WaitTimeout \/ WaitError \/ StartupTimeout
    BY <1>1, <1>14, LeavingInv DEF WaitTimeout, WaitError, StartupTimeout, Waiting,
                                  BeginShutdown, signallingVars, Normal
  <1>15. CASE ShutdownTimeout \/ AgentAckTimeout
    BY <1>1, <1>15, LeavingInv DEF ShutdownTimeout, AgentAckTimeout, signallingVars, Normal
  <1>. QED
    BY <1>1, <1>2, <1>3, <1>4, <1>5, <1>6, <1>7, <1>8, <1>9, <1>10, <1>11, <1>12, <1>13,
       <1>14, <1>15 DEF SchedulerStep

-----------------------------------------------------------------------------
LEMMA IInvStep == IInv /\ [Next]_vars => IInv'
  <1>. SUFFICES ASSUME IInv, [Next]_vars PROVE IInv'
    OBVIOUS
  <1>1. TypeOK'
    BY TypeStep DEF IInv
  <1>2. CASE SchedulerMoves
    BY <1>1, <1>2, SchedulerInv
  <1>3. CASE SignalMoves
    <2>1. CASE shutdown_requested
      BY <1>1, <1>3, <2>1, LeavingInv DEF SignalMoves, CtrlC, ProcessEnds, Normal
    <2>2. CASE ~shutdown_requested
      <3>1. /\ JobsOfTheLiving /\ down' = down /\ up' = up /\ ran' = ran /\ pc' = pc
            /\ todo' = todo /\ ready' = ready /\ triggered' = triggered
        BY <1>3, <2>2 DEF SignalMoves, CtrlC, signallingVars, activityStates
      <3>. QED  BY <1>1, <3>1, LivingFacts, HarmlessKeeps
    <2>. QED  BY <2>1, <2>2
  <1>4. ASSUME NEW w \in Workers, WorkerMoves(w) PROVE IInv'
    BY <1>1, <1>4, BeginActivityInv, EndActivityInv, OtherWorkerStepInv
       DEF WorkerMoves, WorkerStep
  <1>5. CASE FaultMoves
    BY <1>1, <1>5, FaultInv
  <1>6. CASE UNCHANGED vars
    BY <1>1, <1>6, HarmlessKeeps DEF vars, signallingVars, schedulerVars, workerVars, activityStates
  <1>. QED  BY <1>2, <1>3, <1>4, <1>5, <1>6 DEF Next

LEMMA IInvInit == Init => IInv
  <1>. SUFFICES ASSUME Init PROVE IInv
    OBVIOUS
  <1>1. TypeOK
    BY TypeInit
  <1>2. \A w \in Workers : down[w] = << >> /\ up[w] = << >> /\ job[w] = Idle
    BY DEF Init, SignallingInit, WorkerInit
  <1>3. \A w \in Workers : Range(down[w]) = {} /\ Range(up[w]) = {}
    BY <1>2 DEF Range
  <1>4. ASSUME NEW a \in Activities PROVE ~Busy(a) /\ ~Queued(a) /\ ~Answered(a)
    BY <1>2, <1>3, Home, SignalsDiffer DEF Busy, Queued, Answered
  <1>5. Addressed
    BY <1>2, <1>3 DEF Addressed, Idle, ActivitySignals
  <1>6. OneOrder /\ OneAnswer /\ Accounted
    BY <1>2, <1>4, Home DEF OneOrder, OneAnswer, Accounted, AtMostOne
  <1>7. PhaseSignals /\ StepsLater /\ StepsDue
    <2>1. \A w \in Workers : \A sig \in Range(down[w]) \cup {job[w]} : sig.type = "Idle"
      BY <1>2, <1>3 DEF Idle
    <2>. QED  BY <1>3, <2>1 DEF PhaseSignals, StepsLater, StepsDue
  <1>8. CycleProgress
    BY DEF Init, SchedulerInit, WorkerInit, CycleProgress
  <1>. QED  BY <1>1, <1>5, <1>6, <1>7, <1>8 DEF IInv

(***************************************************************************)
(* The inductive invariant of the scheduler/worker protocol (scheduler.rs  *)
(* run, worker/mod.rs run): in every configuration and with every fault at *)
(* most one order or answer per activity is under way and the scheduler's  *)
(* flags account for it.                                                   *)
(***************************************************************************)
THEOREM ProtocolInvariant == Spec => []IInv
  BY IInvInit, IInvStep, PTL DEF Spec

LEMMA OrderFromInv == IInv => ExecutionOrder
  <1>. SUFFICES ASSUME IInv, NEW a \in Activities, NEW w \in Workers, job[w] = Step(a)
                PROVE  a \notin ran /\ Depends[a] \cap Activities \subseteq ran
    BY DEF ExecutionOrder, Stepping
  <1>1. Step(a).type = "Step" /\ Step(a).id = a
    BY DEF Step
  <1>. QED  BY <1>1 DEF IInv, StepsDue, Due

(***************************************************************************)
(* The fixed execution order, for every set of activities and dependencies *)
(* (step_ready_activities): while an activity's step() runs, all it        *)
(* depends on have been stepped in this cycle and it has not.              *)
(***************************************************************************)
THEOREM ExecutionOrderHolds == Spec => []ExecutionOrder
  BY ProtocolInvariant, OrderFromInv, PTL

-----------------------------------------------------------------------------
(***************************************************************************)
(* Refinement of TaskChain.                                                *)
(***************************************************************************)
LEMMA SteppingAtHome ==
  ASSUME Addressed, NEW a \in Activities
  PROVE  a \in Stepping <=> job[WorkerOf[a]] = Step(a)
  <1>1. Step(a) \in ActivitySignals /\ Step(a).id = a
    BY DEF Step, ActivitySignals
  <1>2. ASSUME NEW w \in Workers, job[w] = Step(a) PROVE w = WorkerOf[a]
    BY <1>1, <1>2 DEF Addressed
  <1>. QED  BY <1>2, Home DEF Stepping

(* A step in which nothing is completed and nothing begins.                *)
LEMMA ChainAborts ==
  ASSUME ran' = ran,
         \A w \in Workers : job'[w] = job[w] \/ job'[w] \in {Idle, Terminate}
                              \/ job'[w].type # "Step"
  PROVE  [Chain!Next]_<<ran, Stepping>>
  <1>1. \A a : Step(a) # Idle /\ Step(a) # Terminate /\ Step(a).type = "Step"
    BY DEF Step, Idle, Terminate
  <1>2. Stepping' \subseteq Stepping
    BY <1>1 DEF Stepping
  <1>3. Stepping \subseteq Activities
    BY DEF Stepping
  <1>4. CASE Stepping' = Stepping
    BY <1>4
  <1>5. CASE Stepping' # Stepping
    <2>. DEFINE S == Stepping \ Stepping'
    <2>1. S \in SUBSET Activities /\ S # {} /\ Stepping' = Stepping \ S
      BY <1>2, <1>3, <1>5
    <2>2. Chain!Abort(S)
      BY <2>1 DEF Chain!Abort
    <2>. QED  BY <2>1, <2>2 DEF Chain!Next
  <1>. QED  BY <1>4, <1>5

LEMMA ChainBegins ==
  ASSUME IInv, IInv', NEW w \in Workers, BeginActivity(w)
  PROVE  [Chain!Next]_<<ran, Stepping>>
  <1>. DEFINE sig == Head(down[w])
  <1>1. sig \in Range(down[w]) /\ sig \in ActivitySignals
    BY TakesFacts DEF IInv, TypeOK, BeginActivity
  <1>2. /\ job'[w] = sig /\ \A v \in Workers : v # w => job'[v] = job[v]
        /\ job[w] = Idle /\ ran' = ran
    BY DEF IInv, TypeOK, WorkerTypeOK, BeginActivity, Takes
  <1>3. CASE sig.type # "Step"
    BY <1>2, <1>3, ChainAborts
  <1>4. CASE sig.type = "Step"
    <2>. DEFINE a == sig.id
    <2>1. a \in Activities /\ sig = Step(a) /\ WorkerOf[a] = w /\ Due(a)
      BY <1>1, <1>4 DEF IInv, Addressed, StepsDue, ActivitySignals, Step
    <2>2. a \notin Stepping
      BY <2>1, <1>2, SteppingAtHome DEF IInv, Idle, Step
    <2>3. Stepping' = Stepping \cup {a}
      <3>. HIDE DEF sig
      <3>1. \A b : Step(b) # Idle /\ (b # a => Step(b) # Step(a))
        BY DEF Step, Idle
      <3>. QED  BY <2>1, <1>2, <3>1 DEF Stepping
    <2>4. Chain!Begin(a)
      BY <2>1, <2>2, <2>3, <1>2 DEF Due, Chain!Begin
    <2>. QED  BY <2>1, <2>4 DEF Chain!Next
  <1>. QED  BY <1>3, <1>4

LEMMA ChainEnds ==
  ASSUME IInv, NEW w \in Workers, NEW ok \in BOOLEAN, EndActivity(w, ok)
  PROVE  [Chain!Next]_<<ran, Stepping>>
  <1>. DEFINE a == job[w].id
  <1>1. /\ a \in Activities /\ job[w] \in ActivitySignals /\ WorkerOf[a] = w
        /\ job'[w] = Idle /\ \A v \in Workers : v # w => job'[v] = job[v]
        /\ ran' = IF job[w].type = "Step" /\ ok THEN ran \cup {a} ELSE ran
    BY DEF EndActivity, IInv, Addressed, TypeOK, WorkerTypeOK, ActivitySignals
  <1>2. CASE ~(job[w].type = "Step" /\ ok)
    BY <1>1, <1>2, ChainAborts
  <1>3. CASE job[w].type = "Step" /\ ok
    <2>1. job[w] = Step(a)
      BY <1>1, <1>3 DEF ActivitySignals, Step
    <2>2. a \in Stepping
      BY <2>1, <1>1 DEF Stepping
    <2>3. Stepping' = Stepping \ {a}
      <3>1. \A b : Step(b) # Idle /\ (b # a => Step(b) # Step(a))
        BY DEF Step, Idle
      <3>2. \A v \in Workers : v # w => job[v] # Step(a)
        BY <1>1, <2>1 DEF IInv, Addressed
      <3>. QED  BY <1>1, <2>1, <3>1, <3>2 DEF Stepping
    <2>4. Chain!Finish(a)
      BY <1>1, <1>3, <2>2, <2>3 DEF Chain!Finish
    <2>. QED  BY <1>1, <2>4 DEF Chain!Next
  <1>. QED  BY <1>2, <1>3

LEMMA ChainScheduled ==
  ASSUME IInv, SchedulerMoves
  PROVE  [Chain!Next]_<<ran, Stepping>>
  <1>1. /\ \A v \in Workers : job'[v] \in {job[v], Idle}
        /\ ran' = IF pc = "cycle" THEN {} ELSE ran
    BY LivingFacts DEF SchedulerMoves
  <1>2. CASE pc # "cycle"
    BY <1>1, <1>2, ChainAborts
  <1>3. CASE pc = "cycle"
    <2>1. pc \in Normal /\ \A a \in Activities : ~InFlight(a)
      BY <1>3 DEF Normal, InFlight
    <2>2. \A v \in Workers : job[v].type # "Step" /\ job'[v].type # "Step"
      BY <1>1, <2>1, QuietFacts DEF Idle
    <2>3. Stepping = {} /\ Stepping' = {}
      BY <2>2 DEF Stepping, Step
    <2>4. ran = {} \/ ran = Activities
      BY <1>3 DEF IInv, CycleProgress
    <2>5. ran = Activities => Chain!NewCycle
      BY <1>1, <1>3, <2>3 DEF Chain!NewCycle
    <2>. QED  BY <1>1, <1>3, <2>3, <2>4, <2>5 DEF Chain!Next
  <1>. QED  BY <1>2, <1>3

LEMMA ChainStep == IInv /\ IInv' /\ [Next]_vars => [Chain!Next]_<<ran, Stepping>>
  <1>. SUFFICES ASSUME IInv, IInv', [Next]_vars PROVE [Chain!Next]_<<ran, Stepping>>
    OBVIOUS
  <1>1. CASE SchedulerMoves
    BY <1>1, ChainScheduled
  <1>2. CASE SignalMoves
    BY <1>2, LivingFacts, ChainAborts DEF SignalMoves
  <1>3. ASSUME NEW w \in Workers, WorkerMoves(w) PROVE [Chain!Next]_<<ran, Stepping>>
    <2>1. CASE BeginActivity(w)
      BY <2>1, ChainBegins
    <2>2. CASE \E ok \in BOOLEAN : EndActivity(w, ok)
      BY <2>2, ChainEnds
    <2>3. CASE ReceiveSync(w) \/ AckTerminate(w) \/ ExitWorker(w) \/ Disconnect(w)
      BY <2>3, ChainAborts DEF ReceiveSync, AckTerminate, ExitWorker, Disconnect, IInv,
                               TypeOK, WorkerTypeOK
    <2>. QED  BY <1>3, <2>1, <2>2, <2>3 DEF WorkerMoves, WorkerStep
  <1>4. CASE FaultMoves
    BY <1>4, ChainAborts DEF FaultMoves, WorkerPanics, AgentKilled, IInv, TypeOK, WorkerTypeOK
  <1>5. CASE UNCHANGED vars
    BY <1>5, ChainAborts DEF vars, workerVars
  <1>. QED  BY <1>1, <1>2, <1>3, <1>4, <1>5 DEF Next

LEMMA ChainInit == Init => Chain!Init
  BY DEF Init, WorkerInit, Chain!Init, Stepping, Step, Idle

(***************************************************************************)
(* The scheduler and its workers implement the abstract task chain: every  *)
(* cycle steps each activity at most once, after its dependencies, and a   *)
(* new cycle begins only when all activities have completed their step.    *)
(***************************************************************************)
THEOREM RefinesTaskChain == Spec => ImplementsTaskChain
  BY ProtocolInvariant, ChainInit, ChainStep, PTL DEF Spec, ImplementsTaskChain, Chain!Spec

-----------------------------------------------------------------------------
(***************************************************************************)
(* The clocks, the life cycle of the activities and the room on bounded    *)
(* channels.                                                               *)
(***************************************************************************)

(* The signals to the workers are pairwise different.                      *)
LEMMA KindsDiffer ==
  /\ \A a, b : a # b => /\ Startup(a) # Startup(b) /\ Step(a) # Step(b)
                        /\ Shutdown(a) # Shutdown(b) /\ Ready(a) # Ready(b)
  /\ \A a, b : /\ Startup(a) # Step(b) /\ Startup(a) # Shutdown(b) /\ Step(a) # Shutdown(b)
               /\ Ready(a) # ActivityFailed(b) /\ Ready(a) # TerminateAck(b)
  /\ \A a : /\ Startup(a) \notin {Idle, StartupSync, Terminate}
            /\ Step(a) \notin {Idle, StartupSync, Terminate}
            /\ Shutdown(a) \notin {Idle, StartupSync, Terminate}
  /\ Idle # StartupSync /\ Idle # Terminate /\ StartupSync # Terminate
  BY DEF Startup, Step, Shutdown, Ready, ActivityFailed, TerminateAck, Idle, StartupSync,
         Terminate

(* The entries of a sequence, by position and as a set.                    *)
LEMMA Entries ==
  ASSUME NEW S, NEW s \in Seq(S)
  PROVE  /\ Len(s) \in Nat /\ DOMAIN s = 1 .. Len(s)
         /\ \A x : x \in Range(s) <=> \E i \in 1 .. Len(s) : s[i] = x
         /\ Range(s) \subseteq S
         /\ s = << >> <=> Range(s) = {}
  <1>1. Len(s) \in Nat /\ DOMAIN s = 1 .. Len(s) /\ \A i \in 1 .. Len(s) : s[i] \in S
    BY LenProperties, ElementOfSeq
  <1>2. s = << >> <=> Len(s) = 0
    BY EmptySeq, <1>1
  <1>3. \A x : x \in Range(s) <=> \E i \in 1 .. Len(s) : s[i] = x
    BY <1>1 DEF Range
  <1>4. Len(s) # 0 => s[1] \in Range(s)
    BY <1>1, <1>3
  <1>5. Len(s) = 0 => Range(s) = {}
    BY <1>1, <1>3
  <1>6. Range(s) \subseteq S
    BY <1>1, <1>3
  <1>. QED  BY <1>1, <1>2, <1>3, <1>4, <1>5, <1>6

LEMMA Channels ==
  ASSUME TypeOK, NEW w \in Workers
  PROVE  /\ down[w] \in Seq(DownSignals) /\ up[w] \in Seq(UpSignals)
         /\ Len(down[w]) \in Nat /\ DOMAIN down[w] = 1 .. Len(down[w])
         /\ \A x : x \in Range(down[w]) <=> \E i \in 1 .. Len(down[w]) : down[w][i] = x
         /\ down[w] = << >> <=> Range(down[w]) = {}
         /\ up[w] = << >> <=> Range(up[w]) = {}
  <1>1. down[w] \in Seq(DownSignals) /\ up[w] \in Seq(UpSignals)
    BY DEF TypeOK, SignallingTypeOK
  <1>. QED  BY <1>1, Entries

-----------------------------------------------------------------------------
(***************************************************************************)
(* The clocks.                                                             *)
(***************************************************************************)
(* StartupSync stays first when something is taken ...                     *)
LEMMA FirstOnTail ==
  ASSUME NEW S, NEW s \in Seq(S), s # << >>, NEW x, Leads(x, s)
  PROVE  /\ Leads(x, Tail(s))
         /\ Head(s) # x => x \notin Range(Tail(s)) /\ x \notin Range(s)
         /\ x \in Range(s) => Head(s) = x
  <1>. USE DEF Leads
  <1>1. /\ Tail(s) \in Seq(S) /\ Len(s) \in Nat /\ Len(s) >= 1 /\ Len(Tail(s)) = Len(s) - 1
        /\ \A i \in 1 .. Len(s) - 1 : Tail(s)[i] = s[i + 1]
        /\ Head(s) = s[1]
    BY TailFacts
  <1>2. DOMAIN s = 1 .. Len(s) /\ DOMAIN Tail(s) = 1 .. Len(s) - 1
    BY <1>1, Entries
  <1>3. Leads(x, Tail(s))
    <2>1. ASSUME NEW i \in 1 .. Len(s) - 1, NEW j \in 1 .. Len(s) - 1, i < j, Tail(s)[j] = x
          PROVE  Tail(s)[i] = x
      <3>1. i + 1 \in DOMAIN s /\ j + 1 \in DOMAIN s /\ i + 1 < j + 1 /\ s[j + 1] = x
        BY <1>1, <1>2, <2>1
      <3>. QED  BY <1>1, <2>1, <3>1
    <2>. QED  BY <1>2, <2>1
  <1>4. x \in Range(s) => Head(s) = x
    <2>1. ASSUME NEW j \in 1 .. Len(s), s[j] = x PROVE s[1] = x
      BY <1>1, <1>2, <2>1
    <2>. QED  BY <1>1, <2>1, Entries
  <1>5. Range(Tail(s)) \subseteq Range(s)
    BY TailRange
  <1>. QED  BY <1>3, <1>4, <1>5

(* ... or sent behind it.                                                  *)
LEMMA FirstOnAppend ==
  ASSUME NEW S, NEW s \in Seq(S), NEW x, NEW y \in S, Leads(x, s),
         y = x => \A z \in Range(s) : z = x
  PROVE  Leads(x, Append(s, y))
  <1>. USE DEF Leads
  <1>1. /\ Append(s, y) \in Seq(S) /\ Len(Append(s, y)) = Len(s) + 1
        /\ \A i \in 1 .. Len(s) : Append(s, y)[i] = s[i]
        /\ Append(s, y)[Len(s) + 1] = y
    BY AppendFacts
  <1>2. DOMAIN s = 1 .. Len(s) /\ Len(s) \in Nat /\ DOMAIN Append(s, y) = 1 .. Len(s) + 1
    BY <1>1, Entries
  <1>3. \A i \in 1 .. Len(s) : s[i] \in Range(s)
    BY Entries
  <1>4. ASSUME NEW i \in 1 .. Len(s) + 1, NEW j \in 1 .. Len(s) + 1, i < j,
               Append(s, y)[j] = x
        PROVE  Append(s, y)[i] = x
    <2>1. i \in 1 .. Len(s)
      BY <1>2, <1>4
    <2>2. CASE j = Len(s) + 1
      BY <1>1, <1>3, <1>4, <2>1, <2>2
    <2>3. CASE j \in 1 .. Len(s)
      BY <1>1, <1>2, <1>4, <2>1, <2>3
    <2>. QED  BY <1>4, <2>2, <2>3, <1>2
  <1>. QED  BY <1>2, <1>4

(***************************************************************************)
(* Steps that send no StartupSync and take nothing from a channel.         *)
(***************************************************************************)
LEMMA ClockKeeps ==
  ASSUME TypeOK, TypeOK', ClockInv,
         \A v \in Workers :
           \/ down'[v] = down[v]
           \/ /\ pc \notin {"sync", "exited"}
              /\ \E sig \in DownSignals : sig # StartupSync /\ down'[v] = Append(down[v], sig),
         \A v \in Workers : job'[v] \in {job[v], Idle},
         \A v \in Workers : up'[v] = up[v] \/ up[v] # << >>,
         gone \subseteq gone', synced' = synced,
         \A a \in ever_ready' : a \in ever_ready \/ up[WorkerOf[a]] # << >>,
         pc = "sync" => (pc' = "sync" /\ todo' = todo) \/ pc' = "exited" \/ todo = {},
         pc = "exited" => pc' = "exited",
         pc' \in {"sync", "startup"} => pc \in {"sync", "startup"} /\ ever_ready' = ever_ready,
         pc' \in Normal => ready' \subseteq ever_ready'
  PROVE  ClockInv'
  <1>. DEFINE Kept(w) ==
         /\ StartupSync \in Range(down'[w]) <=> StartupSync \in Range(down[w])
         /\ Leads(StartupSync, down'[w])
  <1>1. ASSUME NEW w \in Workers PROVE Kept(w)
    <2>1. Leads(StartupSync, down[w])
      BY DEF ClockInv, SyncFirst
    <2>2. CASE down'[w] = down[w]
      BY <2>1, <2>2
    <2>3. ASSUME NEW sig \in DownSignals, sig # StartupSync, down'[w] = Append(down[w], sig)
          PROVE  Kept(w)
      <3>1. down[w] \in Seq(DownSignals)
        BY Channels
      <3>2. Range(down'[w]) = Range(down[w]) \cup {sig}
        BY <2>3, <3>1, AppendRange
      <3>. QED  BY <2>1, <2>3, <3>1, <3>2, FirstOnAppend
    <2>. QED  BY <2>2, <2>3
  <1>2. SyncFirst'
    BY <1>1 DEF SyncFirst
  <1>3. SyncUnseen'
    BY <1>1 DEF ClockInv, SyncUnseen
  <1>4. SyncAhead'
    BY <1>1 DEF ClockInv, SyncAhead
  <1>5. ClockInitialised'
    BY SignalTypes DEF ClockInv, ClockInitialised, Idle, ActivitySignals
  <1>. QED  BY <1>2, <1>3, <1>4, <1>5 DEF ClockInv

(* sync_remotes(): a StartupSync, while nothing else is on any channel.    *)
LEMMA ClockSyncTime ==
  ASSUME IInv, TypeOK', ClockInv, NEW a \in Activities, SyncTime(a), JobsOfTheLiving,
         synced' = synced
  PROVE  ClockInv'
  <1>. DEFINE w == WorkerOf[a]
  <1>1. /\ pc = "sync" /\ pc' = "sync" /\ todo' = todo \ {a} /\ a \in todo
        /\ up' = up /\ gone' = gone /\ ready' = ready /\ ever_ready' = ever_ready
    BY DEF SyncTime, SendOk, activityStates
  <1>2. w \in Workers /\ StartupSync \in DownSignals /\ TypeOK /\ pc \in Normal
    BY <1>1, Home DEF DownSignals, IInv, Normal
  <1>3. /\ \A v \in Workers : v # w => down'[v] = down[v]
        /\ \/ w \notin gone /\ down'[w] = Append(down[w], StartupSync)
           \/ w \in gone /\ down'[w] = down[w]
    BY <1>2 DEF SyncTime, SendOk, TypeOK, SignallingTypeOK
  <1>4. \A b \in Activities : ~InFlight(b)
    BY <1>1 DEF InFlight
  <1>5. ASSUME NEW v \in Workers
        PROVE  /\ job[v] = Idle /\ up[v] = << >>
               /\ \A sig \in Range(down[v]) : sig = StartupSync
    <2>1. /\ \A sig \in Range(down[v]) \cup {job[v]} :
               sig.type \notin {"Startup", "Step", "Shutdown", "Terminate"}
          /\ Range(up[v]) = {}
      BY <1>2, <1>4, QuietFacts DEF IInv, PhaseSignals
    <2>2. Range(down[v]) \subseteq DownSignals /\ up[v] = << >>
      BY <1>2, <2>1, Channels, Entries
    <2>3. job[v] \in ActivitySignals \cup {Idle, Terminate}
      BY <1>2 DEF TypeOK, WorkerTypeOK
    <2>4. job[v] = Idle
      BY <2>1, <2>3 DEF ActivitySignals, Terminate
    <2>5. \A sig \in Range(down[v]) : sig = StartupSync
      BY <2>1, <2>2 DEF DownSignals, ActivitySignals, Terminate
    <2>. QED  BY <2>2, <2>4, <2>5
  <1>6. \A v \in Workers : job'[v] = Idle
    BY <1>5, LivingFacts
  <1>7. /\ \A v \in Workers : Leads(StartupSync, down[v])
        /\ ever_ready = {} /\ ready \subseteq ever_ready
    BY <1>1, <1>2 DEF ClockInv, SyncFirst, SyncUnseen
  <1>8. /\ Range(down[w]) \subseteq Range(down'[w])
        /\ w \in gone \/ StartupSync \in Range(down'[w])
        /\ Leads(StartupSync, down'[w])
    <2>1. CASE w \in gone /\ down'[w] = down[w]
      BY <1>2, <1>7, <2>1
    <2>2. CASE down'[w] = Append(down[w], StartupSync)
      <3>1. down[w] \in Seq(DownSignals)
        BY <1>2, Channels
      <3>2. Range(down'[w]) = Range(down[w]) \cup {StartupSync}
        BY <1>2, <2>2, <3>1, AppendRange
      <3>3. Leads(StartupSync, down[w]) /\ \A z \in Range(down[w]) : z = StartupSync
        BY <1>2, <1>5, <1>7
      <3>4. Leads(StartupSync, Append(down[w], StartupSync))
        BY <1>2, <3>1, <3>3, FirstOnAppend
      <3>. QED  BY <2>2, <3>2, <3>4
    <2>. QED  BY <1>3, <2>1, <2>2
  <1>9. SyncFirst'
    BY <1>3, <1>7, <1>8 DEF SyncFirst
  <1>10. SyncUnseen'
    BY <1>1, <1>2, <1>5, <1>6, <1>7 DEF SyncUnseen
  <1>11. SyncAhead'
    BY <1>1, <1>2, <1>3, <1>8 DEF ClockInv, SyncAhead
  <1>12. ClockInitialised'
    BY <1>6, SignalTypes DEF ClockInitialised, Idle, ActivitySignals
  <1>. QED  BY <1>9, <1>10, <1>11, <1>12 DEF ClockInv

(* A worker takes the next signal.                                         *)
LEMMA ClockTakes ==
  ASSUME TypeOK, TypeOK', ClockInv, NEW w \in Workers, UNCHANGED schedulerVars,
         ReceiveSync(w) \/ BeginActivity(w) \/ AckTerminate(w)
  PROVE  ClockInv'
  <1>1. /\ w \notin gone /\ gone' = gone /\ job[w] = Idle /\ down[w] # << >>
        /\ down'[w] = Tail(down[w]) /\ \A v \in Workers : v # w => down'[v] = down[v]
        /\ \A v \in Workers : v # w => job'[v] = job[v] /\ up'[v] = up[v]
        /\ pc' = pc /\ todo' = todo /\ ready' = ready /\ ever_ready' = ever_ready
    BY DEF ReceiveSync, BeginActivity, AckTerminate, Takes, Reply, schedulerVars,
           activityStates, TypeOK, SignallingTypeOK, WorkerTypeOK
  <1>2. /\ Leads(StartupSync, down'[w])
        /\ Head(down[w]) # StartupSync =>
             StartupSync \notin Range(down'[w]) /\ StartupSync \notin Range(down[w])
        /\ Range(down'[w]) \subseteq Range(down[w])
    <2>1. down[w] \in Seq(DownSignals)
      BY Channels
    <2>. QED  BY <1>1, <2>1, FirstOnTail, TailRange DEF ClockInv, SyncFirst
  <1>3. SyncFirst'
    BY <1>1, <1>2 DEF ClockInv, SyncFirst
  <1>4. CASE ReceiveSync(w)
    <2>1. job' = job /\ up' = up /\ synced' = synced \cup {AgentOf[w]}
      BY <1>4 DEF ReceiveSync
    <2>2. SyncUnseen'
      BY <1>1, <1>2, <2>1 DEF ClockInv, SyncUnseen
    <2>3. SyncAhead'
      BY <1>1, <2>1 DEF ClockInv, SyncAhead
    <2>4. ClockInitialised'
      BY <2>1 DEF ClockInv, ClockInitialised
    <2>. QED  BY <1>3, <2>2, <2>3, <2>4 DEF ClockInv
  <1>5. CASE ~ReceiveSync(w)
    <2>1. Head(down[w]) # StartupSync /\ synced' = synced
      BY <1>5, SignalTypes, KindsDiffer DEF BeginActivity, AckTerminate, ActivitySignals,
                                            StartupSync
    <2>2. SyncUnseen'
      BY <1>1, <1>2, <2>1 DEF ClockInv, SyncUnseen
    <2>3. AgentOf[w] \in synced
      BY <1>1, <1>2, <2>1 DEF ClockInv, SyncAhead
    <2>4. SyncAhead'
      BY <1>1, <2>1, <2>3 DEF ClockInv, SyncAhead
    <2>5. ClockInitialised'
      BY <1>1, <2>1, <2>3 DEF ClockInv, ClockInitialised
    <2>. QED  BY <1>3, <2>2, <2>4, <2>5 DEF ClockInv
  <1>. QED  BY <1>4, <1>5

(* A busy worker has taken its StartupSync.                                *)
LEMMA ClockEndActivity ==
  ASSUME TypeOK, TypeOK', ClockInv, NEW w \in Workers, NEW ok \in BOOLEAN,
         EndActivity(w, ok), UNCHANGED schedulerVars
  PROVE  ClockInv'
  <1>1. /\ job[w] \in ActivitySignals /\ gone \subseteq gone' /\ down' = down
        /\ synced' = synced
        /\ \A v \in Workers : v # w => job'[v] = job[v] /\ up'[v] = up[v]
        /\ job'[w] = Idle
        /\ pc' = pc /\ todo' = todo /\ ready' = ready /\ ever_ready' = ever_ready
    BY DEF EndActivity, Reply, schedulerVars, activityStates, TypeOK, SignallingTypeOK,
           WorkerTypeOK
  <1>2. Idle \notin ActivitySignals
    BY DEF Idle, ActivitySignals
  <1>3. SyncFirst' /\ SyncAhead'
    BY <1>1 DEF ClockInv, SyncFirst, SyncAhead
  <1>4. SyncUnseen'
    BY <1>1, <1>2 DEF ClockInv, SyncUnseen
  <1>5. ClockInitialised'
    BY <1>1, <1>2 DEF ClockInv, ClockInitialised
  <1>. QED  BY <1>3, <1>4, <1>5 DEF ClockInv

(* The scheduler, the signal handler and the faults.                       *)
LEMMA ClockScheduler ==
  ASSUME IInv, TypeOK', ClockInv, SchedulerMoves
  PROVE  ClockInv'
  <1>. USE DEF activityStates, schedulerVars, signallingVars
  <1>1. /\ SchedulerStep /\ JobsOfTheLiving /\ synced' = synced /\ TypeOK
        /\ \A v \in Workers : job'[v] \in {job[v], Idle}
    BY LivingFacts DEF SchedulerMoves, IInv
  <1>2. pc \in Normal => ready \subseteq ever_ready
    BY DEF ClockInv, SyncUnseen
  <1>3. ASSUME NEW a \in Activities, SyncTime(a) PROVE ClockInv'
    BY <1>1, <1>3, ClockSyncTime
  <1>4. ASSUME NEW w \in Workers, NEW sig \in DownSignals, sig # StartupSync, SendOk(w, sig),
               pc \notin {"sync", "exited"}, ever_ready' = ever_ready, ready' = ready,
               pc' \in {"sync", "startup"} => pc = "startup",
               pc' \in Normal => pc \in Normal
        PROVE  ClockInv'
    <2>1. \A v \in Workers : down'[v] = down[v] \/ down'[v] = Append(down[v], sig)
      BY <1>1, <1>4 DEF SendOk, TypeOK, SignallingTypeOK
    <2>2. up' = up /\ gone' = gone
      BY <1>4 DEF SendOk
    <2>. QED  BY <1>1, <1>2, <1>4, <2>1, <2>2, ClockKeeps
  <1>5. ASSUME NEW a \in Activities, StartupActivity(a) PROVE ClockInv'
    BY <1>4, <1>5, Home, KindsDiffer, SignalTypes, ConfigAssumption DEF StartupActivity, Normal
  <1>6. ASSUME NEW a \in Activities, StepActivity(a) PROVE ClockInv'
    BY <1>4, <1>6, Home, KindsDiffer, SignalTypes, ConfigAssumption DEF StepActivity, Normal
  <1>7. ASSUME NEW w \in Workers, BroadcastTerminate(w) PROVE ClockInv'
    <2>1. pc' \in {"broadcast", "join", "terminateWait"}
      BY <1>7 DEF BroadcastTerminate, AwaitAgents
    <2>2. Terminate \in DownSignals
      BY DEF DownSignals
    <2>. QED  BY <1>4, <1>7, <2>1, <2>2, KindsDiffer DEF BroadcastTerminate, Normal
  <1>8. ASSUME down' = down, up' = up, gone \subseteq gone', ever_ready' = ever_ready,
               pc = "sync" => pc' = "exited" \/ todo = {},
               pc' # "sync", pc' = "startup" => pc = "sync", pc = "exited" => pc' = "exited",
               pc' \in Normal => ready' \subseteq ever_ready
        PROVE  ClockInv'
    BY <1>1, <1>8, ClockKeeps
  <1>9. ASSUME NEW a \in Activities, ShutdownActivity(a) PROVE ClockInv'
    <2>1. pc = "shutdown" /\ pc' \in {"shutdown", "shutdownWait"} /\ ever_ready' = ever_ready
          /\ ready' = ready
      BY <1>9 DEF ShutdownActivity
    <2>2. CASE SendOk(WorkerOf[a], Shutdown(a))
      BY <1>4, <2>1, <2>2, Home, KindsDiffer, SignalTypes, ConfigAssumption DEF Normal
    <2>3. CASE UNCHANGED signallingVars
      BY <1>8, <2>1, <2>3 DEF Normal
    <2>. QED  BY <1>9, <2>2, <2>3 DEF ShutdownActivity
  <1>10. ASSUME NEW a \in Activities, SyncFails(a) \/ StartupPanics(a) \/ StepPanics(a)
         PROVE  ClockInv'
    BY <1>8, <1>10 DEF SyncFails, StartupPanics, StepPanics, ProcessEnds, Normal
  <1>11. CASE JoinWorkers
    BY <1>8, <1>11 DEF JoinWorkers, ProcessEnds, Normal
  <1>12. CASE SyncDone \/ StartCycle
    BY <1>2, <1>8, <1>12 DEF SyncDone, StartCycle, Normal
  <1>13. ASSUME BeginShutdown PROVE pc' \in {"shutdown", "broadcast"} /\ ever_ready' = ever_ready
    BY <1>13 DEF BeginShutdown
  <1>14. CASE EndCycle
    BY <1>2, <1>8, <1>13, <1>14 DEF EndCycle, Normal
  <1>15. CASE WaitTimeout \/ WaitError \/ StartupTimeout
    BY <1>8, <1>13, <1>15 DEF WaitTimeout, WaitError, StartupTimeout, Waiting, Normal
  <1>16. CASE ShutdownTimeout \/ AgentAckTimeout
    BY <1>8, <1>16 DEF ShutdownTimeout, AgentAckTimeout, Normal
  <1>17. ASSUME NEW w \in Workers, BroadcastFails(w) PROVE ClockInv'
    BY <1>8, <1>17 DEF BroadcastFails, AwaitAgents, Normal
  <1>18. ASSUME NEW w \in Workers, Receive(w), pc' \notin {"sync", "startup"},
                pc \notin {"sync", "exited"},
                \A a \in ever_ready' : a \in ever_ready \/ WorkerOf[a] = w,
                pc' \in Normal => ready' \subseteq ever_ready'
         PROVE  ClockInv'
    <2>1. /\ up[w] # << >> /\ down' = down /\ gone' = gone
          /\ \A v \in Workers : up'[v] = up[v] \/ v = w
      BY <1>1, <1>18 DEF Receive, TypeOK, SignallingTypeOK
    <2>. QED  BY <1>1, <1>18, <2>1, ClockKeeps
  <1>19. ASSUME NEW w \in Workers, ShutdownConfirmed(w) \/ AgentAcked(w) PROVE ClockInv'
    BY <1>18, <1>19 DEF ShutdownConfirmed, AgentAcked, Normal
  <1>20. ASSUME NEW w \in Workers, WaitNextReady(w) PROVE ClockInv'
    <2>1. Receive(w) /\ pc \in {"startupWait", "run"}
      BY <1>20 DEF WaitNextReady, Waiting
    <2>2. Head(up[w]) \in Range(up[w]) /\ Head(up[w]) \in UpSignals
      BY <1>1, <2>1, ReceiveFacts, ReceiveType DEF TypeOK
    <2>3. CASE Head(up[w]).type = "Ready"
      <3>1. OnReady(Head(up[w]).id) /\ WorkerOf[Head(up[w]).id] = w
        BY <1>20, <2>2, <2>3 DEF WaitNextReady, IInv, Addressed
      <3>. QED  BY <1>2, <1>18, <2>1, <3>1 DEF OnReady, Normal
    <2>4. CASE Head(up[w]).type = "ActivityFailed"
      BY <1>13, <1>18, <1>20, <2>1, <2>4 DEF WaitNextReady, Normal
    <2>5. CASE Head(up[w]).type \notin {"Ready", "ActivityFailed"}
      BY <1>2, <1>18, <1>20, <2>1, <2>5 DEF WaitNextReady, Normal
    <2>. QED  BY <2>3, <2>4, <2>5
  <1>. QED
    BY <1>1, <1>3, <1>5, <1>6, <1>7, <1>9, <1>10, <1>11, <1>12, <1>14, <1>15, <1>16, <1>17,
       <1>19, <1>20 DEF SchedulerStep

LEMMA ClockStep == IInv /\ ClockInv /\ [Next]_vars => ClockInv'
  <1>. SUFFICES ASSUME IInv, ClockInv, [Next]_vars PROVE ClockInv'
    OBVIOUS
  <1>. USE DEF activityStates, schedulerVars, signallingVars
  <1>1. TypeOK /\ TypeOK'
    BY TypeStep DEF IInv
  <1>2. CASE SchedulerMoves
    BY <1>1, <1>2, ClockScheduler
  <1>3. CASE SignalMoves
    BY <1>1, <1>3, LivingFacts, ClockKeeps
       DEF SignalMoves, CtrlC, ProcessEnds, ClockInv, SyncUnseen, Normal
  <1>4. ASSUME NEW w \in Workers, WorkerMoves(w) PROVE ClockInv'
    <2>1. CASE ReceiveSync(w) \/ BeginActivity(w) \/ AckTerminate(w)
      BY <1>1, <1>4, <2>1, ClockTakes DEF WorkerMoves
    <2>2. CASE \E ok \in BOOLEAN : EndActivity(w, ok)
      BY <1>1, <1>4, <2>2, ClockEndActivity DEF WorkerMoves
    <2>3. CASE ExitWorker(w) \/ Disconnect(w)
      BY <1>1, <1>4, <2>3, ClockKeeps DEF WorkerMoves, ExitWorker, Disconnect, ClockInv,
         SyncUnseen, TypeOK, WorkerTypeOK
    <2>. QED  BY <1>4, <2>1, <2>2, <2>3 DEF WorkerMoves, WorkerStep
  <1>5. CASE FaultMoves
    BY <1>1, <1>5, ClockKeeps DEF FaultMoves, WorkerPanics, AgentKilled, ClockInv, SyncUnseen,
       TypeOK, WorkerTypeOK
  <1>6. CASE UNCHANGED vars
    BY <1>1, <1>6, ClockKeeps DEF vars, workerVars, ClockInv, SyncUnseen
  <1>. QED  BY <1>2, <1>3, <1>4, <1>5, <1>6 DEF Next

LEMMA ClockInit == Init => ClockInv
  <1>. SUFFICES ASSUME Init PROVE ClockInv
    OBVIOUS
  <1>1. \A w \in Workers : down[w] = << >> /\ up[w] = << >> /\ job[w] = Idle
    BY DEF Init, SignallingInit, WorkerInit
  <1>2. \A w \in Workers : Range(down[w]) = {} /\ DOMAIN down[w] = {}
    BY <1>1 DEF Range
  <1>3. SyncFirst
    BY <1>2 DEF SyncFirst, Leads
  <1>4. SyncUnseen
    BY <1>2 DEF SyncUnseen, Init, SchedulerInit
  <1>5. SyncAhead
    BY <1>1, ConfigAssumption DEF SyncAhead, Init, SchedulerInit, WorkerInit
  <1>6. ClockInitialised
    BY <1>1 DEF ClockInitialised, Idle, ActivitySignals
  <1>. QED  BY <1>3, <1>4, <1>5, <1>6 DEF ClockInv

LEMMA ClockHolds == Spec => []ClockInv
  BY ProtocolInvariant, ClockInit, ClockStep, PTL DEF Spec

(***************************************************************************)
(* No worker ever calls timestamp() in a process whose clock is not set    *)
(* (worker/mod.rs run, timestamp.rs), although StartupSync and the orders  *)
(* to different workers of one process overtake each other.                *)
(***************************************************************************)
THEOREM ClocksAreInitialised == Spec => []ClockInitialised
  <1>1. ClockInv => ClockInitialised
    BY DEF ClockInv
  <1>. QED  BY <1>1, ClockHolds, PTL

LEMMA QuietFromInv == IInv /\ ClockInv => QuietBetweenCycles
  <1>. SUFFICES ASSUME IInv, ClockInv, pc \in {"cycle", "sleep"}, NEW w \in Workers
                PROVE  up[w] = << >> /\ down[w] = << >> /\ job[w] = Idle
    BY DEF QuietBetweenCycles
  <1>1. TypeOK /\ pc \in Normal /\ \A a \in Activities : ~InFlight(a)
    BY DEF IInv, Normal, InFlight
  <1>2. /\ \A sig \in Range(down[w]) \cup {job[w]} :
             sig.type \notin {"Startup", "Step", "Shutdown", "Terminate"}
        /\ Range(up[w]) = {}
    BY <1>1, QuietFacts DEF IInv, PhaseSignals
  <1>3. Range(down[w]) \subseteq DownSignals
    BY <1>1, Channels, Entries
  <1>4. job[w] = Idle
    BY <1>1, <1>2 DEF TypeOK, WorkerTypeOK, ActivitySignals, Terminate
  <1>5. StartupSync \notin Range(down[w])
    <2>1. PICK a \in Activities : WorkerOf[a] = w
      BY ConfigAssumption
    <2>2. a \in ever_ready
      BY <1>1, <2>1 DEF IInv, CycleProgress, ClockInv, SyncUnseen
    <2>. QED  BY <2>1, <2>2 DEF ClockInv, SyncUnseen
  <1>6. Range(down[w]) = {}
    BY <1>2, <1>3, <1>5 DEF DownSignals, ActivitySignals, Terminate
  <1>. QED  BY <1>1, <1>2, <1>4, <1>6, Channels

(***************************************************************************)
(* Task chains never overlap (Scheduler::run): between two of them no      *)
(* signal is under way and no worker busy, so no answer can be taken for   *)
(* one of the next cycle.                                                  *)
(***************************************************************************)
THEOREM QuietBetween == Spec => []QuietBetweenCycles
  BY ProtocolInvariant, ClockHolds, QuietFromInv, PTL

-----------------------------------------------------------------------------
(***************************************************************************)
(* The life cycle.  Signal sig may be sent to worker w: it fits the state  *)
(* of the activity, is not behind its Shutdown, and if it is Terminate     *)
(* every activity that was ever ready has its Shutdown ahead of it.        *)
(***************************************************************************)
Fits(w, sig) ==
  \A a \in Activities : WorkerOf[a] = w =>
    /\ sig = Startup(a) => life[a] = "built"
    /\ sig = Step(a) => life[a] = "started"
    /\ sig = Shutdown(a) => life[a] \in {"started", "stepFailed"} /\ ~NotYet(a)'
    /\ sig \in Work(a) \cup {Shutdown(a)} => Shutdown(a) \notin Orders(w)
    /\ sig = Terminate /\ a \in ever_ready => Stopping(a)

Sends(w, sig) ==
  /\ w \notin gone /\ Fits(w, sig)
  /\ down'[w] = Append(down[w], sig)
  /\ \A v \in Workers : v # w => down'[v] = down[v]

(* Steps that end no method and take nothing from a channel.               *)
LEMMA LifeKeeps ==
  ASSUME IInv, IInv', LifeInv, NEW w \in Workers, NEW sig \in DownSignals,
         down' = down \/ Sends(w, sig),
         \A v \in Workers : job'[v] = job[v] \/ (job'[v] = Idle /\ v \in gone'),
         \A v \in Workers : Range(up'[v]) \subseteq Range(up[v]),
         gone \subseteq gone', life' = life,
         \A a \in Activities :
           /\ NotYet(a)' => NotYet(a)
           /\ pc' = "sync" \/ (pc' = "startup" /\ a \in todo') => life[a] = "built"
           /\ Settled(a)' => life[a] = "started",
         pc' \in Normal => pc \in Normal,
         \A a \in ever_ready' : a \in ever_ready \/ (pc' \in Normal /\ life[a] = "started"),
         pc' = "shutdown" => todo' \subseteq ever_ready',
         \A a \in ever_ready' : Already(a)' =>
           \/ Already(a) \/ WorkerOf[a] \in gone
           \/ WorkerOf[a] = w /\ sig = Shutdown(a) /\ Sends(w, sig)
  PROVE  LifeInv'
  <1>1. TypeOK /\ ever_ready' \subseteq Activities
    BY DEF IInv, TypeOK, SchedulerTypeOK
  <1>2. \A v \in Workers :
          \/ down'[v] = down[v]
          \/ v = w /\ Sends(w, sig) /\ down'[v] = Append(down[v], sig)
    BY DEF Sends
  <1>3. ASSUME NEW v \in Workers
        PROVE  /\ Range(down'[v]) \subseteq Range(down[v])
                    \cup (IF v = w /\ Sends(w, sig) THEN {sig} ELSE {})
               /\ Range(down[v]) \subseteq Range(down'[v])
               /\ v = w /\ Sends(w, sig) => sig \in Range(down'[v])
    <2>1. down[v] \in Seq(DownSignals)
      BY <1>1, Channels
    <2>2. CASE down'[v] = Append(down[v], sig) /\ v = w /\ Sends(w, sig)
      BY <2>1, <2>2, AppendRange
    <2>3. CASE down'[v] = down[v] /\ ~(v = w /\ Sends(w, sig))
      BY <2>3
    <2>. QED  BY <1>2, <2>2, <2>3 DEF Sends
  <1>4. OrdersFit'
    <2>1. ASSUME NEW a \in Activities, NEW s \in {Startup(a), Step(a), Shutdown(a)},
                 s \in Orders(WorkerOf[a])'
          PROVE  s \in Orders(WorkerOf[a]) \/ (s = sig /\ WorkerOf[a] = w /\ Fits(w, sig))
      BY <1>3, <2>1, Home, KindsDiffer DEF Orders, Sends
    <2>2. ASSUME NEW a \in Activities, Startup(a) \in Orders(WorkerOf[a])'
          PROVE  life[a] = "built"
      BY <2>1, <2>2 DEF LifeInv, OrdersFit, Fits
    <2>3. ASSUME NEW a \in Activities, Step(a) \in Orders(WorkerOf[a])'
          PROVE  life[a] = "started"
      BY <2>1, <2>3 DEF LifeInv, OrdersFit, Fits
    <2>4. ASSUME NEW a \in Activities, Shutdown(a) \in Orders(WorkerOf[a])'
          PROVE  life[a] \in {"started", "stepFailed"} /\ ~NotYet(a)'
      BY <2>1, <2>4 DEF LifeInv, OrdersFit, Fits
    <2>. QED  BY <2>2, <2>3, <2>4 DEF OrdersFit
  <1>5. ShutdownLast'
    <2>. SUFFICES ASSUME NEW a \in Activities
                  PROVE  /\ \A i, j \in DOMAIN down'[WorkerOf[a]] :
                              down'[WorkerOf[a]][i] = Shutdown(a)
                                /\ down'[WorkerOf[a]][j] \in Work(a) \cup {Shutdown(a)} => j <= i
                         /\ job'[WorkerOf[a]] = Shutdown(a) =>
                              Range(down'[WorkerOf[a]]) \cap (Work(a) \cup {Shutdown(a)}) = {}
      BY DEF ShutdownLast
    <2>. DEFINE v == WorkerOf[a]
    <2>1. v \in Workers
      BY Home
    <2>2. /\ \A i, j \in DOMAIN down[v] :
               down[v][i] = Shutdown(a) /\ down[v][j] \in Work(a) \cup {Shutdown(a)} => j <= i
          /\ job[v] = Shutdown(a) => Range(down[v]) \cap (Work(a) \cup {Shutdown(a)}) = {}
      BY DEF LifeInv, ShutdownLast
    <2>3. job'[v] = Shutdown(a) => job[v] = Shutdown(a)
      BY <2>1, KindsDiffer
    <2>4. CASE down'[v] = down[v]
      BY <2>2, <2>3, <2>4
    <2>5. CASE v = w /\ Sends(w, sig) /\ down'[v] = Append(down[v], sig)
      <3>1. /\ down[v] \in Seq(DownSignals) /\ Len(down[v]) \in Nat
            /\ DOMAIN down[v] = 1 .. Len(down[v]) /\ DOMAIN down'[v] = 1 .. Len(down[v]) + 1
            /\ \A i \in 1 .. Len(down[v]) : down'[v][i] = down[v][i]
            /\ down'[v][Len(down[v]) + 1] = sig
        BY <1>1, <2>1, <2>5, Channels, AppendFacts, Entries
      <3>2. sig \in Work(a) \cup {Shutdown(a)} =>
              Shutdown(a) \notin Range(down[v]) /\ job[v] # Shutdown(a)
        BY <2>5 DEF Sends, Fits, Orders
      <3>3. \A i \in 1 .. Len(down[v]) : down[v][i] \in Range(down[v])
        BY ZenonT(40), <1>1, <2>1, Channels
      <3>4. ASSUME NEW i \in DOMAIN down'[v], NEW j \in DOMAIN down'[v],
                   down'[v][i] = Shutdown(a), down'[v][j] \in Work(a) \cup {Shutdown(a)}
            PROVE  j <= i
        <4>1. CASE i = Len(down[v]) + 1
          BY <3>1, <4>1
        <4>2. CASE i # Len(down[v]) + 1
          <5>1. i \in 1 .. Len(down[v]) /\ Shutdown(a) \in Range(down[v])
            BY <3>1, <3>3, <3>4, <4>2
          <5>2. j # Len(down[v]) + 1
            BY <3>1, <3>2, <3>4, <5>1
          <5>3. j \in 1 .. Len(down[v])
            BY <3>1, <5>2
          <5>. QED  BY <2>2, <3>1, <3>4, <5>1, <5>3
        <4>. QED  BY <4>1, <4>2
      <3>5. ASSUME job'[v] = Shutdown(a)
            PROVE  Range(down'[v]) \cap (Work(a) \cup {Shutdown(a)}) = {}
        BY <1>3, <2>1, <2>2, <2>3, <3>2, <3>5
      <3>. QED  BY <3>4, <3>5
    <2>. QED  BY <1>2, <2>1, <2>4, <2>5
  <1>6. LifeKnown'
    <2>1. \A a \in Activities : Range(up'[WorkerOf[a]]) \subseteq Range(up[WorkerOf[a]])
      BY Home
    <2>. QED  BY <2>1 DEF LifeInv, LifeKnown
  <1>7. ShutdownSent'
    <2>1. ASSUME NEW a \in ever_ready', Already(a)', WorkerOf[a] \notin gone' PROVE Stopping(a)'
      <3>1. a \in Activities /\ WorkerOf[a] \in Workers /\ WorkerOf[a] \notin gone
        BY <1>1, <2>1, Home
      <3>2. CASE WorkerOf[a] = w /\ sig = Shutdown(a) /\ Sends(w, sig)
        BY <1>3, <3>2 DEF Stopping, Orders
      <3>3. CASE Already(a)
        <4>1. pc' \notin Normal
          BY <3>3 DEF Already, Normal
        <4>2. Stopping(a)
          BY <2>1, <3>1, <3>3, <4>1 DEF LifeInv, ShutdownSent
        <4>. QED  BY <1>3, <2>1, <3>1, <4>2 DEF Stopping, Orders
      <3>. QED  BY <2>1, <3>1, <3>2, <3>3
    <2>. QED  BY <2>1 DEF ShutdownSent
  <1>8. TerminateLast'
    <2>. SUFFICES ASSUME NEW a \in ever_ready'
                  PROVE  /\ job'[WorkerOf[a]] = Terminate => life[a] = "stopped"
                         /\ WorkerOf[a] \notin gone' =>
                              \A i \in DOMAIN down'[WorkerOf[a]] :
                                down'[WorkerOf[a]][i] = Terminate =>
                                \/ life[a] = "stopped" \/ job'[WorkerOf[a]] = Shutdown(a)
                                \/ \E j \in DOMAIN down'[WorkerOf[a]] :
                                     j < i /\ down'[WorkerOf[a]][j] = Shutdown(a)
      BY DEF TerminateLast
    <2>. DEFINE v == WorkerOf[a]
    <2>1. v \in Workers /\ a \in Activities
      BY <1>1, Home
    <2>2. CASE pc' \in Normal
      <3>1. \A s \in Range(down'[v]) \cup {job'[v]} : s # Terminate
        BY <2>1, <2>2 DEF IInv, PhaseSignals, Terminate
      <3>2. \A i \in DOMAIN down'[v] : down'[v][i] \in Range(down'[v])
        BY DEF Range
      <3>. QED  BY <3>1, <3>2
    <2>3. CASE pc' \notin Normal
      <3>1. a \in ever_ready
        BY <2>3
      <3>2. /\ job[v] = Terminate => life[a] = "stopped"
            /\ v \notin gone => \A i \in DOMAIN down[v] : down[v][i] = Terminate =>
                 \/ life[a] = "stopped" \/ job[v] = Shutdown(a)
                 \/ \E j \in DOMAIN down[v] : j < i /\ down[v][j] = Shutdown(a)
        BY <3>1 DEF LifeInv, TerminateLast
      <3>3. job'[v] = Terminate => life[a] = "stopped"
        BY <2>1, <3>2, KindsDiffer
      <3>4. ASSUME v \notin gone', NEW i \in DOMAIN down'[v], down'[v][i] = Terminate
            PROVE  \/ life[a] = "stopped" \/ job'[v] = Shutdown(a)
                   \/ \E j \in DOMAIN down'[v] : j < i /\ down'[v][j] = Shutdown(a)
        <4>1. v \notin gone /\ job'[v] = job[v]
          BY <2>1, <3>4
        <4>2. CASE down'[v] = down[v]
          BY <3>2, <3>4, <4>1, <4>2
        <4>3. CASE v = w /\ Sends(w, sig) /\ down'[v] = Append(down[v], sig)
          <5>1. /\ down[v] \in Seq(DownSignals) /\ Len(down[v]) \in Nat
                /\ DOMAIN down[v] = 1 .. Len(down[v]) /\ DOMAIN down'[v] = 1 .. Len(down[v]) + 1
                /\ \A k \in 1 .. Len(down[v]) : down'[v][k] = down[v][k]
                /\ down'[v][Len(down[v]) + 1] = sig
            BY <1>1, <2>1, <4>3, Channels, AppendFacts, Entries
          <5>2. CASE i = Len(down[v]) + 1
            <6>1. Stopping(a)
              BY <2>1, <3>1, <3>4, <4>3, <5>1, <5>2 DEF Sends, Fits
            <6>2. CASE Shutdown(a) \in Range(down[v])
              <7>1. PICK j \in 1 .. Len(down[v]) : down[v][j] = Shutdown(a)
                BY <1>1, <2>1, <6>2, Channels
              <7>. QED  BY <5>1, <5>2, <7>1
            <6>. QED  BY <4>1, <6>1, <6>2 DEF Stopping, Orders
          <5>3. CASE i \in 1 .. Len(down[v])
            <6>1. \/ life[a] = "stopped" \/ job[v] = Shutdown(a)
                  \/ \E j \in DOMAIN down[v] : j < i /\ down[v][j] = Shutdown(a)
              BY <3>2, <3>4, <4>1, <5>1, <5>3
            <6>. QED  BY <4>1, <5>1, <6>1
          <5>. QED  BY <3>4, <5>1, <5>2, <5>3
        <4>. QED  BY <1>2, <2>1, <4>2, <4>3
      <3>. QED  BY <3>3, <3>4
    <2>. QED  BY <2>2, <2>3
  <1>. QED  BY <1>4, <1>5, <1>6, <1>7, <1>8 DEF LifeInv

(* A worker takes the next signal.                                         *)
LEMMA LifeTakes ==
  ASSUME IInv, LifeInv, NEW w \in Workers, UNCHANGED schedulerVars,
         ReceiveSync(w) \/ BeginActivity(w) \/ AckTerminate(w)
  PROVE  LifeInv'
  <1>. USE DEF schedulerVars, activityStates
  <1>. DEFINE s == down[w]
  <1>1. /\ w \notin gone /\ gone' = gone /\ job[w] = Idle /\ s # << >> /\ life' = life
        /\ down'[w] = Tail(s) /\ \A v \in Workers : v # w => down'[v] = down[v]
        /\ \A v \in Workers : v # w => job'[v] = job[v]
        /\ \/ job'[w] = Head(s)
           \/ job'[w] = Idle /\ Head(s) = StartupSync
        /\ pc' = pc /\ todo' = todo /\ ready' = ready /\ ever_ready' = ever_ready
        /\ triggered' = triggered
    BY DEF ReceiveSync, BeginActivity, AckTerminate, Takes, IInv, TypeOK, SignallingTypeOK,
           WorkerTypeOK
  <1>2. /\ s \in Seq(DownSignals) /\ Len(s) \in Nat /\ Len(s) >= 1
        /\ DOMAIN s = 1 .. Len(s) /\ DOMAIN down'[w] = 1 .. Len(s) - 1
        /\ \A i \in 1 .. Len(s) - 1 : down'[w][i] = s[i + 1]
        /\ Head(s) = s[1]
        /\ Range(down'[w]) \subseteq Range(s) /\ Head(s) \in Range(s)
        /\ \A x : x \in Range(s) => x = s[1] \/ x \in Range(down'[w])
        /\ \A x : x \in Range(down'[w]) => \E i \in 1 .. Len(s) - 1 : down'[w][i] = x
    <2>1. s \in Seq(DownSignals) /\ \A x : x \in Range(s) => \E i \in 1 .. Len(s) : s[i] = x
      BY Channels DEF IInv
    <2>2. /\ Len(s) \in Nat /\ Len(s) >= 1 /\ Tail(s) \in Seq(DownSignals)
          /\ Len(Tail(s)) = Len(s) - 1 /\ Head(s) = s[1]
          /\ \A i \in 1 .. Len(s) - 1 : Tail(s)[i] = s[i + 1]
      BY <1>1, <2>1, TailFacts
    <2>3. /\ DOMAIN s = 1 .. Len(s) /\ DOMAIN Tail(s) = 1 .. Len(s) - 1
          /\ \A x : x \in Range(Tail(s)) <=> \E i \in 1 .. Len(s) - 1 : Tail(s)[i] = x
      BY <2>1, <2>2, Entries
    <2>4. Range(Tail(s)) \subseteq Range(s) /\ Head(s) \in Range(s)
      BY <1>1, <2>1, TailRange
    <2>5. ASSUME NEW x \in Range(s), x # s[1] PROVE x \in Range(Tail(s))
      <3>1. PICK i \in 1 .. Len(s) : s[i] = x
        BY <2>1
      <3>2. i - 1 \in 1 .. Len(s) - 1 /\ Tail(s)[i - 1] = x
        BY <2>2, <2>5, <3>1
      <3>. QED  BY <2>3, <3>2
    <2>. HIDE DEF s
    <2>. QED  BY <1>1, <2>1, <2>2, <2>3, <2>4, <2>5
  <1>. HIDE DEF s
  <1>3. /\ \A a : NotYet(a)' <=> NotYet(a)
        /\ \A a : Already(a)' <=> Already(a)
        /\ \A a : Settled(a)' <=> Settled(a)
    BY <1>1 DEF NotYet, Already, Settled
  <1>4. \A v \in Workers : Orders(v)' \subseteq Orders(v) \cup {Idle}
    BY <1>1, <1>2 DEF Orders, s
  <1>5. OrdersFit'
    BY <1>1, <1>3, <1>4, Home, KindsDiffer DEF LifeInv, OrdersFit
  <1>6. ShutdownLast'
    <2>. SUFFICES ASSUME NEW a \in Activities
                  PROVE  /\ \A i, j \in DOMAIN down'[WorkerOf[a]] :
                              down'[WorkerOf[a]][i] = Shutdown(a)
                                /\ down'[WorkerOf[a]][j] \in Work(a) \cup {Shutdown(a)} => j <= i
                         /\ job'[WorkerOf[a]] = Shutdown(a) =>
                              Range(down'[WorkerOf[a]]) \cap (Work(a) \cup {Shutdown(a)}) = {}
      BY DEF ShutdownLast
    <2>. DEFINE v == WorkerOf[a]
    <2>1. v \in Workers
      BY Home
    <2>2. /\ \A i, j \in DOMAIN down[v] :
               down[v][i] = Shutdown(a) /\ down[v][j] \in Work(a) \cup {Shutdown(a)} => j <= i
          /\ job[v] = Shutdown(a) => Range(down[v]) \cap (Work(a) \cup {Shutdown(a)}) = {}
      BY DEF LifeInv, ShutdownLast
    <2>3. CASE v # w
      BY <1>1, <2>1, <2>2, <2>3
    <2>4. CASE v = w
      <3>1. \A i, j \in 1 .. Len(s) :
              s[i] = Shutdown(a) /\ s[j] \in Work(a) \cup {Shutdown(a)} => j <= i
        BY <1>2, <2>2, <2>4 DEF s
      <3>2. ASSUME NEW i \in 1 .. Len(s) - 1, NEW j \in 1 .. Len(s) - 1,
                   down'[v][i] = Shutdown(a), down'[v][j] \in Work(a) \cup {Shutdown(a)}
            PROVE  j <= i
        <4>1. /\ i + 1 \in 1 .. Len(s) /\ s[i + 1] = Shutdown(a)
              /\ j + 1 \in 1 .. Len(s) /\ s[j + 1] \in Work(a) \cup {Shutdown(a)}
          BY <1>2, <2>4, <3>2
        <4>2. j + 1 <= i + 1
          BY <3>1, <4>1
        <4>. QED  BY <4>2
      <3>3. ASSUME job'[v] = Shutdown(a), NEW x \in Range(down'[v]),
                   x \in Work(a) \cup {Shutdown(a)}
            PROVE  FALSE
        <4>1. s[1] = Shutdown(a) /\ 1 \in 1 .. Len(s)
          BY <1>1, <1>2, <2>4, <3>3, KindsDiffer
        <4>2. PICK i \in 1 .. Len(s) - 1 : down'[w][i] = x
          BY <1>2, <2>4, <3>3
        <4>3. i + 1 \in 1 .. Len(s) /\ s[i + 1] = x
          BY <1>2, <4>2
        <4>4. i + 1 <= 1
          BY <3>1, <3>3, <4>1, <4>3
        <4>. QED  BY <4>2, <4>4
      <3>. QED  BY <1>2, <2>4, <3>2, <3>3
    <2>. QED  BY <2>3, <2>4
  <1>7. LifeKnown'
    <2>1. ASSUME NEW a \in Activities, Ready(a) \in Range(up'[WorkerOf[a]])
          PROVE  Ready(a) \in Range(up[WorkerOf[a]])
      <3>1. CASE up' = up
        BY <2>1, <3>1
      <3>2. CASE Reply(w, TerminateAck(AgentOf[w]))
        <4>1. TerminateAck(AgentOf[w]) \in UpSignals
          BY ConfigAssumption DEF TerminateAck, UpSignals
        <4>. QED  BY <2>1, <3>2, <4>1, ReplyFacts, Home, KindsDiffer DEF IInv, TypeOK
      <3>. QED  BY <3>1, <3>2 DEF ReceiveSync, BeginActivity, AckTerminate
    <2>. QED  BY <1>1, <1>3, <2>1 DEF LifeInv, LifeKnown
  <1>8. ShutdownSent'
    <2>1. ASSUME NEW a \in Activities, Stopping(a) PROVE Stopping(a)'
      BY <1>1, <1>2, <2>1, Home, KindsDiffer DEF Stopping, Orders, s
    <2>2. ever_ready \subseteq Activities
      BY DEF IInv, TypeOK, SchedulerTypeOK
    <2>. QED  BY <1>1, <1>3, <2>1, <2>2 DEF LifeInv, ShutdownSent
  <1>9. TerminateLast'
    <2>. SUFFICES ASSUME NEW a \in ever_ready
                  PROVE  /\ job'[WorkerOf[a]] = Terminate => life[a] = "stopped"
                         /\ WorkerOf[a] \notin gone =>
                              \A i \in DOMAIN down'[WorkerOf[a]] :
                                down'[WorkerOf[a]][i] = Terminate =>
                                \/ life[a] = "stopped" \/ job'[WorkerOf[a]] = Shutdown(a)
                                \/ \E j \in DOMAIN down'[WorkerOf[a]] :
                                     j < i /\ down'[WorkerOf[a]][j] = Shutdown(a)
      BY <1>1 DEF TerminateLast
    <2>. DEFINE v == WorkerOf[a]
    <2>1. v \in Workers
      BY Home DEF IInv, TypeOK, SchedulerTypeOK
    <2>2. /\ job[v] = Terminate => life[a] = "stopped"
          /\ v \notin gone => \A i \in DOMAIN down[v] : down[v][i] = Terminate =>
               \/ life[a] = "stopped" \/ job[v] = Shutdown(a)
               \/ \E j \in DOMAIN down[v] : j < i /\ down[v][j] = Shutdown(a)
      BY DEF LifeInv, TerminateLast
    <2>3. CASE v # w
      BY <1>1, <2>1, <2>2, <2>3
    <2>4. CASE v = w
      <3>1. ASSUME NEW i \in 1 .. Len(s), s[i] = Terminate
            PROVE  life[a] = "stopped" \/ \E j \in 1 .. Len(s) : j < i /\ s[j] = Shutdown(a)
        BY <1>1, <1>2, <2>2, <2>4, <3>1, KindsDiffer DEF s
      <3>2. job'[v] = Terminate => life[a] = "stopped"
        BY <1>1, <1>2, <2>4, <3>1, KindsDiffer
      <3>3. ASSUME NEW i \in 1 .. Len(s) - 1, down'[v][i] = Terminate, life[a] # "stopped",
                   job'[v] # Shutdown(a)
            PROVE  \E j \in 1 .. Len(s) - 1 : j < i /\ down'[v][j] = Shutdown(a)
        <4>1. i + 1 \in 1 .. Len(s) /\ s[i + 1] = Terminate
          BY <1>2, <2>4, <3>3
        <4>2. PICK j \in 1 .. Len(s) : j < i + 1 /\ s[j] = Shutdown(a)
          BY <3>1, <3>3, <4>1
        <4>3. j # 1
          BY <1>1, <1>2, <2>4, <3>3, <4>2, KindsDiffer
        <4>4. j - 1 \in 1 .. Len(s) - 1 /\ j - 1 < i /\ (j - 1) + 1 = j
          BY <1>2, <4>2, <4>3
        <4>5. down'[v][j - 1] = Shutdown(a)
          BY <1>2, <2>4, <4>2, <4>4
        <4>. QED  BY <4>4, <4>5
      <3>. QED  BY <1>2, <2>4, <3>2, <3>3
    <2>. QED  BY <2>3, <2>4
  <1>. QED  BY <1>5, <1>6, <1>7, <1>8, <1>9 DEF LifeInv

(* A method returns.                                                       *)
LEMMA LifeEndActivity ==
  ASSUME IInv, LifeInv, NEW w \in Workers, NEW ok \in BOOLEAN, EndActivity(w, ok),
         UNCHANGED schedulerVars
  PROVE  LifeInv'
  <1>. USE DEF schedulerVars, activityStates
  <1>. DEFINE new == LifeAfter(job[w], ok)
  <1>0. PICK c \in Activities : c = job[w].id
    BY DEF EndActivity, ActivitySignals
  <1>1. /\ job[w] \in ActivitySignals /\ c \in Activities /\ WorkerOf[c] = w
        /\ gone \subseteq gone' /\ down' = down
        /\ \A v \in Workers : v # w => job'[v] = job[v]
        /\ job'[w] = Idle
        /\ life'[c] = new /\ \A a \in Activities : a # c => life'[a] = life[a]
        /\ pc' = pc /\ todo' = todo /\ ready' = ready /\ ever_ready' = ever_ready
        /\ triggered' = triggered
        /\ ever_ready \subseteq Activities
    BY <1>0 DEF EndActivity, IInv, Addressed, TypeOK, WorkerTypeOK, SchedulerTypeOK,
                ActivitySignals
  <1>2. job[w] \in {Startup(c), Step(c), Shutdown(c)} /\ job[w] \in Orders(w)
    BY <1>0, <1>1 DEF ActivitySignals, Startup, Step, Shutdown, Orders
  <1>3. /\ job[w] = Startup(c) => life[c] = "built" /\ new \in {"started", "startupFailed"}
                                  /\ (ok => new = "started")
        /\ job[w] = Step(c) => life[c] = "started" /\ new \in {"started", "stepFailed"}
                               /\ (ok => new = "started")
        /\ job[w] = Shutdown(c) => /\ life[c] \in {"started", "stepFailed"}
                                   /\ new = "stopped" /\ ~NotYet(c)
    BY <1>1, <1>2 DEF LifeInv, OrdersFit, LifeAfter, Startup, Step, Shutdown
  <1>. HIDE DEF new
  <1>4. /\ \A a : NotYet(a)' <=> NotYet(a)
        /\ \A a : Already(a)' <=> Already(a)
        /\ \A a : Settled(a)' <=> Settled(a)
    BY <1>1 DEF NotYet, Already, Settled
  (* Nothing that does not fit the new state is left on the channel.       *)
  <1>5. /\ Startup(c) \notin Range(down[w]) /\ Step(c) \notin Range(down[w])
        /\ job[w] = Shutdown(c) => Shutdown(c) \notin Range(down[w])
        /\ job[w] = Startup(c) => Shutdown(c) \notin Range(down[w])
    <2>1. CASE job[w] \in Work(c)
      <3>1. Range(down[w]) \cap Work(c) = {}
        BY <1>1, <2>1 DEF IInv, OneOrder, Queued, Busy
      <3>2. job[w] = Startup(c) => Shutdown(c) \notin Range(down[w])
        BY <1>1, <1>3 DEF LifeInv, OrdersFit, Orders
      <3>. QED  BY <2>1, <3>1, <3>2, KindsDiffer DEF Work
    <2>2. CASE job[w] = Shutdown(c)
      BY <1>1, <2>2, KindsDiffer DEF LifeInv, ShutdownLast, Work
    <2>. QED  BY <1>2, <2>1, <2>2 DEF Work
  <1>6. ASSUME NEW a \in Activities
        PROVE  Orders(WorkerOf[a])' \subseteq Orders(WorkerOf[a]) \cup {Idle}
    BY <1>1, Home DEF Orders
  <1>7. Orders(w)' = Range(down[w]) \cup {Idle}
    BY <1>1 DEF Orders
  <1>8. OrdersFit'
    <2>1. ASSUME NEW a \in Activities, a # c
          PROVE  /\ Startup(a) \in Orders(WorkerOf[a])' => life'[a] = "built"
                 /\ Step(a) \in Orders(WorkerOf[a])' => life'[a] = "started"
                 /\ Shutdown(a) \in Orders(WorkerOf[a])' =>
                      life'[a] \in {"started", "stepFailed"} /\ ~NotYet(a)'
      BY <1>1, <1>4, <1>6, <2>1, KindsDiffer DEF LifeInv, OrdersFit
    <2>2. Startup(c) \notin Orders(w)' /\ Step(c) \notin Orders(w)'
      BY <1>5, <1>7, KindsDiffer
    <2>3. Shutdown(c) \in Orders(w)' => life'[c] \in {"started", "stepFailed"} /\ ~NotYet(c)'
      <3>. SUFFICES ASSUME Shutdown(c) \in Orders(w)'
                    PROVE  life'[c] \in {"started", "stepFailed"} /\ ~NotYet(c)'
        OBVIOUS
      <3>1. Shutdown(c) \in Range(down[w])
        BY <1>7, KindsDiffer
      <3>2. ~NotYet(c)
        BY <1>1, <3>1 DEF LifeInv, OrdersFit, Orders
      <3>3. job[w] = Step(c)
        BY <1>2, <1>5, <3>1
      <3>. QED  BY <1>1, <1>3, <1>4, <3>2, <3>3
    <2>. QED  BY <1>1, <2>1, <2>2, <2>3 DEF OrdersFit
  <1>9. ShutdownLast'
    <2>1. ASSUME NEW a \in Activities
          PROVE  job'[WorkerOf[a]] = Shutdown(a) => job[WorkerOf[a]] = Shutdown(a)
      BY <1>1, Home, KindsDiffer
    <2>. QED  BY <1>1, <2>1 DEF LifeInv, ShutdownLast
  <1>10. pc \in Normal => InFlight(c) /\ job[w] # Shutdown(c)
    <2>1. pc \in Normal => job[w] # Shutdown(c)
      BY <1>3 DEF NotYet
    <2>2. job[w] # Shutdown(c) => Busy(c)
      BY <1>1, <1>2 DEF Busy, Work
    <2>. QED  BY <1>1, <2>1, <2>2 DEF IInv, Accounted
  <1>11. LifeKnown'
    <2>1. ASSUME NEW a \in Activities, a # c, pc \in Normal,
                 Ready(a) \in Range(up'[WorkerOf[a]])
          PROVE  Ready(a) \in Range(up[WorkerOf[a]])
      <3>1. CASE up' = up
        BY <2>1, <3>1
      <3>2. CASE Reply(w, IF ok THEN Ready(c) ELSE ActivityFailed(c))
        <4>1. (IF ok THEN Ready(c) ELSE ActivityFailed(c)) \in UpSignals
          BY <1>1, SignalTypes, ConfigAssumption
        <4>2. (IF ok THEN Ready(c) ELSE ActivityFailed(c)) # Ready(a)
          BY <2>1, KindsDiffer
        <4>. QED  BY <2>1, <3>2, <4>1, <4>2, ReplyFacts, Home DEF IInv, TypeOK
      <3>. QED  BY <1>0, <3>1, <3>2 DEF EndActivity
    <2>2. ASSUME pc \in Normal, Ready(c) \in Range(up'[w]) PROVE life'[c] = "started"
      <3>1. Ready(c) \notin Range(up[w])
        <4>1. ~Answered(c)
          BY <1>1, <1>2, <1>10, <2>2 DEF IInv, OneAnswer, Busy, Work
        <4>. QED  BY <1>1, <4>1 DEF Answered, Answers
      <3>2. ok
        <4>1. CASE up' = up
          BY <2>2, <3>1, <4>1
        <4>2. CASE ~ok /\ Reply(w, ActivityFailed(c))
          <5>1. ActivityFailed(c) \in UpSignals
            BY <1>1, SignalTypes, ConfigAssumption
          <5>. QED  BY <2>2, <3>1, <4>2, <5>1, ReplyFacts, KindsDiffer DEF IInv, TypeOK
        <4>. QED  BY <1>0, <4>1, <4>2 DEF EndActivity
      <3>. QED  BY <1>1, <1>2, <1>3, <1>10, <2>2, <3>2
    <2>3. /\ pc # "sync" /\ ~(pc = "startup" /\ c \in todo) /\ ~Settled(c)
      <3>1. pc \in Normal => InFlight(c)
        BY <1>10
      <3>. QED  BY <3>1 DEF InFlight, Settled, Normal
    <2>4. c \in ever_ready => /\ life'[c] \in {"started", "stepFailed", "stopped"}
                              /\ NotYet(c) => life'[c] # "stopped"
      <3>1. c \in ever_ready => job[w] # Startup(c)
        BY <1>1, <1>3 DEF LifeInv, LifeKnown
      <3>. QED  BY <1>1, <1>2, <1>3, <3>1
    <2>5. ASSUME NEW a \in Activities, a # c
          PROVE  /\ pc' = "sync" => life'[a] = "built"
                 /\ pc' = "startup" /\ a \in todo' => life'[a] = "built"
                 /\ Settled(a)' => life'[a] = "started"
                 /\ pc' \in Normal /\ Ready(a) \in Range(up'[WorkerOf[a]]) => life'[a] = "started"
                 /\ a \in ever_ready' => life'[a] \in {"started", "stepFailed", "stopped"}
                 /\ a \in ever_ready' /\ NotYet(a)' => life'[a] # "stopped"
      BY <1>1, <1>4, <2>1, <2>5 DEF LifeInv, LifeKnown
    <2>. QED  BY <1>1, <1>4, <2>2, <2>3, <2>4, <2>5 DEF LifeKnown
  <1>12. ShutdownSent'
    <2>1. ASSUME NEW a \in Activities, Stopping(a) PROVE Stopping(a)'
      <3>1. CASE a # c
        <4>1. job[WorkerOf[a]] = Shutdown(a) => job'[WorkerOf[a]] = Shutdown(a)
          BY <1>1, <1>2, <3>1, Home, KindsDiffer
        <4>. QED  BY <1>1, <2>1, <3>1, <4>1 DEF Stopping, Orders
      <3>2. CASE a = c
        BY <1>1, <1>2, <1>3, <2>1, <3>2, KindsDiffer DEF Stopping, Orders
      <3>. QED  BY <3>1, <3>2
    <2>. QED  BY <1>1, <1>4, <2>1 DEF LifeInv, ShutdownSent
  <1>13. TerminateLast'
    <2>. SUFFICES ASSUME NEW a \in ever_ready
                  PROVE  /\ job'[WorkerOf[a]] = Terminate => life'[a] = "stopped"
                         /\ WorkerOf[a] \notin gone' =>
                              \A i \in DOMAIN down[WorkerOf[a]] :
                                down[WorkerOf[a]][i] = Terminate =>
                                \/ life'[a] = "stopped" \/ job'[WorkerOf[a]] = Shutdown(a)
                                \/ \E j \in DOMAIN down[WorkerOf[a]] :
                                     j < i /\ down[WorkerOf[a]][j] = Shutdown(a)
      BY <1>1 DEF TerminateLast
    <2>1. a \in Activities /\ WorkerOf[a] \in Workers
      BY <1>1, Home
    <2>2. life[a] = "stopped" => life'[a] = "stopped"
      BY <1>1, <1>2, <1>3, <2>1
    <2>3. job[WorkerOf[a]] = Shutdown(a) => job'[WorkerOf[a]] = Shutdown(a) \/ life'[a] = "stopped"
      BY <1>1, <1>2, <1>3, <2>1, KindsDiffer
    <2>4. job'[WorkerOf[a]] = Terminate => job[WorkerOf[a]] = Terminate
      BY <1>1, <2>1, KindsDiffer
    <2>5. WorkerOf[a] \notin gone' => WorkerOf[a] \notin gone
      BY <1>1
    <2>. QED  BY <2>2, <2>3, <2>4, <2>5 DEF LifeInv, TerminateLast
  <1>. QED  BY <1>8, <1>9, <1>11, <1>12, <1>13 DEF LifeInv

(* Steps of the scheduler that send nothing.                               *)
LEMMA LifeNoSend ==
  ASSUME IInv, IInv', LifeInv, JobsOfTheLiving, life' = life, down' = down,
         up' = up \/ \E w \in Workers : Receive(w),
         gone \subseteq gone',
         \A a \in Activities :
           /\ NotYet(a)' => NotYet(a)
           /\ pc' = "sync" \/ (pc' = "startup" /\ a \in todo') => life[a] = "built"
           /\ Settled(a)' => life[a] = "started",
         pc' \in Normal => pc \in Normal,
         \A a \in ever_ready' : a \in ever_ready \/ (pc' \in Normal /\ life[a] = "started"),
         pc' = "shutdown" => todo' \subseteq ever_ready',
         \A a \in ever_ready' : Already(a)' => Already(a) \/ WorkerOf[a] \in gone
  PROVE  LifeInv'
  <1>1. \A v \in Workers : Range(up'[v]) \subseteq Range(up[v])
    BY ReceiveFacts DEF IInv, TypeOK
  <1>2. \A v \in Workers : job'[v] = job[v] \/ (job'[v] = Idle /\ v \in gone')
    BY DEF JobsOfTheLiving
  <1>3. PICK w \in Workers : TRUE
    BY ConfigAssumption
  <1>4. Terminate \in DownSignals
    BY DEF DownSignals
  <1>. QED  BY <1>1, <1>2, <1>3, <1>4, LifeKeeps

(* Sending a signal that fits, or losing it on a stream that is closed.    *)
LEMMA LifeSend ==
  ASSUME IInv, IInv', LifeInv, JobsOfTheLiving, life' = life,
         NEW w \in Workers, NEW sig \in DownSignals, SendOk(w, sig), Fits(w, sig),
         ever_ready' = ever_ready,
         \A a \in Activities :
           /\ NotYet(a)' => NotYet(a)
           /\ pc' = "sync" \/ (pc' = "startup" /\ a \in todo') => life[a] = "built"
           /\ Settled(a)' => life[a] = "started",
         pc' \in Normal => pc \in Normal,
         pc' = "shutdown" => todo' \subseteq ever_ready',
         \A a \in ever_ready : Already(a)' =>
           Already(a) \/ (WorkerOf[a] = w /\ sig = Shutdown(a))
  PROVE  LifeInv'
  <1>1. up' = up /\ gone' = gone /\ (Sends(w, sig) \/ (down' = down /\ w \in gone))
    BY DEF SendOk, Sends, IInv, TypeOK, SignallingTypeOK
  <1>2. \A v \in Workers : job'[v] = job[v] \/ (job'[v] = Idle /\ v \in gone')
    BY DEF JobsOfTheLiving
  <1>. QED  BY <1>1, <1>2, LifeKeeps

LEMMA LifeScheduler ==
  ASSUME IInv, IInv', LifeInv, SchedulerMoves
  PROVE  LifeInv'
  <1>. USE DEF activityStates, schedulerVars, signallingVars
  <1>1. /\ SchedulerStep /\ JobsOfTheLiving /\ life' = life /\ TypeOK
        /\ ever_ready \subseteq Activities
    BY DEF SchedulerMoves, IInv, TypeOK, SchedulerTypeOK
  <1>2. ASSUME NEW a \in Activities
        PROVE  /\ pc = "sync" \/ (pc = "startup" /\ a \in todo) => life[a] = "built"
               /\ Settled(a) => life[a] = "started"
               /\ a \in ever_ready /\ NotYet(a) => life[a] \in {"started", "stepFailed"}
               /\ NotYet(a) => Shutdown(a) \notin Orders(WorkerOf[a])
               /\ a \in ever_ready /\ Already(a) => WorkerOf[a] \in gone \/ Stopping(a)
    BY DEF LifeInv, LifeKnown, OrdersFit, ShutdownSent
  <1>3. ASSUME NEW a \in Activities, SyncTime(a) PROVE LifeInv'
    <2>1. Fits(WorkerOf[a], StartupSync) /\ StartupSync \in DownSignals
      BY KindsDiffer, SignalsDiffer DEF Fits, DownSignals
    <2>2. /\ pc = "sync" /\ pc' = pc /\ ready' = ready /\ triggered' = triggered
          /\ ever_ready' = ever_ready
      BY <1>3 DEF SyncTime
    <2>3. \A b \in Activities : NotYet(b) /\ ~Settled(b)' /\ ~Already(b)'
      BY <2>2 DEF NotYet, Settled, Already, Normal
    <2>. QED  BY <1>1, <1>2, <1>3, <2>1, <2>2, <2>3, Home, LifeSend DEF SyncTime, Normal
  <1>4. ASSUME NEW a \in Activities, StartupActivity(a) PROVE LifeInv'
    <2>1. /\ pc = "startup" /\ a \in todo /\ pc' \in {"startup", "startupWait"}
          /\ todo' = todo \ {a} /\ ready' = ready /\ ever_ready' = ever_ready
      BY <1>4 DEF StartupActivity, IsFirst
    <2>2. \A b \in Activities : NotYet(b) /\ ~Settled(b)' /\ ~Already(b)'
      <3>1. ready = {}
        BY <2>1 DEF IInv, CycleProgress
      <3>. QED  BY <2>1, <3>1 DEF NotYet, Settled, Already, Normal
    <2>3. Fits(WorkerOf[a], Startup(a)) /\ Startup(a) \in DownSignals
      BY <1>2, <2>1, <2>2, KindsDiffer, SignalsDiffer, SignalTypes, ConfigAssumption
         DEF Fits, Work
    <2>. QED  BY <1>1, <1>2, <1>4, <2>1, <2>2, <2>3, Home, LifeSend DEF StartupActivity, Normal
  <1>5. ASSUME NEW a \in Activities, StepActivity(a) PROVE LifeInv'
    <2>1. /\ pc = "run" /\ a \notin triggered /\ pc' = "run" /\ ready' = ready
          /\ ever_ready' = ever_ready /\ triggered' = triggered \cup {a}
      BY <1>5 DEF StepActivity, Steppable
    <2>2. \A b \in Activities : NotYet(b) /\ (Settled(b)' => Settled(b)) /\ ~Already(b)'
      BY <2>1 DEF NotYet, Settled, Already, Normal
    <2>3. Settled(a)
      BY <2>1 DEF Settled
    <2>4. Fits(WorkerOf[a], Step(a)) /\ Step(a) \in DownSignals
      BY <1>2, <2>2, <2>3, KindsDiffer, SignalsDiffer, SignalTypes, ConfigAssumption
         DEF Fits, Work
    <2>. QED  BY <1>1, <1>2, <1>5, <2>1, <2>2, <2>4, Home, LifeSend DEF StepActivity, Normal
  <1>6. ASSUME NEW a \in Activities, ShutdownActivity(a) PROVE LifeInv'
    <2>1. /\ pc = "shutdown" /\ a \in todo /\ todo' = todo \ {a} /\ ever_ready' = ever_ready
          /\ pc' = (IF todo' = {} THEN "shutdownWait" ELSE "shutdown")
          /\ todo \subseteq ever_ready
      BY <1>6 DEF ShutdownActivity, IsFirst, LifeInv, ShutdownSent
    <2>2. /\ \A b \in Activities : NotYet(b)' => NotYet(b) /\ b # a
          /\ \A b \in Activities : ~Settled(b)' /\ (Already(b)' => Already(b) \/ b = a)
          /\ NotYet(a) /\ pc' \notin Normal
      BY <2>1 DEF NotYet, Settled, Already, Normal
    <2>3. CASE SendOk(WorkerOf[a], Shutdown(a))
      <3>1. Fits(WorkerOf[a], Shutdown(a)) /\ Shutdown(a) \in DownSignals
        BY <1>2, <2>1, <2>2, KindsDiffer, SignalsDiffer, SignalTypes, ConfigAssumption DEF Fits
      <3>. QED  BY <1>1, <2>1, <2>2, <2>3, <3>1, Home, LifeSend DEF Normal, TypeOK, SchedulerTypeOK
    <2>4. CASE WorkerOf[a] \in gone /\ UNCHANGED signallingVars
      BY <1>1, <2>1, <2>2, <2>4, LifeNoSend DEF Normal, TypeOK, SchedulerTypeOK
    <2>. QED  BY <1>6, <2>3, <2>4 DEF ShutdownActivity, SendErr
  <1>7. ASSUME NEW w \in Workers, BroadcastTerminate(w) PROVE LifeInv'
    <2>1. /\ pc = "broadcast" /\ pc' \in {"broadcast", "join", "terminateWait"}
          /\ ever_ready' = ever_ready
      BY <1>7 DEF BroadcastTerminate, AwaitAgents
    <2>2. \A a \in Activities : ~NotYet(a)' /\ ~Settled(a)' /\ Already(a)
      BY <2>1 DEF NotYet, Settled, Already, Normal
    <2>3. Terminate \in DownSignals
      BY DEF DownSignals
    <2>4. CASE w \in gone /\ down' = down
      BY <1>1, <1>7, <2>1, <2>2, <2>4, LifeNoSend
         DEF BroadcastTerminate, SendOk, Normal, TypeOK, SchedulerTypeOK
    <2>5. CASE w \notin gone
      <3>1. Fits(w, Terminate)
        BY <1>2, <2>2, <2>5, KindsDiffer, SignalsDiffer DEF Fits
      <3>. QED  BY <1>1, <1>7, <2>1, <2>2, <2>3, <3>1, LifeSend
                   DEF BroadcastTerminate, Normal, TypeOK, SchedulerTypeOK
    <2>. QED  BY <1>7, <2>4, <2>5 DEF BroadcastTerminate, SendOk
  (* The process ends: nothing is sent any more.                           *)
  <1>8. ASSUME ProcessEnds PROVE LifeInv'
    <2>1. \A a : ~NotYet(a)' /\ ~Settled(a)' /\ ~Already(a)'
      BY <1>8 DEF ProcessEnds, NotYet, Settled, Already, Normal
    <2>. QED  BY <1>1, <1>8, <2>1, LifeNoSend DEF ProcessEnds, Normal
  <1>9. ASSUME NEW a \in Activities, SyncFails(a) \/ StartupPanics(a) \/ StepPanics(a)
        PROVE  LifeInv'
    BY <1>8, <1>9 DEF SyncFails, StartupPanics, StepPanics
  (* The shutdown begins.                                                  *)
  <1>10. ASSUME BeginShutdown, pc \in Normal, down' = down, gone' = gone,
                up' = up \/ \E w \in Workers : Receive(w)
         PROVE  LifeInv'
    <2>1. /\ pc' = (IF ever_ready = {} THEN "broadcast" ELSE "shutdown")
          /\ todo' = ever_ready /\ ever_ready' = ever_ready
      BY <1>10 DEF BeginShutdown
    <2>2. /\ \A a \in Activities : NotYet(a) /\ ~Settled(a)'
          /\ \A a \in ever_ready : ~Already(a)'
      BY <1>10, <2>1 DEF NotYet, Settled, Already, Normal
    <2>. QED  BY <1>1, <1>10, <2>1, <2>2, LifeNoSend DEF Normal
  <1>11. CASE WaitTimeout \/ WaitError \/ StartupTimeout
    BY <1>10, <1>11 DEF WaitTimeout, WaitError, StartupTimeout, Waiting, Normal
  <1>12. CASE SyncDone \/ StartCycle \/ (EndCycle /\ pc' = "cycle")
    <2>1. /\ down' = down /\ up' = up /\ gone' = gone /\ ever_ready' = ever_ready
          /\ \/ pc = "sync" /\ pc' = "startup"
             \/ pc = "cycle" /\ pc' = "run" /\ triggered' = {}
             \/ pc = "sleep" /\ pc' = "cycle"
      BY <1>12 DEF SyncDone, StartCycle, EndCycle, BeginShutdown
    <2>2. \A a \in Activities : NotYet(a) /\ (Settled(a)' => Settled(a)) /\ ~Already(a)'
      BY <2>1 DEF NotYet, Settled, Already, Normal
    <2>. QED  BY <1>1, <1>2, <2>1, <2>2, LifeNoSend DEF Normal
  <1>13. CASE EndCycle /\ pc' # "cycle"
    BY <1>10, <1>13 DEF EndCycle, Normal
  (* Inside the shutdown.                                                  *)
  <1>14. ASSUME pc \in {"shutdownWait", "broadcast", "terminateWait"},
                pc' \in {"shutdownWait", "broadcast", "terminateWait", "join"},
                ever_ready' = ever_ready, down' = down, gone' = gone,
                up' = up \/ \E w \in Workers : Receive(w)
         PROVE  LifeInv'
    <2>1. \A a : ~NotYet(a)' /\ ~Settled(a)' /\ Already(a)
      BY <1>14 DEF NotYet, Settled, Already, Normal
    <2>. QED  BY <1>1, <1>14, <2>1, LifeNoSend DEF Normal
  <1>15. CASE ShutdownTimeout \/ AgentAckTimeout
    BY <1>14, <1>15 DEF ShutdownTimeout, AgentAckTimeout
  <1>16. ASSUME NEW w \in Workers, BroadcastFails(w) PROVE LifeInv'
    BY <1>14, <1>16 DEF BroadcastFails, AwaitAgents
  <1>17. ASSUME NEW w \in Workers, ShutdownConfirmed(w) \/ AgentAcked(w) PROVE LifeInv'
    BY <1>14, <1>17 DEF ShutdownConfirmed, AgentAcked, Receive
  <1>18. ASSUME NEW w \in Workers, WaitNextReady(w) PROVE LifeInv'
    <2>1. /\ Receive(w) /\ pc \in {"startupWait", "run"} /\ pc \in Normal
          /\ down' = down /\ gone' = gone
      BY <1>18 DEF WaitNextReady, Waiting, Normal, Receive
    <2>2. Head(up[w]) \in Range(up[w]) /\ Head(up[w]) \in UpSignals
      BY <1>1, <2>1, ReceiveFacts, ReceiveType DEF TypeOK
    <2>3. CASE Head(up[w]).type = "Ready"
      <3>1. PICK c \in Activities : Head(up[w]) = Ready(c)
        BY <2>2, <2>3 DEF UpSignals, Ready
      <3>2. OnReady(c) /\ WorkerOf[c] = w
        BY <1>18, <2>2, <2>3, <3>1 DEF WaitNextReady, IInv, Addressed, Ready
      <3>3. life[c] = "started"
        BY <2>1, <2>2, <3>1, <3>2 DEF LifeInv, LifeKnown
      <3>4. /\ ready' = ready \cup {c} /\ ever_ready' = ever_ready \cup {c}
            /\ triggered' = triggered
            /\ pc' = pc \/ (ready' = Activities /\ pc' \in {"cycle", "sleep"})
        BY <3>2 DEF OnReady
      <3>5. \A a \in Activities : NotYet(a) /\ ~Already(a)' /\ (Settled(a)' => Settled(a) \/ a = c)
        BY <2>1, <3>4 DEF NotYet, Already, Settled, Normal
      <3>6. pc' \in Normal /\ pc' \notin {"sync", "startup", "shutdown"}
        BY <2>1, <3>4 DEF Normal
      <3>7. ever_ready' \subseteq Activities
        BY DEF IInv, TypeOK, SchedulerTypeOK
      <3>. QED  BY <1>1, <1>2, <2>1, <3>3, <3>4, <3>5, <3>6, <3>7, LifeNoSend
    <2>4. CASE Head(up[w]).type = "ActivityFailed"
      BY <1>10, <1>18, <2>1, <2>4 DEF WaitNextReady
    <2>5. CASE Head(up[w]).type \notin {"Ready", "ActivityFailed"}
      <3>1. UNCHANGED schedulerVars
        BY <1>18, <2>5 DEF WaitNextReady
      <3>2. \A a \in Activities : NotYet(a) /\ (Settled(a)' => Settled(a)) /\ ~Already(a)'
        BY <2>1, <3>1 DEF NotYet, Settled, Already, Normal
      <3>. QED  BY <1>1, <1>2, <2>1, <3>1, <3>2, LifeNoSend DEF IInv, TypeOK, SchedulerTypeOK
    <2>. QED  BY <2>3, <2>4, <2>5
  <1>19. CASE JoinWorkers
    BY <1>8, <1>19 DEF JoinWorkers
  <1>. QED
    BY <1>1, <1>3, <1>4, <1>5, <1>6, <1>7, <1>9, <1>11, <1>12, <1>13, <1>15, <1>16, <1>17,
       <1>18, <1>19 DEF SchedulerStep

LEMMA LifeStep == IInv /\ LifeInv /\ [Next]_vars => LifeInv'
  <1>. SUFFICES ASSUME IInv, LifeInv, [Next]_vars PROVE LifeInv'
    OBVIOUS
  <1>. USE DEF activityStates, schedulerVars, signallingVars
  <1>1. IInv'
    BY IInvStep
  <1>2. CASE SchedulerMoves
    BY <1>1, <1>2, LifeScheduler
  (* Steps that leave the scheduler alone and idle some workers.           *)
  <1>3. ASSUME down' = down, up' = up, life' = life, gone \subseteq gone',
               pc' = pc, todo' = todo, ready' = ready, triggered' = triggered,
               ever_ready' = ever_ready,
               \A v \in Workers : job'[v] = job[v] \/ (job'[v] = Idle /\ v \in gone')
        PROVE  LifeInv'
    <2>1. \A a : /\ NotYet(a)' <=> NotYet(a)
                 /\ Already(a)' <=> Already(a)
                 /\ Settled(a)' <=> Settled(a)
      BY <1>3 DEF NotYet, Already, Settled
    <2>2. PICK w \in Workers : TRUE
      BY ConfigAssumption
    <2>3. Terminate \in DownSignals
      BY DEF DownSignals
    <2>4. /\ \A a \in Activities : /\ pc = "sync" => life[a] = "built"
                                   /\ pc = "startup" /\ a \in todo => life[a] = "built"
                                   /\ Settled(a) => life[a] = "started"
          /\ pc = "shutdown" => todo \subseteq ever_ready
      BY DEF LifeInv, LifeKnown, ShutdownSent
    <2>. QED  BY <1>1, <1>3, <2>1, <2>2, <2>3, <2>4, LifeKeeps
  <1>4. CASE SignalMoves
    <2>1. CASE shutdown_requested
      <3>1. ProcessEnds /\ JobsOfTheLiving /\ life' = life
        BY <1>4, <2>1 DEF SignalMoves, CtrlC
      <3>2. \A a : ~NotYet(a)' /\ ~Settled(a)' /\ ~Already(a)'
        BY <3>1 DEF ProcessEnds, NotYet, Settled, Already, Normal
      <3>. QED  BY <1>1, <3>1, <3>2, LifeNoSend DEF ProcessEnds, Normal
    <2>2. CASE ~shutdown_requested
      BY <1>3, <1>4, <2>2 DEF SignalMoves, CtrlC, JobsOfTheLiving
    <2>. QED  BY <2>1, <2>2
  <1>5. ASSUME NEW w \in Workers, WorkerMoves(w) PROVE LifeInv'
    <2>1. CASE ReceiveSync(w) \/ BeginActivity(w) \/ AckTerminate(w)
      BY <1>5, <2>1, LifeTakes DEF WorkerMoves
    <2>2. CASE \E ok \in BOOLEAN : EndActivity(w, ok)
      BY <1>5, <2>2, LifeEndActivity DEF WorkerMoves
    <2>3. CASE ExitWorker(w) \/ Disconnect(w)
      BY <1>3, <1>5, <2>3 DEF WorkerMoves, ExitWorker, Disconnect, IInv, TypeOK, WorkerTypeOK
    <2>. QED  BY <1>5, <2>1, <2>2, <2>3 DEF WorkerMoves, WorkerStep
  <1>6. CASE FaultMoves
    BY <1>3, <1>6 DEF FaultMoves, WorkerPanics, AgentKilled, IInv, TypeOK, WorkerTypeOK
  <1>7. CASE UNCHANGED vars
    BY <1>3, <1>7 DEF vars, workerVars
  <1>. QED  BY <1>2, <1>4, <1>5, <1>6, <1>7 DEF Next

LEMMA LifeInit == Init => LifeInv
  <1>. SUFFICES ASSUME Init PROVE LifeInv
    OBVIOUS
  <1>1. \A w \in Workers : down[w] = << >> /\ up[w] = << >> /\ job[w] = Idle
    BY DEF Init, SignallingInit, WorkerInit
  <1>2. /\ \A w \in Workers : Orders(w) = {Idle} /\ DOMAIN down[w] = {} /\ Range(up[w]) = {}
        /\ \A w \in Workers : job[w] = Idle
    BY <1>1 DEF Range, Orders
  <1>3. OrdersFit
    BY <1>2, Home, KindsDiffer DEF OrdersFit
  <1>4. ShutdownLast
    BY <1>2, Home, KindsDiffer DEF ShutdownLast
  <1>5. LifeKnown
    BY <1>2, Home DEF LifeKnown, Settled, Init, SchedulerInit, WorkerInit
  <1>6. ShutdownSent /\ TerminateLast
    BY DEF ShutdownSent, TerminateLast, Init, SchedulerInit
  <1>. QED  BY <1>3, <1>4, <1>5, <1>6 DEF LifeInv

-----------------------------------------------------------------------------
(***************************************************************************)
(* The signals under way.                                                  *)
(***************************************************************************)
LEMMA TwoOnAppend ==
  ASSUME NEW S, NEW s \in Seq(S), NEW x \in S, NEW T
  PROVE  /\ AtMostOne(s, T) => AtMostTwo(Append(s, x), T)
         /\ AtMostTwo(s, T) /\ x \notin T => AtMostTwo(Append(s, x), T)
         /\ AtMostOne(s, T) /\ x \notin T => AtMostOne(Append(s, x), T)
  <1>1. /\ DOMAIN s = 1 .. Len(s) /\ Len(s) \in Nat
        /\ DOMAIN Append(s, x) = 1 .. Len(s) + 1
        /\ \A i \in 1 .. Len(s) : Append(s, x)[i] = s[i]
        /\ Append(s, x)[Len(s) + 1] = x
    BY AppendProperties, LenProperties
  <1>2. \A i \in 1 .. Len(s) + 1 : i \in 1 .. Len(s) \/ i = Len(s) + 1
    BY <1>1
  <1>3. ASSUME AtMostOne(s, T) PROVE AtMostTwo(Append(s, x), T)
    BY <1>1, <1>2, <1>3 DEF AtMostOne, AtMostTwo
  <1>4. ASSUME AtMostTwo(s, T), x \notin T PROVE AtMostTwo(Append(s, x), T)
    BY <1>1, <1>2, <1>4 DEF AtMostTwo
  <1>5. ASSUME AtMostOne(s, T), x \notin T PROVE AtMostOne(Append(s, x), T)
    BY <1>1, <1>2, <1>5 DEF AtMostOne
  <1>. QED  BY <1>3, <1>4, <1>5

LEMMA TwoOnTail ==
  ASSUME NEW S, NEW s \in Seq(S), s # << >>, NEW T, AtMostTwo(s, T)
  PROVE  AtMostTwo(Tail(s), T)
  <1>1. /\ DOMAIN s = 1 .. Len(s) /\ Len(s) \in Nat /\ Len(s) >= 1
        /\ DOMAIN Tail(s) = 1 .. Len(s) - 1
        /\ \A i \in 1 .. Len(s) - 1 : Tail(s)[i] = s[i + 1]
    BY HeadTailProperties, LenProperties, EmptySeq
  <1>2. ASSUME NEW i \in DOMAIN Tail(s), NEW j \in DOMAIN Tail(s), NEW k \in DOMAIN Tail(s),
               Tail(s)[i] \in T, Tail(s)[j] \in T, Tail(s)[k] \in T
        PROVE  i = j \/ j = k \/ i = k
    <2>1. /\ i + 1 \in DOMAIN s /\ j + 1 \in DOMAIN s /\ k + 1 \in DOMAIN s
          /\ s[i + 1] \in T /\ s[j + 1] \in T /\ s[k + 1] \in T
      BY <1>1, <1>2
    <2>2. i + 1 = j + 1 \/ j + 1 = k + 1 \/ i + 1 = k + 1
      BY <2>1 DEF AtMostTwo
    <2>. QED  BY <1>1, <2>2
  <1>. QED  BY <1>2 DEF AtMostTwo

(* A channel to the scheduler on which nothing new is said of activities.  *)
NoAnswer(v) ==
  \/ up'[v] = up[v]
  \/ up[v] # << >> /\ up'[v] = Tail(up[v])
  \/ \E g \in Agents : up'[v] = Append(up[v], TerminateAck(g))

LEMMA AnswersKept ==
  ASSUME TypeOK, NEW v \in Workers, NoAnswer(v), NEW a \in Activities
  PROVE  /\ AtMostOne(up[v], Answers(a)) => AtMostOne(up'[v], Answers(a))
         /\ AtMostTwo(up[v], Answers(a)) => AtMostTwo(up'[v], Answers(a))
         /\ Range(up'[v]) \cap Answers(a) \subseteq Range(up[v]) \cap Answers(a)
  <1>1. up[v] \in Seq(UpSignals)
    BY DEF TypeOK, SignallingTypeOK
  <1>2. CASE up'[v] = up[v]
    BY <1>2
  <1>3. CASE up[v] # << >> /\ up'[v] = Tail(up[v])
    BY <1>1, <1>3, TailRange, TwoOnTail
  <1>4. ASSUME NEW g \in Agents, up'[v] = Append(up[v], TerminateAck(g))
        PROVE  /\ AtMostOne(up[v], Answers(a)) => AtMostOne(up'[v], Answers(a))
               /\ AtMostTwo(up[v], Answers(a)) => AtMostTwo(up'[v], Answers(a))
               /\ Range(up'[v]) \cap Answers(a) \subseteq Range(up[v]) \cap Answers(a)
    <2>1. TerminateAck(g) \in UpSignals /\ TerminateAck(g) \notin Answers(a)
      BY SignalTypes, SignalsDiffer
    <2>2. Range(up'[v]) = Range(up[v]) \cup {TerminateAck(g)}
      BY <1>1, <1>4, <2>1, AppendRange
    <2>. QED  BY <1>1, <1>4, <2>1, <2>2, TwoOnAppend
  <1>. QED  BY <1>2, <1>3, <1>4 DEF NoAnswer

(* Orders(w) is what Queued and Busy speak of.                             *)
LEMMA WorkingFacts ==
  \A a \in Activities : Working(a) <=> Queued(a) \/ Busy(a)
  BY DEF Working, Queued, Busy, Orders

(* No activity gets an order to work before it has answered the last one.  *)
LEMMA TwoAnswersKept ==
  ASSUME TypeOK, TwoAnswers, \A v \in Workers : NoAnswer(v),
         \A a \in Activities : /\ Working(a)' => Working(a) \/ ~Answered(a)
                               /\ Leaving(a)' => Leaving(a)
  PROVE  TwoAnswers'
  <1>. SUFFICES ASSUME NEW a \in Activities
                PROVE  LET s == up'[WorkerOf[a]] IN
                         /\ AtMostTwo(s, Answers(a))
                         /\ Working(a)' \/ Leaving(a)' => AtMostOne(s, Answers(a))
                         /\ Working(a)' /\ Leaving(a)' => ~Answered(a)'
    BY DEF TwoAnswers, Answers
  <1>. DEFINE w == WorkerOf[a]
  <1>1. /\ AtMostOne(up[w], Answers(a)) => AtMostOne(up'[w], Answers(a))
        /\ AtMostTwo(up[w], Answers(a)) => AtMostTwo(up'[w], Answers(a))
        /\ Range(up'[w]) \cap Answers(a) \subseteq Range(up[w]) \cap Answers(a)
    BY Home, AnswersKept
  <1>2. Answered(a)' => Answered(a)
    BY <1>1 DEF Answered, Answers
  <1>3. ~Answered(a) => AtMostOne(up[w], Answers(a))
    BY DEF Answered, AtMostOne, Range
  <1>4. /\ AtMostTwo(up[w], Answers(a))
        /\ Working(a) \/ Leaving(a) => AtMostOne(up[w], Answers(a))
        /\ Working(a) /\ Leaving(a) => ~Answered(a)
    BY DEF TwoAnswers
  <1>. QED  BY <1>1, <1>2, <1>3, <1>4

(* What the scheduler and the workers do to the orders.                    *)
LEMMA OrdersShrink ==
  ASSUME \A v \in Workers : Orders(v)' \subseteq Orders(v) \cup {Idle},
         NEW a \in Activities
  PROVE  /\ Working(a)' => Working(a)
         /\ Shutdown(a) \in Orders(WorkerOf[a])' => Shutdown(a) \in Orders(WorkerOf[a])
  <1>1. Idle \notin Work(a) /\ Idle # Shutdown(a)
    BY SignalsDiffer, KindsDiffer
  <1>2. Orders(WorkerOf[a])' \subseteq Orders(WorkerOf[a]) \cup {Idle}
    BY Home
  <1>. QED  BY <1>1, <1>2 DEF Working, Work

(* A method returns: the order becomes an answer.                          *)
LEMMA TwoAnswersEnd ==
  ASSUME IInv, LifeInv, TwoAnswers, NEW w \in Workers, NEW ok \in BOOLEAN, EndActivity(w, ok),
         UNCHANGED schedulerVars
  PROVE  TwoAnswers'
  <1>. PICK a \in Activities : a = job[w].id
    BY DEF EndActivity, ActivitySignals
  <1>. PICK answer \in Answers(a) : answer = IF ok THEN Ready(a) ELSE ActivityFailed(a)
    BY DEF Answers
  <1>1. /\ TypeOK /\ a \in Activities /\ job[w] \in ActivitySignals /\ WorkerOf[a] = w
        /\ job'[w] = Idle /\ \A v \in Workers : v # w => job'[v] = job[v]
        /\ down' = down
    BY DEF EndActivity, IInv, Addressed, TypeOK, WorkerTypeOK, ActivitySignals
  <1>2. answer \in UpSignals /\ answer \in Answers(a)
    BY <1>1, SignalTypes, ConfigAssumption DEF Answers
  <1>3. /\ up[w] \in Seq(UpSignals) /\ \A v \in Workers \ {w} : up'[v] = up[v]
        /\ up'[w] = up[w] \/ up'[w] = Append(up[w], answer)
    BY <1>1 DEF EndActivity, Reply, TypeOK, SignallingTypeOK
  <1>4. /\ Orders(w)' \subseteq Orders(w) \cup {Idle}
        /\ \A v \in Workers : Orders(v)' \subseteq Orders(v) \cup {Idle}
    BY <1>1 DEF Orders
  <1>5. \A b \in Activities : NotYet(b)' <=> NotYet(b)
    BY DEF NotYet, schedulerVars
  <1>6. job[w] \in {Startup(a), Step(a), Shutdown(a)}
    BY <1>1 DEF ActivitySignals, Startup, Step, Shutdown
  <1>7. /\ AtMostTwo(up[w], Answers(a))
        /\ Working(a) \/ Leaving(a) => AtMostOne(up[w], Answers(a))
        /\ Working(a) /\ Leaving(a) => ~Answered(a)
    BY <1>1 DEF TwoAnswers
  <1>8. Working(a) \/ Leaving(a)
    BY <1>1, <1>6 DEF Working, Leaving, Orders, Work
  (* The order was the only one of its kind.                               *)
  <1>9. Working(a)' => job[w] # Shutdown(a) /\ ~Busy(a)
    <2>1. Working(a)' => Queued(a)
      <3>1. Orders(w)' = Range(down[w]) \cup {Idle}
        BY <1>1 DEF Orders
      <3>2. Idle \notin Work(a)
        BY SignalsDiffer
      <3>. QED  BY <1>1, <3>1, <3>2 DEF Working, Queued, Work
    <2>2. Queued(a) => ~Busy(a)
      BY <1>1 DEF IInv, OneOrder
    <2>3. Queued(a) => job[w] # Shutdown(a)
      BY <1>1 DEF LifeInv, ShutdownLast, Queued
    <2>. QED  BY <2>1, <2>2, <2>3
  <1>10. ~Working(a)'
    <2>1. job[w] # Shutdown(a) => Busy(a)
      BY <1>1, <1>6 DEF Busy, Work
    <2>. QED  BY <1>9, <2>1
  <1>11. Leaving(a)' => Working(a) /\ Leaving(a)
    <2>1. CASE job[w] = Shutdown(a)
      <3>1. Shutdown(a) \notin Range(down[w]) /\ ~NotYet(a)
        BY <1>1, <2>1 DEF LifeInv, ShutdownLast, OrdersFit, Orders
      <3>2. Orders(w)' = Range(down[w]) \cup {Idle} /\ Idle # Shutdown(a)
        BY <1>1, KindsDiffer DEF Orders
      <3>3. Shutdown(a) \notin Orders(WorkerOf[a])'
        BY <1>1, <3>1, <3>2
      <3>. QED  BY <1>1, <1>5, <3>1, <3>3 DEF Leaving, Shutdown
    <2>2. CASE job[w] # Shutdown(a)
      <3>1. Working(a)
        BY <1>1, <1>6, <2>2 DEF Working, Orders, Work
      <3>2. Leaving(a)' => Leaving(a)
        BY <1>1, <1>4, <1>5, OrdersShrink DEF Leaving, Shutdown
      <3>. QED  BY <3>1, <3>2
    <2>. QED  BY <2>1, <2>2
  <1>12. AtMostTwo(up'[w], Answers(a))
    <2>1. AtMostOne(up[w], Answers(a)) => AtMostTwo(Append(up[w], answer), Answers(a))
      BY <1>2, <1>3, TwoOnAppend
    <2>. QED  BY <1>1, <1>3, <1>7, <1>8, <2>1
  <1>13. Leaving(a)' => AtMostOne(up'[w], Answers(a))
    <2>1. Leaving(a)' => Range(up[w]) \cap Answers(a) = {} /\ AtMostOne(up[w], Answers(a))
      BY <1>1, <1>7, <1>8, <1>11 DEF Answered
    <2>2. Range(up[w]) \cap Answers(a) = {} /\ AtMostOne(up[w], Answers(a))
            => AtMostOne(Append(up[w], answer), Answers(a))
      BY <1>2, <1>3, AppendRange
    <2>. QED  BY <1>3, <2>1, <2>2
  <1>14. ASSUME NEW b \in Activities, b # a
         PROVE  LET s == up'[WorkerOf[b]] IN
                  /\ AtMostTwo(s, Answers(b))
                  /\ Working(b)' \/ Leaving(b)' => AtMostOne(s, Answers(b))
                  /\ Working(b)' /\ Leaving(b)' => ~Answered(b)'
    <2>1. answer \notin Answers(b)
      BY <1>1, <1>2, <1>14, SignalsDiffer
    <2>2. /\ AtMostOne(up[WorkerOf[b]], Answers(b)) => AtMostOne(up'[WorkerOf[b]], Answers(b))
          /\ AtMostTwo(up[WorkerOf[b]], Answers(b)) => AtMostTwo(up'[WorkerOf[b]], Answers(b))
          /\ Range(up'[WorkerOf[b]]) \cap Answers(b) \subseteq Range(up[WorkerOf[b]]) \cap Answers(b)
      <3>1. CASE WorkerOf[b] = w /\ up'[w] = Append(up[w], answer)
        <4>1. Range(up'[w]) = Range(up[w]) \cup {answer}
          BY <1>2, <1>3, <3>1, AppendRange
        <4>. QED  BY <1>2, <1>3, <2>1, <3>1, <4>1, TwoOnAppend
      <3>2. CASE up'[WorkerOf[b]] = up[WorkerOf[b]]
        BY <3>2
      <3>. QED  BY <1>3, <3>1, <3>2, Home
    <2>3. Answered(b)' => Answered(b)
      BY <2>2 DEF Answered, Answers
    <2>4. (Working(b)' => Working(b)) /\ (Leaving(b)' => Leaving(b))
      BY <1>4, <1>5, OrdersShrink DEF Leaving, Shutdown
    <2>. QED  BY <2>2, <2>3, <2>4 DEF TwoAnswers
  <1>15. TwoAnswers' <=> \A b \in Activities : LET s == up'[WorkerOf[b]] IN
                  /\ AtMostTwo(s, Answers(b))
                  /\ Working(b)' \/ Leaving(b)' => AtMostOne(s, Answers(b))
                  /\ Working(b)' /\ Leaving(b)' => ~Answered(b)'
    BY DEF TwoAnswers, Answers
  <1>. QED  BY <1>1, <1>10, <1>12, <1>13, <1>14, <1>15

(* A signal for which the worker's channel has room by the invariant.      *)
Allowed(w, sig) ==
  /\ \A a \in Activities : /\ sig \in Work(a) => ~Answered(a)
                           /\ sig = Shutdown(a) => NotYet(a)
  /\ sig = Terminate => w \in untold /\ w \notin untold'
  /\ sig = StartupSync => Transport # "mpsc"
  /\ untold' \subseteq untold

(* Steps of the scheduler, and those that only end a worker.               *)
LEMMA RoomKeeps ==
  ASSUME IInv, RoomInv, NEW w \in Workers, NEW sig \in DownSignals,
         \/ down' = down
         \/ /\ Allowed(w, sig) /\ down'[w] = Append(down[w], sig)
            /\ \A v \in Workers : v # w => down'[v] = down[v],
         \A v \in Workers : job'[v] = job[v] \/ (job'[v] = Idle /\ v \in gone'),
         \A v \in Workers : up'[v] = up[v] \/ (up[v] # << >> /\ up'[v] = Tail(up[v])),
         gone \subseteq gone',
         \A a \in Activities : NotYet(a)' => NotYet(a),
         untold' \subseteq untold \/ pc \in Normal,
         pc' = "sync" => pc = "sync" /\ todo' \subseteq todo
  PROVE  RoomInv'
  <1>1. /\ TypeOK /\ TwoAnswers /\ OneAck /\ OneTerminate /\ NoSyncWithin
        /\ \A v \in Workers : NoAnswer(v) /\ down[v] \in Seq(DownSignals) /\ up[v] \in Seq(UpSignals)
    BY DEF IInv, TypeOK, SignallingTypeOK, RoomInv, NoAnswer
  <1>2. ASSUME NEW v \in Workers
        PROVE  /\ Range(down'[v]) \subseteq Range(down[v])
                    \cup (IF v = w /\ Allowed(w, sig) /\ down' # down THEN {sig} ELSE {})
               /\ sig # Terminate /\ AtMostOne(down[v], {Terminate}) => AtMostOne(down'[v], {Terminate})
    <2>1. CASE down' = down
      BY <2>1
    <2>2. CASE v # w /\ down'[v] = down[v]
      BY <2>2
    <2>3. CASE v = w /\ Allowed(w, sig) /\ down'[w] = Append(down[w], sig)
      <3>1. Range(Append(down[w], sig)) = Range(down[w]) \cup {sig}
        BY <1>1, AppendRange
      <3>2. sig # Terminate /\ AtMostOne(down[w], {Terminate}) => AtMostOne(Append(down[w], sig), {Terminate})
        BY <1>1, TwoOnAppend
      <3>3. CASE down' = down
        BY <3>3
      <3>4. CASE down' # down
        BY <2>3, <3>1, <3>2, <3>4
      <3>. QED  BY <3>3, <3>4
    <2>. QED  BY <2>1, <2>2, <2>3
  <1>3. \A v \in Workers : Orders(v)' \subseteq Orders(v) \cup {Idle}
                    \cup (IF v = w /\ Allowed(w, sig) THEN {sig} ELSE {})
    BY <1>2 DEF Orders
  <1>4. ASSUME NEW a \in Activities
        PROVE  /\ Working(a)' => Working(a) \/ ~Answered(a)
               /\ Leaving(a)' => Leaving(a)
    <2>1. Idle \notin Work(a) /\ Idle # Shutdown(a)
      BY SignalsDiffer, KindsDiffer
    <2>2. Orders(WorkerOf[a])' \subseteq Orders(WorkerOf[a]) \cup {Idle}
             \cup (IF WorkerOf[a] = w /\ Allowed(w, sig) THEN {sig} ELSE {})
      BY <1>3, Home
    <2>3. Working(a)' => Working(a) \/ ~Answered(a)
      BY <2>1, <2>2 DEF Working, Allowed, Work
    <2>4. Shutdown(a) \in Orders(WorkerOf[a])' => Leaving(a)
      BY <2>1, <2>2 DEF Leaving, Allowed
    <2>. QED  BY <2>3, <2>4 DEF Leaving, Shutdown
  <1>5. TwoAnswers'
    BY <1>1, <1>4, TwoAnswersKept
  <1>6. OneAck'
    <2>1. ASSUME NEW v \in Workers
          PROVE  AtMostOne(up'[v], Acks) /\ Range(up'[v]) \subseteq Range(up[v])
      <3>1. CASE up'[v] = up[v]
        BY <1>1, <3>1 DEF OneAck
      <3>2. CASE up[v] # << >> /\ up'[v] = Tail(up[v])
        BY <1>1, <3>2, TailRange DEF OneAck
      <3>. QED  BY <3>1, <3>2
    <2>. QED  BY <1>1, <2>1 DEF OneAck, Acks, TerminateAck
  <1>7. OneTerminate'
    <2>. SUFFICES ASSUME NEW v \in Workers
                  PROVE  /\ AtMostOne(down'[v], {Terminate})
                         /\ Terminate \in Range(down'[v]) => v \notin untold'
      BY DEF OneTerminate, Terminate
    <2>1. /\ AtMostOne(down[v], {Terminate})
          /\ Terminate \in Range(down[v]) => v \notin untold
      BY <1>1 DEF OneTerminate
    <2>2. pc \in Normal => Terminate \notin Range(down[v])
      BY DEF IInv, PhaseSignals, Terminate
    <2>3. Terminate \in Range(down'[v]) => v \notin untold'
      BY <1>2, <2>1, <2>2 DEF Allowed
    <2>4. CASE sig = Terminate /\ Allowed(w, sig) /\ v = w /\ down'[w] = Append(down[w], sig)
      <3>1. Range(down[w]) \cap {Terminate} = {}
        BY <2>1, <2>4 DEF Allowed
      <3>. QED  BY <1>1, <2>1, <2>3, <2>4, <3>1, AppendRange
    <2>5. CASE down'[v] = down[v] \/ sig # Terminate
      BY <1>2, <2>1, <2>3, <2>5
    <2>. QED  BY <2>4, <2>5
  <1>8. NoSyncWithin'
    BY <1>1, <1>2 DEF NoSyncWithin, Allowed, StartupSync
  <1>. QED  BY <1>5, <1>6, <1>7, <1>8 DEF RoomInv

(* A worker takes the next signal.                                         *)
LEMMA RoomTakes ==
  ASSUME IInv, RoomInv, NEW w \in Workers, UNCHANGED schedulerVars,
         ReceiveSync(w) \/ BeginActivity(w) \/ AckTerminate(w)
  PROVE  RoomInv'
  <1>1. /\ TypeOK /\ TwoAnswers /\ OneAck /\ OneTerminate /\ NoSyncWithin /\ SignallingTypeOK
        /\ Takes(w) /\ w \notin gone /\ gone' = gone /\ job[w] = Idle
        /\ \A v \in Workers \ {w} : job'[v] = job[v] /\ up'[v] = up[v]
        /\ up[w] \in Seq(UpSignals) /\ AgentOf[w] \in Agents
    BY ConfigAssumption
       DEF IInv, TypeOK, SignallingTypeOK, WorkerTypeOK, RoomInv, Takes, ReceiveSync, BeginActivity,
           AckTerminate, Reply
  <1>2. /\ \A v \in Workers : v # w => down'[v] = down[v]
        /\ Range(down'[w]) \subseteq Range(down[w]) /\ Head(down[w]) \in Range(down[w])
        /\ \A T : AtMostOne(down[w], T) => AtMostOne(down'[w], T)
    BY <1>1, TakesFacts
  <1>3. /\ job'[w] \in {Idle, Head(down[w])}
        /\ \/ up'[w] = up[w]
           \/ job'[w] = Terminate /\ up'[w] = Append(up[w], TerminateAck(AgentOf[w]))
    <2>1. CASE ReceiveSync(w)
      BY <1>1, <2>1 DEF ReceiveSync
    <2>2. CASE BeginActivity(w)
      BY <1>1, <2>2 DEF BeginActivity, TypeOK, WorkerTypeOK
    <2>3. CASE AckTerminate(w)
      BY <1>1, <2>3 DEF AckTerminate, Reply, TypeOK, WorkerTypeOK, SignallingTypeOK
    <2>. QED  BY <2>1, <2>2, <2>3
  <1>4. \A v \in Workers : NoAnswer(v) /\ Orders(v)' \subseteq Orders(v) \cup {Idle}
    BY <1>1, <1>2, <1>3 DEF NoAnswer, Orders
  <1>5. \A a \in Activities : (Working(a)' => Working(a)) /\ (Leaving(a)' => Leaving(a))
    <2>1. \A a \in Activities : NotYet(a)' => NotYet(a)
      BY DEF NotYet, schedulerVars
    <2>. QED  BY <1>4, <2>1, OrdersShrink DEF Leaving, Shutdown
  <1>6. TwoAnswers'
    BY <1>1, <1>4, <1>5, TwoAnswersKept
  <1>7. OneAck'
    <2>. SUFFICES ASSUME NEW v \in Workers
                  PROVE  /\ AtMostOne(up'[v], Acks)
                         /\ Range(up'[v]) \cap Acks # {} => job'[v] = Terminate \/ v \in gone'
      BY DEF OneAck, Acks, Terminate, TerminateAck
    <2>1. /\ AtMostOne(up[v], Acks)
          /\ Range(up[v]) \cap Acks # {} => job[v] = Terminate \/ v \in gone
      BY <1>1 DEF OneAck
    <2>2. CASE v # w
      BY <1>1, <2>1, <2>2
    <2>3. CASE v = w
      <3>1. Range(up[w]) \cap Acks = {}
        BY <1>1, <2>1, <2>3, KindsDiffer
      <3>2. TerminateAck(AgentOf[w]) \in UpSignals
        BY <1>1 DEF UpSignals, TerminateAck
      <3>3. AtMostOne(Append(up[w], TerminateAck(AgentOf[w])), Acks)
        BY <1>1, <2>1, <2>3, <3>1, <3>2, AppendRange
      <3>. QED  BY <1>3, <2>1, <2>3, <3>1, <3>3
    <2>. QED  BY <2>2, <2>3
  <1>8. OneTerminate' /\ NoSyncWithin'
    BY <1>1, <1>2 DEF OneTerminate, NoSyncWithin, schedulerVars, Terminate, StartupSync
  <1>. QED  BY <1>6, <1>7, <1>8 DEF RoomInv

LEMMA RoomEnd ==
  ASSUME IInv, LifeInv, RoomInv, NEW w \in Workers, NEW ok \in BOOLEAN, EndActivity(w, ok),
         UNCHANGED schedulerVars
  PROVE  RoomInv'
  <1>1. TwoAnswers'
    BY TwoAnswersEnd DEF RoomInv
  <1>2. OneTerminate' /\ NoSyncWithin'
    BY DEF EndActivity, schedulerVars, RoomInv, OneTerminate, NoSyncWithin, Terminate, StartupSync
  <1>3. OneAck'
    <2>. PICK a \in Activities : a = job[w].id
      BY DEF EndActivity, ActivitySignals
    <2>. PICK answer : answer = IF ok THEN Ready(a) ELSE ActivityFailed(a)
      OBVIOUS
    <2>1. answer \in UpSignals /\ answer \notin Acks
      BY DEF Acks, Ready, ActivityFailed, TerminateAck, UpSignals
    <2>2. /\ up[w] \in Seq(UpSignals) /\ \A v \in Workers \ {w} : up'[v] = up[v] /\ job'[v] = job[v]
          /\ up'[w] = up[w] \/ up'[w] = Append(up[w], answer)
          /\ gone \subseteq gone' /\ job[w] # Terminate
      BY SignalTypes DEF EndActivity, Reply, IInv, TypeOK, SignallingTypeOK, WorkerTypeOK,
                         ActivitySignals, Terminate
    <2>3. /\ AtMostOne(up[w], Acks) => AtMostOne(up'[w], Acks)
          /\ Range(up'[w]) \cap Acks \subseteq Range(up[w]) \cap Acks
      <3>1. CASE up'[w] = Append(up[w], answer)
        <4>1. Range(Append(up[w], answer)) = Range(up[w]) \cup {answer}
          BY <2>1, <2>2, AppendRange
        <4>2. AtMostOne(up[w], Acks) => AtMostOne(Append(up[w], answer), Acks)
          BY <2>1, <2>2, TwoOnAppend
        <4>. QED  BY <2>1, <3>1, <4>1, <4>2
      <3>2. CASE up'[w] = up[w]
        BY <3>2
      <3>. QED  BY <2>2, <3>1, <3>2
    <2>4. \A v \in Workers : /\ AtMostOne(up[v], Acks)
                             /\ Range(up[v]) \cap Acks # {} => job[v] = Terminate \/ v \in gone
      BY DEF RoomInv, OneAck
    <2>5. \A v \in Workers : /\ AtMostOne(up'[v], Acks)
                             /\ Range(up'[v]) \cap Acks # {} => job'[v] = Terminate \/ v \in gone'
      BY <2>2, <2>3, <2>4
    <2>. QED  BY <2>5 DEF OneAck, Acks, Terminate, TerminateAck
  <1>. QED  BY <1>1, <1>2, <1>3 DEF RoomInv

(* A step of the scheduler that sends nothing.                             *)
LEMMA RoomNoSend ==
  ASSUME IInv, RoomInv, JobsOfTheLiving, down' = down,
         up' = up \/ \E w \in Workers : Receive(w),
         gone \subseteq gone',
         \A a \in Activities : NotYet(a)' => NotYet(a),
         untold' \subseteq untold \/ pc \in Normal,
         pc' = "sync" => pc = "sync" /\ todo' \subseteq todo
  PROVE  RoomInv'
  <1>1. \A v \in Workers : up'[v] = up[v] \/ (up[v] # << >> /\ up'[v] = Tail(up[v]))
    BY DEF Receive, IInv, TypeOK, SignallingTypeOK
  <1>2. \A v \in Workers : job'[v] = job[v] \/ (job'[v] = Idle /\ v \in gone')
    BY DEF JobsOfTheLiving
  <1>3. PICK w \in Workers : TRUE
    BY ConfigAssumption
  <1>4. Terminate \in DownSignals
    BY DEF DownSignals
  <1>. QED  BY <1>1, <1>2, <1>3, <1>4, RoomKeeps

LEMMA RoomSend ==
  ASSUME IInv, RoomInv, JobsOfTheLiving, NEW w \in Workers, NEW sig \in DownSignals,
         SendOk(w, sig), Allowed(w, sig),
         \A a \in Activities : NotYet(a)' => NotYet(a),
         pc' = "sync" => pc = "sync" /\ todo' \subseteq todo
  PROVE  RoomInv'
  <1>1. /\ up' = up /\ gone' = gone /\ untold' \subseteq untold
        /\ \/ down' = down
           \/ /\ down'[w] = Append(down[w], sig)
              /\ \A v \in Workers : v # w => down'[v] = down[v]
    BY DEF SendOk, Allowed, IInv, TypeOK, SignallingTypeOK
  <1>2. \A v \in Workers : job'[v] = job[v] \/ (job'[v] = Idle /\ v \in gone')
    BY DEF JobsOfTheLiving
  <1>. QED  BY <1>1, <1>2, RoomKeeps

LEMMA RoomScheduler ==
  ASSUME IInv, RoomInv, SchedulerMoves
  PROVE  RoomInv'
  <1>. USE DEF activityStates, schedulerVars, signallingVars
  <1>1. SchedulerStep /\ JobsOfTheLiving
    BY DEF SchedulerMoves
  <1>2. ASSUME NEW a \in Activities, SyncTime(a) PROVE RoomInv'
    <2>1. /\ pc = "sync" /\ pc' = "sync" /\ todo' \subseteq todo /\ a \in todo /\ untold' = untold
          /\ SendOk(WorkerOf[a], StartupSync)
      BY <1>2 DEF SyncTime
    <2>2. Transport # "mpsc"
      BY <2>1 DEF RoomInv, NoSyncWithin
    <2>3. Allowed(WorkerOf[a], StartupSync) /\ StartupSync \in DownSignals
      BY <2>1, <2>2, KindsDiffer, SignalsDiffer DEF Allowed, DownSignals
    <2>4. \A b \in Activities : NotYet(b)
      BY <2>1 DEF NotYet, Normal
    <2>. QED  BY <1>1, <2>1, <2>3, <2>4, Home, RoomSend
  (* Orders to work go to activities that have answered the last one.      *)
  <1>3. ASSUME NEW a \in Activities, NEW sig \in Work(a), SendOk(WorkerOf[a], sig),
               pc \in Normal, pc' # "sync", ~InFlight(a), untold' = untold
        PROVE  RoomInv'
    <2>1. ~Answered(a)
      BY <1>3 DEF IInv, Accounted
    <2>2. sig \in DownSignals /\ sig \notin {Terminate, StartupSync}
      BY <1>3, SignalTypes, ConfigAssumption, KindsDiffer DEF Work
    <2>3. \A b \in Activities : (sig \in Work(b) => b = a) /\ sig # Shutdown(b)
      BY <1>3, SignalsDiffer
    <2>4. Allowed(WorkerOf[a], sig)
      BY <1>3, <2>1, <2>2, <2>3 DEF Allowed
    <2>5. \A b \in Activities : NotYet(b)
      BY <1>3 DEF NotYet
    <2>. QED  BY <1>1, <1>3, <2>2, <2>4, <2>5, Home, RoomSend
  <1>4. ASSUME NEW a \in Activities, StartupActivity(a) PROVE RoomInv'
    <2>1. /\ pc = "startup" /\ a \in todo /\ pc' # "sync" /\ untold' = untold
          /\ SendOk(WorkerOf[a], Startup(a))
      BY <1>4 DEF StartupActivity, IsFirst
    <2>. QED  BY <1>3, <2>1 DEF InFlight, Normal, Work
  <1>5. ASSUME NEW a \in Activities, StepActivity(a) PROVE RoomInv'
    <2>1. /\ pc = "run" /\ a \notin triggered /\ pc' # "sync" /\ untold' = untold
          /\ SendOk(WorkerOf[a], Step(a))
      BY <1>5 DEF StepActivity, Steppable
    <2>. QED  BY <1>3, <2>1 DEF InFlight, Normal, Work
  <1>6. ASSUME NEW a \in Activities, ShutdownActivity(a) PROVE RoomInv'
    <2>1. /\ pc = "shutdown" /\ a \in todo /\ pc' \in {"shutdown", "shutdownWait"}
          /\ todo' = todo \ {a} /\ untold' = untold
      BY <1>6 DEF ShutdownActivity, IsFirst
    <2>2. NotYet(a) /\ \A b \in Activities : NotYet(b)' => NotYet(b)
      BY <2>1 DEF NotYet, Normal
    <2>3. CASE SendOk(WorkerOf[a], Shutdown(a))
      <3>1. Allowed(WorkerOf[a], Shutdown(a)) /\ Shutdown(a) \in DownSignals
        BY <2>1, <2>2, KindsDiffer, SignalsDiffer, SignalTypes, ConfigAssumption DEF Allowed
      <3>. QED  BY <1>1, <2>1, <2>2, <2>3, <3>1, Home, RoomSend
    <2>4. CASE UNCHANGED signallingVars
      BY <1>1, <2>1, <2>2, <2>4, RoomNoSend
    <2>. QED  BY <1>6, <2>3, <2>4 DEF ShutdownActivity
  <1>7. ASSUME NEW w \in Workers, BroadcastTerminate(w) PROVE RoomInv'
    <2>1. /\ pc = "broadcast" /\ pc' \in {"broadcast", "join", "terminateWait"}
          /\ SendOk(w, Terminate) /\ w \in untold /\ untold' = untold \ {w}
      BY <1>7 DEF BroadcastTerminate, AwaitAgents
    <2>2. Allowed(w, Terminate) /\ Terminate \in DownSignals
      BY <2>1, KindsDiffer, SignalsDiffer DEF Allowed, DownSignals
    <2>3. \A b \in Activities : ~NotYet(b)'
      BY <2>1 DEF NotYet, Normal
    <2>. QED  BY <1>1, <2>1, <2>2, <2>3, RoomSend
  <1>8. ASSUME ProcessEnds PROVE RoomInv'
    <2>1. \A a : ~NotYet(a)'
      BY <1>8 DEF ProcessEnds, NotYet, Normal
    <2>. QED  BY <1>1, <1>8, <2>1, RoomNoSend DEF ProcessEnds
  <1>9. ASSUME NEW a \in Activities, SyncFails(a) \/ StartupPanics(a) \/ StepPanics(a)
        PROVE  RoomInv'
    BY <1>8, <1>9 DEF SyncFails, StartupPanics, StepPanics
  <1>10. CASE JoinWorkers
    BY <1>8, <1>10 DEF JoinWorkers
  (* The other steps send nothing.                                         *)
  <1>11. ASSUME pc \in Normal, pc' # "sync", down' = down, gone' = gone,
                up' = up \/ \E w \in Workers : Receive(w)
         PROVE  RoomInv'
    <2>1. \A a : NotYet(a)
      BY <1>11 DEF NotYet
    <2>. QED  BY <1>1, <1>11, <2>1, RoomNoSend
  <1>12. CASE WaitTimeout \/ WaitError \/ StartupTimeout \/ SyncDone \/ StartCycle \/ EndCycle
    <2>1. down' = down /\ up' = up /\ gone' = gone
      BY <1>12 DEF WaitTimeout, WaitError, StartupTimeout, SyncDone, StartCycle, EndCycle
    <2>2. pc \in Normal /\ pc' # "sync"
      BY <1>12 DEF WaitTimeout, WaitError, StartupTimeout, Waiting, SyncDone, StartCycle, EndCycle,
                   BeginShutdown, Normal
    <2>. QED  BY <1>11, <2>1, <2>2
  <1>13. ASSUME NEW w \in Workers, WaitNextReady(w) PROVE RoomInv'
    <2>1. Receive(w) /\ pc \in {"startupWait", "run"} /\ pc' # "sync"
      BY <1>13 DEF WaitNextReady, Waiting, OnReady, BeginShutdown
    <2>. QED  BY <1>11, <2>1 DEF Receive, Normal
  <1>14. ASSUME pc \in {"shutdownWait", "broadcast", "terminateWait"},
                pc' \in {"shutdownWait", "broadcast", "terminateWait", "join"},
                untold' = untold, down' = down, gone' = gone,
                up' = up \/ \E w \in Workers : Receive(w)
         PROVE  RoomInv'
    <2>1. \A a : ~NotYet(a)'
      BY <1>14 DEF NotYet, Normal
    <2>. QED  BY <1>1, <1>14, <2>1, RoomNoSend
  <1>15. CASE ShutdownTimeout \/ AgentAckTimeout
    BY <1>14, <1>15 DEF ShutdownTimeout, AgentAckTimeout
  <1>16. ASSUME NEW w \in Workers, BroadcastFails(w) PROVE RoomInv'
    BY <1>14, <1>16 DEF BroadcastFails, AwaitAgents
  <1>17. ASSUME NEW w \in Workers, ShutdownConfirmed(w) \/ AgentAcked(w) PROVE RoomInv'
    BY <1>14, <1>17 DEF ShutdownConfirmed, AgentAcked, Receive
  <1>. QED
    BY <1>1, <1>2, <1>4, <1>5, <1>6, <1>7, <1>9, <1>10, <1>12, <1>13, <1>15, <1>16, <1>17
       DEF SchedulerStep

LEMMA RoomStep == IInv /\ LifeInv /\ RoomInv /\ [Next]_vars => RoomInv'
  <1>. SUFFICES ASSUME IInv, LifeInv, RoomInv, [Next]_vars PROVE RoomInv'
    OBVIOUS
  <1>. USE DEF activityStates, schedulerVars, signallingVars
  <1>1. CASE SchedulerMoves
    BY <1>1, RoomScheduler
  (* Steps that leave the scheduler alone and idle some workers.           *)
  <1>2. ASSUME down' = down, up' = up, gone \subseteq gone', pc' = pc, todo' = todo,
               untold' = untold,
               \A v \in Workers : job'[v] = job[v] \/ (job'[v] = Idle /\ v \in gone')
        PROVE  RoomInv'
    <2>1. \A a : NotYet(a)' <=> NotYet(a)
      BY <1>2 DEF NotYet
    <2>2. PICK w \in Workers : TRUE
      BY ConfigAssumption
    <2>3. Terminate \in DownSignals
      BY DEF DownSignals
    <2>. QED  BY <1>2, <2>1, <2>2, <2>3, RoomKeeps
  <1>3. CASE SignalMoves
    <2>1. CASE shutdown_requested
      <3>1. ProcessEnds /\ JobsOfTheLiving
        BY <1>3, <2>1 DEF SignalMoves, CtrlC
      <3>2. \A a : ~NotYet(a)'
        BY <3>1 DEF ProcessEnds, NotYet, Normal
      <3>. QED  BY <3>1, <3>2, RoomNoSend DEF ProcessEnds
    <2>2. CASE ~shutdown_requested
      BY <1>2, <1>3, <2>2 DEF SignalMoves, CtrlC, JobsOfTheLiving
    <2>. QED  BY <2>1, <2>2
  <1>4. ASSUME NEW w \in Workers, WorkerMoves(w) PROVE RoomInv'
    <2>1. CASE ReceiveSync(w) \/ BeginActivity(w) \/ AckTerminate(w)
      BY <1>4, <2>1, RoomTakes DEF WorkerMoves
    <2>2. CASE \E ok \in BOOLEAN : EndActivity(w, ok)
      BY <1>4, <2>2, RoomEnd DEF WorkerMoves
    <2>3. CASE ExitWorker(w) \/ Disconnect(w)
      BY <1>2, <1>4, <2>3 DEF WorkerMoves, ExitWorker, Disconnect, IInv, TypeOK, WorkerTypeOK
    <2>. QED  BY <1>4, <2>1, <2>2, <2>3 DEF WorkerMoves, WorkerStep
  <1>5. CASE FaultMoves
    BY <1>2, <1>5 DEF FaultMoves, WorkerPanics, AgentKilled, IInv, TypeOK, WorkerTypeOK
  <1>6. CASE UNCHANGED vars
    BY <1>2, <1>6 DEF vars, workerVars
  <1>. QED  BY <1>1, <1>3, <1>4, <1>5, <1>6 DEF Next

LEMMA RoomInit == Init => RoomInv
  <1>. SUFFICES ASSUME Init PROVE RoomInv
    OBVIOUS
  <1>1. \A w \in Workers : /\ DOMAIN down[w] = {} /\ DOMAIN up[w] = {} /\ job[w] = Idle
                           /\ Range(down[w]) = {} /\ Range(up[w]) = {}
    BY DEF Init, SignallingInit, WorkerInit, Range
  <1>2. TwoAnswers
    BY <1>1, Home DEF TwoAnswers, AtMostTwo, AtMostOne, Answered
  <1>3. OneAck /\ OneTerminate
    BY <1>1 DEF OneAck, OneTerminate, AtMostOne
  <1>4. NoSyncWithin
    BY <1>1 DEF NoSyncWithin, Init, SchedulerInit
  <1>. QED  BY <1>2, <1>3, <1>4 DEF RoomInv

-----------------------------------------------------------------------------
(***************************************************************************)
(* The inductive invariant of the whole direct-signalling system           *)
(* (scheduler.rs, worker/mod.rs, timestamp.rs): on every channel           *)
(* StartupSync comes first, then work, then one Shutdown per activity,     *)
(* then Terminate, and each finds its activity in the state it is made     *)
(* for, whatever fails; no activity has more than two answers under way.   *)
(***************************************************************************)
THEOREM SystemInvariant == Spec => []SystemInv
  <1>1. Init => SystemInv
    BY IInvInit, ClockInit, LifeInit, RoomInit DEF SystemInv
  <1>2. SystemInv /\ [Next]_vars => SystemInv'
    BY IInvStep, ClockStep, LifeStep, RoomStep DEF SystemInv
  <1>. QED  BY <1>1, <1>2, PTL DEF Spec

(***************************************************************************)
(* The contract of the Activity trait (activity.rs): startup() once and    *)
(* first, step() only between a successful startup and the first failure,  *)
(* shutdown() last and once, although the scheduler sends Shutdown without *)
(* knowing which steps are still queued or running.                        *)
(***************************************************************************)
THEOREM LifecycleRespected == Spec => []LifecycleOrder
  <1>1. SystemInv => LifecycleOrder
    <2>. SUFFICES ASSUME SystemInv, NEW w \in Workers
                  PROVE  /\ job[w].type = "Startup"  => life[job[w].id] = "built"
                         /\ job[w].type = "Step"     => life[job[w].id] = "started"
                         /\ job[w].type = "Shutdown" =>
                              life[job[w].id] \in {"started", "stepFailed"}
      BY DEF LifecycleOrder
    <2>1. job[w] \in ActivitySignals \cup {Idle, Terminate}
      BY DEF SystemInv, IInv, TypeOK, WorkerTypeOK
    <2>2. CASE job[w] \in {Idle, Terminate}
      BY <2>2 DEF Idle, Terminate
    <2>3. CASE job[w] \in ActivitySignals
      <3>1. PICK a \in Activities : job[w] \in {Startup(a), Step(a), Shutdown(a)}
        BY <2>3 DEF ActivitySignals, Startup, Step, Shutdown
      <3>2. /\ job[w].id = a
            /\ job[w].type = "Startup" => job[w] = Startup(a)
            /\ job[w].type = "Step" => job[w] = Step(a)
            /\ job[w].type = "Shutdown" => job[w] = Shutdown(a)
        BY <3>1 DEF Startup, Step, Shutdown
      <3>3. WorkerOf[a] = w
        BY <2>3, <3>2 DEF SystemInv, IInv, Addressed
      <3>. QED  BY <3>2, <3>3 DEF SystemInv, LifeInv, OrdersFit, Orders
    <2>. QED  BY <2>1, <2>2, <2>3
  <1>. QED  BY <1>1, SystemInvariant, PTL

(***************************************************************************)
(* Two-phase shutdown (shutdown_gracefully, worker/mod.rs): a worker that  *)
(* acknowledges Terminate has shut down each of its activities that was    *)
(* ever ready, even if the first phase was cut short by its timeout.       *)
(***************************************************************************)
THEOREM ShutDownFirst == Spec => []ShutDownBeforeTerminate
  <1>1. SystemInv => ShutDownBeforeTerminate
    BY DEF SystemInv, LifeInv, TerminateLast, ShutDownBeforeTerminate
  <1>. QED  BY <1>1, SystemInvariant, PTL

-----------------------------------------------------------------------------
(***************************************************************************)
(* Counting.  Each signal in a channel is mapped to a key of its own: one  *)
(* of two for each activity, or the one for each worker.                   *)
(***************************************************************************)
Keys == (Activities \X {1, 2}) \cup (Workers \X {0})

Most == 2 * Cardinality(Activities) + Cardinality(Workers)

LEMMA FiniteWorkers ==
  ASSUME IsFiniteSet(Activities)
  PROVE  IsFiniteSet(Workers) /\ Cardinality(Workers) \in Nat
  <1>1. WorkerOf \in Surjection(Activities, Workers)
    BY ConfigAssumption, Fun_IsSurj
  <1>. QED  BY <1>1, FS_Surjection, FS_CardinalityType

LEMMA FewKeys ==
  ASSUME IsFiniteSet(Activities)
  PROVE  IsFiniteSet(Keys) /\ Cardinality(Keys) <= Most /\ Cardinality(Keys) \in Nat /\ Most \in Nat
  <1>1. /\ IsFiniteSet(Workers) /\ Cardinality(Workers) \in Nat
        /\ Cardinality(Activities) \in Nat
    BY FiniteWorkers, FS_CardinalityType
  <1>2. IsFiniteSet({0}) /\ Cardinality({0}) = 1
    BY FS_Singleton
  <1>3. IsFiniteSet({1, 2}) /\ Cardinality({1, 2}) = 2
    <2>1. IsFiniteSet({1}) /\ Cardinality({1}) = 1 /\ {1} \cup {2} = {1, 2}
      BY FS_Singleton
    <2>. QED  BY <2>1, FS_AddElement
  <1>4. /\ IsFiniteSet(Activities \X {1, 2})
        /\ Cardinality(Activities \X {1, 2}) = Cardinality(Activities) * 2
    BY <1>3, FS_Product
  <1>5. /\ IsFiniteSet(Workers \X {0})
        /\ Cardinality(Workers \X {0}) = Cardinality(Workers) * 1
    BY <1>1, <1>2, FS_Product
  <1>6. (Activities \X {1, 2}) \cap (Workers \X {0}) = {}
    OBVIOUS
  <1>7. Cardinality((Activities \X {1, 2}) \cap (Workers \X {0})) = 0
    BY <1>6, FS_EmptySet
  <1>8. /\ IsFiniteSet(Keys)
        /\ Cardinality(Keys) = Cardinality(Activities) * 2 + Cardinality(Workers) * 1 - 0
    BY <1>4, <1>5, <1>7, FS_Union DEF Keys
  <1>. QED  BY <1>1, <1>8 DEF Most

(* Fewer entries than keys, if one key is left over.                       *)
LEMMA KeyLeft ==
  ASSUME IsFiniteSet(Activities), NEW D, NEW f, NEW k \in Keys,
         f \in [D -> Keys], \A x \in D : f[x] # k,
         \A x, y \in D : f[x] = f[y] => x = y
  PROVE  IsFiniteSet(D) /\ Cardinality(D) \in Nat /\ Cardinality(D) < Most
  <1>1. f \in [D -> Keys \ {k}]
    OBVIOUS
  <1>2. f \in Injection(D, Keys \ {k})
    BY <1>1, Fun_IsInj
  <1>3. /\ IsFiniteSet(Keys \ {k}) /\ Cardinality(Keys \ {k}) = Cardinality(Keys) - 1
    BY FewKeys, FS_RemoveElement
  <1>4. /\ IsFiniteSet(D) /\ Cardinality(D) <= Cardinality(Keys \ {k})
        /\ Cardinality(D) \in Nat
    BY <1>2, <1>3, FS_Injection, FS_CardinalityType
  <1>. QED  BY <1>3, <1>4, FewKeys

-----------------------------------------------------------------------------
(* A worker's channel.                                                     *)
DownKey(w, sig) ==
  CASE sig.type \in {"Startup", "Step"} -> <<sig.id, 1>>
    [] sig.type = "Shutdown"            -> <<sig.id, 2>>
    [] OTHER                            -> <<w, 0>>

LEMMA DownKeys ==
  ASSUME SystemInv, Transport = "mpsc", NEW w \in Workers, NEW i \in DOMAIN down[w]
  PROVE  LET k == DownKey(w, down[w][i]) IN
         /\ k \in Keys
         /\ k = <<w, 0>> => down[w][i] = Terminate
         /\ \A a : k = <<a, 1>> => a \in Activities /\ WorkerOf[a] = w /\ down[w][i] \in Work(a)
         /\ \A a : k = <<a, 2>> => a \in Activities /\ WorkerOf[a] = w /\ down[w][i] = Shutdown(a)
  <1>1. /\ down[w] \in Seq(DownSignals) /\ down[w][i] \in DownSignals
        /\ down[w][i] \in Range(down[w])
    BY DEF SystemInv, IInv, TypeOK, SignallingTypeOK, Range
  <1>2. down[w][i] # StartupSync
    BY <1>1 DEF SystemInv, RoomInv, NoSyncWithin
  <1>3. CASE down[w][i] = Terminate
    BY <1>3 DEF Terminate, DownKey, Keys
  <1>4. CASE down[w][i] \in ActivitySignals
    <2>1. PICK a \in Activities : down[w][i] \in {Startup(a), Step(a), Shutdown(a)}
      BY <1>4 DEF ActivitySignals, Startup, Step, Shutdown
    <2>2. down[w][i].id = a /\ WorkerOf[a] = w
      BY <1>1, <1>4, <2>1 DEF SystemInv, IInv, Addressed, Startup, Step, Shutdown
    <2>3. CASE down[w][i] = Shutdown(a)
      BY <2>2, <2>3 DEF Shutdown, DownKey, Keys
    <2>4. CASE down[w][i] \in Work(a)
      BY <2>2, <2>4 DEF Work, Startup, Step, DownKey, Keys
    <2>. QED  BY <2>1, <2>3, <2>4 DEF Work
  <1>. QED  BY <1>1, <1>2, <1>3, <1>4 DEF DownSignals

LEMMA DownKeysDiffer ==
  ASSUME SystemInv, Transport = "mpsc", NEW w \in Workers,
         NEW i \in DOMAIN down[w], NEW j \in DOMAIN down[w],
         DownKey(w, down[w][i]) = DownKey(w, down[w][j])
  PROVE  i = j
  <1>1. PICK k \in Keys : k = DownKey(w, down[w][i]) /\ k = DownKey(w, down[w][j])
    BY DownKeys
  <1>2. CASE \E v \in Workers : k = <<v, 0>>
    <2>1. \A a, c : <<a, c>> = k => c = 0
      BY <1>2
    <2>2. k = <<w, 0>>
      BY <1>1, <2>1 DEF DownKey
    <2>3. \A x \in {i, j} : DownKey(w, down[w][x]) = <<w, 0>> => down[w][x] = Terminate
      BY DownKeys
    <2>4. down[w][i] = Terminate /\ down[w][j] = Terminate
      BY <1>1, <2>2, <2>3
    <2>. QED  BY <2>4 DEF SystemInv, RoomInv, OneTerminate, AtMostOne
  <1>3. CASE \E a \in Activities : k = <<a, 1>>
    <2>1. PICK a \in Activities : k = <<a, 1>>
      BY <1>3
    <2>2. \A x \in {i, j} : DownKey(w, down[w][x]) = <<a, 1>> =>
                            WorkerOf[a] = w /\ down[w][x] \in Work(a)
      BY DownKeys
    <2>. QED  BY <1>1, <2>1, <2>2 DEF SystemInv, IInv, OneOrder, AtMostOne
  <1>4. CASE \E a \in Activities : k = <<a, 2>>
    <2>1. PICK a \in Activities : k = <<a, 2>>
      BY <1>4
    <2>2. \A x \in {i, j} : DownKey(w, down[w][x]) = <<a, 2>> =>
                            WorkerOf[a] = w /\ down[w][x] = Shutdown(a)
      BY DownKeys
    <2>3. i <= j /\ j <= i
      BY <1>1, <2>1, <2>2 DEF SystemInv, LifeInv, ShutdownLast
    <2>4. i \in Nat /\ j \in Nat
      BY LenProperties DEF SystemInv, IInv, TypeOK, SignallingTypeOK
    <2>. QED  BY <2>3, <2>4
  <1>. QED  BY <1>1, <1>2, <1>3, <1>4 DEF Keys

LEMMA DownHasRoom ==
  ASSUME SystemInv, Transport = "mpsc", IsFiniteSet(Activities), NEW w \in Workers,
         NEW k \in Keys, \A i \in DOMAIN down[w] : DownKey(w, down[w][i]) # k
  PROVE  Len(down[w]) < Most
  <1>. DEFINE f == [i \in DOMAIN down[w] |-> DownKey(w, down[w][i])]
  <1>1. f \in [DOMAIN down[w] -> Keys]
    BY DownKeys
  <1>2. /\ \A i \in DOMAIN down[w] : f[i] # k
        /\ \A i, j \in DOMAIN down[w] : f[i] = f[j] => i = j
    BY DownKeysDiffer
  <1>. HIDE DEF f
  <1>3. Cardinality(DOMAIN down[w]) < Most
    BY <1>1, <1>2, KeyLeft
  <1>4. DOMAIN down[w] = 1 .. Len(down[w]) /\ Len(down[w]) \in Nat
    BY LenProperties DEF SystemInv, IInv, TypeOK, SignallingTypeOK
  <1>5. Cardinality(1 .. Len(down[w])) = Len(down[w])
    BY <1>4, FS_Interval
  <1>. QED  BY <1>3, <1>4, <1>5

-----------------------------------------------------------------------------
(* The scheduler's channel.                                                *)
Earlier(v, i, a) == \E j \in DOMAIN up[v] : j < i /\ up[v][j] \in Answers(a)

UpKey(v, i) ==
  LET sig == up[v][i] IN
    CASE sig.type = "TerminateAck"   -> <<v, 0>>
      [] sig.type # "TerminateAck" /\ Earlier(v, i, sig.id)  -> <<sig.id, 2>>
      [] sig.type # "TerminateAck" /\ ~Earlier(v, i, sig.id) -> <<sig.id, 1>>

LEMMA UpKeys ==
  ASSUME SystemInv, NEW v \in Workers, NEW i \in DOMAIN up[v]
  PROVE  LET k == UpKey(v, i) IN
         /\ k \in Keys
         /\ \A u : k = <<u, 0>> => u = v /\ up[v][i] \in Acks
         /\ \A a, n : n \in {1, 2} /\ k = <<a, n>> =>
              /\ a \in Activities /\ WorkerOf[a] = v /\ up[v][i] \in Answers(a)
              /\ n = 2 <=> Earlier(v, i, a)
  <1>1. up[v] \in Seq(UpSignals) /\ up[v][i] \in UpSignals /\ up[v][i] \in Range(up[v])
    BY DEF SystemInv, IInv, TypeOK, SignallingTypeOK, Range
  <1>2. CASE up[v][i].type = "TerminateAck"
    <2>1. up[v][i] \in Acks
      BY <1>1, <1>2 DEF UpSignals, Acks, TerminateAck
    <2>2. UpKey(v, i) = <<v, 0>>
      BY <1>2 DEF UpKey
    <2>. QED  BY <2>1, <2>2 DEF Keys
  <1>3. CASE up[v][i].type # "TerminateAck"
    <2>1. PICK a \in Activities : up[v][i] \in Answers(a) /\ up[v][i].id = a
      BY <1>1, <1>3 DEF UpSignals, Answers, Ready, ActivityFailed
    <2>2. WorkerOf[a] = v
      BY <1>1, <1>3, <2>1 DEF SystemInv, IInv, Addressed
    <2>3. UpKey(v, i) = IF Earlier(v, i, a) THEN <<a, 2>> ELSE <<a, 1>>
      BY <1>3, <2>1 DEF UpKey
    <2>. QED  BY <2>1, <2>2, <2>3 DEF Keys
  <1>. QED  BY <1>2, <1>3

LEMMA UpKeysDiffer ==
  ASSUME SystemInv, NEW v \in Workers, NEW u \in Workers,
         NEW i \in DOMAIN up[v], NEW j \in DOMAIN up[u], UpKey(v, i) = UpKey(u, j)
  PROVE  v = u /\ i = j
  <1>. PICK k \in Keys : k = UpKey(v, i) /\ k = UpKey(u, j)
    BY UpKeys
  <1>1. /\ \A w : k = <<w, 0>> => w = v /\ up[v][i] \in Acks
        /\ \A a, n : n \in {1, 2} /\ k = <<a, n>> =>
             /\ a \in Activities /\ WorkerOf[a] = v /\ up[v][i] \in Answers(a)
             /\ n = 2 <=> Earlier(v, i, a)
    BY UpKeys
  <1>2. /\ \A w : k = <<w, 0>> => w = u /\ up[u][j] \in Acks
        /\ \A a, n : n \in {1, 2} /\ k = <<a, n>> =>
             /\ a \in Activities /\ WorkerOf[a] = u /\ up[u][j] \in Answers(a)
             /\ n = 2 <=> Earlier(u, j, a)
    BY UpKeys
  <1>3. CASE k \in Workers \X {0}
    <2>1. PICK w \in Workers : k = <<w, 0>>
      BY <1>3
    <2>. QED  BY <1>1, <1>2, <2>1 DEF SystemInv, RoomInv, OneAck, AtMostOne
  <1>4. CASE k \in Activities \X {1, 2}
    <2>1. PICK a \in Activities, n \in {1, 2} : k = <<a, n>>
      BY <1>4
    <2>2. /\ v = u /\ WorkerOf[a] = v /\ up[v][i] \in Answers(a) /\ up[v][j] \in Answers(a)
          /\ n = 2 <=> Earlier(v, i, a)
          /\ n = 2 <=> Earlier(v, j, a)
      BY <1>1, <1>2, <2>1
    <2>3. i \in DOMAIN up[v] /\ j \in DOMAIN up[v] /\ i \in Nat /\ j \in Nat
      BY <2>2, LenProperties DEF SystemInv, IInv, TypeOK, SignallingTypeOK
    <2>4. AtMostTwo(up[v], Answers(a))
      BY <2>2 DEF SystemInv, RoomInv, TwoAnswers
    <2>5. DOMAIN up[v] \subseteq Nat
      BY <2>2, LenProperties DEF SystemInv, IInv, TypeOK, SignallingTypeOK
    (* The first of two answers has none before it, the second has one.    *)
    <2>6. ASSUME NEW x \in DOMAIN up[v], NEW y \in DOMAIN up[v], x < y,
                 up[v][x] \in Answers(a), up[v][y] \in Answers(a)
          PROVE  Earlier(v, y, a) /\ ~Earlier(v, x, a)
      <3>1. Earlier(v, y, a)
        BY <2>6 DEF Earlier
      <3>2. ASSUME NEW z \in DOMAIN up[v], z < x, up[v][z] \in Answers(a) PROVE FALSE
        <4>1. z = x \/ x = y \/ z = y
          BY <2>4, <2>6, <3>2 DEF AtMostTwo
        <4>. QED  BY <2>5, <2>6, <3>2, <4>1
      <3>. QED  BY <3>1, <3>2 DEF Earlier
    <2>. QED  BY <2>2, <2>3, <2>6
  <1>. QED  BY <1>3, <1>4 DEF Keys

LEMMA UpHasRoomFor ==
  ASSUME SystemInv, IsFiniteSet(Activities), NEW k \in Keys,
         \A v \in Workers : \A i \in DOMAIN up[v] : UpKey(v, i) # k
  PROVE  UpLoad \in Nat /\ UpLoad < Most
  <1>. DEFINE D == UNION {{w} \X DOMAIN up[w] : w \in Workers}
              f == [x \in D |-> UpKey(x[1], x[2])]
  <1>1. \A x \in D : /\ x = <<x[1], x[2]>>
                     /\ x[1] \in Workers /\ x[2] \in DOMAIN up[x[1]]
    OBVIOUS
  <1>2. \A x \in D : UpKey(x[1], x[2]) \in Keys
    BY <1>1, UpKeys
  <1>3. \A x, y \in D : UpKey(x[1], x[2]) = UpKey(y[1], y[2]) => x[1] = y[1] /\ x[2] = y[2]
    BY <1>1, UpKeysDiffer
  <1>. HIDE DEF D
  <1>4. /\ f \in [D -> Keys] /\ \A x \in D : f[x] # k
        /\ \A x, y \in D : f[x] = f[y] => x = y
    BY <1>1, <1>2, <1>3
  <1>. HIDE DEF f
  <1>5. Cardinality(D) \in Nat /\ Cardinality(D) < Most
    BY <1>4, KeyLeft
  <1>. QED  BY <1>5 DEF UpLoad, D

-----------------------------------------------------------------------------
(* The scheduler sends to w.                                               *)
LEMMA SchedulerHasRoom ==
  ASSUME SystemInv, Transport = "mpsc", IsFiniteSet(Activities)
  PROVE  /\ \A a \in Activities :
              (\/ pc \in {"startup", "shutdown"} /\ a \in todo
               \/ pc = "run" /\ a \in Steppable) => Len(down[WorkerOf[a]]) < Most
         /\ \A w \in Workers : pc = "broadcast" /\ w \in untold => Len(down[w]) < Most
  <1>1. ASSUME NEW a \in Activities, ~Queued(a) PROVE Len(down[WorkerOf[a]]) < Most
    <2>1. PICK w \in Workers : w = WorkerOf[a]
      BY Home
    <2>2. ASSUME NEW i \in DOMAIN down[w], DownKey(w, down[w][i]) = <<a, 1>> PROVE FALSE
      <3>1. down[w][i] \in Work(a)
        BY <2>2, DownKeys
      <3>. QED  BY <1>1, <2>1, <3>1 DEF Queued, Range
    <2>3. <<a, 1>> \in Keys
      BY DEF Keys
    <2>. QED  BY <2>1, <2>2, <2>3, DownHasRoom
  <1>2. ASSUME NEW a \in Activities, NotYet(a) PROVE Len(down[WorkerOf[a]]) < Most
    <2>1. PICK w \in Workers : w = WorkerOf[a]
      BY Home
    <2>2. ASSUME NEW i \in DOMAIN down[w], DownKey(w, down[w][i]) = <<a, 2>> PROVE FALSE
      <3>1. down[w][i] = Shutdown(a)
        BY <2>2, DownKeys
      <3>2. Shutdown(a) \in Orders(WorkerOf[a])
        BY <2>1, <3>1 DEF Orders, Range
      <3>. QED  BY <1>2, <3>2 DEF SystemInv, LifeInv, OrdersFit
    <2>3. <<a, 2>> \in Keys
      BY DEF Keys
    <2>. QED  BY <2>1, <2>2, <2>3, DownHasRoom
  <1>3. ASSUME NEW w \in Workers, w \in untold PROVE Len(down[w]) < Most
    <2>1. ASSUME NEW i \in DOMAIN down[w], DownKey(w, down[w][i]) = <<w, 0>> PROVE FALSE
      <3>1. down[w][i] = Terminate
        BY <2>1, DownKeys
      <3>. QED  BY <1>3, <3>1 DEF SystemInv, RoomInv, OneTerminate, Range
    <2>2. <<w, 0>> \in Keys
      BY DEF Keys
    <2>. QED  BY <2>1, <2>2, DownHasRoom
  <1>4. ASSUME NEW a \in Activities, pc = "startup", a \in todo PROVE ~Queued(a)
    BY <1>4 DEF SystemInv, IInv, Accounted, InFlight, Normal
  <1>5. ASSUME NEW a \in Activities, pc = "run", a \in Steppable PROVE ~Queued(a)
    BY <1>5 DEF SystemInv, IInv, Accounted, InFlight, Normal, Steppable
  <1>6. ASSUME NEW a \in Activities, pc = "shutdown", a \in todo PROVE NotYet(a)
    BY <1>6 DEF NotYet
  <1>. QED  BY <1>1, <1>2, <1>3, <1>4, <1>5, <1>6

(* A worker answers, or acknowledges.                                      *)
LEMMA WorkerHasRoom ==
  ASSUME SystemInv, IsFiniteSet(Activities), NEW w \in Workers,
         job[w] \in ActivitySignals \/ AboutToAck(w)
  PROVE  UpLoad \in Nat /\ UpLoad < Most
  <1>1. CASE job[w] \in ActivitySignals
    <2>1. PICK a \in Activities : job[w] \in Work(a) \cup {Shutdown(a)} /\ job[w].id = a
      BY <1>1 DEF ActivitySignals, Work, Startup, Step, Shutdown
    <2>2. WorkerOf[a] = w
      BY <1>1, <2>1 DEF SystemInv, IInv, Addressed
    <2>3. Working(a) \/ Leaving(a)
      BY <2>1, <2>2 DEF Working, Leaving, Orders
    <2>4. AtMostOne(up[w], Answers(a))
      BY <2>2, <2>3 DEF SystemInv, RoomInv, TwoAnswers
    <2>5. ASSUME NEW v \in Workers, NEW i \in DOMAIN up[v], UpKey(v, i) = <<a, 2>> PROVE FALSE
      <3>1. v = w /\ up[v][i] \in Answers(a) /\ Earlier(v, i, a)
        BY <2>2, <2>5, UpKeys
      <3>2. PICK j \in DOMAIN up[w] : j < i /\ up[w][j] \in Answers(a)
        BY <3>1 DEF Earlier
      <3>3. i = j /\ i \in Nat
        BY <2>4, <3>1, <3>2, LenProperties DEF AtMostOne, SystemInv, IInv, TypeOK, SignallingTypeOK
      <3>. QED  BY <3>2, <3>3
    <2>6. <<a, 2>> \in Keys
      BY DEF Keys
    <2>. QED  BY <2>5, <2>6, UpHasRoomFor
  <1>2. CASE AboutToAck(w)
    <2>1. w \notin gone /\ job[w] = Idle
      BY <1>2 DEF AboutToAck
    <2>2. Range(up[w]) \cap Acks = {}
      BY <2>1, KindsDiffer DEF SystemInv, RoomInv, OneAck
    <2>3. ASSUME NEW v \in Workers, NEW i \in DOMAIN up[v], UpKey(v, i) = <<w, 0>> PROVE FALSE
      <3>1. v = w /\ up[v][i] \in Acks
        BY <2>3, UpKeys
      <3>. QED  BY <2>2, <3>1 DEF Range
    <2>4. <<w, 0>> \in Keys
      BY DEF Keys
    <2>. QED  BY <2>3, <2>4, UpHasRoomFor
  <1>. QED  BY <1>1, <1>2

(***************************************************************************)
(* MPSC_CHANNEL_BOUND (signalling/direct/mpsc.rs): a channel with room for *)
(* two signals of every activity and one of every worker never blocks its  *)
(* senders, scheduler or worker, in any configuration, however late the    *)
(* other side is and whatever fails.                                       *)
(***************************************************************************)
THEOREM RoomForAll ==
  ASSUME IsFiniteSet(Activities), Transport = "mpsc",
         ChannelBound >= 2 * Cardinality(Activities) + Cardinality(Workers)
  PROVE  Spec => []SendsNeverBlock
  <1>1. ChannelBound >= Most /\ Most \in Nat /\ ChannelBound \in Nat
    BY FewKeys, ConfigAssumption DEF Most
  <1>2. SystemInv => SendsNeverBlock
    <2>. SUFFICES ASSUME SystemInv PROVE SendsNeverBlock
      OBVIOUS
    <2>1. \A w \in Workers : Len(down[w]) \in Nat
      BY LenProperties DEF SystemInv, IInv, TypeOK, SignallingTypeOK
    <2>2. UpLoad \in Nat /\ UpLoad < Most => UpLoad < ChannelBound
      BY <1>1
    <2>3. \A w \in Workers : Len(down[w]) < Most => Len(down[w]) < ChannelBound
      BY <1>1, <2>1
    <2>4. /\ \A a \in Activities :
               (\/ pc \in {"startup", "shutdown"} /\ a \in todo
                \/ pc = "run" /\ a \in Steppable) => Len(down[WorkerOf[a]]) < ChannelBound
          /\ \A w \in Workers : pc = "broadcast" /\ w \in untold => Len(down[w]) < ChannelBound
      BY <2>3, Home, SchedulerHasRoom
    <2>5. \A w \in Workers : job[w] \in ActivitySignals \/ AboutToAck(w) => UpLoad < ChannelBound
      BY <2>2, WorkerHasRoom
    <2>. QED  BY <2>4, <2>5 DEF SendsNeverBlock
  <1>. QED  BY <1>2, SystemInvariant, PTL
=============================================================================
