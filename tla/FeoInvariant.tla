----------------------------- MODULE FeoInvariant -----------------------------
(***************************************************************************)
(* The inductive invariant behind the fixed execution order: where the     *)
(* signals of an activity can be while the scheduler is in each phase.     *)
(***************************************************************************)
EXTENDS Feo

Normal == {"sync", "startup", "startupWait", "cycle", "run", "sleep"}

Work(a)    == {Startup(a), Step(a)}
Answers(a) == {Ready(a), ActivityFailed(a)}

Queued(a)   == Range(down[WorkerOf[a]]) \cap Work(a) # {}
Busy(a)     == job[WorkerOf[a]] \in Work(a)
Answered(a) == Range(up[WorkerOf[a]]) \cap Answers(a) # {}

(* s has at most one entry in S.                                           *)
AtMostOne(s, S) == \A i, j \in DOMAIN s : s[i] \in S /\ s[j] \in S => i = j

(* An activity's signals are only ever on the channels of its own worker.  *)
Addressed ==
  \A w \in Workers :
    /\ \A sig \in Range(down[w]) \cup {job[w]} :
         sig \in ActivitySignals => WorkerOf[sig.id] = w
    /\ \A sig \in Range(up[w]) : sig.type # "TerminateAck" => WorkerOf[sig.id] = w

(* At most one order to work is on its way to, or at, an activity ...      *)
OneOrder ==
  \A a \in Activities :
    /\ AtMostOne(down[WorkerOf[a]], Work(a))
    /\ ~(Queued(a) /\ Busy(a))

(* ... and until the shutdown at most one answer, with no order next to it. *)
OneAnswer ==
  pc \in Normal =>
    \A a \in Activities :
      /\ AtMostOne(up[WorkerOf[a]], Answers(a))
      /\ Answered(a) => ~Busy(a) /\ ~Queued(a)

(* The scheduler's flags know of every signal under way.                   *)
InFlight(a) ==
  \/ pc = "startup" /\ a \notin todo
  \/ pc = "startupWait" /\ a \notin ready
  \/ pc = "run" /\ a \in triggered /\ a \notin ready

Accounted ==
  pc \in Normal =>
    \A a \in Activities : Busy(a) \/ Queued(a) \/ Answered(a) => InFlight(a)

(* Shutdown and Terminate belong to the shutdown, Startup to the startup.  *)
PhaseSignals ==
  \A w \in Workers :
    /\ pc \in Normal =>
         /\ \A sig \in Range(down[w]) \cup {job[w]} :
              sig.type \notin {"Shutdown", "Terminate"}
         /\ \A sig \in Range(up[w]) : sig.type # "TerminateAck"
    /\ pc = "run" =>
         \A sig \in Range(down[w]) \cup {job[w]} : sig.type # "Startup"

(* What the flags say about the progress of the cycle.                     *)
CycleProgress ==
  /\ pc \in {"sync", "startup"} => ready = {}
  /\ pc \in {"cycle", "sleep"} => ready = Activities
  /\ pc \in {"sync", "startup", "startupWait"} => ran = {}
  /\ pc = "cycle" => ran = {} \/ ran = Activities
  /\ pc = "sleep" => ran = Activities
  /\ pc = "run" => ready \subseteq ran /\ ran \subseteq triggered
  /\ pc = "run" => \A w \in Workers : \A sig \in Range(up[w]) :
                     sig.type = "Ready" => sig.id \in ran

(* Before the startup is over no step has been ordered.                    *)
StepsLater ==
  pc \in {"sync", "startup", "startupWait"} =>
    \A w \in Workers : \A sig \in Range(down[w]) \cup {job[w]} : sig.type # "Step"

(* A step that is ordered or running is due: see ExecutionOrder.           *)
Due(a) == a \notin ran /\ Depends[a] \cap Activities \subseteq ran

StepsDue ==
  \A w \in Workers : \A sig \in Range(down[w]) \cup {job[w]} :
    sig.type = "Step" => Due(sig.id)

(***************************************************************************)
(* The inductive invariant of the scheduler/worker protocol: at most one   *)
(* order or answer per activity is under way, the scheduler's triggered    *)
(* and ready flags account for it, and every ordered step is due.          *)
(***************************************************************************)
IInv ==
  /\ TypeOK
  /\ Addressed /\ OneOrder /\ OneAnswer /\ Accounted
  /\ PhaseSignals /\ CycleProgress /\ StepsLater /\ StepsDue

-----------------------------------------------------------------------------
(***************************************************************************)
(* What the life of the activities rests on, beyond IInv: the order of the *)
(* signals within a channel.                                               *)
(***************************************************************************)
Orders(w) == Range(down[w]) \cup {job[w]}

(* StartupSync is ahead of everything else on its channel ...              *)
Leads(x, s) == \A i, j \in DOMAIN s : i < j /\ s[j] = x => s[i] = x

SyncFirst == \A w \in Workers : Leads(StartupSync, down[w])

(* ... and until it is taken the worker has done nothing.                  *)
SyncUnseen ==
  /\ \A w \in Workers : StartupSync \in Range(down[w]) =>
       /\ job[w] = Idle /\ up[w] = << >>
       /\ \A a \in ever_ready : WorkerOf[a] # w
  /\ pc \in {"sync", "startup"} => ever_ready = {}
  /\ pc \in Normal => ready \subseteq ever_ready

(* Where the StartupSync of a process without a clock is.                  *)
SyncAhead ==
  \A w \in Workers :
    \/ AgentOf[w] \in synced
    \/ w \in gone
    \/ StartupSync \in Range(down[w])
    \/ down[w] = << >> /\ pc = "exited"
    \/ down[w] = << >> /\ pc = "sync" /\ \E a \in todo : WorkerOf[a] = w

(* The scheduler has not sent Shutdown to activity a yet.                  *)
NotYet(a) == pc \in Normal \/ (pc = "shutdown" /\ a \in todo)

(* The scheduler has, unless the process has ended.                        *)
Already(a) ==
  \/ pc = "shutdown" /\ a \notin todo
  \/ pc \in {"shutdownWait", "broadcast", "terminateWait", "join"}

(* An order finds its activity in the state it is made for.                *)
OrdersFit ==
  \A a \in Activities :
    /\ Startup(a) \in Orders(WorkerOf[a]) => life[a] = "built"
    /\ Step(a) \in Orders(WorkerOf[a]) => life[a] = "started"
    /\ Shutdown(a) \in Orders(WorkerOf[a]) =>
         life[a] \in {"started", "stepFailed"} /\ ~NotYet(a)

(* Shutdown is the last order an activity gets, and comes once.            *)
ShutdownLast ==
  \A a \in Activities : LET w == WorkerOf[a] IN
    /\ \A i, j \in DOMAIN down[w] :
         down[w][i] = Shutdown(a) /\ down[w][j] \in Work(a) \cup {Shutdown(a)} => j <= i
    /\ job[w] = Shutdown(a) => Range(down[w]) \cap (Work(a) \cup {Shutdown(a)}) = {}

(* What the scheduler's flags say about the life of an activity.           *)
Settled(a) ==
  \/ pc \in {"cycle", "sleep"}
  \/ pc = "startupWait" /\ a \in ready
  \/ pc = "run" /\ (a \notin triggered \/ a \in ready)

LifeKnown ==
  \A a \in Activities :
    /\ pc = "sync" => life[a] = "built"
    /\ pc = "startup" /\ a \in todo => life[a] = "built"
    /\ Settled(a) => life[a] = "started"
    /\ pc \in Normal /\ Ready(a) \in Range(up[WorkerOf[a]]) => life[a] = "started"
    /\ a \in ever_ready => life[a] \in {"started", "stepFailed", "stopped"}
    /\ a \in ever_ready /\ NotYet(a) => life[a] # "stopped"

(* Every activity that was ever ready gets its Shutdown, before Terminate. *)
Stopping(a) == Shutdown(a) \in Orders(WorkerOf[a]) \/ life[a] = "stopped"

ShutdownSent ==
  /\ pc = "shutdown" => todo \subseteq ever_ready
  /\ \A a \in ever_ready : Already(a) => WorkerOf[a] \in gone \/ Stopping(a)

TerminateLast ==
  \A a \in ever_ready : LET w == WorkerOf[a] IN
    /\ job[w] = Terminate => life[a] = "stopped"
    /\ w \notin gone => \A i \in DOMAIN down[w] : down[w][i] = Terminate =>
         \/ life[a] = "stopped" \/ job[w] = Shutdown(a)
         \/ \E j \in DOMAIN down[w] : j < i /\ down[w][j] = Shutdown(a)

ClockInv == SyncFirst /\ SyncUnseen /\ SyncAhead /\ ClockInitialised

LifeInv == OrdersFit /\ ShutdownLast /\ LifeKnown /\ ShutdownSent /\ TerminateLast

-----------------------------------------------------------------------------
(***************************************************************************)
(* How many signals can be on the channels of mpsc, whose senders block    *)
(* when they are full.                                                     *)
(***************************************************************************)
AtMostTwo(s, S) ==
  \A i, j, k \in DOMAIN s : s[i] \in S /\ s[j] \in S /\ s[k] \in S => i = j \/ j = k \/ i = k

Working(a) == Orders(WorkerOf[a]) \cap Work(a) # {}
Leaving(a) == Shutdown(a) \in Orders(WorkerOf[a]) \/ NotYet(a)

(* An activity answers its last order to work and its Shutdown.            *)
TwoAnswers ==
  \A a \in Activities : LET s == up[WorkerOf[a]] IN
    /\ AtMostTwo(s, Answers(a))
    /\ Working(a) \/ Leaving(a) => AtMostOne(s, Answers(a))
    /\ Working(a) /\ Leaving(a) => ~Answered(a)

(* A worker acknowledges Terminate once, and is told once.                 *)
Acks == {TerminateAck(g) : g \in Agents}

OneAck ==
  \A w \in Workers : /\ AtMostOne(up[w], Acks)
                     /\ Range(up[w]) \cap Acks # {} => job[w] = Terminate \/ w \in gone

OneTerminate ==
  \A w \in Workers : /\ AtMostOne(down[w], {Terminate})
                     /\ Terminate \in Range(down[w]) => w \notin untold

(* The workers of the primary share its clock.                             *)
NoSyncWithin ==
  Transport = "mpsc" => /\ pc = "sync" => todo = {}
                        /\ \A w \in Workers : StartupSync \notin Range(down[w])

RoomInv == TwoAnswers /\ OneAck /\ OneTerminate /\ NoSyncWithin

(***************************************************************************)
(* The inductive invariant of the whole system: the protocol invariant; on *)
(* every channel StartupSync first, then work, then Shutdown, then         *)
(* Terminate, each finding the activity in the state it is made for; and   *)
(* never more of them than a channel of mpsc needs room for.               *)
(***************************************************************************)
SystemInv == IInv /\ ClockInv /\ LifeInv /\ RoomInv
=============================================================================
