------------------------------ MODULE SignalPipe ------------------------------
(***************************************************************************)
(* What a signalling layer promises (ConnectScheduler, ConnectWorker): per *)
(* worker, the signals of the scheduler arrive in the order they were sent *)
(* and each at most once; per agent, so do the signals of its workers at   *)
(* the scheduler.  Nothing is lost, duplicated, reordered or delivered to  *)
(* another worker unless the agent is broken.                              *)
(***************************************************************************)
EXTENDS Naturals, Sequences

CONSTANTS Workers, Agents, AgentOf

VARIABLES
  toWorker,      \* worker -> signals sent to it and not received
  toScheduler,   \* agent -> signals of its workers not received
  broken         \* agents the layer promises nothing about any more

pipeVars == <<toWorker, toScheduler, broken>>

Of(g) == {w \in Workers : AgentOf[w] = g}

Grows(new, old) == new # << >> /\ SubSeq(new, 1, Len(new) - 1) = old

Shrinks(new, old) == old # << >> /\ new = Tail(old)

Same(g) ==
  toScheduler'[g] = toScheduler[g] /\ \A w \in Of(g) : toWorker'[w] = toWorker[w]

(* A signal is sent to one worker of the agent, or to all of them.         *)
Post(g) ==
  /\ toScheduler'[g] = toScheduler[g]
  /\ \E ws \in {{w} : w \in Of(g)} \cup {Of(g)} :
       \A w \in Of(g) : IF w \in ws THEN Grows(toWorker'[w], toWorker[w])
                                    ELSE toWorker'[w] = toWorker[w]

(* A worker takes a signal and answers.                                    *)
Handle(g) ==
  /\ Grows(toScheduler'[g], toScheduler[g])
  /\ \E w \in Of(g) : /\ Shrinks(toWorker'[w], toWorker[w])
                      /\ \A v \in Of(g) \ {w} : toWorker'[v] = toWorker[v]

(* The scheduler takes a signal.                                           *)
Deliver(g) ==
  /\ Shrinks(toScheduler'[g], toScheduler[g])
  /\ \A w \in Of(g) : toWorker'[w] = toWorker[w]

PipeInit ==
  /\ toWorker = [w \in Workers |-> << >>]
  /\ toScheduler = [g \in Agents |-> << >>]
  /\ broken = {}

PipeNext ==
  /\ broken \subseteq broken'
  /\ \A g \in Agents \ broken' : Same(g) \/ Post(g) \/ Handle(g) \/ Deliver(g)

PipeSpec == PipeInit /\ [][PipeNext]_pipeVars
=============================================================================
