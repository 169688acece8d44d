# FEO in TLA+

FEO (fixed execution order) runs *activities* of an application in a fixed
order, cycle after cycle.  A *scheduler* in the *primary agent* tells *worker*
threads, in the same process and in *secondary agents*, which activity to start,
step or shut down; they answer with signals over channels or sockets.
Activities exchange data through topics of a communication backend.

This directory holds TLA+ specifications of the parts of that system that are
hard to test, TLC models of small instances, and proofs that TLAPS checks for
instances of every size.  Paths below are relative to `src/` of the repository
unless they start with `Design/`, which is `src/feo/Design/`.

## Inventory

| part | state | operations | partners | hard about it |
|---|---|---|---|---|
| scheduler (`feo/src/scheduler.rs`) | `ActivityState` flags `triggered`, `ready`, `ever_ready`; pending acknowledgements; shutdown flag | `sync_remotes`, `run`, `step_ready_activities`, `wait_next_ready`, `shutdown_gracefully`, `terminate_all_agents` | connector | answers of several workers in any order, failures and timeouts in every phase, stale answers |
| worker (`feo/src/worker/mod.rs`) | the activities it hosts | `run`, `handle_activity_signal` | connector, activities | runs concurrently with everything else; may fail, panic or be killed |
| agents (`feo/src/agent/`) | threads, Ctrl-C flag | `Primary::run`, `Secondary::run` | scheduler, workers | joining threads that must have been told to end |
| direct signalling (`feo/src/signalling/direct`, `common/mpsc`) | one channel or stream per worker | `send_to_activity`, `broadcast_terminate`, `receive` | both sides | bounded channels, lost peers, a broadcast that fails half-way |
| socket connection (`common/socket/connection.rs`, `client.rs`) | receive buffer, indices, readiness flags | `read`, `receive`, `send` | kernel, `mio` | partial messages, buffer shift, edge-triggered poll |
| socket server (`common/socket/server.rs`) | accepted connections | `receive`, `accept_connections` | connections | fairness between connections, a closed one among them |
| codec (`common/socket/mod.rs`) | none | `encode`, `try_decode` | connection | type-id table, lengths |
| relayed signalling (`feo/src/signalling/relayed`, `agent/relayed`) | four relay threads and their maps | connect, relay | channels and sockets | handshakes with timeouts, one peer lost |
| timestamps (`feo/src/timestamp.rs`) | startup time of a process | `initialize`, `initialize_from` | scheduler, workers | use before initialisation |
| topic initialisation (`agent/com_init.rs`, `feo-com/src/linux_shm/mod.rs`) | topics, expected requests | `init_topic`, `service_main` | processes | ordering between processes |
| access control (`feo-com/src/linux_shm/shared_memory.rs`) | `lock_state` | `get`, `get_mut`, guards, `send` | worker threads of a process | lock-free counter, unlock-then-check |
| feo-com interface, iox2 and mw_com backends | loaned samples, buffers, guards | `read`, `write_uninit`, `write_init`, `init`, `send`, drops | activities | three backends that behave differently behind one interface |
| feo-time (`feo-time/src/lib.rs`) | `START`, `FACTOR` | `speed`, `Instant::now`, `SystemTime::now` | all | a factor set while others read the clock, a system clock set back |
| tracing (`feo-tracing`, `feo-tracer`) | queues of packets, span ids, open spans | `send`, `thread_main`, `connection`, `on_packet` | every traced thread, a daemon | full queues, a daemon that ends, packets of many threads interleaved |
| mw_com signalling, C++ glue, perfetto model | | | | external or generated |

`PROJECT.json` lists the same parts with their status, and under `hazards` the
places where the code can go wrong in ways a test would hardly reach.

## Modules

```
Signalling <--+-- Scheduler --+
              |               +-- Feo -- FeoInvariant --+-- FeoProofs
              +-- Worker -----+    |                    +-- MCFeo
                                TaskChain (abstract)
RelayChannels <--+-- RelayedPrimary ---+           +-- RelayedInvariant -- RelayedProofs
                 +-- RelayedSecondary -+-- Relayed +
                                           |       +-- MCRelayed
                                        SignalPipe (abstract)
SocketServer -- DirectConnect --+-- MCConnect
                                +-- SocketProofs
Connection ---------------------+
TopicService --+-- TopicServiceProofs
               +-- MCTopics
ComTopic --+-- ComTopicProofs
           +-- MCCom
FeoTime --+-- FeoTimeProofs
          +-- MCTime
Tracing --+-- TracingProofs
          +-- MCTracing
AccessControl --+-- AccessControlProofs
                +-- MCAccess
```

### Signalling, Scheduler, Worker and Feo

`Signalling` is the connector.  `down[w]` and `up[w]` are the signals on their
way to and from worker `w`; `gone` are the workers whose end of the channel is
dropped, `hungUp` says so of the primary.  Two transports share it: `"mpsc"`,
where sends block while a channel holds `ChannelBound` signals, and
`"sockets"`, where a send to a lost peer either fails or is swallowed by the
kernel.  The scheduler may receive the workers' signals in any order that keeps
each worker's own order, which covers the shared channel as well as the
iteration over readable connections.

`Scheduler` follows `Scheduler::run` statement by statement; `pc` names the
loop the code is in, `todo` and `untold` what is left of a `for` loop.  The flags
of `ActivityState` are the sets `triggered`, `ready` and `ever_ready`.  Every
send of a loop, every received signal and every timeout is an action.

| code | actions |
|---|---|
| `sync_remotes`, `sync_time` | `SyncTime`, `SyncFails`, `SyncDone` |
| startup loop and wait of `run` | `StartupActivity`, `StartupPanics`, `WaitNextReady`, `StartupTimeout` |
| task chain loop of `run` | `StartCycle`, `StepActivity`, `StepPanics`, `WaitNextReady`, `WaitTimeout`, `WaitError`, `EndCycle` |
| `shutdown_gracefully` | `BeginShutdown`, `ShutdownActivity`, `ShutdownConfirmed`, `ShutdownTimeout` |
| `terminate_all_agents` | `BroadcastTerminate`, `BroadcastFails`, `AwaitAgents`, `AgentAcked`, `AgentAckTimeout` |
| `Primary::run` after the scheduler | `JoinWorkers`, `ProcessEnds` |
| Ctrl-C handler | `CtrlC` |

`Worker` is `Worker::run`: `job[w]` is the signal worker `w` is busy with.
`BeginActivity` and `EndActivity` are the call of an activity's method and its
return, so that the methods of activities on different workers overlap.  An
activity may fail (`"activity"` in `Faults`); a thread may panic (`"crash"`);
a secondary agent may be killed (`"kill"`); a receive may time out while the
answer is still to come (`"timeout"`, which also stands for a receive that
returns early).  `life` and `ran` are history variables: what each activity's
methods have gone through, and which activities have completed their step in the
current cycle.

`Feo` composes them.  `TaskChain` is what FEO promises its user: in each cycle
every activity is stepped once, after everything it depends on, and cycles do
not overlap.  `Feo` implements it with `done <- ran` and `running <- Stepping`.
`FeoInvariant` holds the inductive invariant `SystemInv` (see Proofs), which the
run `feo` checks as well.

### Connection

`SocketClient::receive` over `Connection::read`.  A byte is represented by its
position in the stream, so that the contents of `recv_buf` can be compared with
what was sent.  `Arrive` delivers bytes in pieces of any size and sets the
edge-triggered `event`; `call` and `phase` say where `receive` and `read` are.
One `stream.read` is one step, so bytes may arrive between two of them.  A slice
that does not begin with a message never decodes; the invariant shows that this
case does not arise.  Its specification is `ConnectionFairSpec`, as `SocketProofs`
proves about `Connection` and `DirectConnect` together.

### AccessControl

The counter `lock_state` of a topic and the guards threads hold on it, with one
step per atomic operation.  `state[g]` is the local variable of the
compare-and-exchange loops.  A panic ends the guard's thread; its `pc` says in
which assertion.  Release/acquire ordering is assumed to make the atomics
sequentially consistent for a single location, which it does.

### RelayChannels, RelayedPrimary, RelayedSecondary and Relayed

Relayed signalling.  `RelayChannels` holds the channels within a process
(`inbox` of the scheduler, `workerQ`, `agentQ` of a secondary's send relay), the
two sockets between the primary and each secondary (`sockDown`, `sockUp`), the
handshakes on them (`missing`, `hello`) and what it means for an end to be gone.
`RelayedPrimary` is the main thread of `Primary::run` with the scheduler's
connector, reduced to what it sends and how it ends, and the thread of
`PrimaryReceiveRelay`; `PrimarySendRelay` has no thread.  `RelayedSecondary` is
the main thread of a secondary, which runs `SecondarySendRelay`, the thread of
`SecondaryReceiveRelay`, and the worker threads.  `pc`, `receiveRelay`,
`ipc_to_local`, `local_to_ipc` and `worker` say where each thread is.  Everybody
connects first, in any order and with timeouts.

`SignalPipe` is what a signalling layer promises, per agent: no signal lost,
duplicated, reordered or misrouted, unless the agent is `broken`.  `Relayed`
implements it with `toWorker` and `toScheduler` the concatenation of all queues
on the way.

### SocketServer and DirectConnect

`SocketServer::receive` over several connections.  A call is one step, as the
scheduler is the only one to call it: `Polled` says whether the first pass over
the readable connections finds nothing, so that `Poll` happens.  The poll is
edge-triggered: `events` are the connections with an event that no poll has
returned, and each is returned once, on a new connection not before the poll
after the one that accepts it.  From then on only `readable` (the
`stream_readable` flags) and the buffers keep it in mind, and a flag outlasts an
error but not a read that finds nothing.  The code takes at most 32 events per
poll; there are fewer connections here.  Which of several readable connections
is read is open, as it is in the hash map.  A connection carries whole signals;
`Connection` has shown that this is sound.  `DirectConnect` adds the
`SchedulerConnector`: `connect_remotes` with its map from activities to tokens,
`sync_time`, routing, and the broadcast.  Workers may die and come back, which
leaves an accepted connection closed and hellos unread.

### TopicService and ComTopic

`TopicService` composes `com_init.rs` of all agents with the service thread of
`linux_shm/mod.rs`: `topics[g]` is the registry of a process, `to_serve` the
count, `backlog` the connections not yet accepted.  A process that ends leaves
its connection in the backlog (`life` tells it from its successor).  `wasted`
counts answers to processes that have ended since, which the service does not
ask for again.

`ComTopic` is one topic as activities see it.  The backend is chosen in `Init`.
`memory` and `lock` are the segment and the lock of each process (LinuxShm;
`AccessControl` has its atomic operations), `queue` and `sample` the buffers
and the loan of the other two.  Activities step in the order the scheduler
guarantees (`ExecutionOrder`) and may use the topic in a step or not.

### FeoTime

The statics of `feo-time` and of `timestamp.rs` per process, and threads for
which reading a clock and using the value are two steps.  `early` is a history
variable: the threads whose last reading was taken before `START` was evaluated.  A tick is the
tolerance of `time_info_now`: readings within one tick count as simultaneous.

### Tracing

`channel`, `buffer`, `socket` and `sink` are the queues a packet passes on its
way from a thread to the trace; each is bounded, and each sender blocks when it
is full.  Every thread follows a `Script`: it creates its span and may then enter
it, record values, emit events, exit and enter again.  The timestamp of a packet
is its place in the script.  `spans` and `file` are what `Perfetto` holds and has
written.  `on_packet` writes a span and forgets it at the first exit, so what a
thread does in it after entering it again is lost; `InSpan` says so.

## Runs

| run | question | result |
|---|---|---|
| `feo` | with every fault, over sockets: type, inductive invariant, execution order, quiet between cycles, lifecycle, clock, shutdown before terminate, implementation of `TaskChain`; does the scheduler step all activities over and over or shut down, and does the shutdown return? | holds |
| `shutdown` | does every thread of every agent end after Ctrl-C? | holds |
| `mpsc` | over bounded channels: does a sender ever wait, and does the shutdown complete? | nobody waits with capacity 7, it completes |
| `receive` | does the receive path deliver all messages, in order? | holds |
| `access` | is access to a topic exclusive? | holds |
| `relayed` | with timeouts, panics and kills: is every connected agent a pipe, are clocks set before work, does Terminate end every process, and a secondary end with its primary? | holds, with the exceptions the properties name |
| `connect` | with workers that die and come back: is each activity routed to its worker, does a receive ever return nothing although a connection is closed or a signal unread, is every hello found? | holds |
| `topics` | with secondaries that start early, die and come back: are rights right, does the service last, does everyone who reaches it get running? | holds unless answers were wasted |
| `data` | on each backend: does a reader get what was sent last, is a read empty only if there is nothing new, do guards never collide? | holds |
| `time` | do instants go back, when does `SystemTime::now` panic, do processes agree on the startup time? | as stated in the properties |
| `tracing` | are span ids unique, is every span complete and on its own track, does tracing ever stop a thread for ever? | holds |
| `join` | can the primary always join its workers? | **violated** |

`join` states what a comment says (the finding in `PROJECT.json` quotes it): a
secondary is killed, sending `Terminate` to it fails, the loop in
`broadcast_terminate` is left by `?`, and a local worker is never told.

Each module's `TypeOK` is a conjunct of one of its invariants: `SystemInv`,
`ReceiveInv`, `LockInv`, `ClockBeforeWork`, `RoutedToHost`, `RightsMatch`,
`NoAccessConflict`, `StartupAgreed` and `SpanIdsUnique`.

What the exceptions in the properties stand for:

* `TerminateEndsAll` and `ImplementsPipe` except an incomplete start:
  `connect_senders` returns `Ok` with channels missing when its time is over.
  They also except crashed workers, since a broadcast stops at the first closed
  channel, and `PrimaryReceiveRelay` ends at the first lost client although its
  comment (`relays.rs:89`) says it continues.
* `ServiceOutlastsRequests` excepts answers given to a process that has ended
  since: a secondary restarted after it was served finds the service gone.
* `InstantsNeverGoBack` excepts a reading between the evaluation of `START` and
  the store of a factor that slows down; `SystemTimePanics` allows a panic, while
  the system clock was not set back, only in a thread whose reading is older than
  the evaluation of `START` by another one's `speed()`.

Three departures from the documents are in the models and among the hazards,
without a run of their own: the Ready of an aborted cycle is taken for the
confirmation of a shutdown (`scheduler.rs:282`); an activity whose Ready has
not arrived when another one fails is not shut down (`scheduler.rs:247`); and a
guard that was sent panics in `drop` if another thread locks the topic in
between (`shared_memory.rs:202`).

### Bounds

The instances of `MCFeo` have three activities on two workers, one of them in
a secondary agent (in `mpsc` both local): a worker with two activities, a
dependency across workers and one within a worker, two activities that can step
at the same time (`MCFork`) and a dependency on an id that does not exist
(`MCDepends`).  Nothing counts cycles: a cycle returns to a state seen before,
so the runs cover any number of them.  At most one order per activity is under
way at any time, which is proved.  During a shutdown an activity may have two
answers and each worker an acknowledgement under way, while the scheduler may
already have stopped receiving.  `RoomForAll` proves that room for
2|Activities| + |Workers| signals is enough in every configuration; so the code's
128 is, for 42 activities that each have a worker of their own and for 60 on
eight workers.  In the task chain of `mpsc` only two activities can be in
flight together, so that 7 is enough there, one less than the theorem asks for;
with 6 a worker can block in its last send while the primary waits to join it.

`Connection` runs with a buffer of 6 bytes, messages of 2 and 3 bytes and 4
messages.  Like the code's 128 bytes and messages of up to 26, these satisfy
the assumption that a message fits into half of the buffer, here without slack;
four messages fill the buffer more than once, so that it is shifted with and
without a rest.

`AccessControl` runs with four guards and a counter that overflows at 3: two
readers are the limit, a third is refused, and a writer can meet any of them.

`MCRelayed` has the primary with one worker and a secondary with two, so that
signals for different workers share a socket; two signals to activities, beside
the handshakes, Terminate and the answers, fill every queue.  With only one
secondary, what the loss of one does to another shows as the primary's pipe
being broken, not as a behaviour of the other; `RelayedImplementsPipe` holds for
any number of them.  `MayFail` and `MayTimeOut` require `Intact`: each behaviour
of `Relayed`, in the runs and in the theorems, contains at most one failure, of
any thread or process at any time, with all that follows from it; afterwards
a timeout elapses only where there is nothing to receive.  `MCConnect` has two workers,
one with two activities so that its hellos may be cut by a death, and three
connections.  `MCTopics` has two secondaries which may end twice each, an agent
that reads and writes a topic and one that only reads.  `MCCom` has readers
before and after the writer, in its process and in another, and three cycles:
one to send, one to skip, one to read.  `MCTime` runs five ticks with factors 2
and -2 and a system clock set once, forward or back; the host of the secondary
boots while the primary may have started.  `MCTracing` has queues of one packet
each, so that all are full at some time; one thread traces a whole span, one in
the same process and one in another have an unfinished one with the same id
among them.  The theorems cover all scripts, also those with events and with
spans that are entered again.

### Fairness

Safety needs none.  `FairSpec` of `Feo` assumes that the operating system
schedules the scheduler's thread and each worker thread, and that methods of
activities return; both timeouts and receives are steps of these threads.  No
fault and no Ctrl-C is fair.  `shutdown` leaves out `"crash"` and `"kill"`
because of what `join` shows.  `ConnectionFairSpec` assumes that sent
bytes arrive and that the caller keeps calling `receive`, as the scheduler's and
the workers' loops do.

`FairSpec` of `Relayed` assumes that every thread runs and timeouts elapse,
that of `DirectConnect`, `TopicService` and `Tracing` that the threads of each
process run as long as it lives; nobody has to send, to die, to kill or to come
back.  No order of a hash map and no fairness between connections is assumed.

## Proofs

`tlapm` checks them for every value of the constants that satisfies the
assumptions in the modules.

* `FeoProofs` (assumptions `ConfigAssumption`: each activity has a worker, each
  worker an activity and an agent; `DependsAssumption`).  `ExecutionOrder` is
  not inductive: that a step is due when it runs depends on the queue it came
  from, on no second order or late answer being under way, and on the
  scheduler's flags agreeing with the queues.  `IInv` says this, one named part
  each: signals are addressed to the right worker; at most one order and, until
  shutdown, at most one answer per activity; orders and answers are accounted
  for by the flags; each phase has its own signals; a step in a queue is due.
  Theorems: `TypeCorrect`, `ProtocolInvariant`, `ExecutionOrderHolds`, and
  `RefinesTaskChain`, the refinement step by step.

  Its second half adds three invariants on top of `IInv`; `SystemInv` is all four
  together.  `ClockInv` follows `StartupSync`: it is the first signal on its
  channel, its worker has done nothing before, and a process without a clock
  still has it ahead.  `QuietBetween` needs it too, since a `StartupSync` left in
  a queue would be a signal between cycles.  `LifeInv` ties `life` to the queues
  and the scheduler's flags: an order finds its activity in the state it is made
  for, the `Shutdown` of an activity is the last order it gets and comes once,
  and a `Terminate` has the `Shutdown`s of the worker's activities before it.
  `RoomInv` bounds the answers and acknowledgements of each activity and worker;
  `RoomForAll` then counts: each signal in a channel is given a key, an activity
  with 1 or 2 or a worker with 0, different signals different keys, so there are
  at most 2|Activities| + |Workers|.  Its hypotheses are finitely many
  activities, the mpsc transport, and a channel of that size.  Theorems: `SystemInvariant`,
  `LifecycleRespected`, `ShutDownFirst`, `ClocksAreInitialised`,
  `QuietBetween`, `RoomForAll`.
* `RelayedProofs` (assumption `RelayAssumption`).  `ClockBeforeWork` follows
  from `Addressed` (which signals each of the six kinds of channel may hold, and
  work only where the clock is set) and `ClocksSet`.  The refinement of
  `SignalPipe` needs to know in addition that no signal of the handshakes can be
  taken for a later one and none of work for one of a handshake: `Handshake`
  (the primary goes on only after its receive relay is connected to all),
  `SyncFirst` and `ConnectFirst` (both come first on their channels) and
  `TerminateLast` (nobody leaves before Terminate reached it, except by a fault,
  and no signal follows).  The abstract queues are concatenations of concrete
  ones, reduced by `Only` to the signals the abstract specification knows; under
  this mapping each action appends a signal, removes one, moves one across the
  boundary of two queues, which changes nothing, or breaks the agent.  `Only` is a
  recursive function; its laws (on `Append`, `Tail`, concatenation) are proved by
  looking at a least counterexample, since the induction theorems of the library
  cannot be instantiated.  Theorems: `ClockBeforeWorkForAll`,
  `RelayedInvariantHolds`, `RelayedImplementsPipe`.
* `SocketProofs`, `Connection` (assumption `BufferAssumption`: messages are not
  longer than half of the buffer).  `ReceiveInv` says that the buffer holds exactly
  the bytes between what was returned and what was read, and begins in its
  first half.  Then only the next message can decode (`DecodesNext`), it does
  as soon as it is complete (`CompleteDecodes`), and a buffer without a complete
  message has room (`UnparsableHasRoom`).  Theorems: `ReceiveInvariant`,
  `MessagesInOrder`, `AlwaysRoom`, `WakeupsKept`.
* `SocketProofs`, `DirectConnect` (assumption `ServerAssumption`: there are
  workers, and each activity has one).  A hello is booked on the connection it
  was read from, so `RoutedToHost` needs that a connection carries signals about
  the activities of its worker only, one not yet opened none (`Carried`), that a
  running worker has a connection of its own (`Connected`), and that `buffered`
  never exceeds what was written.  `NoFalseSilence` needs `Remembered`: a closed
  connection, or one with a signal that is not yet in its buffer, has its flag
  set or an event to come; `ReadyReturns` concludes that a pass over what the
  poll returned then finds something.
  Theorems: `ConnectInvariant`, `EverythingIsRouted`, `SilenceIsReal`.
* `AccessControlProofs` (assumption `LockAssumption`: finitely many guards, a
  counter of at least two values).  `LockInv` equates `lock_state` with the
  number of readers, or with one writer.  Theorems: `LockInvariant`,
  `UnlockSafe`, `ReadsAreStable`, `UnsentKeepsLock`.
* `ComTopicProofs` (assumption `ComAssumption`, with finitely many readers).
  `InTurn` says that guards and results exist only in the part of the cycle their
  activity may step in; `LockCounts` derives from it that the lock of each process
  counts the guards in it; `Fresh` says what the segment and the queues hold,
  also for a reader that has skipped cycles.  Theorems: `TopicInvariant`,
  `LatestIsRead`, `EmptyMeansSeen`, `NobodyMeetsALock`.
* `FeoTimeProofs` (assumption `TimeAssumption`).  A thread may hold a reading that
  is older than the factor or the start it is scaled with, so the invariant
  relates each reading in hand to `START`, to the clocks and to the thread's last
  value; the startup time of a process is that of the primary as its own
  monotonic clock sees it, up to the tolerance.  Theorems: `ClockInvariant`,
  `InstantsOrdered`, `OnlyEarlyReadingsPanic`, `AgreedOnStartup`.
* `TopicServiceProofs` (assumption `TopicAssumption`, with finitely many agents).
  `RightsMatch` needs the progress of every agent through its specifications;
  `ServiceOutlastsRequests` that `to_serve` and the number of requests answered
  so far add up to `remote_requests` while no answer was wasted (`Budget`), and
  that an open connection belongs to an agent that waits on it (`Connections`).
  Theorems: `ServiceInvariant`, `AgentsGetTheirRights`, `RequestsLastLongEnough`.
* `TracingProofs` (assumption `TracingAssumption`: a thread's first packet, and
  no other, creates its span; every queue has room for one).  Neither property
  is inductive: that the daemon does not meet a span twice, and that a written
  span is complete, depend on where each packet is.  `TracingInv` says it by the
  times of a span's packets.  As long as a span is not written (`InOrder`), the
  times that have been collected, those in the daemon's channel, the socket, the
  buffer and the process's channel are disjoint, increase within each queue, and
  up to each queue are without a gap an initial part of the thread's own
  (`Chain`); all are there as long as the thread that writes has not ended.  So
  the head of the sink is always the next of its span, and the creation comes to
  an unknown span.  Once it is written, its creation is in no queue (`NotAgain`).
  Besides, each packet was made by a thread whose span it names (`Owned`), ids
  are of one thread (`Ids`), and nothing is left of a process whose connection is
  closed (`Ends`), so that the daemon forgets no span of which packets are to
  come.  `Next1` is the step that all moves between queues share: the least of
  what is behind a gapless part extends it.  Theorems: `TracingInvariant`,
  `SpanIdsAreUnique`, `TraceIsWellFormed`.

Only model-checked: everything about liveness (`EveryActivitySteps`,
`SchedulerReturns`, `ShutdownCompletes`, `Delivered`, `TerminateEndsAll`,
`OrphansEnd`, `ConnectCompletes`, `ConnectedGetRunning`, `SendReturns`,
`JoinCompletes`), which needs fairness and `ENABLED`, out of reach of the
provers.  Every safety property that a passing run checks is also a theorem.

## Not modelled

Durations; the contents of messages and topics beyond which cycle they stem
from; logging; the construction of agents from a configuration; workers without
an activity (they would never be told to terminate, since `broadcast_terminate`
goes by activities).  Errors of the operating system on creating threads,
sockets and shared memory end the program and are left out.

* mw_com signalling and the C++ interoperability wrap a middleware and code that
  are not in the repository; the perfetto model is generated.
* The field layout of the signal codec, the standard library's arithmetic that
  `feo-time` wraps, and names and annotations of traces: sequential code that
  unit tests reach, and no property here depends on it.
* The examples are configurations and activities of applications; the task
  chains of `MCFeo` stand for them.
* The scaling of `timestamp()` (timestamp.rs:127, the reverse of the direction in
  which `feo-time`'s clocks scale): a factor on durations, which no model keeps.
* The order in which `JoinWorkers` of `RelayedPrimary` and the end of a relayed
  secondary join threads: the code panics at the first failed one it comes to,
  the models as soon as one has failed.  No property depends on it.
* `expect`s that end the service thread of linux_shm when a client dies while it
  is served (linux_shm/mod.rs:150, 170).
* `InitializeFrom` panics when the time since startup exceeds the monotonic
  clock (timestamp.rs:77), as `checked_sub` may; Linux yields a value there.
* `speed()` called by two threads at once, and shared topics with several
  writers, which the configuration does not allow.

## Plan

In this order; the first items are done and described above.

1. Done: scheduler, workers and direct signalling with all faults; execution
   order, refinement, shutdown; proofs of the first two.
2. Done: the receive path of a socket, with proof.
3. Done: access control of linux_shm, with proof.
4. Done: `SocketServer` and `DirectConnect`, the server with several
   connections and the handshake over sockets.
5. Done: `Relayed`, relayed signalling with the handshake over channels, and
   its refinement of `SignalPipe`.
6. Done: `TopicService` and `ComTopic`, topics from their creation to their use.
7. Done: `FeoTime` and `Tracing`.
8. Done: proofs of every safety property of the passing runs and of both
   refinements.
9. To do, models: two secondaries in `Relayed`, within the time of a run.
