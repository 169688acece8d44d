------------------------------- MODULE Tracing -------------------------------
(***************************************************************************)
(* Tracing: the Subscriber in each traced process (feo-tracing) and the    *)
(* daemon that collects the packets of all of them (feo-tracer).  The      *)
(* threads of a process push packets into a bounded channel; a thread of   *)
(* its own writes them, through a buffer, to a socket; the daemon has a    *)
(* task per connection and one that builds the trace, joined by a bounded  *)
(* channel.  Processes and the daemon may end at any time.                 *)
(*                                                                         *)
(* Each thread traces one span, by a script of its own: it creates it and  *)
(* may enter it, record values in it, emit events, exit and enter again.   *)
(* The timestamp of a packet is its place in the script.  A packet takes   *)
(* at most 129 of the MAX_PACKET_SIZE = 148 bytes, so serialising it into  *)
(* the buffer of thread_main does not fail.                                *)
(***************************************************************************)
EXTENDS Naturals, Sequences

CONSTANTS
  Processes,
  Threads,
  ProcessOf,            \* thread -> process
  Script,               \* thread -> the types of the packets it sends
  MPSC_CHANNEL_BOUND,   \* of the channel of a process
  BufferBound,          \* BUFWRITER_SIZE, in packets
  SocketBound,          \* capacity of a socket, in packets
  MESSAGE_CHANNEL_SIZE, \* of the daemon's channel
  Mortal,               \* the processes that may end
  DaemonMayEnd          \* whether the daemon may end

(* The variants of TraceData                                               *)
DataTypes == {"NewSpan", "Record", "Event", "Enter", "Exit"}

ASSUME TracingAssumption ==
  /\ ProcessOf \in [Threads -> Processes]
  /\ \A t \in Threads :
       /\ Script[t] \in Seq(DataTypes)
       /\ \A n \in DOMAIN Script[t] : Script[t][n] = "NewSpan" <=> n = 1
  /\ {MPSC_CHANNEL_BOUND, BufferBound, SocketBound, MESSAGE_CHANNEL_SIZE} \subseteq Nat \ {0}
  /\ Mortal \subseteq Processes /\ DaemonMayEnd \in BOOLEAN

VARIABLES
  step,      \* thread -> number of packets of its span it is done with
  sending,   \* thread -> it has found tracing enabled and is in send()
  id,        \* thread -> the id of its span, 0 before
  NEXT_ID,   \* process -> next span id
  enabled,   \* process -> Subscriber::enabled
  channel,   \* process -> packets sent and not received
  writer,    \* process -> thread_main: "connect", "receive", "flush", "ended"
  buffer,    \* process -> the BufWriter
  socket,    \* process -> packets written to the socket
  conn,      \* process -> its connection: "none", "waiting", "open", "closed"
  sink,      \* records on their way to the trace
  spans,     \* Perfetto::spans: key -> what was collected
  file,      \* the traces written
  alive,     \* the processes that run
  daemon     \* the daemon: "listening", "panicked", "ended"

threadVars == <<step, sending, id, NEXT_ID>>
daemonVars == <<conn, sink, spans, file, daemon>>
writerVars == <<writer, buffer, socket>>
vars == <<threadVars, enabled, channel, writerVars, daemonVars, alive>>

NoThread == "none"

(* now_with_data has the thread, now_without_process does not.  The        *)
(* Subscriber does not implement current_span, so that events have no      *)
(* parent span.                                                            *)
Packet(t) ==
  LET type == Script[t][step[t] + 1]
  IN  [type |-> type, span |-> IF type = "Event" THEN 0 ELSE id[t],
       thread |-> IF type \in {"Enter", "Exit"} THEN NoThread ELSE t,
       time |-> step[t] + 1]

Init ==
  /\ step = [t \in Threads |-> 0] /\ sending = [t \in Threads |-> FALSE]
  /\ id = [t \in Threads |-> 0]
  /\ NEXT_ID = [p \in Processes |-> 1]
  /\ enabled = [p \in Processes |-> TRUE]
  /\ channel = [p \in Processes |-> << >>]
  /\ writer = [p \in Processes |-> "connect"]
  /\ buffer = [p \in Processes |-> << >>] /\ socket = [p \in Processes |-> << >>]
  /\ conn = [p \in Processes |-> "none"]
  /\ sink = << >> /\ spans = {} /\ file = << >>
  /\ alive = Processes /\ daemon = "listening"

-----------------------------------------------------------------------------
(***************************************************************************)
(* The threads of a traced process: tracing::Subscriber.                   *)
(***************************************************************************)
Runs(t) == ProcessOf[t] \in alive /\ step[t] < Len(Script[t])
Receiving(p) == writer[p] # "ended"

(* Mutant: every thread counts for itself.                                 *)
NewSpanIdPerThread(t) ==
  /\ Runs(t) /\ step[t] = 0 /\ id[t] = 0
  /\ id' = [id EXCEPT ![t] = 1]
  /\ UNCHANGED <<step, sending, NEXT_ID, enabled, channel, writerVars, daemonVars, alive>>

NewSpanId(t) ==
  /\ Runs(t) /\ step[t] = 0 /\ id[t] = 0
  /\ id' = [id EXCEPT ![t] = NEXT_ID[ProcessOf[t]]]
  /\ NEXT_ID' = [NEXT_ID EXCEPT ![ProcessOf[t]] = @ + 1]
  /\ UNCHANGED <<step, sending, enabled, channel, writerVars, daemonVars, alive>>

(* send looks at the flag first ...                                        *)
CheckEnabled(t) ==
  /\ Runs(t) /\ id[t] # 0 /\ ~sending[t]
  /\ IF enabled[ProcessOf[t]]
     THEN sending' = [sending EXCEPT ![t] = TRUE] /\ UNCHANGED step
     ELSE step' = [step EXCEPT ![t] = @ + 1] /\ UNCHANGED sending
  /\ UNCHANGED <<id, NEXT_ID, enabled, channel, writerVars, daemonVars, alive>>

Sent(t) ==
  /\ step' = [step EXCEPT ![t] = @ + 1] /\ sending' = [sending EXCEPT ![t] = FALSE]
  /\ UNCHANGED <<id, NEXT_ID, writerVars, daemonVars, alive>>

HasRoom(p) == Len(channel[p]) < MPSC_CHANNEL_BOUND

(* ... and then waits for room in the channel ...                          *)
Push(t) ==
  /\ Runs(t) /\ sending[t]
  /\ LET p == ProcessOf[t] IN
       /\ Receiving(p) /\ HasRoom(p)
       /\ channel' = [channel EXCEPT ![p] = Append(@, Packet(t))]
  /\ Sent(t) /\ UNCHANGED enabled

(* ... unless the receiver is gone.                                        *)
PushFails(t) ==
  /\ Runs(t) /\ sending[t] /\ ~Receiving(ProcessOf[t])
  /\ enabled' = [enabled EXCEPT ![ProcessOf[t]] = FALSE]
  /\ Sent(t) /\ UNCHANGED channel

-----------------------------------------------------------------------------
(***************************************************************************)
(* Subscriber::thread_main                                                 *)
(***************************************************************************)
PeerGone(p) == conn[p] = "closed"

(* Mutant: the thread tries again, and keeps the channel.                  *)
WriterWaits(p) ==
  /\ writer' = [writer EXCEPT ![p] = "connect"]
  /\ UNCHANGED channel

(* The thread returns, and the channel goes with it.                       *)
WriterEnds(p) ==
  /\ writer' = [writer EXCEPT ![p] = "ended"]
  /\ channel' = [channel EXCEPT ![p] = << >>]

Disable(p) == enabled' = [enabled EXCEPT ![p] = FALSE]

ConnectToDaemon(p) ==
  /\ p \in alive /\ writer[p] = "connect"
  /\ IF daemon = "listening"
     THEN /\ conn' = [conn EXCEPT ![p] = "waiting"]
          /\ writer' = [writer EXCEPT ![p] = "receive"]
          /\ UNCHANGED <<enabled, channel>>
     ELSE Disable(p) /\ WriterEnds(p) /\ UNCHANGED conn
  /\ UNCHANGED <<threadVars, buffer, socket, sink, spans, file, daemon, alive>>

(* The next packet is serialised into the buffer; what is in it goes out   *)
(* first if it is full, afterwards if FLUSH_INTERVAL has passed.           *)
ReceivePacket(p) ==
  /\ p \in alive /\ writer[p] = "receive" /\ channel[p] # << >>
  /\ Len(buffer[p]) < BufferBound
  /\ channel' = [channel EXCEPT ![p] = Tail(@)]
  /\ buffer' = [buffer EXCEPT ![p] = Append(@, Head(channel[p]))]
  /\ writer' \in {writer, [writer EXCEPT ![p] = "flush"]}
  /\ UNCHANGED <<threadVars, enabled, socket, daemonVars, alive>>

BufferFull(p) ==
  /\ p \in alive /\ writer[p] = "receive" /\ channel[p] # << >>
  /\ Len(buffer[p]) = BufferBound
  /\ writer' = [writer EXCEPT ![p] = "flush"]
  /\ UNCHANGED <<threadVars, enabled, channel, buffer, socket, daemonVars, alive>>

WriteSocket(p) ==
  /\ p \in alive /\ writer[p] = "flush" /\ ~PeerGone(p)
  /\ buffer[p] # << >> /\ Len(socket[p]) < SocketBound
  /\ socket' = [socket EXCEPT ![p] = Append(@, Head(buffer[p]))]
  /\ buffer' = [buffer EXCEPT ![p] = Tail(@)]
  /\ writer' = IF Len(buffer[p]) = 1 THEN [writer EXCEPT ![p] = "receive"] ELSE writer
  /\ UNCHANGED <<threadVars, enabled, channel, daemonVars, alive>>

(* An error of write_all disables tracing; one of flush is a panic, which  *)
(* leaves it enabled.                                                      *)
WriteFails(p) ==
  /\ p \in alive /\ writer[p] = "flush" /\ PeerGone(p)
  /\ WriterEnds(p)
  /\ Disable(p) \/ UNCHANGED enabled
  /\ UNCHANGED <<threadVars, buffer, socket, daemonVars, alive>>

-----------------------------------------------------------------------------
(***************************************************************************)
(* The daemon: a task per connection (io.rs) ...                           *)
(***************************************************************************)
SinkHasRoom == Len(sink) < MESSAGE_CHANNEL_SIZE
Record(p, packet) == [process |-> p, type |-> packet.type, span |-> packet.span,
                      thread |-> packet.thread, time |-> packet.time]
Marker(p, type) == [process |-> p, type |-> type, span |-> 0,
                    thread |-> NoThread, time |-> 0]

AcceptConnection(p) ==
  /\ daemon = "listening" /\ conn[p] = "waiting" /\ SinkHasRoom
  /\ conn' = [conn EXCEPT ![p] = "open"]
  /\ sink' = Append(sink, Marker(p, "Exec"))
  /\ UNCHANGED <<threadVars, enabled, channel, writerVars, spans, file, daemon, alive>>

Forward(p) ==
  /\ daemon = "listening" /\ conn[p] = "open" /\ socket[p] # << >> /\ SinkHasRoom
  /\ sink' = Append(sink, Record(p, Head(socket[p])))
  /\ socket' = [socket EXCEPT ![p] = Tail(@)]
  /\ UNCHANGED <<threadVars, enabled, channel, writer, buffer, conn, spans, file, daemon, alive>>

(* The peer has closed its end, by the end of its thread or its process.   *)
CloseConnection(p) ==
  /\ daemon = "listening" /\ conn[p] = "open" /\ socket[p] = << >> /\ SinkHasRoom
  /\ writer[p] = "ended"
  /\ conn' = [conn EXCEPT ![p] = "closed"]
  /\ sink' = Append(sink, Marker(p, "ExitProcess"))
  /\ UNCHANGED <<threadVars, enabled, channel, writerVars, spans, file, daemon, alive>>

(***************************************************************************)
(* ... and one that builds the trace (Perfetto::on_packet).                *)
(***************************************************************************)
SpanAt(p, i) == {s \in spans : s.process = p /\ s.span = i}
TrackEvent(r) == [type |-> r.type, time |-> r.time]

(* Mutant: spans are looked up by their id alone.                          *)
AddToSpanOfId(r) ==
  LET found == {s \in spans : s.span = r.span}
  IN  {IF s \in found THEN [s EXCEPT !.events = Append(@, TrackEvent(r))] ELSE s : s \in spans}

AddToSpan(r) ==
  LET found == SpanAt(r.process, r.span)
  IN  {IF s \in found THEN [s EXCEPT !.events = Append(@, TrackEvent(r))] ELSE s : s \in spans}

OnPacket ==
  /\ daemon = "listening" /\ sink # << >>
  /\ sink' = Tail(sink)
  /\ LET r == Head(sink)
         found == SpanAt(r.process, r.span)
     IN  \/ r.type = "Exec" /\ UNCHANGED <<spans, file, daemon>>
         \/ /\ r.type = "ExitProcess"
            /\ spans' = {s \in spans : s.process # r.process}
            /\ UNCHANGED <<file, daemon>>
         \/ /\ r.type = "NewSpan" /\ found = {}
            /\ spans' = spans \cup {[process |-> r.process, span |-> r.span,
                                     thread |-> r.thread, events |-> << >>]}
            /\ UNCHANGED <<file, daemon>>
         \/ /\ r.type = "NewSpan" /\ found # {}
            /\ daemon' = "panicked" /\ UNCHANGED <<spans, file>>
         \/ /\ r.type = "Enter"
            /\ spans' = AddToSpan(r) /\ UNCHANGED <<file, daemon>>
         \/ /\ r.type \in {"Record", "Event"}
            /\ spans' = AddToSpan(r) /\ UNCHANGED daemon
            /\ file' = IF found # {} THEN file
                       ELSE Append(file, [process |-> r.process, span |-> 0,
                                          thread |-> r.thread, events |-> <<TrackEvent(r)>>])
         \/ /\ r.type = "Exit"
            /\ spans' = spans \ found /\ UNCHANGED daemon
            /\ file' = IF found = {} THEN file
                       ELSE LET s == CHOOSE s \in found : TRUE
                            IN  Append(file, [s EXCEPT !.events = Append(@, TrackEvent(r))])
  /\ UNCHANGED <<threadVars, enabled, channel, writerVars, conn, alive>>

-----------------------------------------------------------------------------
(* A process ends, with what its threads and its buffer hold.              *)
ProcessEnds(p) ==
  /\ p \in alive \cap Mortal
  /\ alive' = alive \ {p}
  /\ sending' = [t \in Threads |-> sending[t] /\ ProcessOf[t] # p]
  /\ writer' = [writer EXCEPT ![p] = "ended"]
  /\ channel' = [channel EXCEPT ![p] = << >>] /\ buffer' = [buffer EXCEPT ![p] = << >>]
  /\ UNCHANGED <<step, id, NEXT_ID, enabled, socket, daemonVars>>

(* The daemon ends: its time is over, Ctrl-C, or an error.                 *)
DaemonEnds ==
  /\ DaemonMayEnd /\ daemon = "listening"
  /\ daemon' = "ended" /\ sink' = << >> /\ spans' = {}
  /\ socket' = [p \in Processes |-> << >>] /\ conn' = [p \in Processes |-> "closed"]
  /\ UNCHANGED <<threadVars, enabled, channel, writer, buffer, file, alive>>

Thread(t) == NewSpanId(t) \/ CheckEnabled(t) \/ Push(t) \/ PushFails(t)
Writer(p) ==
  \/ ConnectToDaemon(p) \/ ReceivePacket(p)
  \/ BufferFull(p) \/ WriteSocket(p) \/ WriteFails(p)
Connection(p) == AcceptConnection(p) \/ Forward(p) \/ CloseConnection(p)

Next ==
  \/ \E t \in Threads : Thread(t)
  \/ \E p \in Processes : Writer(p) \/ Connection(p) \/ ProcessEnds(p)
  \/ OnPacket \/ DaemonEnds

Spec == Init /\ [][Next]_vars

(* Threads and tasks run as long as they can; nothing has to end.          *)
FairSpec ==
  /\ Spec
  /\ \A t \in Threads : WF_vars(Thread(t))
  /\ \A p \in Processes : WF_vars(Writer(p)) /\ WF_vars(Connection(p))
  /\ WF_vars(OnPacket)

-----------------------------------------------------------------------------
TypeOK ==
  /\ step \in [Threads -> Nat] /\ \A t \in Threads : step[t] <= Len(Script[t])
  /\ sending \in [Threads -> BOOLEAN]
  /\ enabled \in [Processes -> BOOLEAN]
  /\ writer \in [Processes -> {"connect", "receive", "flush", "ended"}]
  /\ \A p \in Processes : /\ Len(channel[p]) <= MPSC_CHANNEL_BOUND
                          /\ Len(buffer[p]) <= BufferBound
                          /\ Len(socket[p]) <= SocketBound
  /\ Len(sink) <= MESSAGE_CHANNEL_SIZE
  /\ conn \in [Processes -> {"none", "waiting", "open", "closed"}]
  /\ alive \subseteq Processes
  /\ daemon \in {"listening", "panicked", "ended"}

(***************************************************************************)
(* The daemon never meets a span it already knows (perfetto.rs asserts     *)
(* it), although all threads of a process take their ids from one counter  *)
(* and all processes count from 1.  No queue exceeds its bound (TypeOK).   *)
(***************************************************************************)
SpanIdsUnique == TypeOK /\ daemon # "panicked"

(***************************************************************************)
(* When a thread does something in its span that the trace has to show:    *)
(* after it has created it, up to the first exit, which is when the daemon *)
(* writes the span and forgets it.                                         *)
(***************************************************************************)
InSpan(t) ==
  {n \in 2..Len(Script[t]) : /\ Script[t][n] # "Event"
                             /\ \A m \in 1..n-1 : Script[t][m] # "Exit"}

(***************************************************************************)
(* Every span in the trace holds all and only what its thread did in it,   *)
(* in order, is on the track of that thread, and is there once, whatever   *)
(* the other threads and processes trace and whoever ends on the way.      *)
(***************************************************************************)
TraceWellFormed ==
  \A i \in DOMAIN file : file[i].span # 0 =>
    LET t  == file[i].thread
        es == file[i].events
    IN  /\ t \in Threads /\ ProcessOf[t] = file[i].process /\ id[t] = file[i].span
        /\ {es[k].time : k \in DOMAIN es} = InSpan(t)
        /\ \A k \in DOMAIN es : es[k].type = Script[t][es[k].time]
        /\ \A k, l \in DOMAIN es : k < l => es[k].time < es[l].time
        /\ \A j \in DOMAIN file :
             file[j].process = file[i].process /\ file[j].span = file[i].span => i = j

(***************************************************************************)
(* Tracing never stops the traced program for ever: a thread that waits    *)
(* for room in the channel goes on, also if the daemon was never there or  *)
(* ends while the channel, the buffer and the socket are full.             *)
(***************************************************************************)
SendReturns ==
  \A t \in Threads : sending[t] ~> ~sending[t] \/ ProcessOf[t] \notin alive
=============================================================================
