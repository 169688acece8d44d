---------------------------- MODULE TracingProofs ----------------------------
(***************************************************************************)
(* Tracing for any number of processes and threads, all scripts and queues *)
(* of any size: the daemon never meets a span twice, and the spans in the  *)
(* trace hold what their threads did in them.                              *)
(*                                                                         *)
(* The argument follows the packets of one thread through the queues, by   *)
(* the times at which they were made.                                      *)
(***************************************************************************)
EXTENDS Tracing, SequenceTheorems, TLAPS

-----------------------------------------------------------------------------
(* The inductive invariant.                                                *)

PacketType == [type : DataTypes, span : Nat, thread : Threads \cup {NoThread}, time : Nat]
RecordType == [process : Processes, type : DataTypes \cup {"Exec", "ExitProcess"}, span : Nat,
               thread : Threads \cup {NoThread}, time : Nat]
EventType  == [type : DataTypes, time : Nat]
SpanType   == [process : Processes, span : Nat, thread : Threads \cup {NoThread},
               events : Seq(EventType)]

Types ==
  /\ TypeOK
  /\ id \in [Threads -> Nat] /\ NEXT_ID \in [Processes -> Nat \ {0}]
  /\ channel \in [Processes -> Seq(PacketType)]
  /\ buffer \in [Processes -> Seq(PacketType)]
  /\ socket \in [Processes -> Seq(PacketType)]
  /\ sink \in Seq(RecordType)
  /\ spans \in SUBSET SpanType
  /\ file \in Seq(SpanType)

(* A span of a process is that of one thread.                              *)
Ids ==
  /\ \A t \in Threads : id[t] < NEXT_ID[ProcessOf[t]]
  /\ \A t, u \in Threads :
       id[t] # 0 /\ id[t] = id[u] /\ ProcessOf[t] = ProcessOf[u] => t = u
  /\ \A t \in Threads : id[t] = 0 => step[t] = 0 /\ ~sending[t]

(* The packet that a thread made when it was at n.                         *)
MadeBy(t, r) ==
  /\ id[t] # 0 /\ r.span = id[t]
  /\ r.time \in 1..step[t] /\ r.type = Script[t][r.time] /\ r.type # "Event"
  /\ r.type \notin {"Enter", "Exit"} => r.thread = t

Owned(p, r) ==
  \/ r.span = 0 /\ r.type = "Event"
  \/ \E t \in Threads : ProcessOf[t] = p /\ MadeBy(t, r)

IsMarker(r) == r.span = 0 /\ r.type \in {"Exec", "ExitProcess"}

AllOwned(p, q) == \A k \in DOMAIN q : Owned(p, q[k])
SinkOwned(q)   == \A k \in DOMAIN q : IsMarker(q[k]) \/ Owned(q[k].process, q[k])

Packets ==
  /\ \A p \in Processes : /\ AllOwned(p, channel[p]) /\ AllOwned(p, buffer[p])
                          /\ AllOwned(p, socket[p])
  /\ SinkOwned(sink)

(* Who has ended has nothing left in its queues.                           *)
Ends ==
  /\ \A p \in Processes :
       /\ ~enabled[p] => writer[p] = "ended"
       /\ writer[p] = "ended" => channel[p] = << >> /\ buffer[p] = << >>
       /\ conn[p] = "closed" => writer[p] = "ended" /\ socket[p] = << >>
  /\ \A k \in DOMAIN sink : sink[k].type = "ExitProcess" =>
       /\ conn[sink[k].process] = "closed"
       /\ \A l \in DOMAIN sink : sink[l].process = sink[k].process => l <= k

-----------------------------------------------------------------------------
(* The times of the packets of a span, in a queue of its process ...       *)
At(q, i)    == {k \in DOMAIN q : q[k].span = i}
Times(q, i) == {q[k].time : k \in At(q, i)}

Increasing(q, i) == \A k, l \in At(q, i) : k < l => q[k].time < q[l].time

(* ... in the daemon's channel ...                                         *)
SinkAt(q, p, i)    == {k \in DOMAIN q : q[k].process = p /\ q[k].span = i}
SinkTimes(q, p, i) == {q[k].time : k \in SinkAt(q, p, i)}

SinkIncreasing(q, p, i) == \A k, l \in SinkAt(q, p, i) : k < l => q[k].time < q[l].time

(* ... and in the span as far as it has been collected.                    *)
EventTimes(es)      == {es[k].time : k \in DOMAIN es}
Collected(ss, p, i) == UNION {{1} \cup EventTimes(s.events) :
                                s \in {s \in ss : s.process = p /\ s.span = i}}

(* When a thread makes packets of its span, up to n.                       *)
Traced(t, n) == {m \in 1..n : m <= Len(Script[t]) /\ Script[t][m] # "Event"}

(* A set of such times without a gap                                       *)
Initial(t, X) ==
  /\ X \subseteq Traced(t, Len(Script[t]))
  /\ \A n \in X, m \in Traced(t, Len(Script[t])) : m < n => m \in X

(* What has gone how far: collected, sink, socket, buffer, channel.        *)
Chain(t, G, S, K, B, C) ==
  /\ Initial(t, G) /\ Initial(t, G \cup S) /\ Initial(t, G \cup S \cup K)
  /\ Initial(t, G \cup S \cup K \cup B) /\ Initial(t, G \cup S \cup K \cup B \cup C)
  /\ G \cap S = {} /\ (G \cup S) \cap K = {}
  /\ (G \cup S \cup K) \cap B = {} /\ (G \cup S \cup K \cup B) \cap C = {}

InFile(f, p, i) == \E k \in DOMAIN f : f[k].process = p /\ f[k].span = i
Written(t) == InFile(file, ProcessOf[t], id[t])

(* Before its first exit has arrived, a span is in the queues in order and *)
(* without a gap ...                                                       *)
InOrder(t) ==
  LET p == ProcessOf[t]
      i == id[t]
      G == Collected(spans, p, i)
      S == SinkTimes(sink, p, i)
      K == Times(socket[p], i)
      B == Times(buffer[p], i)
      C == Times(channel[p], i)
  IN  /\ Chain(t, G, S, K, B, C)
      /\ SinkIncreasing(sink, p, i) /\ Increasing(socket[p], i)
      /\ Increasing(buffer[p], i) /\ Increasing(channel[p], i)
      /\ writer[p] # "ended" => G \cup S \cup K \cup B \cup C = Traced(t, step[t])

(* ... and afterwards it is not created again.                             *)
NotAgain(t) ==
  LET p == ProcessOf[t]
      i == id[t]
  IN  1 \notin SinkTimes(sink, p, i) \cup Times(socket[p], i)
                 \cup Times(buffer[p], i) \cup Times(channel[p], i)

Path(t) == IF Written(t) THEN NotAgain(t) ELSE InOrder(t)
Paths   == \A t \in Threads : id[t] # 0 => Path(t)

-----------------------------------------------------------------------------
(* Events of a span, in the order of their time                            *)
EventsOf(t, es) ==
  /\ \A k \in DOMAIN es : /\ es[k].time \in 2..Len(Script[t])
                          /\ es[k].type = Script[t][es[k].time]
  /\ \A k, l \in DOMAIN es : k < l => es[k].time < es[l].time

Belongs(s, t) == ProcessOf[t] = s.process /\ id[t] = s.span /\ id[t] # 0

Spans ==
  /\ \A s \in spans :
       /\ s.thread \in Threads /\ Belongs(s, s.thread) /\ ~Written(s.thread)
       /\ EventsOf(s.thread, s.events)
       /\ \A k \in DOMAIN s.events : s.events[k].type # "Exit"
  /\ \A r, s \in spans : r.process = s.process /\ r.span = s.span => r = s

File ==
  \A i \in DOMAIN file : file[i].span # 0 =>
    LET t == file[i].thread
    IN  /\ t \in Threads /\ Belongs(file[i], t)
        /\ EventsOf(t, file[i].events)
        /\ EventTimes(file[i].events) = InSpan(t) /\ step[t] # 0
        /\ \A j \in DOMAIN file :
             file[j].process = file[i].process /\ file[j].span = file[i].span => i = j

Collecting == Packets /\ Ends /\ Spans /\ Paths

TracingInv ==
  /\ Types /\ Ids /\ File /\ daemon # "panicked"
  /\ daemon = "listening" => Collecting

-----------------------------------------------------------------------------
(* Facts about the constants.                                              *)
LEMMA Scripts ==
  ASSUME NEW t \in Threads
  PROVE  /\ ProcessOf[t] \in Processes
         /\ Script[t] \in Seq(DataTypes) /\ Len(Script[t]) \in Nat
         /\ DOMAIN Script[t] = 1..Len(Script[t])
         /\ \A n \in 1..Len(Script[t]) : /\ Script[t][n] \in DataTypes
                                         /\ Script[t][n] = "NewSpan" <=> n = 1
  BY TracingAssumption, LenProperties, ElementOfSeq

LEMMA Bounds ==
  /\ MPSC_CHANNEL_BOUND \in Nat \ {0} /\ BufferBound \in Nat \ {0}
  /\ SocketBound \in Nat \ {0} /\ MESSAGE_CHANNEL_SIZE \in Nat \ {0}
  /\ 0 <= MPSC_CHANNEL_BOUND /\ 0 <= BufferBound /\ 0 <= SocketBound
  BY TracingAssumption

-----------------------------------------------------------------------------
(* Queues: what is taken off at the head and put on at the end.            *)

LEMMA TailSeq ==
  ASSUME NEW R, NEW q \in Seq(R), q # << >>
  PROVE  /\ Tail(q) \in Seq(R) /\ Head(q) \in R /\ Head(q) = q[1]
         /\ Len(q) \in Nat \ {0} /\ Len(Tail(q)) = Len(q) - 1
         /\ DOMAIN q = 1..Len(q) /\ DOMAIN Tail(q) = 1..(Len(q) - 1)
         /\ \A k \in DOMAIN Tail(q) : k + 1 \in DOMAIN q /\ Tail(q)[k] = q[k + 1]
         /\ \A k \in DOMAIN q : k = 1 \/ k - 1 \in DOMAIN Tail(q)
  BY HeadTailProperties, LenProperties, EmptySeq

LEMMA AppendSeq ==
  ASSUME NEW R, NEW q \in Seq(R), NEW r \in R
  PROVE  /\ Append(q, r) \in Seq(R) /\ Len(Append(q, r)) = Len(q) + 1
         /\ Len(q) \in Nat /\ DOMAIN q = 1..Len(q)
         /\ DOMAIN Append(q, r) = 1..(Len(q) + 1)
         /\ \A k \in DOMAIN q : Append(q, r)[k] = q[k]
         /\ Append(q, r)[Len(q) + 1] = r
  BY AppendProperties, LenProperties

LEMMA EmptyQueue ==
  ASSUME NEW q, q = << >>
  PROVE  Len(q) = 0 /\ DOMAIN q = {} /\ \A i : Times(q, i) = {} /\ Increasing(q, i)
  <1>1. Len(<< >>) = 0 /\ DOMAIN << >> = {}
    OBVIOUS
  <1>2. Len(q) = 0
    BY Zenon, <1>1
  <1>3. DOMAIN q = {}
    BY Zenon, <1>1
  <1>. QED  BY <1>2, <1>3 DEF Times, At, Increasing

LEMMA TailTimes ==
  ASSUME NEW q \in Seq(PacketType), q # << >>, NEW i, Increasing(q, i)
  PROVE  /\ Times(Tail(q), i) = IF Head(q).span = i THEN Times(q, i) \ {Head(q).time}
                                                    ELSE Times(q, i)
         /\ Increasing(Tail(q), i)
         /\ Head(q).span = i => /\ Head(q).time \in Times(q, i)
                                /\ \A x \in Times(q, i) : Head(q).time <= x
  <1>1. /\ Head(q) = q[1] /\ Len(q) \in Nat \ {0}
        /\ DOMAIN q = 1..Len(q) /\ DOMAIN Tail(q) = 1..(Len(q) - 1)
        /\ \A k \in DOMAIN Tail(q) : k + 1 \in DOMAIN q /\ Tail(q)[k] = q[k + 1]
        /\ \A k \in DOMAIN q : k = 1 \/ k - 1 \in DOMAIN Tail(q)
    BY TailSeq
  <1>2. \A k \in DOMAIN q : q[k].time \in Nat
    <2>1. \A k \in DOMAIN q : q[k] \in PacketType
      BY <1>1, ElementOfSeq
    <2>. QED  BY <2>1 DEF PacketType
  <1>3. At(Tail(q), i) = {k \in 1..(Len(q) - 1) : q[k + 1].span = i}
    BY <1>1 DEF At
  <1>4. Increasing(Tail(q), i)
    BY <1>1, <1>3 DEF Increasing, At
  <1>5. \A x : x \in Times(Tail(q), i) <=> \E k \in At(q, i) : k # 1 /\ x = q[k].time
    <2>1. ASSUME NEW k \in At(Tail(q), i)
          PROVE  k + 1 \in At(q, i) /\ k + 1 # 1 /\ Tail(q)[k].time = q[k + 1].time
      BY <1>1, <2>1 DEF At
    <2>2. ASSUME NEW k \in At(q, i), k # 1
          PROVE  k - 1 \in At(Tail(q), i) /\ Tail(q)[k - 1].time = q[k].time
      BY <1>1, <2>2 DEF At
    <2>3. \A k \in At(Tail(q), i) : Tail(q)[k].time \in Times(Tail(q), i)
      BY DEF Times
    <2>4. ASSUME NEW x, x \in Times(Tail(q), i)
          PROVE  \E k \in At(q, i) : k # 1 /\ x = q[k].time
      <3>1. PICK k \in At(Tail(q), i) : x = Tail(q)[k].time
        BY <2>4 DEF Times
      <3>. QED  BY <2>1, <3>1
    <2>5. ASSUME NEW x, NEW k \in At(q, i), k # 1, x = q[k].time
          PROVE  x \in Times(Tail(q), i)
      BY <2>2, <2>3, <2>5
    <2>. QED  BY <2>4, <2>5
  <1>6. ASSUME Head(q).span = i
        PROVE  1 \in At(q, i) /\ \A k \in At(q, i) : k # 1 => q[1].time < q[k].time
    BY <1>1, <1>6 DEF At, Increasing
  <1>7. Head(q).span # i => 1 \notin At(q, i)
    BY <1>1 DEF At
  <1>8. At(q, i) \subseteq DOMAIN q
    BY DEF At
  <1>9. Head(q).span = i => /\ Head(q).time \in Times(q, i)
                            /\ \A x \in Times(q, i) : Head(q).time <= x
    BY <1>1, <1>2, <1>6, <1>8 DEF Times
  <1>10. \A x : x \in Times(q, i) <=> \E k \in At(q, i) : x = q[k].time
    BY DEF Times
  <1>11. ASSUME Head(q).span = i
         PROVE  Times(Tail(q), i) = Times(q, i) \ {Head(q).time}
    <2>1. \A k \in At(q, i) : k # 1 <=> q[k].time # Head(q).time
      BY <1>1, <1>2, <1>6, <1>8, <1>11
    <2>2. \A x : x \in Times(Tail(q), i) <=> x \in Times(q, i) /\ x # Head(q).time
      BY <1>5, <1>10, <2>1
    <2>. QED  BY <2>2
  <1>12. ASSUME Head(q).span # i
         PROVE  Times(Tail(q), i) = Times(q, i)
    <2>1. \A x : x \in Times(Tail(q), i) <=> x \in Times(q, i)
      BY <1>5, <1>7, <1>10, <1>12
    <2>. QED  BY <2>1
  <1>. QED  BY <1>4, <1>9, <1>11, <1>12

LEMMA TailSubset ==
  ASSUME NEW q \in Seq(PacketType), q # << >>, NEW i
  PROVE  /\ Times(Tail(q), i) \subseteq Times(q, i)
         /\ Head(q).span = i => Head(q).time \in Times(q, i)
  <1>1. /\ Head(q) = q[1] /\ 1 \in DOMAIN q
        /\ \A k \in DOMAIN Tail(q) : k + 1 \in DOMAIN q /\ Tail(q)[k] = q[k + 1]
    BY TailSeq
  <1>. QED  BY <1>1 DEF Times, At

LEMMA AppendTimes ==
  ASSUME NEW q \in Seq(PacketType), NEW r \in PacketType, NEW i
  PROVE  /\ Times(Append(q, r), i) = IF r.span = i THEN Times(q, i) \cup {r.time}
                                                   ELSE Times(q, i)
         /\ Increasing(q, i) /\ (r.span = i => \A x \in Times(q, i) : x < r.time)
              => Increasing(Append(q, r), i)
  <1>1. /\ Len(q) \in Nat /\ DOMAIN q = 1..Len(q)
        /\ DOMAIN Append(q, r) = 1..(Len(q) + 1)
        /\ \A k \in DOMAIN q : Append(q, r)[k] = q[k]
        /\ Append(q, r)[Len(q) + 1] = r
    BY AppendSeq
  <1>2. At(Append(q, r), i) = IF r.span = i THEN At(q, i) \cup {Len(q) + 1} ELSE At(q, i)
    BY <1>1 DEF At
  <1>3. At(q, i) \subseteq 1..Len(q) /\ \A k \in At(q, i) : Append(q, r)[k] = q[k]
    BY <1>1 DEF At
  <1>4. \A k \in At(q, i) : q[k].time \in Times(q, i)
    BY DEF Times
  <1>5. Times(Append(q, r), i) = IF r.span = i THEN Times(q, i) \cup {r.time} ELSE Times(q, i)
    BY <1>1, <1>2, <1>3 DEF Times
  <1>6. ASSUME Increasing(q, i), r.span = i => \A x \in Times(q, i) : x < r.time
        PROVE  Increasing(Append(q, r), i)
    BY <1>1, <1>2, <1>3, <1>4, <1>6 DEF Increasing
  <1>. QED  BY <1>5, <1>6

(* The same for the daemon's channel, which carries records of all processes. *)

LEMMA TailSinkTimes ==
  ASSUME NEW q \in Seq(RecordType), q # << >>, NEW p, NEW i, SinkIncreasing(q, p, i)
  PROVE  /\ SinkTimes(Tail(q), p, i) = IF (Head(q).process = p /\ Head(q).span = i)
                                        THEN SinkTimes(q, p, i) \ {Head(q).time}
                                        ELSE SinkTimes(q, p, i)
         /\ SinkIncreasing(Tail(q), p, i)
         /\ (Head(q).process = p /\ Head(q).span = i) => /\ Head(q).time \in SinkTimes(q, p, i)
                                /\ \A x \in SinkTimes(q, p, i) : Head(q).time <= x
  <1>1. /\ Head(q) = q[1] /\ Len(q) \in Nat \ {0}
        /\ DOMAIN q = 1..Len(q) /\ DOMAIN Tail(q) = 1..(Len(q) - 1)
        /\ \A k \in DOMAIN Tail(q) : k + 1 \in DOMAIN q /\ Tail(q)[k] = q[k + 1]
        /\ \A k \in DOMAIN q : k = 1 \/ k - 1 \in DOMAIN Tail(q)
    BY TailSeq
  <1>2. \A k \in DOMAIN q : q[k].time \in Nat
    <2>1. \A k \in DOMAIN q : q[k] \in RecordType
      BY <1>1, ElementOfSeq
    <2>. QED  BY <2>1 DEF RecordType
  <1>3. SinkAt(Tail(q), p, i) = {k \in 1..(Len(q) - 1) : q[k + 1].process = p /\ q[k + 1].span = i}
    BY <1>1 DEF SinkAt
  <1>4. SinkIncreasing(Tail(q), p, i)
    BY <1>1, <1>3 DEF SinkIncreasing, SinkAt
  <1>5. \A x : x \in SinkTimes(Tail(q), p, i) <=> \E k \in SinkAt(q, p, i) : k # 1 /\ x = q[k].time
    <2>1. ASSUME NEW k \in SinkAt(Tail(q), p, i)
          PROVE  k + 1 \in SinkAt(q, p, i) /\ k + 1 # 1 /\ Tail(q)[k].time = q[k + 1].time
      BY <1>1, <2>1 DEF SinkAt
    <2>2. ASSUME NEW k \in SinkAt(q, p, i), k # 1
          PROVE  k - 1 \in SinkAt(Tail(q), p, i) /\ Tail(q)[k - 1].time = q[k].time
      BY <1>1, <2>2 DEF SinkAt
    <2>3. \A k \in SinkAt(Tail(q), p, i) : Tail(q)[k].time \in SinkTimes(Tail(q), p, i)
      BY DEF SinkTimes
    <2>4. ASSUME NEW x, x \in SinkTimes(Tail(q), p, i)
          PROVE  \E k \in SinkAt(q, p, i) : k # 1 /\ x = q[k].time
      <3>1. PICK k \in SinkAt(Tail(q), p, i) : x = Tail(q)[k].time
        BY <2>4 DEF SinkTimes
      <3>. QED  BY <2>1, <3>1
    <2>5. ASSUME NEW x, NEW k \in SinkAt(q, p, i), k # 1, x = q[k].time
          PROVE  x \in SinkTimes(Tail(q), p, i)
      BY <2>2, <2>3, <2>5
    <2>. QED  BY <2>4, <2>5
  <1>6. ASSUME (Head(q).process = p /\ Head(q).span = i)
        PROVE  1 \in SinkAt(q, p, i) /\ \A k \in SinkAt(q, p, i) : k # 1 => q[1].time < q[k].time
    BY <1>1, <1>6 DEF SinkAt, SinkIncreasing
  <1>7. ~(Head(q).process = p /\ Head(q).span = i) => 1 \notin SinkAt(q, p, i)
    BY <1>1 DEF SinkAt
  <1>8. SinkAt(q, p, i) \subseteq DOMAIN q
    BY DEF SinkAt
  <1>9. ASSUME Head(q).process = p /\ Head(q).span = i
        PROVE  /\ Head(q).time \in SinkTimes(q, p, i)
               /\ \A x \in SinkTimes(q, p, i) : Head(q).time <= x
    <2>1. \A k \in SinkAt(q, p, i) : q[1].time <= q[k].time
      BY <1>1, <1>2, <1>6, <1>8, <1>9
    <2>. QED  BY <1>1, <1>6, <1>9, <2>1 DEF SinkTimes
  <1>10. \A x : x \in SinkTimes(q, p, i) <=> \E k \in SinkAt(q, p, i) : x = q[k].time
    BY DEF SinkTimes
  <1>11. ASSUME (Head(q).process = p /\ Head(q).span = i)
         PROVE  SinkTimes(Tail(q), p, i) = SinkTimes(q, p, i) \ {Head(q).time}
    <2>1. \A k \in SinkAt(q, p, i) : k # 1 <=> q[k].time # Head(q).time
      BY <1>1, <1>2, <1>6, <1>8, <1>11
    <2>2. \A x : x \in SinkTimes(Tail(q), p, i) <=> x \in SinkTimes(q, p, i) /\ x # Head(q).time
      BY <1>5, <1>10, <2>1
    <2>. QED  BY <2>2
  <1>12. ASSUME ~(Head(q).process = p /\ Head(q).span = i)
         PROVE  SinkTimes(Tail(q), p, i) = SinkTimes(q, p, i)
    <2>1. \A x : x \in SinkTimes(Tail(q), p, i) <=> x \in SinkTimes(q, p, i)
      BY <1>5, <1>7, <1>10, <1>12
    <2>. QED  BY <2>1
  <1>. QED  BY <1>4, <1>9, <1>11, <1>12

LEMMA TailSinkSubset ==
  ASSUME NEW q \in Seq(RecordType), q # << >>, NEW p, NEW i
  PROVE  /\ SinkTimes(Tail(q), p, i) \subseteq SinkTimes(q, p, i)
         /\ (Head(q).process = p /\ Head(q).span = i) => Head(q).time \in SinkTimes(q, p, i)
  <1>1. /\ Head(q) = q[1] /\ 1 \in DOMAIN q
        /\ \A k \in DOMAIN Tail(q) : k + 1 \in DOMAIN q /\ Tail(q)[k] = q[k + 1]
    BY TailSeq
  <1>. QED  BY <1>1 DEF SinkTimes, SinkAt

LEMMA AppendSinkTimes ==
  ASSUME NEW q \in Seq(RecordType), NEW r \in RecordType, NEW p, NEW i
  PROVE  /\ SinkTimes(Append(q, r), p, i) = IF (r.process = p /\ r.span = i)
                                             THEN SinkTimes(q, p, i) \cup {r.time}
                                             ELSE SinkTimes(q, p, i)
         /\ SinkIncreasing(q, p, i)
              /\ ((r.process = p /\ r.span = i) => \A x \in SinkTimes(q, p, i) : x < r.time)
              => SinkIncreasing(Append(q, r), p, i)
  <1>1. /\ Len(q) \in Nat /\ DOMAIN q = 1..Len(q)
        /\ DOMAIN Append(q, r) = 1..(Len(q) + 1)
        /\ \A k \in DOMAIN q : Append(q, r)[k] = q[k]
        /\ Append(q, r)[Len(q) + 1] = r
    BY AppendSeq
  <1>2. SinkAt(Append(q, r), p, i) = IF (r.process = p /\ r.span = i)
                                      THEN SinkAt(q, p, i) \cup {Len(q) + 1}
                                      ELSE SinkAt(q, p, i)
    BY <1>1 DEF SinkAt
  <1>3. SinkAt(q, p, i) \subseteq 1..Len(q) /\ \A k \in SinkAt(q, p, i) : Append(q, r)[k] = q[k]
    BY <1>1 DEF SinkAt
  <1>4. \A k \in SinkAt(q, p, i) : q[k].time \in SinkTimes(q, p, i)
    BY DEF SinkTimes
  <1>5. SinkTimes(Append(q, r), p, i) = IF (r.process = p /\ r.span = i)
                                         THEN SinkTimes(q, p, i) \cup {r.time}
                                         ELSE SinkTimes(q, p, i)
    BY <1>1, <1>2, <1>3 DEF SinkTimes
  <1>6. ASSUME SinkIncreasing(q, p, i),
               (r.process = p /\ r.span = i) => \A x \in SinkTimes(q, p, i) : x < r.time
        PROVE  SinkIncreasing(Append(q, r), p, i)
    BY <1>1, <1>2, <1>3, <1>4, <1>6 DEF SinkIncreasing
  <1>. QED  BY <1>5, <1>6

-----------------------------------------------------------------------------
(* The times of a span's packets: without a gap up to each queue.          *)

LEMMA TracedNat ==
  ASSUME NEW t \in Threads, NEW n \in Nat
  PROVE  Traced(t, n) \subseteq Nat /\ Traced(t, n) \subseteq Traced(t, Len(Script[t]))
  BY Scripts DEF Traced

(* The least of those behind X is the next for X.                          *)
LEMMA Next1 ==
  ASSUME NEW t \in Threads, NEW X, NEW Y, NEW h \in Y,
         Initial(t, X), Initial(t, X \cup Y), X \cap Y = {}, \A y \in Y : h <= y
  PROVE  Initial(t, X \cup {h}) /\ \A x \in X : x < h
  <1>. DEFINE T == Traced(t, Len(Script[t]))
  <1>1. T \subseteq Nat
    BY TracedNat, Scripts
  <1>. HIDE DEF T
  <1>2. /\ X \subseteq T /\ \A n \in X, m \in T : m < n => m \in X
        /\ X \cup Y \subseteq T /\ \A n \in X \cup Y, m \in T : m < n => m \in X \cup Y
    BY DEF Initial, T
  <1>3. h \in T /\ h \in Nat /\ h \notin X
    BY <1>1, <1>2
  <1>4. \A x \in X : x < h
    BY <1>1, <1>2, <1>3
  <1>5. \A m \in T : m < h => m \in X
    BY <1>1, <1>2, <1>3
  <1>. QED  BY <1>2, <1>3, <1>4, <1>5 DEF Initial, T

LEMMA ToBuffer ==
  ASSUME NEW t \in Threads, NEW G, NEW S, NEW K, NEW B, NEW C, Chain(t, G, S, K, B, C),
         NEW h \in C, \A x \in C : h <= x
  PROVE  Chain(t, G, S, K, B \cup {h}, C \ {h}) /\ \A x \in B : x < h
  <1>1. Initial(t, G \cup S \cup K \cup B \cup {h}) /\ \A x \in G \cup S \cup K \cup B : x < h
    BY Next1 DEF Chain
  <1>2. /\ G \cup S \cup K \cup (B \cup {h}) = G \cup S \cup K \cup B \cup {h}
        /\ G \cup S \cup K \cup (B \cup {h}) \cup (C \ {h}) = G \cup S \cup K \cup B \cup C
    OBVIOUS
  <1>. QED  BY <1>1, <1>2 DEF Chain

LEMMA ToSocket ==
  ASSUME NEW t \in Threads, NEW G, NEW S, NEW K, NEW B, NEW C, Chain(t, G, S, K, B, C),
         NEW h \in B, \A x \in B : h <= x
  PROVE  Chain(t, G, S, K \cup {h}, B \ {h}, C) /\ \A x \in K : x < h
  <1>1. Initial(t, G \cup S \cup K \cup {h}) /\ \A x \in G \cup S \cup K : x < h
    BY Next1 DEF Chain
  <1>2. /\ G \cup S \cup (K \cup {h}) = G \cup S \cup K \cup {h}
        /\ G \cup S \cup (K \cup {h}) \cup (B \ {h}) = G \cup S \cup K \cup B
    OBVIOUS
  <1>. QED  BY <1>1, <1>2 DEF Chain

LEMMA ToSink ==
  ASSUME NEW t \in Threads, NEW G, NEW S, NEW K, NEW B, NEW C, Chain(t, G, S, K, B, C),
         NEW h \in K, \A x \in K : h <= x
  PROVE  Chain(t, G, S \cup {h}, K \ {h}, B, C) /\ \A x \in S : x < h
  <1>1. Initial(t, G \cup S \cup {h}) /\ \A x \in G \cup S : x < h
    BY Next1 DEF Chain
  <1>2. /\ G \cup (S \cup {h}) = G \cup S \cup {h}
        /\ G \cup (S \cup {h}) \cup (K \ {h}) = G \cup S \cup K
    OBVIOUS
  <1>. QED  BY <1>1, <1>2 DEF Chain

LEMMA ToSpan ==
  ASSUME NEW t \in Threads, NEW G, NEW S, NEW K, NEW B, NEW C, Chain(t, G, S, K, B, C),
         NEW h \in S, \A x \in S : h <= x
  PROVE  /\ Chain(t, G \cup {h}, S \ {h}, K, B, C) /\ \A x \in G : x < h
         /\ h \notin G /\ h \in Traced(t, Len(Script[t]))
         /\ \A m \in Traced(t, Len(Script[t])) : m < h => m \in G
  <1>1. Initial(t, G \cup {h}) /\ \A x \in G : x < h
    BY Next1 DEF Chain
  <1>2. G \cup {h} \cup (S \ {h}) = G \cup S
    OBVIOUS
  <1>3. Chain(t, G \cup {h}, S \ {h}, K, B, C)
    BY <1>1, <1>2 DEF Chain
  <1>4. h \in Nat
    BY TracedNat, Scripts DEF Chain, Initial
  <1>. QED  BY <1>1, <1>3, <1>4 DEF Initial, Chain

(* A packet that its thread has just made is the last.                     *)
LEMMA Made ==
  ASSUME NEW t \in Threads, NEW n \in Nat, n < Len(Script[t]),
         NEW G, NEW S, NEW K, NEW B, NEW C, Chain(t, G, S, K, B, C),
         G \cup S \cup K \cup B \cup C = Traced(t, n)
  PROVE  IF Script[t][n + 1] = "Event"
         THEN Traced(t, n + 1) = Traced(t, n)
         ELSE /\ Chain(t, G, S, K, B, C \cup {n + 1})
              /\ G \cup S \cup K \cup B \cup (C \cup {n + 1}) = Traced(t, n + 1)
              /\ \A x \in C : x < n + 1
  <1>1. Len(Script[t]) \in Nat
    BY Scripts
  <1>2. CASE Script[t][n + 1] = "Event"
    BY <1>1, <1>2 DEF Traced
  <1>3. CASE Script[t][n + 1] # "Event"
    <2>1. Traced(t, n + 1) = Traced(t, n) \cup {n + 1}
      BY <1>1, <1>3 DEF Traced
    <2>2. Initial(t, Traced(t, n + 1))
      BY <1>1 DEF Initial, Traced
    <2>3. n + 1 \notin Traced(t, n) /\ \A x \in Traced(t, n) : x < n + 1
      BY DEF Traced
    <2>4. G \cup S \cup K \cup B \cup (C \cup {n + 1}) = Traced(t, n + 1)
      BY <2>1
    <2>. QED  BY <1>3, <2>2, <2>3, <2>4 DEF Chain
  <1>. QED  BY <1>2, <1>3

(* Nothing is missing in a span that is not known, nor is if the end is cut off. *)
LEMMA NoPackets ==
  ASSUME NEW t \in Threads
  PROVE  Chain(t, {}, {}, {}, {}, {}) /\ Traced(t, 0) = {}
  BY Scripts DEF Chain, Initial, Traced

LEMMA CutOff ==
  ASSUME NEW t \in Threads, NEW G, NEW S, NEW K, NEW B, NEW C, Chain(t, G, S, K, B, C)
  PROVE  Chain(t, G, S, K, {}, {})
  <1>1. /\ G \cup S \cup K \cup {} = G \cup S \cup K
        /\ G \cup S \cup K \cup {} \cup {} = G \cup S \cup K
    OBVIOUS
  <1>. QED  BY <1>1 DEF Chain

-----------------------------------------------------------------------------
(* The initial state.                                                      *)
LEMMA InitInvariant == Init => TracingInv
  <1>. SUFFICES ASSUME Init PROVE TracingInv
    OBVIOUS
  <1>1. \A R : << >> \in Seq(R) /\ Len(<< >>) = 0 /\ DOMAIN << >> = {}
    BY EmptySeq, LenProperties
  <1>2. Types
    <2>1. /\ channel \in [Processes -> Seq(PacketType)] /\ buffer \in [Processes -> Seq(PacketType)]
          /\ socket \in [Processes -> Seq(PacketType)]
          /\ sink \in Seq(RecordType) /\ file \in Seq(SpanType) /\ spans \in SUBSET SpanType
      BY <1>1 DEF Init
    <2>2. \A p \in Processes : /\ Len(channel[p]) <= MPSC_CHANNEL_BOUND
                               /\ Len(buffer[p]) <= BufferBound /\ Len(socket[p]) <= SocketBound
      <3>1. \A p \in Processes : channel[p] = << >> /\ buffer[p] = << >> /\ socket[p] = << >>
        BY DEF Init
      <3>2. \A p \in Processes : Len(channel[p]) = 0 /\ Len(buffer[p]) = 0 /\ Len(socket[p]) = 0
        BY <3>1, EmptyQueue
      <3>. QED  BY <3>2, Bounds
    <2>3. \A t \in Threads : step[t] <= Len(Script[t])
      BY Scripts DEF Init
    <2>4. Len(sink) <= MESSAGE_CHANNEL_SIZE
      BY <1>1, Bounds DEF Init
    <2>5. id \in [Threads -> Nat] /\ NEXT_ID \in [Processes -> Nat \ {0}]
      BY DEF Init
    <2>6. step \in [Threads -> Nat] /\ sending \in [Threads -> BOOLEAN]
      BY DEF Init
    <2>7. /\ enabled \in [Processes -> BOOLEAN]
          /\ writer \in [Processes -> {"connect", "receive", "flush", "ended"}]
          /\ conn \in [Processes -> {"none", "waiting", "open", "closed"}]
          /\ alive \subseteq Processes /\ daemon \in {"listening", "panicked", "ended"}
      BY DEF Init
    <2>. QED  BY <2>1, <2>2, <2>3, <2>4, <2>5, <2>6, <2>7 DEF Types, TypeOK
  <1>3. \A t \in Threads : id[t] = 0 /\ step[t] = 0 /\ ~sending[t]
    BY DEF Init
  <1>4. \A p \in Processes : /\ NEXT_ID[p] = 1 /\ enabled[p] /\ writer[p] = "connect"
                             /\ conn[p] = "none" /\ channel[p] = << >>
                             /\ buffer[p] = << >> /\ socket[p] = << >>
    BY DEF Init
  <1>5. sink = << >> /\ file = << >> /\ spans = {} /\ daemon = "listening"
    BY DEF Init
  <1>6. Ids
    BY <1>3, <1>4, Scripts DEF Ids
  <1>7. Packets /\ Ends
    BY <1>1, <1>4, <1>5 DEF Packets, AllOwned, SinkOwned, Ends
  <1>8. File /\ Spans /\ Paths
    BY <1>1, <1>3, <1>5 DEF File, Spans, Paths
  <1>. QED  BY <1>2, <1>5, <1>6, <1>7, <1>8 DEF TracingInv, Collecting

-----------------------------------------------------------------------------
(* Types and ids.                                                          *)

LEMMA PacketIs ==
  ASSUME Types, NEW t \in Threads, Runs(t)
  PROVE  /\ Packet(t) \in PacketType
         /\ Packet(t).time = step[t] + 1 /\ Packet(t).type = Script[t][step[t] + 1]
         /\ Packet(t).span = IF Script[t][step[t] + 1] = "Event" THEN 0 ELSE id[t]
         /\ Packet(t).type \notin {"Enter", "Exit"} => Packet(t).thread = t
         /\ step[t] \in Nat /\ step[t] + 1 \in 1..Len(Script[t])
  <1>1. /\ step[t] \in Nat /\ step[t] + 1 \in 1..Len(Script[t])
        /\ Script[t][step[t] + 1] \in DataTypes /\ id[t] \in Nat
    BY Scripts DEF Types, TypeOK, Runs
  <1>. QED  BY <1>1 DEF Packet, PacketType

LEMMA RecordIs ==
  ASSUME NEW p \in Processes, NEW r \in PacketType
  PROVE  /\ Record(p, r) \in RecordType /\ Record(p, r).process = p
         /\ Record(p, r).type = r.type /\ Record(p, r).span = r.span
         /\ Record(p, r).thread = r.thread /\ Record(p, r).time = r.time
  BY DEF Record, RecordType, PacketType

LEMMA MarkerIs ==
  ASSUME NEW p \in Processes, NEW type \in {"Exec", "ExitProcess"}
  PROVE  /\ Marker(p, type) \in RecordType /\ Marker(p, type).process = p
         /\ Marker(p, type).type = type /\ Marker(p, type).span = 0
  BY DEF Marker, RecordType

LEMMA StepTypes ==
  ASSUME Types, NEW t \in Threads, Runs(t), step' = [step EXCEPT ![t] = @ + 1]
  PROVE  /\ step' \in [Threads -> Nat]
         /\ \A u \in Threads : step'[u] <= Len(Script[u])
  BY Scripts DEF Types, TypeOK, Runs

LEMMA TypesThread ==
  ASSUME Types, NEW t \in Threads, Thread(t)
  PROVE  Types'
  <1>0. ProcessOf[t] \in Processes /\ Len(Script[t]) \in Nat
    BY Scripts
  <1>1. CASE NewSpanId(t)
    BY <1>0, <1>1 DEF NewSpanId, Types, TypeOK, threadVars, daemonVars, writerVars
  <1>2. CASE CheckEnabled(t)
    <2>1. CASE enabled[ProcessOf[t]]
      BY <1>2, <2>1 DEF CheckEnabled, Types, TypeOK, daemonVars, writerVars
    <2>2. CASE ~enabled[ProcessOf[t]]
      <3>1. step' = [step EXCEPT ![t] = @ + 1] /\ Runs(t)
        BY <1>2, <2>2 DEF CheckEnabled
      <3>2. step' \in [Threads -> Nat] /\ \A u \in Threads : step'[u] <= Len(Script[u])
        BY <3>1, StepTypes
      <3>. QED  BY <1>2, <2>2, <3>2 DEF CheckEnabled, Types, TypeOK, daemonVars, writerVars
    <2>. QED  BY <2>1, <2>2
  <1>3. CASE Push(t)
    <2>. DEFINE p == ProcessOf[t]
    <2>1. channel[p] \in Seq(PacketType) /\ Packet(t) \in PacketType
      BY <1>0, <1>3, PacketIs DEF Push, Types
    <2>2. /\ Append(channel[p], Packet(t)) \in Seq(PacketType)
          /\ Len(Append(channel[p], Packet(t))) <= MPSC_CHANNEL_BOUND
      BY <1>3, <2>1, AppendSeq, Bounds DEF Push, HasRoom
    <2>3. channel' = [channel EXCEPT ![p] = Append(channel[p], Packet(t))]
      BY <1>3 DEF Push
    <2>4. /\ channel' \in [Processes -> Seq(PacketType)]
          /\ \A q \in Processes : Len(channel'[q]) <= MPSC_CHANNEL_BOUND
      BY <1>0, <2>2, <2>3 DEF Types, TypeOK
    <2>5. step' \in [Threads -> Nat] /\ \A u \in Threads : step'[u] <= Len(Script[u])
      BY <1>3, StepTypes DEF Push, Sent
    <2>. QED  BY <1>3, <2>4, <2>5 DEF Push, Sent, Types, TypeOK, daemonVars, writerVars
  <1>4. CASE PushFails(t)
    <2>1. step' \in [Threads -> Nat] /\ \A u \in Threads : step'[u] <= Len(Script[u])
      BY <1>4, StepTypes DEF PushFails, Sent
    <2>. QED  BY <1>4, <2>1 DEF PushFails, Sent, Types, TypeOK, daemonVars, writerVars
  <1>. QED  BY <1>1, <1>2, <1>3, <1>4 DEF Thread

LEMMA TypesWriter ==
  ASSUME Types, NEW p \in Processes, Writer(p)
  PROVE  Types'
  <1>0. << >> \in Seq(PacketType) /\ Len(<< >>) = 0
    BY EmptySeq
  <1>1. CASE ConnectToDaemon(p)
    <2>0. channel' = channel \/ channel' = [channel EXCEPT ![p] = << >>]
      BY <1>1 DEF ConnectToDaemon, WriterEnds
    <2>1. channel' \in [Processes -> Seq(PacketType)]
      BY <1>0, <2>0 DEF Types
    <2>2. \A q \in Processes : Len(channel'[q]) <= MPSC_CHANNEL_BOUND
      <3>1. Len(channel'[p]) = 0 \/ channel' = channel
        BY <2>0, EmptyQueue DEF Types
      <3>. QED  BY <2>0, <3>1, Bounds DEF Types, TypeOK
    <2>. QED  BY <1>1, <2>1, <2>2
              DEF ConnectToDaemon, WriterEnds, Disable, Types, TypeOK, threadVars
  <1>2. CASE ReceivePacket(p)
    <2>1. /\ Tail(channel[p]) \in Seq(PacketType) /\ Head(channel[p]) \in PacketType
          /\ Len(Tail(channel[p])) <= MPSC_CHANNEL_BOUND
      BY <1>2, TailSeq, Bounds DEF ReceivePacket, Types, TypeOK
    <2>2. /\ Append(buffer[p], Head(channel[p])) \in Seq(PacketType)
          /\ Len(Append(buffer[p], Head(channel[p]))) <= BufferBound
      BY <1>2, <2>1, AppendSeq, Bounds DEF ReceivePacket, Types, TypeOK
    <2>3. /\ channel' = [channel EXCEPT ![p] = Tail(channel[p])]
          /\ buffer' = [buffer EXCEPT ![p] = Append(buffer[p], Head(channel[p]))]
      BY <1>2 DEF ReceivePacket
    <2>4. /\ channel' \in [Processes -> Seq(PacketType)]
          /\ \A q \in Processes : Len(channel'[q]) <= MPSC_CHANNEL_BOUND
      BY <2>1, <2>3 DEF Types, TypeOK
    <2>5. /\ buffer' \in [Processes -> Seq(PacketType)]
          /\ \A q \in Processes : Len(buffer'[q]) <= BufferBound
      BY <2>2, <2>3 DEF Types, TypeOK
    <2>. QED  BY <1>2, <2>4, <2>5 DEF ReceivePacket, Types, TypeOK, threadVars, daemonVars
  <1>3. CASE BufferFull(p)
    BY <1>3 DEF BufferFull, Types, TypeOK, threadVars, daemonVars
  <1>4. CASE WriteSocket(p)
    <2>1. /\ Tail(buffer[p]) \in Seq(PacketType) /\ Head(buffer[p]) \in PacketType
          /\ Len(Tail(buffer[p])) <= BufferBound
      BY <1>4, TailSeq, Bounds DEF WriteSocket, Types, TypeOK
    <2>2. /\ Append(socket[p], Head(buffer[p])) \in Seq(PacketType)
          /\ Len(Append(socket[p], Head(buffer[p]))) <= SocketBound
      BY <1>4, <2>1, AppendSeq, Bounds DEF WriteSocket, Types, TypeOK
    <2>3. /\ buffer' = [buffer EXCEPT ![p] = Tail(buffer[p])]
          /\ socket' = [socket EXCEPT ![p] = Append(socket[p], Head(buffer[p]))]
      BY <1>4 DEF WriteSocket
    <2>4. /\ buffer' \in [Processes -> Seq(PacketType)]
          /\ \A q \in Processes : Len(buffer'[q]) <= BufferBound
      BY <2>1, <2>3 DEF Types, TypeOK
    <2>5. /\ socket' \in [Processes -> Seq(PacketType)]
          /\ \A q \in Processes : Len(socket'[q]) <= SocketBound
      BY <2>2, <2>3 DEF Types, TypeOK
    <2>6. writer' \in [Processes -> {"connect", "receive", "flush", "ended"}]
      BY <1>4 DEF WriteSocket, Types, TypeOK
    <2>. QED  BY <1>4, <2>4, <2>5, <2>6 DEF WriteSocket, Types, TypeOK, threadVars, daemonVars
  <1>5. CASE WriteFails(p)
    <2>0. channel' = [channel EXCEPT ![p] = << >>]
      BY <1>5 DEF WriteFails, WriterEnds
    <2>1. channel' \in [Processes -> Seq(PacketType)]
      BY <1>0, <2>0 DEF Types
    <2>2. \A q \in Processes : Len(channel'[q]) <= MPSC_CHANNEL_BOUND
      <3>1. Len(channel'[p]) = 0 \/ channel' = channel
        BY <2>0, EmptyQueue DEF Types
      <3>. QED  BY <2>0, <3>1, Bounds DEF Types, TypeOK
    <2>3. enabled' \in [Processes -> BOOLEAN]
      BY <1>5 DEF WriteFails, Disable, Types, TypeOK
    <2>. QED  BY <1>5, <2>1, <2>2, <2>3 DEF WriteFails, WriterEnds, Types, TypeOK,
               threadVars, daemonVars
  <1>. QED  BY <1>1, <1>2, <1>3, <1>4, <1>5 DEF Writer

LEMMA TypesConnection ==
  ASSUME Types, NEW p \in Processes, Connection(p)
  PROVE  Types'
  <1>1. ASSUME NEW r \in RecordType, sink' = Append(sink, r), SinkHasRoom
        PROVE  sink' \in Seq(RecordType) /\ Len(sink') <= MESSAGE_CHANNEL_SIZE
    BY <1>1, AppendSeq, Bounds DEF SinkHasRoom, Types, TypeOK
  <1>2. CASE AcceptConnection(p)
    <2>1. sink' \in Seq(RecordType) /\ Len(sink') <= MESSAGE_CHANNEL_SIZE
      BY <1>1, <1>2, MarkerIs DEF AcceptConnection
    <2>. QED  BY <1>2, <2>1 DEF AcceptConnection, Types, TypeOK, threadVars, writerVars
  <1>3. CASE Forward(p)
    <2>1. /\ Tail(socket[p]) \in Seq(PacketType) /\ Head(socket[p]) \in PacketType
          /\ Len(Tail(socket[p])) <= SocketBound
      BY <1>3, TailSeq, Bounds DEF Forward, Types, TypeOK
    <2>2. sink' \in Seq(RecordType) /\ Len(sink') <= MESSAGE_CHANNEL_SIZE
      BY <1>1, <1>3, <2>1, RecordIs DEF Forward
    <2>3. socket' = [socket EXCEPT ![p] = Tail(socket[p])]
      BY <1>3 DEF Forward
    <2>4. /\ socket' \in [Processes -> Seq(PacketType)]
          /\ \A q \in Processes : Len(socket'[q]) <= SocketBound
      BY <2>1, <2>3 DEF Types, TypeOK
    <2>. QED  BY <1>3, <2>2, <2>4 DEF Forward, Types, TypeOK, threadVars
  <1>4. CASE CloseConnection(p)
    <2>1. sink' \in Seq(RecordType) /\ Len(sink') <= MESSAGE_CHANNEL_SIZE
      BY <1>1, <1>4, MarkerIs DEF CloseConnection
    <2>. QED  BY <1>4, <2>1 DEF CloseConnection, Types, TypeOK, threadVars, writerVars
  <1>. QED  BY <1>2, <1>3, <1>4 DEF Connection

(* A span to which an event is added                                       *)
LEMMA AddedType ==
  ASSUME NEW r \in RecordType, r.type \in DataTypes, NEW s \in SpanType
  PROVE  /\ TrackEvent(r) \in EventType
         /\ [s EXCEPT !.events = Append(@, TrackEvent(r))] \in SpanType
  <1>1. TrackEvent(r) \in EventType
    BY DEF TrackEvent, EventType, RecordType
  <1>2. s.events \in Seq(EventType)
    BY DEF SpanType
  <1>3. Append(s.events, TrackEvent(r)) \in Seq(EventType)
    BY <1>1, <1>2, AppendSeq
  <1>. QED  BY <1>1, <1>3 DEF SpanType

LEMMA TypesOnPacket ==
  ASSUME Types, OnPacket
  PROVE  Types'
  <1>. DEFINE r == Head(sink)
              found == SpanAt(r.process, r.span)
  <1>1. sink \in Seq(RecordType) /\ sink # << >> /\ sink' = Tail(sink)
    BY DEF Types, OnPacket
  <1>2. /\ r \in RecordType /\ sink' \in Seq(RecordType)
        /\ Len(sink') <= MESSAGE_CHANNEL_SIZE
    BY <1>1, TailSeq, Bounds DEF Types, TypeOK
  <1>3. r.type \in DataTypes => AddToSpan(r) \in SUBSET SpanType
    BY <1>2, AddedType DEF AddToSpan, Types
  <1>4. r.type = "NewSpan" =>
          [process |-> r.process, span |-> r.span, thread |-> r.thread,
           events |-> << >>] \in SpanType
    BY <1>2, EmptySeq DEF SpanType, RecordType
  <1>5. r.type \in DataTypes =>
          [process |-> r.process, span |-> 0, thread |-> r.thread,
           events |-> <<TrackEvent(r)>>] \in SpanType
    <2>1. ASSUME r.type \in DataTypes
          PROVE  <<TrackEvent(r)>> \in Seq(EventType)
      <3>1. TrackEvent(r) \in EventType
        BY <1>2, <2>1 DEF TrackEvent, EventType, RecordType
      <3>. QED  BY <3>1
    <2>. QED  BY <1>2, <2>1 DEF SpanType, RecordType
  <1>6. ASSUME r.type = "Exit", found # {}
        PROVE  [(CHOOSE s \in found : TRUE) EXCEPT !.events = Append(@, TrackEvent(r))] \in SpanType
    <2>1. (CHOOSE s \in found : TRUE) \in found
      BY <1>6
    <2>2. (CHOOSE s \in found : TRUE) \in SpanType
      BY <2>1 DEF SpanAt, Types
    <2>3. r.type \in DataTypes
      BY <1>6 DEF DataTypes
    <2>. HIDE DEF found, r
    <2>. QED  BY <1>2, <2>2, <2>3, AddedType
  <1>7. spans' \in SUBSET SpanType
    <2>1. CASE r.type \in {"Exec", "ExitProcess", "Exit"} \/ spans' = spans
      BY <2>1 DEF OnPacket, Types
    <2>2. CASE r.type = "NewSpan"
      BY <1>4, <2>2 DEF OnPacket, Types
    <2>3. CASE r.type \in {"Enter", "Record", "Event"}
      BY <1>3, <2>3 DEF OnPacket, Types, DataTypes
    <2>. QED  BY <1>2, <2>1, <2>2, <2>3 DEF RecordType, DataTypes
  <1>8. file' \in Seq(SpanType)
    <2>0. file \in Seq(SpanType)
      BY DEF Types
    <2>1. CASE file' = file
      BY <2>0, <2>1
    <2>2. CASE r.type \in {"Record", "Event"} /\ file' # file
      <3>1. file' = Append(file, [process |-> r.process, span |-> 0, thread |-> r.thread,
                                  events |-> <<TrackEvent(r)>>])
        BY <2>2 DEF OnPacket
      <3>. HIDE DEF r
      <3>. QED  BY <1>5, <2>0, <2>2, <3>1, AppendSeq DEF DataTypes
    <2>3. CASE r.type = "Exit" /\ file' # file
      <3>1. /\ found # {}
            /\ file' = Append(file, [(CHOOSE s \in found : TRUE)
                                       EXCEPT !.events = Append(@, TrackEvent(r))])
        BY <2>3 DEF OnPacket
      <3>. HIDE DEF r, found
      <3>. QED  BY <1>6, <2>0, <2>3, <3>1, AppendSeq
    <2>. QED  BY <2>1, <2>2, <2>3 DEF OnPacket
  <1>9. daemon' \in {"listening", "panicked", "ended"}
    BY DEF OnPacket, Types, TypeOK
  <1>. QED  BY <1>2, <1>7, <1>8, <1>9 DEF OnPacket, Types, TypeOK, threadVars, writerVars

LEMMA TypesEnd ==
  ASSUME Types, DaemonEnds \/ \E p \in Processes : ProcessEnds(p)
  PROVE  Types'
  <1>0. << >> \in Seq(PacketType) /\ << >> \in Seq(RecordType)
    BY EmptySeq
  <1>1. CASE DaemonEnds
    <2>1. /\ socket' \in [Processes -> Seq(PacketType)]
          /\ \A p \in Processes : Len(socket'[p]) <= SocketBound
      <3>1. \A p \in Processes : Len(socket'[p]) = 0
        BY <1>1, EmptyQueue DEF DaemonEnds
      <3>. QED  BY <1>0, <1>1, <3>1, Bounds DEF DaemonEnds
    <2>2. Len(sink') = 0
      BY <1>1, EmptyQueue DEF DaemonEnds
    <2>3. sink' \in Seq(RecordType) /\ Len(sink') <= MESSAGE_CHANNEL_SIZE
      BY <1>0, <1>1, <2>2, Bounds DEF DaemonEnds
    <2>. QED  BY <1>1, <2>1, <2>3 DEF DaemonEnds, Types, TypeOK, threadVars
  <1>2. ASSUME NEW p \in Processes, ProcessEnds(p)
        PROVE  Types'
    <2>1. /\ channel' = [channel EXCEPT ![p] = << >>]
          /\ buffer' = [buffer EXCEPT ![p] = << >>]
      BY <1>2 DEF ProcessEnds
    <2>2. Len(channel'[p]) = 0 /\ Len(buffer'[p]) = 0
      BY <2>1, EmptyQueue DEF Types
    <2>3. /\ channel' \in [Processes -> Seq(PacketType)]
          /\ \A q \in Processes : Len(channel'[q]) <= MPSC_CHANNEL_BOUND
      BY <1>0, <2>1, <2>2, Bounds DEF Types, TypeOK
    <2>4. /\ buffer' \in [Processes -> Seq(PacketType)]
          /\ \A q \in Processes : Len(buffer'[q]) <= BufferBound
      BY <1>0, <2>1, <2>2, Bounds DEF Types, TypeOK
    <2>5. sending' \in [Threads -> BOOLEAN]
      BY <1>2 DEF ProcessEnds, Types, TypeOK
    <2>. QED  BY <1>2, <2>3, <2>4, <2>5 DEF ProcessEnds, Types, TypeOK, daemonVars
  <1>. QED  BY <1>1, <1>2

LEMMA TypesStep ==
  ASSUME Types, Next
  PROVE  Types'
  BY TypesThread, TypesWriter, TypesConnection, TypesOnPacket, TypesEnd DEF Next

(* Ids and the progress of threads only grow.                              *)
Grown ==
  /\ \A t \in Threads : id[t] # 0 => id'[t] = id[t]
  /\ \A t \in Threads : step[t] <= step'[t]

LEMMA GrownStep ==
  ASSUME Types, Next
  PROVE  Grown
  <1>1. \A t \in Threads : step[t] \in Nat
    BY DEF Types, TypeOK
  <1>2. ASSUME NEW t \in Threads, Thread(t)
        PROVE  Grown
    <2>1. CASE NewSpanId(t)
      BY <1>1, <2>1 DEF NewSpanId, Grown, Types
    <2>2. CASE CheckEnabled(t) \/ Push(t) \/ PushFails(t)
      <3>1. /\ id' = id
            /\ step' = step \/ step' = [step EXCEPT ![t] = @ + 1]
        BY <2>2 DEF CheckEnabled, Push, PushFails, Sent
      <3>2. step \in [Threads -> Nat]
        BY DEF Types, TypeOK
      <3>. QED  BY <1>1, <3>1, <3>2 DEF Grown
    <2>. QED  BY <1>2, <2>1, <2>2 DEF Thread
  <1>3. CASE UNCHANGED <<id, step>>
    BY <1>1, <1>3 DEF Grown
  <1>. QED
    BY <1>2, <1>3 DEF Next, Writer, ConnectToDaemon, ReceivePacket, BufferFull, WriteSocket,
         WriteFails, Connection, AcceptConnection, Forward, CloseConnection, ProcessEnds,
         OnPacket, DaemonEnds, threadVars

LEMMA IdsStep ==
  ASSUME Types, Ids, Next
  PROVE  Ids'
  <1>0. \A t \in Threads : ProcessOf[t] \in Processes
    BY Scripts
  <1>1. ASSUME NEW t \in Threads, NewSpanId(t)
        PROVE  Ids'
    <2>1. /\ id' = [id EXCEPT ![t] = NEXT_ID[ProcessOf[t]]]
          /\ NEXT_ID' = [NEXT_ID EXCEPT ![ProcessOf[t]] = @ + 1]
          /\ id \in [Threads -> Nat] /\ NEXT_ID \in [Processes -> Nat \ {0}]
          /\ step' = step /\ sending' = sending
      BY <1>1 DEF NewSpanId, Types
    <2>2. \A u \in Threads : id'[u] < NEXT_ID'[ProcessOf[u]]
      BY <1>0, <2>1 DEF Ids
    <2>3. \A u, v \in Threads :
            id'[u] # 0 /\ id'[u] = id'[v] /\ ProcessOf[u] = ProcessOf[v] => u = v
      BY <1>0, <2>1 DEF Ids
    <2>4. \A u \in Threads : id'[u] = 0 => step'[u] = 0 /\ ~sending'[u]
      BY <1>0, <2>1 DEF Ids
    <2>. QED  BY <2>2, <2>3, <2>4 DEF Ids
  <1>2. ASSUME UNCHANGED <<id, NEXT_ID>>,
               \A t \in Threads : id[t] = 0 => step'[t] = 0 /\ ~sending'[t]
        PROVE  Ids'
    BY <1>2 DEF Ids
  <1>3. ASSUME NEW t \in Threads, CheckEnabled(t) \/ Push(t) \/ PushFails(t)
        PROVE  Ids'
    <2>1. id[t] # 0 /\ UNCHANGED <<id, NEXT_ID>>
      BY <1>3 DEF CheckEnabled, Push, PushFails, Sent, Ids
    <2>2. \A u \in Threads : u # t => step'[u] = step[u] /\ sending'[u] = sending[u]
      BY <1>3 DEF CheckEnabled, Push, PushFails, Sent, Types, TypeOK
    <2>. QED  BY <1>2, <2>1, <2>2 DEF Ids
  <1>4. ASSUME NEW p \in Processes, ProcessEnds(p)
        PROVE  Ids'
    BY <1>2, <1>4 DEF ProcessEnds, Ids
  <1>5. CASE UNCHANGED threadVars
    BY <1>2, <1>5 DEF threadVars, Ids
  <1>. QED
    BY <1>1, <1>3, <1>4, <1>5 DEF Next, Thread, Writer, ConnectToDaemon, ReceivePacket, BufferFull,
         WriteSocket, WriteFails, Connection, AcceptConnection, Forward, CloseConnection,
         OnPacket, DaemonEnds

-----------------------------------------------------------------------------
(* What is known of a packet, a span and the file stays true.              *)

LEMMA OwnedStep ==
  ASSUME Types, Types', Grown, NEW p, NEW r, Owned(p, r)
  PROVE  Owned(p, r)'
  <1>1. ASSUME NEW t \in Threads, MadeBy(t, r)
        PROVE  MadeBy(t, r)'
    BY <1>1 DEF MadeBy, Grown, Types, TypeOK
  <1>. QED  BY <1>1 DEF Owned

LEMMA FileStep ==
  ASSUME Types, Types', Grown, File, file' = file
  PROVE  File'
  <1>1. \A t \in Threads : step[t] # 0 => step'[t] # 0
    BY DEF Grown, Types, TypeOK
  <1>. QED  BY <1>1 DEF File, Grown, Belongs

LEMMA SpansStep ==
  ASSUME Types, Grown, Spans, UNCHANGED <<spans, file>>
  PROVE  Spans'
  BY DEF Spans, Grown, Belongs, Written

LEMMA OwnedQueue ==
  ASSUME Types, Types', Grown, NEW p, NEW q \in Seq(PacketType), AllOwned(p, q)
  PROVE  /\ AllOwned(p, q)'
         /\ q # << >> => /\ AllOwned(p, Tail(q))'
                         /\ Owned(p, Head(q)) /\ Owned(p, Head(q))'
         /\ \A r \in PacketType : Owned(p, r)' => AllOwned(p, Append(q, r))'
  <1>1. AllOwned(p, q)'
    BY OwnedStep DEF AllOwned
  <1>2. ASSUME q # << >>
        PROVE  AllOwned(p, Tail(q))' /\ Owned(p, Head(q)) /\ Owned(p, Head(q))'
    <2>1. /\ \A k \in DOMAIN Tail(q) : k + 1 \in DOMAIN q /\ Tail(q)[k] = q[k + 1]
          /\ Head(q) = q[1] /\ 1 \in DOMAIN q
      BY <1>2, TailSeq
    <2>. QED  BY <1>1, <2>1 DEF AllOwned
  <1>3. ASSUME NEW r \in PacketType, Owned(p, r)'
        PROVE  AllOwned(p, Append(q, r))'
    <2>1. /\ DOMAIN q = 1..Len(q) /\ Len(q) \in Nat /\ DOMAIN Append(q, r) = 1..(Len(q) + 1)
          /\ \A k \in DOMAIN q : Append(q, r)[k] = q[k]
          /\ Append(q, r)[Len(q) + 1] = r
      BY AppendSeq
    <2>2. \A k \in DOMAIN Append(q, r) : k \in DOMAIN q \/ k = Len(q) + 1
      BY <2>1
    <2>. QED  BY <1>1, <1>3, <2>1, <2>2 DEF AllOwned
  <1>. QED  BY <1>1, <1>2, <1>3

LEMMA OwnedSink ==
  ASSUME Types, Types', Grown, NEW q \in Seq(RecordType), SinkOwned(q)
  PROVE  /\ SinkOwned(q)'
         /\ q # << >> => SinkOwned(Tail(q))'
         /\ \A r \in RecordType : IsMarker(r) \/ Owned(r.process, r)' => SinkOwned(Append(q, r))'
  <1>0. \A r : IsMarker(r)' <=> IsMarker(r)
    BY DEF IsMarker
  <1>1. SinkOwned(q)'
    BY <1>0, OwnedStep DEF SinkOwned
  <1>2. ASSUME q # << >>
        PROVE  SinkOwned(Tail(q))'
    <2>1. \A k \in DOMAIN Tail(q) : k + 1 \in DOMAIN q /\ Tail(q)[k] = q[k + 1]
      BY <1>2, TailSeq
    <2>. QED  BY <1>1, <2>1 DEF SinkOwned
  <1>3. ASSUME NEW r \in RecordType, IsMarker(r) \/ Owned(r.process, r)'
        PROVE  SinkOwned(Append(q, r))'
    <2>1. /\ DOMAIN q = 1..Len(q) /\ Len(q) \in Nat /\ DOMAIN Append(q, r) = 1..(Len(q) + 1)
          /\ \A k \in DOMAIN q : Append(q, r)[k] = q[k]
          /\ Append(q, r)[Len(q) + 1] = r
      BY AppendSeq
    <2>2. \A k \in DOMAIN Append(q, r) : k \in DOMAIN q \/ k = Len(q) + 1
      BY <2>1
    <2>. QED  BY <1>0, <1>1, <1>3, <2>1, <2>2 DEF SinkOwned
  <1>. QED  BY <1>1, <1>2, <1>3

-----------------------------------------------------------------------------
(* A packet moves from a queue to the next: from the channel to the buffer, *)
LEMMA ChannelToBuffer ==
  ASSUME NEW t \in Threads, NEW i, NEW G, NEW S, NEW K,
         NEW from \in Seq(PacketType), from # << >>, NEW to \in Seq(PacketType),
         Chain(t, G, S, K, Times(to, i), Times(from, i)),
         Increasing(to, i), Increasing(from, i)
  PROVE  /\ Chain(t, G, S, K, Times(Append(to, Head(from)), i), Times(Tail(from), i))
         /\ G \cup S \cup K \cup Times(Append(to, Head(from)), i) \cup Times(Tail(from), i)
               = G \cup S \cup K \cup Times(to, i) \cup Times(from, i)
         /\ Increasing(Append(to, Head(from)), i) /\ Increasing(Tail(from), i)
  <1>. DEFINE r == Head(from)
              F == Times(from, i)
              T == Times(to, i)
  <1>1. r \in PacketType
    BY TailSeq
  <1>2. /\ Times(Tail(from), i) = IF r.span = i THEN F \ {r.time} ELSE F
        /\ Increasing(Tail(from), i)
        /\ r.span = i => r.time \in F /\ \A x \in F : r.time <= x
    BY TailTimes
  <1>. HIDE DEF r, F
  <1>3. /\ Times(Append(to, r), i) = IF r.span = i THEN T \cup {r.time} ELSE T
        /\ (r.span = i => \A x \in T : x < r.time) => Increasing(Append(to, r), i)
    BY <1>1, AppendTimes
  <1>. HIDE DEF T
  <1>4. Chain(t, G, S, K, T, F)
    BY DEF F, T
  <1>5. CASE r.span = i
    <2>1. /\ Chain(t, G, S, K, T \cup {r.time}, F \ {r.time}) /\ \A x \in T : x < r.time
          /\ r.time \in F
      BY <1>2, <1>4, <1>5, ToBuffer
    <2>2. G \cup S \cup K \cup (T \cup {r.time}) \cup (F \ {r.time}) = G \cup S \cup K \cup T \cup F
      BY <2>1
    <2>. QED  BY <1>2, <1>3, <1>5, <2>1, <2>2 DEF r, F, T
  <1>6. CASE r.span # i
    BY <1>2, <1>3, <1>4, <1>6 DEF r, F, T
  <1>. QED  BY <1>5, <1>6

(* from the buffer to the socket, *)
LEMMA BufferToSocket ==
  ASSUME NEW t \in Threads, NEW i, NEW G, NEW S, NEW C,
         NEW from \in Seq(PacketType), from # << >>, NEW to \in Seq(PacketType),
         Chain(t, G, S, Times(to, i), Times(from, i), C),
         Increasing(to, i), Increasing(from, i)
  PROVE  /\ Chain(t, G, S, Times(Append(to, Head(from)), i), Times(Tail(from), i), C)
         /\ G \cup S \cup Times(Append(to, Head(from)), i) \cup Times(Tail(from), i) \cup C
               = G \cup S \cup Times(to, i) \cup Times(from, i) \cup C
         /\ Increasing(Append(to, Head(from)), i) /\ Increasing(Tail(from), i)
  <1>. DEFINE r == Head(from)
              F == Times(from, i)
              T == Times(to, i)
  <1>1. r \in PacketType
    BY TailSeq
  <1>2. /\ Times(Tail(from), i) = IF r.span = i THEN F \ {r.time} ELSE F
        /\ Increasing(Tail(from), i)
        /\ r.span = i => r.time \in F /\ \A x \in F : r.time <= x
    BY TailTimes
  <1>. HIDE DEF r, F
  <1>3. /\ Times(Append(to, r), i) = IF r.span = i THEN T \cup {r.time} ELSE T
        /\ (r.span = i => \A x \in T : x < r.time) => Increasing(Append(to, r), i)
    BY <1>1, AppendTimes
  <1>. HIDE DEF T
  <1>4. Chain(t, G, S, T, F, C)
    BY DEF F, T
  <1>5. CASE r.span = i
    <2>1. /\ Chain(t, G, S, T \cup {r.time}, F \ {r.time}, C) /\ \A x \in T : x < r.time
          /\ r.time \in F
      BY <1>2, <1>4, <1>5, ToSocket
    <2>2. G \cup S \cup (T \cup {r.time}) \cup (F \ {r.time}) \cup C = G \cup S \cup T \cup F \cup C
      BY <2>1
    <2>. QED  BY <1>2, <1>3, <1>5, <2>1, <2>2 DEF r, F, T
  <1>6. CASE r.span # i
    BY <1>2, <1>3, <1>4, <1>6 DEF r, F, T
  <1>. QED  BY <1>5, <1>6

(* from the socket to the daemon's channel. *)
LEMMA SocketToSink ==
  ASSUME NEW t \in Threads, NEW i, NEW G, NEW B, NEW C, NEW p \in Processes,
         NEW from \in Seq(PacketType), from # << >>, NEW to \in Seq(RecordType),
         Chain(t, G, SinkTimes(to, p, i), Times(from, i), B, C),
         SinkIncreasing(to, p, i), Increasing(from, i)
  PROVE  /\ Chain(t, G, SinkTimes(Append(to, Record(p, Head(from))), p, i),
                  Times(Tail(from), i), B, C)
         /\ G \cup SinkTimes(Append(to, Record(p, Head(from))), p, i) \cup Times(Tail(from), i)
               \cup B \cup C
               = G \cup SinkTimes(to, p, i) \cup Times(from, i) \cup B \cup C
         /\ SinkIncreasing(Append(to, Record(p, Head(from))), p, i) /\ Increasing(Tail(from), i)
  <1>. DEFINE r == Head(from)
              F == Times(from, i)
              T == SinkTimes(to, p, i)
  <1>1. r \in PacketType
    BY TailSeq
  <1>2. /\ Times(Tail(from), i) = IF r.span = i THEN F \ {r.time} ELSE F
        /\ Increasing(Tail(from), i)
        /\ r.span = i => r.time \in F /\ \A x \in F : r.time <= x
    BY TailTimes
  <1>. HIDE DEF r, F
  <1>3. /\ SinkTimes(Append(to, Record(p, r)), p, i) = IF r.span = i THEN T \cup {r.time} ELSE T
        /\ (r.span = i => \A x \in T : x < r.time) => SinkIncreasing(Append(to, Record(p, r)), p, i)
    BY <1>1, RecordIs, AppendSinkTimes
  <1>. HIDE DEF T
  <1>4. Chain(t, G, T, F, B, C)
    BY DEF F, T
  <1>5. CASE r.span = i
    <2>1. /\ Chain(t, G, T \cup {r.time}, F \ {r.time}, B, C) /\ \A x \in T : x < r.time
          /\ r.time \in F
      BY <1>2, <1>4, <1>5, ToSink
    <2>2. G \cup (T \cup {r.time}) \cup (F \ {r.time}) \cup B \cup C = G \cup T \cup F \cup B \cup C
      BY <2>1
    <2>. QED  BY <1>2, <1>3, <1>5, <2>1, <2>2 DEF r, F, T
  <1>6. CASE r.span # i
    BY <1>2, <1>3, <1>4, <1>6 DEF r, F, T
  <1>. QED  BY <1>5, <1>6

(* However it is ordered, nothing new comes about.                         *)
LEMMA NothingNew ==
  ASSUME NEW i, NEW from \in Seq(PacketType), from # << >>, NEW to \in Seq(PacketType)
  PROVE  Times(Tail(from), i) \cup Times(Append(to, Head(from)), i)
           \subseteq Times(from, i) \cup Times(to, i)
  <1>. DEFINE r == Head(from)
  <1>1. r \in PacketType
    BY TailSeq
  <1>2. Times(Tail(from), i) \subseteq Times(from, i) /\ (r.span = i => r.time \in Times(from, i))
    BY TailSubset
  <1>. HIDE DEF r
  <1>3. Times(Append(to, r), i) = IF r.span = i THEN Times(to, i) \cup {r.time} ELSE Times(to, i)
    BY <1>1, AppendTimes
  <1>4. Times(Append(to, r), i) \subseteq Times(from, i) \cup Times(to, i)
    BY <1>2, <1>3
  <1>. QED  BY <1>2, <1>4 DEF r

LEMMA NothingNewInSink ==
  ASSUME NEW i, NEW p \in Processes,
         NEW from \in Seq(PacketType), from # << >>, NEW to \in Seq(RecordType)
  PROVE  Times(Tail(from), i) \cup SinkTimes(Append(to, Record(p, Head(from))), p, i)
           \subseteq Times(from, i) \cup SinkTimes(to, p, i)
  <1>. DEFINE r == Head(from)
  <1>1. r \in PacketType
    BY TailSeq
  <1>2. Times(Tail(from), i) \subseteq Times(from, i) /\ (r.span = i => r.time \in Times(from, i))
    BY TailSubset
  <1>. HIDE DEF r
  <1>3. SinkTimes(Append(to, Record(p, r)), p, i)
          = IF r.span = i THEN SinkTimes(to, p, i) \cup {r.time} ELSE SinkTimes(to, p, i)
    BY <1>1, RecordIs, AppendSinkTimes
  <1>4. SinkTimes(Append(to, Record(p, r)), p, i) \subseteq Times(from, i) \cup SinkTimes(to, p, i)
    BY <1>2, <1>3
  <1>. QED  BY <1>2, <1>4 DEF r

(* A record that is not of a span of p                                     *)
LEMMA OtherRecord ==
  ASSUME NEW q \in Seq(RecordType), NEW r \in RecordType, NEW p, NEW i,
         ~(r.process = p /\ r.span = i)
  PROVE  /\ SinkTimes(Append(q, r), p, i) = SinkTimes(q, p, i)
         /\ SinkIncreasing(q, p, i) => SinkIncreasing(Append(q, r), p, i)
  BY AppendSinkTimes

-----------------------------------------------------------------------------
(* The path of a thread's packets, action by action.                       *)

(* Nothing moves that belongs to the thread.                               *)
LEMMA PathSame ==
  ASSUME Grown, NEW t \in Threads, id[t] # 0, Path(t),
         UNCHANGED <<file, spans>>,
         SinkTimes(sink', ProcessOf[t], id[t]) = SinkTimes(sink, ProcessOf[t], id[t]),
         SinkIncreasing(sink, ProcessOf[t], id[t]) => SinkIncreasing(sink', ProcessOf[t], id[t]),
         socket'[ProcessOf[t]] = socket[ProcessOf[t]],
         buffer'[ProcessOf[t]] = buffer[ProcessOf[t]],
         Times(channel'[ProcessOf[t]], id[t]) = Times(channel[ProcessOf[t]], id[t]),
         Increasing(channel[ProcessOf[t]], id[t]) => Increasing(channel'[ProcessOf[t]], id[t]),
         writer'[ProcessOf[t]] # "ended" =>
           writer[ProcessOf[t]] # "ended" /\ step'[t] = step[t]
  PROVE  Path(t)'
  <1>1. id'[t] = id[t] /\ Written(t)' = Written(t)
    BY DEF Grown, Written
  <1>2. CASE Written(t)
    BY <1>1, <1>2 DEF Path, NotAgain
  <1>3. CASE ~Written(t)
    BY <1>1, <1>3 DEF Path, InOrder
  <1>. QED  BY <1>2, <1>3

LEMMA PathReceive ==
  ASSUME Types, Grown, NEW t \in Threads, id[t] # 0, Path(t), ReceivePacket(ProcessOf[t])
  PROVE  Path(t)'
  <1>. DEFINE p == ProcessOf[t]
  <1>1. /\ p \in Processes /\ channel[p] # << >>
        /\ channel[p] \in Seq(PacketType) /\ buffer[p] \in Seq(PacketType)
        /\ channel'[p] = Tail(channel[p]) /\ buffer'[p] = Append(buffer[p], Head(channel[p]))
        /\ UNCHANGED <<file, spans, sink, socket, step>>
        /\ id'[t] = id[t] /\ writer[p] # "ended" /\ Written(t)' = Written(t)
    BY Scripts DEF ReceivePacket, Types, Grown, daemonVars, threadVars, Written
  <1>2. CASE Written(t)
    <2>1. Times(channel'[p], id[t]) \cup Times(buffer'[p], id[t])
            \subseteq Times(channel[p], id[t]) \cup Times(buffer[p], id[t])
      BY <1>1, NothingNew
    <2>. QED  BY <1>1, <1>2, <2>1 DEF Path, NotAgain
  <1>3. CASE ~Written(t)
    <2>. DEFINE G == Collected(spans, p, id[t])
                S == SinkTimes(sink, p, id[t])
                K == Times(socket[p], id[t])
                B == Times(buffer[p], id[t])
                C == Times(channel[p], id[t])
                BB == Times(Append(buffer[p], Head(channel[p])), id[t])
                CC == Times(Tail(channel[p]), id[t])
    <2>1. /\ Chain(t, G, S, K, B, C) /\ G \cup S \cup K \cup B \cup C = Traced(t, step[t])
          /\ SinkIncreasing(sink, p, id[t]) /\ Increasing(socket[p], id[t])
          /\ Increasing(buffer[p], id[t]) /\ Increasing(channel[p], id[t])
      BY <1>1, <1>3 DEF Path, InOrder
    <2>2. /\ Chain(t, G, S, K, BB, CC)
          /\ G \cup S \cup K \cup BB \cup CC
               = G \cup S \cup K \cup B \cup C
          /\ Increasing(Append(buffer[p], Head(channel[p])), id[t])
          /\ Increasing(Tail(channel[p]), id[t])
      BY <1>1, <2>1, ChannelToBuffer
    <2>. QED  BY <1>1, <1>3, <2>1, <2>2 DEF Path, InOrder
  <1>. QED  BY <1>2, <1>3

LEMMA PathWrite ==
  ASSUME Types, Grown, NEW t \in Threads, id[t] # 0, Path(t), WriteSocket(ProcessOf[t])
  PROVE  Path(t)'
  <1>. DEFINE p == ProcessOf[t]
  <1>1. /\ p \in Processes /\ buffer[p] # << >>
        /\ buffer[p] \in Seq(PacketType) /\ socket[p] \in Seq(PacketType)
        /\ buffer'[p] = Tail(buffer[p]) /\ socket'[p] = Append(socket[p], Head(buffer[p]))
        /\ UNCHANGED <<file, spans, sink, channel, step>>
        /\ id'[t] = id[t] /\ writer[p] # "ended" /\ Written(t)' = Written(t)
    BY Scripts DEF WriteSocket, Types, Grown, daemonVars, threadVars, Written
  <1>2. CASE Written(t)
    <2>1. Times(buffer'[p], id[t]) \cup Times(socket'[p], id[t])
            \subseteq Times(buffer[p], id[t]) \cup Times(socket[p], id[t])
      BY <1>1, NothingNew
    <2>. QED  BY <1>1, <1>2, <2>1 DEF Path, NotAgain
  <1>3. CASE ~Written(t)
    <2>. DEFINE G == Collected(spans, p, id[t])
                S == SinkTimes(sink, p, id[t])
                K == Times(socket[p], id[t])
                B == Times(buffer[p], id[t])
                C == Times(channel[p], id[t])
                BB == Times(Tail(buffer[p]), id[t])
                KK == Times(Append(socket[p], Head(buffer[p])), id[t])
    <2>1. /\ Chain(t, G, S, K, B, C) /\ G \cup S \cup K \cup B \cup C = Traced(t, step[t])
          /\ SinkIncreasing(sink, p, id[t]) /\ Increasing(socket[p], id[t])
          /\ Increasing(buffer[p], id[t]) /\ Increasing(channel[p], id[t])
      BY <1>1, <1>3 DEF Path, InOrder
    <2>2. /\ Chain(t, G, S, KK, BB, C)
          /\ G \cup S \cup KK \cup BB \cup C
               = G \cup S \cup K \cup B \cup C
          /\ Increasing(Append(socket[p], Head(buffer[p])), id[t])
          /\ Increasing(Tail(buffer[p]), id[t])
      BY <1>1, <2>1, BufferToSocket
    <2>. QED  BY <1>1, <1>3, <2>1, <2>2 DEF Path, InOrder
  <1>. QED  BY <1>2, <1>3

LEMMA PathForward ==
  ASSUME Types, Grown, NEW t \in Threads, id[t] # 0, Path(t), Forward(ProcessOf[t])
  PROVE  Path(t)'
  <1>. DEFINE p == ProcessOf[t]
  <1>1. /\ p \in Processes /\ socket[p] # << >>
        /\ socket[p] \in Seq(PacketType) /\ sink \in Seq(RecordType)
        /\ socket'[p] = Tail(socket[p]) /\ sink' = Append(sink, Record(p, Head(socket[p])))
        /\ UNCHANGED <<file, spans, buffer, channel, step, writer>>
        /\ id'[t] = id[t] /\ Written(t)' = Written(t)
    BY Scripts DEF Forward, Types, Grown, threadVars, Written
  <1>2. CASE Written(t)
    <2>1. Times(socket'[p], id[t]) \cup SinkTimes(sink', p, id[t])
            \subseteq Times(socket[p], id[t]) \cup SinkTimes(sink, p, id[t])
      BY <1>1, NothingNewInSink
    <2>. QED  BY <1>1, <1>2, <2>1 DEF Path, NotAgain
  <1>3. CASE ~Written(t)
    <2>. DEFINE G == Collected(spans, p, id[t])
                S == SinkTimes(sink, p, id[t])
                K == Times(socket[p], id[t])
                B == Times(buffer[p], id[t])
                C == Times(channel[p], id[t])
                KK == Times(Tail(socket[p]), id[t])
                SS == SinkTimes(Append(sink, Record(p, Head(socket[p]))), p, id[t])
    <2>1. /\ Chain(t, G, S, K, B, C)
          /\ writer[p] # "ended" => G \cup S \cup K \cup B \cup C = Traced(t, step[t])
          /\ SinkIncreasing(sink, p, id[t]) /\ Increasing(socket[p], id[t])
          /\ Increasing(buffer[p], id[t]) /\ Increasing(channel[p], id[t])
      BY <1>1, <1>3 DEF Path, InOrder
    <2>2. /\ Chain(t, G, SS, KK, B, C)
          /\ G \cup SS \cup KK \cup B \cup C
               = G \cup S \cup K \cup B \cup C
          /\ SinkIncreasing(Append(sink, Record(p, Head(socket[p]))), p, id[t])
          /\ Increasing(Tail(socket[p]), id[t])
      BY <1>1, <2>1, SocketToSink
    <2>. QED  BY <1>1, <1>3, <2>1, <2>2 DEF Path, InOrder
  <1>. QED  BY <1>2, <1>3

(* A thread makes a packet ...                                             *)
LEMMA PathPush ==
  ASSUME Types, Types', Ids, File, Grown, NEW t \in Threads, id[t] # 0, Path(t), Push(t)
  PROVE  Path(t)'
  <1>. DEFINE p == ProcessOf[t]
              n == step[t]
              r == Packet(t)
  <1>1. /\ p \in Processes /\ channel[p] \in Seq(PacketType)
        /\ channel'[p] = Append(channel[p], r) /\ step'[t] = n + 1 /\ Runs(t)
        /\ UNCHANGED <<file, spans, sink, socket, buffer, writer>>
        /\ id'[t] = id[t] /\ writer[p] # "ended" /\ Written(t)' = Written(t)
    BY Scripts DEF Push, Sent, Receiving, Types, TypeOK, Grown, daemonVars, writerVars, Written
  <1>2. /\ r \in PacketType /\ r.time = n + 1 /\ n \in Nat /\ n < Len(Script[t])
        /\ r.span = IF Script[t][n + 1] = "Event" THEN 0 ELSE id[t]
    BY <1>1, PacketIs, Scripts
  <1>. HIDE DEF r
  <1>3. /\ r.span = id[t] =>
             Times(Append(channel[p], r), id[t]) = Times(channel[p], id[t]) \cup {n + 1}
        /\ r.span # id[t] => Times(Append(channel[p], r), id[t]) = Times(channel[p], id[t])
    BY <1>1, <1>2, AppendTimes
  <1>4. CASE Written(t)
    <2>1. n # 0
      BY <1>4 DEF Written, InFile, File, Ids, Belongs
    <2>2. 1 \notin Times(channel'[p], id[t])
      BY <1>1, <1>2, <1>3, <1>4, <2>1 DEF Path, NotAgain
    <2>. QED  BY <1>1, <1>4, <2>2 DEF Path, NotAgain
  <1>5. CASE ~Written(t)
    <2>. DEFINE G == Collected(spans, p, id[t])
                S == SinkTimes(sink, p, id[t])
                K == Times(socket[p], id[t])
                B == Times(buffer[p], id[t])
                C == Times(channel[p], id[t])
                CC == Times(Append(channel[p], r), id[t])
    <2>1. /\ Chain(t, G, S, K, B, C) /\ G \cup S \cup K \cup B \cup C = Traced(t, n)
          /\ SinkIncreasing(sink, p, id[t]) /\ Increasing(socket[p], id[t])
          /\ Increasing(buffer[p], id[t]) /\ Increasing(channel[p], id[t])
      BY <1>1, <1>5 DEF Path, InOrder
    <2>2. /\ Chain(t, G, S, K, B, CC) /\ G \cup S \cup K \cup B \cup CC = Traced(t, n + 1)
          /\ r.span = id[t] => \A x \in C : x < n + 1
      <3>. HIDE DEF G, S, K, B, C, CC
      <3>1. CASE Script[t][n + 1] = "Event"
        <4>1. CC = C
          BY <1>2, <1>3, <3>1 DEF C, CC
        <4>. QED  BY <1>2, <2>1, <3>1, <4>1, Made
      <3>2. CASE Script[t][n + 1] # "Event"
        <4>1. CC = C \cup {n + 1}
          BY <1>2, <1>3, <3>2 DEF C, CC
        <4>2. /\ Chain(t, G, S, K, B, C \cup {n + 1})
              /\ G \cup S \cup K \cup B \cup (C \cup {n + 1}) = Traced(t, n + 1)
              /\ \A x \in C : x < n + 1
          BY <1>2, <2>1, <3>2, Made
        <4>. QED  BY <4>1, <4>2
      <3>. QED  BY <3>1, <3>2
    <2>3. Increasing(Append(channel[p], r), id[t])
      BY <1>1, <1>2, <2>1, <2>2, AppendTimes
    <2>. QED  BY <1>1, <1>5, <2>1, <2>2, <2>3 DEF Path, InOrder
  <1>. QED  BY <1>4, <1>5

(* ... which is nothing to another thread.                                 *)
LEMMA PathPushOther ==
  ASSUME Types, Ids, Grown, NEW t \in Threads, id[t] # 0, Path(t),
         NEW u \in Threads, u # t, Push(u)
  PROVE  Path(t)'
  <1>. DEFINE p == ProcessOf[t]
              r == Packet(u)
  <1>1. /\ p \in Processes /\ ProcessOf[u] \in Processes /\ channel[p] \in Seq(PacketType)
        /\ channel' = [channel EXCEPT ![ProcessOf[u]] = Append(channel[ProcessOf[u]], r)]
        /\ step'[t] = step[t] /\ Runs(u) /\ sending[u]
        /\ UNCHANGED <<file, spans, sink, socket, buffer, writer>>
    BY Scripts DEF Push, Sent, Types, TypeOK, daemonVars, writerVars
  <1>2. r \in PacketType /\ r.span \in {0, id[u]}
    BY <1>1, PacketIs
  <1>3. CASE ProcessOf[u] = p
    <2>1. r.span # id[t]
      BY <1>1, <1>2, <1>3 DEF Ids
    <2>2. channel'[p] = Append(channel[p], r)
      BY <1>1, <1>3 DEF Types
    <2>. HIDE DEF r
    <2>3. /\ Times(Append(channel[p], r), id[t]) = Times(channel[p], id[t])
          /\ Increasing(channel[p], id[t]) => Increasing(Append(channel[p], r), id[t])
      BY <1>1, <1>2, <2>1, AppendTimes
    <2>. QED  BY <1>1, <2>2, <2>3, PathSame
  <1>4. CASE ProcessOf[u] # p
    <2>1. channel'[p] = channel[p]
      BY <1>1, <1>4 DEF Types
    <2>. QED  BY <1>1, <2>1, PathSame
  <1>. QED  BY <1>3, <1>4

(* A new id is on no packet.                                               *)
LEMMA PathNew ==
  ASSUME Types, Ids, File, Packets, Spans, NEW t \in Threads, NewSpanId(t)
  PROVE  Path(t)'
  <1>. DEFINE p == ProcessOf[t]
              i == NEXT_ID[p]
  <1>1. /\ p \in Processes /\ i \in Nat \ {0} /\ id'[t] = i /\ step[t] = 0
        /\ UNCHANGED <<step, channel, writer, buffer, socket, sink, spans, file>>
        /\ i \in Nat \ {0}
    BY Scripts DEF NewSpanId, Types, daemonVars, writerVars
  <1>2. \A u \in Threads : ProcessOf[u] = p => id[u] # i
    BY <1>1 DEF Ids, Types
  <1>. HIDE DEF i
  <1>3. \A r : Owned(p, r) => r.span # i
    BY <1>1, <1>2 DEF Owned, MadeBy
  <1>4. \A k \in DOMAIN sink : sink[k].process = p => sink[k].span # i
    BY <1>1, <1>3 DEF Packets, SinkOwned, IsMarker
  <1>5. /\ Times(channel[p], i) = {} /\ Times(buffer[p], i) = {} /\ Times(socket[p], i) = {}
        /\ Increasing(channel[p], i) /\ Increasing(buffer[p], i) /\ Increasing(socket[p], i)
    <2>1. At(channel[p], i) = {} /\ At(buffer[p], i) = {} /\ At(socket[p], i) = {}
      BY <1>1, <1>3 DEF Packets, AllOwned, At
    <2>. QED  BY <2>1 DEF Times, Increasing
  <1>6. SinkTimes(sink, p, i) = {} /\ SinkIncreasing(sink, p, i)
    <2>1. SinkAt(sink, p, i) = {}
      BY <1>4 DEF SinkAt
    <2>. QED  BY <2>1 DEF SinkTimes, SinkIncreasing
  <1>7. Collected(spans, p, i) = {}
    <2>1. \A s \in spans : ~(s.process = p /\ s.span = i)
      BY <1>2 DEF Spans, Belongs
    <2>. QED  BY <2>1 DEF Collected
  <1>8. ~InFile(file, p, i)
    BY <1>1, <1>2 DEF InFile, File, Belongs
  <1>9. ~Written(t)'
    BY <1>1, <1>8 DEF Written
  <1>. QED  BY <1>1, <1>5, <1>6, <1>7, <1>9, NoPackets DEF Path, InOrder

(* A process ends.                                                         *)
LEMMA PathEnds ==
  ASSUME Types, Grown, NEW t \in Threads, id[t] # 0, Path(t), ProcessEnds(ProcessOf[t])
  PROVE  Path(t)'
  <1>. DEFINE p == ProcessOf[t]
  <1>1. /\ p \in Processes /\ channel'[p] = << >> /\ buffer'[p] = << >> /\ writer'[p] = "ended"
        /\ UNCHANGED <<file, spans, sink, socket>>
        /\ id'[t] = id[t] /\ Written(t)' = Written(t)
    BY Scripts DEF ProcessEnds, Types, TypeOK, Grown, daemonVars, Written
  <1>2. /\ Times(channel'[p], id[t]) = {} /\ Times(buffer'[p], id[t]) = {}
        /\ Increasing(channel'[p], id[t]) /\ Increasing(buffer'[p], id[t])
    BY <1>1, EmptyQueue
  <1>3. CASE Written(t)
    BY <1>1, <1>2, <1>3 DEF Path, NotAgain
  <1>4. CASE ~Written(t)
    BY <1>1, <1>2, <1>4, CutOff DEF Path, InOrder
  <1>. QED  BY <1>3, <1>4

-----------------------------------------------------------------------------
(* Perfetto::on_packet, case by case.                                      *)

Added(s, r) == [s EXCEPT !.events = Append(@, TrackEvent(r))]
NewSpan(r)  == [process |-> r.process, span |-> r.span, thread |-> r.thread, events |-> << >>]
OwnEntry(r) == [process |-> r.process, span |-> 0, thread |-> r.thread,
                events |-> <<TrackEvent(r)>>]

Known(r)   == SpanAt(r.process, r.span) # {}
IsOf(s, r) == s \in spans /\ s.process = r.process /\ s.span = r.span

(* The span of a record, if it is known, is the only one.                  *)
LEMMA TheSpan ==
  ASSUME Spans, NEW r, NEW s, IsOf(s, r)
  PROVE  SpanAt(r.process, r.span) = {s} /\ Known(r)
  BY DEF SpanAt, IsOf, Spans, Known

LEMMA SinkHead ==
  ASSUME Types, Packets, OnPacket
  PROVE  LET r == Head(sink) IN
         /\ sink \in Seq(RecordType) /\ sink # << >> /\ sink' = Tail(sink)
         /\ r \in RecordType /\ r = sink[1] /\ 1 \in DOMAIN sink
         /\ IsMarker(r) \/ Owned(r.process, r)
         /\ r.type \in DataTypes \cup {"Exec", "ExitProcess"}
         /\ UNCHANGED <<threadVars, enabled, channel, writerVars, conn, alive>>
         /\ daemon = "listening"
  <1>1. sink \in Seq(RecordType) /\ sink # << >>
    BY DEF OnPacket, Types
  <1>2. Head(sink) \in RecordType /\ Head(sink) = sink[1] /\ 1 \in DOMAIN sink
    BY <1>1, TailSeq
  <1>3. IsMarker(sink[1]) \/ Owned(sink[1].process, sink[1])
    BY <1>2 DEF Packets, SinkOwned
  <1>4. Head(sink).type \in DataTypes \cup {"Exec", "ExitProcess"}
    BY <1>2 DEF RecordType
  <1>. QED  BY <1>1, <1>2, <1>3, <1>4 DEF OnPacket

LEMMA OnMarker ==
  ASSUME OnPacket, Head(sink).type \notin DataTypes
  PROVE  /\ UNCHANGED <<file, daemon>>
         /\ \/ spans' = spans
            \/ /\ Head(sink).type = "ExitProcess"
               /\ spans' = {s \in spans : s.process # Head(sink).process}
  BY DEF OnPacket, DataTypes

LEMMA OnNewSpan ==
  ASSUME OnPacket, Head(sink).type = "NewSpan", ~Known(Head(sink))
  PROVE  UNCHANGED <<file, daemon>> /\ spans' = spans \cup {NewSpan(Head(sink))}
  BY DEF OnPacket, Known, NewSpan

LEMMA OnUnknown ==
  ASSUME OnPacket, Head(sink).type \in DataTypes \ {"NewSpan"}, ~Known(Head(sink))
  PROVE  /\ UNCHANGED <<spans, daemon>>
         /\ file' = file \/ file' = Append(file, OwnEntry(Head(sink)))
  <1>. DEFINE r == Head(sink)
  <1>1. SpanAt(r.process, r.span) = {}
    BY DEF Known
  <1>2. AddToSpan(r) = spans
    BY <1>1 DEF AddToSpan
  <1>. QED  BY <1>1, <1>2 DEF OnPacket, DataTypes, OwnEntry

LEMMA OnKnown ==
  ASSUME Spans, OnPacket, Head(sink).type \in DataTypes \ {"NewSpan"}, NEW s, IsOf(s, Head(sink))
  PROVE  /\ UNCHANGED daemon
         /\ Head(sink).type # "Exit" =>
              file' = file /\ spans' = (spans \ {s}) \cup {Added(s, Head(sink))}
         /\ Head(sink).type = "Exit" =>
              file' = Append(file, Added(s, Head(sink))) /\ spans' = spans \ {s}
  <1>. DEFINE r == Head(sink)
  <1>1. SpanAt(r.process, r.span) = {s} /\ s \in spans
    BY TheSpan DEF IsOf
  <1>2. AddToSpan(r) = (spans \ {s}) \cup {Added(s, r)}
    BY <1>1 DEF AddToSpan, Added
  <1>3. (CHOOSE x \in {s} : TRUE) = s
    OBVIOUS
  <1>. QED  BY <1>1, <1>2, <1>3 DEF OnPacket, DataTypes, Added

(* What is in the file after an entry has been added                       *)
LEMMA FileAppend ==
  ASSUME NEW f \in Seq(SpanType), NEW x \in SpanType
  PROVE  /\ DOMAIN f = 1..Len(f) /\ Len(f) \in Nat
         /\ DOMAIN Append(f, x) = 1..(Len(f) + 1)
         /\ \A k \in DOMAIN f : Append(f, x)[k] = f[k]
         /\ Append(f, x)[Len(f) + 1] = x
         /\ \A p, i : InFile(Append(f, x), p, i) <=>
                        InFile(f, p, i) \/ (x.process = p /\ x.span = i)
  <1>1. /\ DOMAIN f = 1..Len(f) /\ Len(f) \in Nat
        /\ DOMAIN Append(f, x) = 1..(Len(f) + 1)
        /\ \A k \in DOMAIN f : Append(f, x)[k] = f[k]
        /\ Append(f, x)[Len(f) + 1] = x
    BY AppendSeq
  <1>2. \A k \in DOMAIN Append(f, x) : k \in DOMAIN f \/ k = Len(f) + 1
    BY <1>1
  <1>3. DOMAIN f \subseteq DOMAIN Append(f, x) /\ Len(f) + 1 \in DOMAIN Append(f, x)
    BY <1>1
  <1>4. ASSUME NEW p, NEW i
        PROVE  InFile(Append(f, x), p, i) <=> InFile(f, p, i) \/ (x.process = p /\ x.span = i)
    BY <1>1, <1>2, <1>3 DEF InFile
  <1>. QED  BY <1>1, <1>4

(* The same for the file                                                   *)
LEMMA Filed ==
  ASSUME file \in Seq(SpanType), NEW x \in SpanType, file' = Append(file, x), NEW p, NEW i
  PROVE  InFile(file', p, i) <=> InFile(file, p, i) \/ (x.process = p /\ x.span = i)
  <1>1. InFile(Append(file, x), p, i) <=> InFile(file, p, i) \/ (x.process = p /\ x.span = i)
    BY FileAppend
  <1>. QED  BY <1>1

(* The packets of a thread's span are its own, and its span is its own.    *)
LEMMA OwnRecord ==
  ASSUME Types, Ids, NEW t \in Threads, id[t] # 0, NEW r, IsMarker(r) \/ Owned(r.process, r),
         r.process = ProcessOf[t], r.span = id[t]
  PROVE  /\ MadeBy(t, r) /\ r.type \in DataTypes \ {"Event"}
         /\ r.time \in 1..Len(Script[t]) /\ r.type = Script[t][r.time]
         /\ r.type = "NewSpan" <=> r.time = 1
  <1>1. Owned(r.process, r)
    BY DEF IsMarker
  <1>2. MadeBy(t, r)
    BY <1>1 DEF Owned, MadeBy, Ids
  <1>3. /\ r.type = Script[t][r.time] /\ r.type # "Event"
        /\ r.time \in 1..step[t] /\ step[t] \in Nat /\ step[t] <= Len(Script[t])
    BY <1>2 DEF MadeBy, Types, TypeOK
  <1>4. r.time \in 1..Len(Script[t])
    BY <1>3, Scripts
  <1>. QED  BY <1>2, <1>3, <1>4, Scripts

LEMMA OwnSpan ==
  ASSUME Ids, Spans, NEW t \in Threads, id[t] # 0, NEW s \in spans,
         s.process = ProcessOf[t], s.span = id[t]
  PROVE  /\ s.thread = t /\ ~Written(t)
         /\ Collected(spans, ProcessOf[t], id[t]) = {1} \cup EventTimes(s.events)
  <1>1. s.thread = t
    BY DEF Spans, Belongs, Ids
  <1>2. {x \in spans : x.process = ProcessOf[t] /\ x.span = id[t]} = {s}
    BY DEF Spans
  <1>. QED  BY <1>1, <1>2 DEF Collected, Spans

LEMMA NoSpan ==
  ASSUME NEW ss, NEW p, NEW i, \A s \in ss : ~(s.process = p /\ s.span = i)
  PROVE  Collected(ss, p, i) = {}
  BY DEF Collected

LEMMA AddedIs ==
  ASSUME NEW r \in RecordType, r.type \in DataTypes, NEW s \in SpanType
  PROVE  /\ Added(s, r) \in SpanType /\ Added(s, r).process = s.process
         /\ Added(s, r).span = s.span /\ Added(s, r).thread = s.thread
         /\ DOMAIN s.events = 1..Len(s.events) /\ Len(s.events) \in Nat
         /\ DOMAIN Added(s, r).events = 1..(Len(s.events) + 1)
         /\ \A k \in DOMAIN s.events : Added(s, r).events[k] = s.events[k]
         /\ Added(s, r).events[Len(s.events) + 1] = TrackEvent(r)
         /\ EventTimes(Added(s, r).events) = EventTimes(s.events) \cup {r.time}
  <1>1. s.events \in Seq(EventType) /\ TrackEvent(r) \in EventType /\ TrackEvent(r).time = r.time
    BY AddedType DEF SpanType, TrackEvent
  <1>2. /\ Added(s, r) \in SpanType /\ Added(s, r).process = s.process
        /\ Added(s, r).span = s.span /\ Added(s, r).thread = s.thread
        /\ Added(s, r).events = Append(s.events, TrackEvent(r))
    BY AddedType DEF Added, SpanType
  <1>. DEFINE es == s.events
              e == TrackEvent(r)
  <1>. HIDE DEF es, e
  <1>3. /\ DOMAIN es = 1..Len(es) /\ Len(es) \in Nat
        /\ DOMAIN Append(es, e) = 1..(Len(es) + 1)
        /\ \A k \in DOMAIN es : Append(es, e)[k] = es[k]
        /\ Append(es, e)[Len(es) + 1] = e
    BY <1>1, AppendSeq DEF es, e
  <1>4. EventTimes(Append(es, e)) = EventTimes(es) \cup {e.time}
    <2>1. DOMAIN Append(es, e) = DOMAIN es \cup {Len(es) + 1}
      BY <1>3
    <2>. QED  BY <1>3, <2>1 DEF EventTimes
  <1>. QED  BY <1>1, <1>2, <1>3, <1>4 DEF es, e

(* The packet is not of the thread's span ...                              *)
LEMMA PathOtherPacket ==
  ASSUME Types, Ids, Packets, Ends, Spans, Grown, OnPacket,
         NEW t \in Threads, id[t] # 0, Path(t),
         ~(Head(sink).process = ProcessOf[t] /\ Head(sink).span = id[t])
  PROVE  Path(t)'
  <1>. DEFINE p == ProcessOf[t]
              i == id[t]
              r == Head(sink)
  <1>1. /\ sink \in Seq(RecordType) /\ sink # << >> /\ sink' = Tail(sink)
        /\ r \in RecordType /\ r = sink[1] /\ 1 \in DOMAIN sink
        /\ r.type \in DataTypes \cup {"Exec", "ExitProcess"}
        /\ UNCHANGED <<step, id, channel, buffer, socket, writer, conn>>
        /\ p \in Processes
    BY SinkHead, Scripts DEF threadVars, writerVars
  <1>2. SinkTimes(sink', p, i) \subseteq SinkTimes(sink, p, i)
    BY <1>1, TailSinkSubset
  <1>3. SinkIncreasing(sink, p, i) =>
          SinkTimes(sink', p, i) = SinkTimes(sink, p, i) /\ SinkIncreasing(sink', p, i)
    BY <1>1, TailSinkTimes
  <1>4. /\ \/ file' = file
           \/ /\ r.type \in DataTypes
              /\ file' = Append(file, OwnEntry(r))
           \/ /\ r.type \in DataTypes
              /\ \E s \in spans : IsOf(s, r) /\ file' = Append(file, Added(s, r))
        /\ \/ Collected(spans', p, i) = Collected(spans, p, i)
           \/ r.type = "ExitProcess" /\ r.process = p /\ Collected(spans', p, i) = {}
    <2>1. CASE r.type \notin DataTypes
      <3>1. file' = file
        BY <2>1, OnMarker
      <3>2. CASE spans' = spans
        BY <3>1, <3>2
      <3>3. CASE r.type = "ExitProcess" /\ spans' = {s \in spans : s.process # r.process}
        <4>1. CASE r.process = p
          BY <3>1, <3>3, <4>1, NoSpan
        <4>2. CASE r.process # p
          <5>1. {s \in spans' : s.process = p /\ s.span = i}
               = {s \in spans : s.process = p /\ s.span = i}
            BY <3>3, <4>2
          <5>. QED  BY <3>1, <5>1 DEF Collected
        <4>. QED  BY <4>1, <4>2
      <3>. QED  BY <2>1, <3>2, <3>3, OnMarker
    <2>2. CASE r.type = "NewSpan" /\ Known(r)
      BY <2>2 DEF OnPacket, Known
    <2>3. CASE r.type = "NewSpan" /\ ~Known(r)
      <3>1. file' = file /\ spans' = spans \cup {NewSpan(r)}
        BY <2>3, OnNewSpan
      <3>2. {s \in spans' : s.process = p /\ s.span = i}
               = {s \in spans : s.process = p /\ s.span = i}
        BY <3>1 DEF NewSpan
      <3>. QED  BY <3>1, <3>2 DEF Collected
    <2>4. CASE r.type \in DataTypes \ {"NewSpan"} /\ ~Known(r)
      BY <2>4, OnUnknown
    <2>5. CASE r.type \in DataTypes \ {"NewSpan"} /\ Known(r)
      <3>1. PICK s : IsOf(s, r)
        BY <2>5 DEF Known, SpanAt, IsOf
      <3>2. s \in spans /\ s \in SpanType /\ s.process = r.process /\ s.span = r.span
        BY <3>1 DEF IsOf, Types
      <3>3. \/ file' = file /\ spans' = (spans \ {s}) \cup {Added(s, r)}
            \/ file' = Append(file, Added(s, r)) /\ spans' = spans \ {s}
        BY <2>5, <3>1, OnKnown
      <3>4. Added(s, r).process = r.process /\ Added(s, r).span = r.span
        BY <1>1, <2>5, <3>2, AddedIs
      <3>5. {x \in spans' : x.process = p /\ x.span = i}
               = {x \in spans : x.process = p /\ x.span = i}
        BY <3>2, <3>3, <3>4
      <3>. QED  BY <2>5, <3>1, <3>2, <3>3, <3>5 DEF Collected
    <2>. QED  BY <1>1, <2>1, <2>2, <2>3, <2>4, <2>5
  <1>5. Written(t)' = Written(t)
    <2>1. CASE file' = file
      BY <1>1, <2>1 DEF Written
    <2>2. ASSUME NEW x \in SpanType, file' = Append(file, x), ~(x.process = p /\ x.span = i)
          PROVE  Written(t)' = Written(t)
      <3>1. file \in Seq(SpanType)
        BY DEF Types
      <3>2. InFile(Append(file, x), p, i) <=> InFile(file, p, i)
        BY <2>2, <3>1, FileAppend
      <3>. QED  BY <1>1, <2>2, <3>2 DEF Written, InFile
    <2>3. CASE r.type \in DataTypes /\ file' = Append(file, OwnEntry(r))
      <3>1. OwnEntry(r) \in SpanType
        <4>1. <<TrackEvent(r)>> \in Seq(EventType)
          <5>1. TrackEvent(r) \in EventType
            BY <1>1, <2>3 DEF TrackEvent, EventType, RecordType
          <5>. QED  BY <5>1
        <4>. QED  BY <1>1, <4>1 DEF OwnEntry, SpanType, RecordType
      <3>. QED  BY <2>2, <2>3, <3>1 DEF OwnEntry
    <2>4. ASSUME r.type \in DataTypes, NEW s \in spans, IsOf(s, r),
                 file' = Append(file, Added(s, r))
          PROVE  Written(t)' = Written(t)
      <3>1. Added(s, r) \in SpanType /\ Added(s, r).process = r.process /\ Added(s, r).span = r.span
        BY <1>1, <2>4, AddedIs DEF IsOf, Types
      <3>. QED  BY <2>2, <2>4, <3>1
    <2>. QED  BY <1>4, <2>1, <2>3, <2>4
  <1>6. CASE Written(t)
    BY <1>1, <1>2, <1>5, <1>6 DEF Path, NotAgain
  <1>7. CASE ~Written(t) /\ Collected(spans', p, i) = Collected(spans, p, i)
    BY <1>1, <1>3, <1>5, <1>7 DEF Path, InOrder
  <1>8. CASE ~Written(t) /\ r.type = "ExitProcess" /\ r.process = p /\ Collected(spans', p, i) = {}
    <2>1. /\ conn[p] = "closed" /\ \A l \in DOMAIN sink : sink[l].process = p => l <= 1
      BY <1>1, <1>8 DEF Ends
    <2>2. writer[p] = "ended" /\ socket[p] = << >> /\ channel[p] = << >> /\ buffer[p] = << >>
      BY <1>1, <2>1 DEF Ends
    <2>3. /\ Times(socket[p], i) = {} /\ Times(channel[p], i) = {} /\ Times(buffer[p], i) = {}
          /\ Increasing(socket[p], i) /\ Increasing(channel[p], i) /\ Increasing(buffer[p], i)
      BY <2>2, EmptyQueue
    <2>4. SinkAt(sink, p, i) = {}
      <3>1. DOMAIN sink = 1..Len(sink) /\ Len(sink) \in Nat
        BY <1>1, TailSeq
      <3>. QED  BY <1>1, <2>1, <3>1 DEF SinkAt
    <2>5. SinkTimes(sink, p, i) = {} /\ SinkIncreasing(sink, p, i)
      BY <2>4 DEF SinkTimes, SinkIncreasing
    <2>. QED  BY <1>1, <1>3, <1>5, <1>8, <2>2, <2>3, <2>5, NoPackets DEF Path, InOrder
  <1>. QED  BY <1>4, <1>6, <1>7, <1>8

(* ... or it is, and is collected in order.                                *)
LEMMA OwnHead ==
  ASSUME Types, Ids, Packets, Spans, OnPacket, NEW t \in Threads, id[t] # 0, InOrder(t),
         Head(sink).process = ProcessOf[t], Head(sink).span = id[t]
  PROVE  LET r == Head(sink)
             p == ProcessOf[t]
             i == id[t]
             G == Collected(spans, p, i)
         IN  /\ MadeBy(t, r) /\ r.type \in DataTypes \ {"Event"} /\ r.type = Script[t][r.time]
             /\ r.time \in 1..Len(Script[t]) /\ (r.type = "NewSpan" <=> r.time = 1)
             /\ Chain(t, G \cup {r.time}, SinkTimes(sink', p, i), Times(socket[p], i),
                      Times(buffer[p], i), Times(channel[p], i))
             /\ SinkIncreasing(sink', p, i)
             /\ G \cup {r.time} \cup SinkTimes(sink', p, i) = G \cup SinkTimes(sink, p, i)
             /\ r.time \notin G /\ G \subseteq Traced(t, Len(Script[t]))
             /\ \A x \in G : x < r.time
             /\ \A m \in Traced(t, Len(Script[t])) : m < r.time => m \in G
             /\ r.type = "NewSpan" <=> ~Known(r)
  <1>. DEFINE r == Head(sink)
              p == ProcessOf[t]
              i == id[t]
              G == Collected(spans, p, i)
              S == SinkTimes(sink, p, i)
              K == Times(socket[p], i)
              B == Times(buffer[p], i)
              C == Times(channel[p], i)
  <1>1. /\ sink \in Seq(RecordType) /\ sink # << >> /\ sink' = Tail(sink)
        /\ r \in RecordType /\ (IsMarker(r) \/ Owned(r.process, r))
    BY SinkHead
  <1>2. /\ MadeBy(t, r) /\ r.type \in DataTypes \ {"Event"} /\ r.type = Script[t][r.time]
        /\ r.time \in 1..Len(Script[t]) /\ (r.type = "NewSpan" <=> r.time = 1)
    BY <1>1, OwnRecord
  <1>3. Chain(t, G, S, K, B, C) /\ SinkIncreasing(sink, p, i)
    BY DEF InOrder
  <1>4. /\ SinkTimes(sink', p, i) = S \ {r.time} /\ SinkIncreasing(sink', p, i)
        /\ r.time \in S /\ \A x \in S : r.time <= x
    BY <1>1, <1>3, TailSinkTimes
  <1>5. G = {} <=> ~Known(r)
    <2>1. CASE Known(r)
      <3>1. PICK s : IsOf(s, r)
        BY <2>1 DEF Known, SpanAt, IsOf
      <3>2. 1 \in G
        BY <3>1, OwnSpan DEF IsOf
      <3>. QED  BY <2>1, <3>2
    <2>2. CASE ~Known(r)
      <3>1. \A s \in spans : ~(s.process = p /\ s.span = i)
        BY <2>2 DEF Known, SpanAt
      <3>. QED  BY <2>2, <3>1, NoSpan
    <2>. QED  BY <2>1, <2>2
  <1>. HIDE DEF r, p, i, G, S, K, B, C
  <1>6. /\ Chain(t, G \cup {r.time}, S \ {r.time}, K, B, C)
        /\ r.time \notin G /\ \A x \in G : x < r.time
        /\ \A m \in Traced(t, Len(Script[t])) : m < r.time => m \in G
    <2>. DEFINE h == r.time
    <2>1. h \in S /\ \A x \in S : h <= x
      BY <1>4
    <2>. HIDE DEF h
    <2>2. /\ Chain(t, G \cup {h}, S \ {h}, K, B, C)
          /\ h \notin G /\ \A x \in G : x < h
          /\ \A m \in Traced(t, Len(Script[t])) : m < h => m \in G
      BY <1>3, <2>1, ToSpan, SMTT(60)
    <2>. QED  BY <2>2 DEF h
  <1>7. G \subseteq Traced(t, Len(Script[t]))
    BY <1>3 DEF Chain, Initial
  <1>8. r.type = "NewSpan" <=> G = {}
    <2>1. ASSUME r.time = 1
          PROVE  G = {}
      BY <1>6, <1>7, <2>1, Scripts DEF Traced
    <2>2. ASSUME r.time # 1
          PROVE  G # {}
      <3>1. 1 \in Traced(t, Len(Script[t])) /\ 1 < r.time
        BY <1>2, <2>2, Scripts DEF Traced
      <3>. QED  BY <1>6, <3>1
    <2>. QED  BY <1>2, <2>1, <2>2
  <1>9. G \cup {r.time} \cup (S \ {r.time}) = G \cup S
    BY <1>4
  <1>. QED  BY <1>2, <1>4, <1>5, <1>6, <1>7, <1>8, <1>9 DEF r, p, i, G, S, K, B, C

LEMMA OwnEntryIs ==
  ASSUME NEW r \in RecordType, r.type \in DataTypes
  PROVE  OwnEntry(r) \in SpanType /\ OwnEntry(r).span = 0
  <1>1. TrackEvent(r) \in EventType
    BY DEF TrackEvent, EventType, RecordType
  <1>2. <<TrackEvent(r)>> \in Seq(EventType)
    BY <1>1
  <1>. QED  BY <1>2 DEF OwnEntry, SpanType, RecordType

LEMMA PathOwnPacket ==
  ASSUME Types, Ids, Packets, Spans, Grown, OnPacket, NEW t \in Threads, id[t] # 0, Path(t),
         Head(sink).process = ProcessOf[t], Head(sink).span = id[t]
  PROVE  Path(t)'
  <1>. DEFINE p == ProcessOf[t]
              i == id[t]
              r == Head(sink)
  <1>1. /\ sink \in Seq(RecordType) /\ sink # << >> /\ sink' = Tail(sink) /\ r \in RecordType
        /\ IsMarker(r) \/ Owned(r.process, r)
        /\ UNCHANGED <<step, id, channel, buffer, socket, writer>>
    BY SinkHead DEF threadVars, writerVars
  <1>2. /\ MadeBy(t, r) /\ r.type \in DataTypes \ {"Event"}
        /\ (r.type = "NewSpan" <=> r.time = 1)
    BY <1>1, OwnRecord
  <1>3. file \in Seq(SpanType)
    BY DEF Types
  <1>4. CASE Written(t)
    <2>1. /\ SinkTimes(sink', p, i) \subseteq SinkTimes(sink, p, i)
          /\ r.time \in SinkTimes(sink, p, i)
      BY <1>1, TailSinkSubset
    <2>2. r.type # "NewSpan"
      BY <1>2, <1>4, <2>1 DEF Path, NotAgain
    <2>3. ~Known(r)
      BY <1>4, OwnSpan DEF Known, SpanAt
    <2>4. file' = file \/ file' = Append(file, OwnEntry(r))
      BY <1>2, <2>2, <2>3, OnUnknown
    <2>. DEFINE e == OwnEntry(r)
    <2>5. InFile(file', p, i)
      <3>1. e \in SpanType /\ (file' = file \/ file' = Append(file, e)) /\ InFile(file, p, i)
        BY <1>1, <1>2, <1>4, <2>4, OwnEntryIs DEF Written
      <3>. HIDE DEF e, p, i
      <3>. QED  BY <1>3, <3>1, Filed
    <2>6. Written(t)'
      BY <1>1, <2>5 DEF Written
    <2>. QED  BY <1>1, <1>4, <2>1, <2>6 DEF Path, NotAgain
  <1>5. CASE ~Written(t)
    <2>. DEFINE G == Collected(spans, p, i)
                S == SinkTimes(sink, p, i)
                K == Times(socket[p], i)
                B == Times(buffer[p], i)
                C == Times(channel[p], i)
                SS == SinkTimes(sink', p, i)
                GG == Collected(spans', p, i)
    <2>1. /\ Chain(t, G \cup {r.time}, SS, K, B, C) /\ SinkIncreasing(sink', p, i)
          /\ G \cup {r.time} \cup SS = G \cup S
          /\ (r.type = "NewSpan" <=> ~Known(r)) /\ InOrder(t)
      BY <1>5, OwnHead DEF Path
    <2>2. ASSUME GG = G \cup {r.time}, UNCHANGED file
          PROVE  Path(t)'
      <3>1. ~Written(t)'
        BY <1>1, <1>5, <2>2 DEF Written
      <3>2. /\ Chain(t, GG, SS, K, B, C)
            /\ writer[p] # "ended" => GG \cup SS \cup K \cup B \cup C = Traced(t, step[t])
        BY <2>1, <2>2 DEF InOrder
      <3>. QED  BY <1>1, <2>1, <3>1, <3>2 DEF Path, InOrder
    <2>3. CASE r.type = "NewSpan"
      <3>1. spans' = spans \cup {NewSpan(r)} /\ file' = file
        BY <2>1, <2>3, OnNewSpan
      <3>2. \A s \in spans : ~(s.process = p /\ s.span = i)
        BY <2>1, <2>3 DEF Known, SpanAt
      <3>3. {s \in spans' : s.process = p /\ s.span = i} = {NewSpan(r)}
        BY <3>1, <3>2 DEF NewSpan
      <3>4. EventTimes(NewSpan(r).events) = {}
        BY DEF EventTimes, NewSpan
      <3>5. GG = {1} /\ G = {}
        BY <3>2, <3>3, <3>4, NoSpan DEF Collected
      <3>. QED  BY <1>2, <2>2, <2>3, <3>1, <3>5
    <2>4. CASE r.type # "NewSpan"
      <3>1. PICK s : IsOf(s, r)
        BY <2>1, <2>4 DEF Known, SpanAt, IsOf
      <3>2. s \in spans /\ s \in SpanType /\ s.process = p /\ s.span = i
        BY <3>1 DEF IsOf, Types
      <3>3. G = {1} \cup EventTimes(s.events)
        BY <3>2, OwnSpan
      <3>4. /\ r.type # "Exit" => file' = file /\ spans' = (spans \ {s}) \cup {Added(s, r)}
            /\ r.type = "Exit" => file' = Append(file, Added(s, r))
        BY <1>2, <2>4, <3>1, OnKnown
      <3>5. /\ Added(s, r) \in SpanType /\ Added(s, r).process = p /\ Added(s, r).span = i
            /\ EventTimes(Added(s, r).events) = EventTimes(s.events) \cup {r.time}
        BY <1>1, <1>2, <3>2, AddedIs
      <3>6. CASE r.type # "Exit"
        <4>1. {x \in spans' : x.process = p /\ x.span = i} = {Added(s, r)}
          BY <3>2, <3>4, <3>5, <3>6 DEF Spans
        <4>2. GG = {1} \cup EventTimes(Added(s, r).events)
          BY <4>1 DEF Collected
        <4>. QED  BY <2>2, <3>3, <3>4, <3>5, <3>6, <4>2
      <3>7. CASE r.type = "Exit"
        <4>. DEFINE a == Added(s, r)
        <4>1. InFile(file', p, i)
          <5>1. a \in SpanType /\ file' = Append(file, a) /\ a.process = p /\ a.span = i
            BY <3>4, <3>5, <3>7
          <5>. HIDE DEF a, p, i
          <5>. QED  BY <1>3, <5>1, Filed
        <4>2. Written(t)'
          BY <1>1, <4>1 DEF Written
        <4>3. 1 \notin SS \cup K \cup B \cup C
          BY <2>1, <3>3 DEF Chain
        <4>. QED  BY <1>1, <4>2, <4>3 DEF Path, NotAgain
      <3>. QED  BY <3>6, <3>7
    <2>. QED  BY <2>3, <2>4
  <1>. QED  BY <1>4, <1>5

-----------------------------------------------------------------------------
(* What the daemon has collected and written.                              *)

(* The packet of a known span is the next of its thread.                   *)
LEMMA KnownThread ==
  ASSUME Types, Ids, Packets, Spans, Paths, OnPacket, NEW s, IsOf(s, Head(sink))
  PROVE  /\ s.thread \in Threads /\ Belongs(s, s.thread) /\ ~Written(s.thread) /\ InOrder(s.thread)
         /\ Head(sink).process = ProcessOf[s.thread] /\ Head(sink).span = id[s.thread]
         /\ Collected(spans, ProcessOf[s.thread], id[s.thread]) = {1} \cup EventTimes(s.events)
         /\ Head(sink).type # "NewSpan"
  <1>1. /\ s \in spans /\ s.process = Head(sink).process /\ s.span = Head(sink).span
        /\ s.thread \in Threads /\ Belongs(s, s.thread) /\ ~Written(s.thread)
    BY DEF IsOf, Spans
  <1>2. InOrder(s.thread) /\ id[s.thread] # 0
    BY <1>1 DEF Paths, Path, Belongs
  <1>3. Collected(spans, ProcessOf[s.thread], id[s.thread]) = {1} \cup EventTimes(s.events)
    BY <1>1, OwnSpan DEF Belongs
  <1>4. Head(sink).type # "NewSpan"
    BY <1>1, <1>2, OwnHead, TheSpan DEF Belongs
  <1>. QED  BY <1>1, <1>2, <1>3, <1>4 DEF Belongs

LEMMA NoPanic ==
  ASSUME Types, Ids, Packets, Spans, Paths, OnPacket
  PROVE  daemon' = "listening"
  <1>1. daemon = "listening"
    BY DEF OnPacket
  <1>2. CASE Head(sink).type = "NewSpan" /\ Known(Head(sink))
    <2>1. PICK s : IsOf(s, Head(sink))
      BY <1>2 DEF Known, SpanAt, IsOf
    <2>. QED  BY <1>2, <2>1, KnownThread
  <1>3. CASE ~(Head(sink).type = "NewSpan" /\ Known(Head(sink)))
    BY <1>1, <1>3 DEF OnPacket, Known
  <1>. QED  BY <1>2, <1>3

(* A known span with the next of its packets                               *)
LEMMA AddedEvents ==
  ASSUME Types, Ids, Packets, Spans, Paths, OnPacket, NEW s, IsOf(s, Head(sink))
  PROVE  LET r == Head(sink)
             a == Added(s, r)
         IN  /\ r \in RecordType /\ r.type \in DataTypes \ {"NewSpan", "Event"} /\ s \in SpanType
             /\ a.thread = s.thread /\ a.process = s.process /\ a.span = s.span
             /\ a \in SpanType
             /\ EventsOf(s.thread, a.events)
             /\ r.type # "Exit" => \A k \in DOMAIN a.events : a.events[k].type # "Exit"
             /\ r.type = "Exit" => EventTimes(a.events) = InSpan(s.thread)
             /\ step[s.thread] # 0
  <1>. DEFINE r == Head(sink)
              a == Added(s, r)
              t == s.thread
              G == Collected(spans, ProcessOf[t], id[t])
              es == s.events
              n == Len(es)
  <1>1. /\ t \in Threads /\ Belongs(s, t) /\ InOrder(t) /\ id[t] # 0
        /\ r.process = ProcessOf[t] /\ r.span = id[t] /\ G = {1} \cup EventTimes(es)
        /\ r.type # "NewSpan"
    BY KnownThread DEF Belongs
  <1>2. /\ MadeBy(t, r) /\ r.type \in DataTypes \ {"Event"} /\ r.type = Script[t][r.time]
        /\ r.time \in 1..Len(Script[t]) /\ (r.type = "NewSpan" <=> r.time = 1)
        /\ G \subseteq Traced(t, Len(Script[t])) /\ \A x \in G : x < r.time
        /\ \A m \in Traced(t, Len(Script[t])) : m < r.time => m \in G
    BY <1>1, OwnHead
  <1>3. r \in RecordType /\ s \in SpanType /\ s \in spans
    BY SinkHead DEF IsOf, Types
  <1>4. /\ a \in SpanType /\ a.process = s.process /\ a.span = s.span /\ a.thread = t
        /\ DOMAIN es = 1..n /\ n \in Nat /\ DOMAIN a.events = 1..(n + 1)
        /\ \A k \in DOMAIN es : a.events[k] = es[k]
        /\ a.events[n + 1] = TrackEvent(r)
        /\ EventTimes(a.events) = EventTimes(es) \cup {r.time}
    BY <1>2, <1>3, AddedIs
  <1>5. /\ TrackEvent(r).time = r.time /\ TrackEvent(r).type = r.type
        /\ r.time \in 2..Len(Script[t]) /\ Len(Script[t]) \in Nat
    BY <1>1, <1>2, Scripts DEF TrackEvent
  <1>6. /\ \A k \in DOMAIN es : /\ es[k].time \in 2..Len(Script[t])
                                /\ es[k].type = Script[t][es[k].time]
        /\ \A k, l \in DOMAIN es : k < l => es[k].time < es[l].time
        /\ \A k \in DOMAIN es : es[k].type # "Exit"
    BY <1>3 DEF Spans, EventsOf
  <1>7. \A k \in DOMAIN es : es[k].time \in EventTimes(es) /\ es[k].time < r.time
    <2>1. \A k \in DOMAIN es : es[k].time \in EventTimes(es)
      BY DEF EventTimes
    <2>. QED  BY <1>1, <1>2, <2>1
  <1>8. \A k \in DOMAIN a.events : k \in DOMAIN es \/ k = n + 1
    BY <1>4
  <1>. HIDE DEF r, a, t, G, es, n
  <1>9. EventsOf(t, a.events)
    <2>1. \A k \in DOMAIN a.events : /\ a.events[k].time \in 2..Len(Script[t])
                                     /\ a.events[k].type = Script[t][a.events[k].time]
      BY <1>2, <1>4, <1>5, <1>6, <1>8
    <2>2. \A k, l \in DOMAIN a.events : k < l => a.events[k].time < a.events[l].time
      BY <1>4, <1>5, <1>6, <1>7, <1>8
    <2>. QED  BY <2>1, <2>2 DEF EventsOf
  <1>10. r.type # "Exit" => \A k \in DOMAIN a.events : a.events[k].type # "Exit"
    BY <1>4, <1>5, <1>6, <1>8
  <1>11. ASSUME r.type = "Exit"
         PROVE  EventTimes(a.events) = InSpan(t)
    <2>. DEFINE L == Len(Script[t])
    <2>1. \A m \in Traced(t, L) : m < r.time => m = 1 \/ Script[t][m] # "Exit"
      <3>1. \A x \in EventTimes(es) : Script[t][x] # "Exit"
        BY <1>6 DEF EventTimes
      <3>. QED  BY <1>1, <1>2, <3>1
    <2>2. \A m \in 1..L : m < r.time => Script[t][m] # "Exit"
      <3>1. \A m \in 1..L : Script[t][m] = "Exit" => m \in Traced(t, L) /\ m # 1
        BY <1>1, Scripts DEF Traced
      <3>. QED  BY <2>1, <3>1
    <2>3. ASSUME NEW x \in EventTimes(a.events)
          PROVE  x \in InSpan(t)
      <3>1. x \in 2..L /\ x <= r.time
        <4>1. CASE x \in EventTimes(es)
          <5>1. PICK k \in DOMAIN es : x = es[k].time
            BY <4>1 DEF EventTimes
          <5>. QED  BY <1>5, <1>6, <1>7, <5>1
        <4>2. CASE x = r.time
          BY <1>5, <4>2
        <4>. QED  BY <1>4, <2>3, <4>1, <4>2
      <3>2. Script[t][x] # "Event"
        BY <1>1, <1>2, <1>4, <2>3 DEF Traced
      <3>3. \A m \in 1..x-1 : Script[t][m] # "Exit"
        BY <1>5, <2>2, <3>1
      <3>. QED  BY <3>1, <3>2, <3>3 DEF InSpan
    <2>4. ASSUME NEW x \in InSpan(t)
          PROVE  x \in EventTimes(a.events)
      <3>1. /\ x \in 2..L /\ Script[t][x] # "Event"
            /\ \A m \in 1..x-1 : Script[t][m] # "Exit"
        BY <2>4 DEF InSpan
      <3>2. x <= r.time
        <4>1. r.time \in 1..L /\ Script[t][r.time] = "Exit" /\ x \in Nat /\ r.time \in Nat
          BY <1>2, <1>5, <1>11, <3>1
        <4>2. r.time \notin 1..x-1
          BY <3>1, <4>1
        <4>. QED  BY <4>1, <4>2
      <3>3. CASE x = r.time
        BY <1>4, <3>3
      <3>4. CASE x < r.time
        <4>1. x \in Traced(t, L)
          BY <1>5, <3>1 DEF Traced
        <4>. QED  BY <1>1, <1>2, <1>4, <3>1, <3>4, <4>1
      <3>. QED  BY <1>5, <3>1, <3>2, <3>3, <3>4
    <2>. QED  BY <2>3, <2>4
  <1>12. step[t] # 0
    BY <1>1, <1>2 DEF MadeBy, Types, TypeOK
  <1>. QED  BY <1>1, <1>2, <1>3, <1>4, <1>9, <1>10, <1>11, <1>12 DEF r, a, t, es, n

(* What of the daemon's records is the creation of a span                  *)
LEMMA CreatedBy ==
  ASSUME Types, Ids, Packets, Paths, OnPacket, Head(sink).type = "NewSpan"
  PROVE  LET r == Head(sink)
         IN  /\ r.thread \in Threads /\ ProcessOf[r.thread] = r.process
             /\ id[r.thread] = r.span /\ id[r.thread] # 0 /\ ~Written(r.thread)
  <1>. DEFINE r == Head(sink)
  <1>1. /\ sink \in Seq(RecordType) /\ sink # << >> /\ r \in RecordType
        /\ IsMarker(r) \/ Owned(r.process, r)
    BY SinkHead
  <1>2. r.type = "NewSpan"
    OBVIOUS
  <1>. HIDE DEF r
  <1>3. PICK t \in Threads : ProcessOf[t] = r.process /\ MadeBy(t, r)
    BY <1>1, <1>2 DEF IsMarker, Owned
  <1>4. r.thread = t /\ id[t] # 0 /\ r.span = id[t]
    BY <1>2, <1>3 DEF MadeBy
  <1>5. r.time = 1
    BY <1>1, <1>2, <1>3, <1>4, OwnRecord
  <1>6. 1 \in SinkTimes(sink, ProcessOf[t], id[t])
    BY <1>1, <1>3, <1>4, <1>5, TailSinkSubset DEF r
  <1>7. ~Written(t)
    BY <1>4, <1>6 DEF Paths, Path, NotAgain
  <1>. QED  BY <1>3, <1>4, <1>7 DEF r

LEMMA SpansOnPacket ==
  ASSUME Types, Ids, Packets, Spans, Paths, OnPacket
  PROVE  Spans'
  <1>. DEFINE r == Head(sink)
              Ok(s) == /\ s.thread \in Threads /\ Belongs(s, s.thread) /\ ~Written(s.thread)
                       /\ EventsOf(s.thread, s.events)
                       /\ \A k \in DOMAIN s.events : s.events[k].type # "Exit"
  <1>1. /\ r \in RecordType /\ r.type \in DataTypes \cup {"Exec", "ExitProcess"}
        /\ UNCHANGED <<step, id>> /\ file \in Seq(SpanType)
    BY SinkHead DEF Types, threadVars
  <1>2. \A s \in spans : Ok(s) /\ s \in SpanType
    BY DEF Spans, Types
  <1>3. \A s \in spans : id[s.thread] # 0
    BY DEF Spans, Belongs
  <1>4. \A x, y \in spans : x.process = y.process /\ x.span = y.span => x = y
    BY DEF Spans
  <1>5. ASSUME NEW s, Ok(s), Written(s.thread)' <=> Written(s.thread)
        PROVE  Ok(s)'
    BY <1>1, <1>5 DEF Belongs, EventsOf
  <1>6. ASSUME file' = file
        PROVE  \A s : Ok(s) => Ok(s)'
    <2>1. \A s : Written(s.thread)' <=> Written(s.thread)
      BY <1>1, <1>6 DEF Written
    <2>. QED  BY <1>5, <2>1
  <1>7. ASSUME \A s \in spans' : Ok(s)',
               \A x, y \in spans' : x.process = y.process /\ x.span = y.span => x = y
        PROVE  Spans'
    BY <1>7 DEF Spans
  <1>. HIDE DEF Ok
  <1>8. CASE r.type \notin DataTypes
    <2>1. spans' \subseteq spans /\ file' = file
      BY <1>8, OnMarker
    <2>. QED  BY <1>2, <1>4, <1>6, <1>7, <2>1
  <1>9. CASE r.type = "NewSpan"
    <2>1. ~Known(r)
      <3>1. SUFFICES ASSUME Known(r) PROVE FALSE
        OBVIOUS
      <3>2. PICK s : IsOf(s, r)
        BY <3>1 DEF Known, SpanAt, IsOf
      <3>. QED  BY <1>9, <3>2, KnownThread
    <2>2. spans' = spans \cup {NewSpan(r)} /\ file' = file
      BY <1>9, <2>1, OnNewSpan
    <2>3. Ok(NewSpan(r))
      <3>1. /\ r.thread \in Threads /\ ProcessOf[r.thread] = r.process
            /\ id[r.thread] = r.span /\ id[r.thread] # 0 /\ ~Written(r.thread)
        BY <1>9, CreatedBy
      <3>2. /\ NewSpan(r).thread = r.thread /\ NewSpan(r).process = r.process
            /\ NewSpan(r).span = r.span /\ NewSpan(r).events = << >>
        BY DEF NewSpan
      <3>3. DOMAIN NewSpan(r).events = {}
        BY <3>2, EmptyQueue
      <3>. QED  BY <3>1, <3>2, <3>3 DEF Ok, Belongs, EventsOf
    <2>4. \A s \in spans : ~(s.process = NewSpan(r).process /\ s.span = NewSpan(r).span)
      BY <2>1 DEF Known, SpanAt, NewSpan
    <2>. QED  BY <1>2, <1>4, <1>6, <1>7, <2>2, <2>3, <2>4
  <1>10. CASE r.type \in DataTypes \ {"NewSpan"} /\ ~Known(r)
    <2>. DEFINE e == OwnEntry(r)
    <2>1. spans' = spans /\ (file' = file \/ file' = Append(file, e))
      BY <1>10, OnUnknown
    <2>2. e \in SpanType /\ e.span = 0
      BY <1>1, <1>10, OwnEntryIs
    <2>. HIDE DEF e
    <2>3. ASSUME file' = Append(file, e), NEW s \in spans
          PROVE  Ok(s)'
      <3>1. InFile(file', ProcessOf[s.thread], id[s.thread])
              <=> InFile(file, ProcessOf[s.thread], id[s.thread])
        BY <1>1, <1>3, <2>2, <2>3, Filed
      <3>. QED  BY <1>1, <1>2, <1>5, <3>1 DEF Written
    <2>. QED  BY <1>2, <1>4, <1>6, <1>7, <2>1, <2>3
  <1>11. CASE r.type \in DataTypes \ {"NewSpan"} /\ Known(r)
    <2>1. PICK s : IsOf(s, r)
      BY <1>11 DEF Known, SpanAt, IsOf
    <2>. DEFINE a == Added(s, r)
    <2>2. /\ r.type # "Exit" => file' = file /\ spans' = (spans \ {s}) \cup {a}
          /\ r.type = "Exit" => file' = Append(file, a) /\ spans' = spans \ {s}
      BY <1>11, <2>1, OnKnown
    <2>3. /\ a \in SpanType /\ a.thread = s.thread /\ a.process = s.process /\ a.span = s.span
          /\ EventsOf(s.thread, a.events)
          /\ r.type # "Exit" => \A k \in DOMAIN a.events : a.events[k].type # "Exit"
      BY <2>1, AddedEvents
    <2>4. s \in spans
      BY <2>1 DEF IsOf
    <2>. HIDE DEF a
    <2>5. CASE r.type # "Exit"
      <3>1. Ok(a)
        BY <1>2, <2>3, <2>4, <2>5 DEF Ok, Belongs
      <3>. QED  BY <1>2, <1>4, <1>6, <1>7, <2>2, <2>3, <2>4, <2>5, <3>1
    <2>6. CASE r.type = "Exit"
      <3>1. ASSUME NEW x \in spans, x # s
            PROVE  Ok(x)'
        <4>1. ProcessOf[x.thread] = x.process /\ id[x.thread] = x.span
          BY <1>2 DEF Ok, Belongs
        <4>2. ~(a.process = x.process /\ a.span = x.span)
          BY <1>4, <2>3, <2>4, <3>1
        <4>3. InFile(file', x.process, x.span) <=> InFile(file, x.process, x.span)
          BY <1>1, <2>2, <2>3, <2>6, <4>2, Filed
        <4>. QED  BY <1>1, <1>2, <1>5, <4>1, <4>3 DEF Written
      <3>. QED  BY <1>4, <1>7, <2>2, <2>6, <3>1
    <2>. QED  BY <2>5, <2>6
  <1>. QED  BY <1>1, <1>8, <1>9, <1>10, <1>11

LEMMA FileAdded ==
  ASSUME Types, File, UNCHANGED <<step, id>>, NEW x \in SpanType, file' = Append(file, x),
         x.span # 0 => /\ x.thread \in Threads /\ Belongs(x, x.thread) /\ ~Written(x.thread)
                       /\ EventsOf(x.thread, x.events)
                       /\ EventTimes(x.events) = InSpan(x.thread) /\ step[x.thread] # 0
  PROVE  File'
  <1>. DEFINE n == Len(file)
              g == Append(file, x)
              Ok(e) == /\ e.thread \in Threads /\ Belongs(e, e.thread)
                       /\ EventsOf(e.thread, e.events)
                       /\ EventTimes(e.events) = InSpan(e.thread) /\ step[e.thread] # 0
  <1>1. file \in Seq(SpanType)
    BY DEF Types
  <1>2. /\ DOMAIN file = 1..n /\ n \in Nat /\ DOMAIN g = 1..(n + 1)
        /\ \A k \in DOMAIN file : g[k] = file[k]
        /\ g[n + 1] = x
    BY <1>1, FileAppend
  <1>3. \A i \in DOMAIN file : file[i].span # 0 =>
          /\ Ok(file[i])
          /\ \A j \in DOMAIN file :
               file[j].process = file[i].process /\ file[j].span = file[i].span => i = j
    BY DEF File
  <1>4. x.span # 0 =>
          /\ Ok(x)
          /\ \A j \in DOMAIN file : ~(file[j].process = x.process /\ file[j].span = x.span)
    BY DEF Written, InFile, Belongs
  <1>5. file' = g
    OBVIOUS
  <1>. HIDE DEF Ok, g, n
  <1>6. \A i \in DOMAIN g : g[i].span # 0 =>
          /\ Ok(g[i])
          /\ \A j \in DOMAIN g : g[j].process = g[i].process /\ g[j].span = g[i].span => i = j
    <2>1. ASSUME NEW i \in DOMAIN g, g[i].span # 0
          PROVE  Ok(g[i])
      BY <1>2, <1>3, <1>4, <2>1
    <2>2. ASSUME NEW i \in DOMAIN g, g[i].span # 0, NEW j \in DOMAIN g,
                 g[j].process = g[i].process, g[j].span = g[i].span
          PROVE  i = j
      <3>1. CASE i \in DOMAIN file /\ j \in DOMAIN file
        BY <1>2, <1>3, <2>2, <3>1
      <3>2. CASE i = n + 1 \/ j = n + 1
        BY <1>2, <1>4, <2>2, <3>2
      <3>. QED  BY <1>2, <3>1, <3>2
    <2>. QED  BY <2>1, <2>2
  <1>7. id' = id /\ step' = step
    OBVIOUS
  <1>. QED  BY <1>5, <1>6, <1>7 DEF File, Ok, Belongs, EventsOf, InSpan, EventTimes

LEMMA FileOnPacket ==
  ASSUME Types, Types', Ids, File, Packets, Spans, Paths, Grown, OnPacket
  PROVE  File'
  <1>. DEFINE r == Head(sink)
  <1>1. /\ r \in RecordType /\ r.type \in DataTypes \cup {"Exec", "ExitProcess"}
        /\ UNCHANGED <<step, id>>
    BY SinkHead DEF threadVars
  <1>2. CASE r.type \notin DataTypes
    BY <1>2, OnMarker, FileStep
  <1>3. CASE r.type = "NewSpan"
    <2>1. ~Known(r)
      <3>1. SUFFICES ASSUME Known(r) PROVE FALSE
        OBVIOUS
      <3>2. PICK s : IsOf(s, r)
        BY <3>1 DEF Known, SpanAt, IsOf
      <3>. QED  BY <1>3, <3>2, KnownThread
    <2>. QED  BY <1>3, <2>1, OnNewSpan, FileStep
  <1>4. CASE r.type \in DataTypes \ {"NewSpan"} /\ ~Known(r)
    <2>. DEFINE e == OwnEntry(r)
    <2>1. file' = file \/ file' = Append(file, e)
      BY <1>4, OnUnknown
    <2>2. e \in SpanType /\ e.span = 0
      BY <1>1, <1>4, OwnEntryIs
    <2>. HIDE DEF e
    <2>. QED  BY <1>1, <2>1, <2>2, FileStep, FileAdded
  <1>5. CASE r.type \in DataTypes \ {"NewSpan"} /\ Known(r)
    <2>1. PICK s : IsOf(s, r)
      BY <1>5 DEF Known, SpanAt, IsOf
    <2>. DEFINE a == Added(s, r)
    <2>2. /\ r.type # "Exit" => file' = file
          /\ r.type = "Exit" => file' = Append(file, a)
      BY <1>5, <2>1, OnKnown
    <2>3. /\ a \in SpanType /\ a.thread = s.thread /\ a.process = s.process /\ a.span = s.span
          /\ EventsOf(s.thread, a.events) /\ step[s.thread] # 0
          /\ r.type = "Exit" => EventTimes(a.events) = InSpan(s.thread)
      BY <2>1, AddedEvents
    <2>4. s.thread \in Threads /\ Belongs(s, s.thread) /\ ~Written(s.thread)
      BY <2>1, KnownThread
    <2>. HIDE DEF a
    <2>5. Belongs(a, s.thread)
      BY <2>3, <2>4 DEF Belongs
    <2>6. CASE r.type # "Exit"
      BY <2>2, <2>6, FileStep
    <2>7. CASE r.type = "Exit"
      BY <1>1, <2>2, <2>3, <2>4, <2>5, <2>7, FileAdded
    <2>. QED  BY <2>6, <2>7
  <1>. QED  BY <1>1, <1>2, <1>3, <1>4, <1>5

-----------------------------------------------------------------------------
(* What may happen to the queues in a step.                                *)
ChannelMoves(p) ==
  \/ channel'[p] = channel[p] \/ channel'[p] = << >>
  \/ channel[p] # << >> /\ channel'[p] = Tail(channel[p])
  \/ \E t \in Threads : /\ ProcessOf[t] = p /\ Push(t)
                        /\ channel'[p] = Append(channel[p], Packet(t))
BufferMoves(p) ==
  \/ buffer'[p] = buffer[p] \/ buffer'[p] = << >>
  \/ buffer[p] # << >> /\ buffer'[p] = Tail(buffer[p])
  \/ channel[p] # << >> /\ buffer'[p] = Append(buffer[p], Head(channel[p]))
SocketMoves(p) ==
  \/ socket'[p] = socket[p] \/ socket'[p] = << >>
  \/ socket[p] # << >> /\ socket'[p] = Tail(socket[p])
  \/ buffer[p] # << >> /\ socket'[p] = Append(socket[p], Head(buffer[p]))
SinkMoves ==
  \/ sink' = sink \/ sink' = << >>
  \/ sink # << >> /\ sink' = Tail(sink)
  \/ \E p \in Processes : \/ sink' = Append(sink, Marker(p, "Exec"))
                          \/ sink' = Append(sink, Marker(p, "ExitProcess"))
                          \/ /\ socket[p] # << >>
                             /\ sink' = Append(sink, Record(p, Head(socket[p])))

LEMMA MovesThread ==
  ASSUME Types, NEW t \in Threads, Thread(t), NEW p \in Processes
  PROVE  ChannelMoves(p) /\ BufferMoves(p) /\ SocketMoves(p) /\ SinkMoves
  <1>1. channel \in [Processes -> Seq(PacketType)]
    BY DEF Types
  <1>2. UNCHANGED <<buffer, socket, sink>>
    BY DEF Thread, NewSpanId, CheckEnabled, Push, PushFails, Sent, writerVars, daemonVars
  <1>3. ChannelMoves(p)
    <2>1. CASE Push(t)
      <3>1. channel' = [channel EXCEPT ![ProcessOf[t]] = Append(@, Packet(t))]
        BY <2>1 DEF Push
      <3>. QED  BY <1>1, <2>1, <3>1 DEF ChannelMoves
    <2>2. CASE ~Push(t)
      <3>1. channel' = channel
        BY <2>2 DEF Thread, NewSpanId, CheckEnabled, PushFails
      <3>. QED  BY <3>1 DEF ChannelMoves
    <2>. QED  BY <2>1, <2>2
  <1>. QED  BY <1>2, <1>3 DEF BufferMoves, SocketMoves, SinkMoves

LEMMA MovesWriter ==
  ASSUME Types, NEW p \in Processes, NEW u \in Processes, Writer(u)
  PROVE  ChannelMoves(p) /\ BufferMoves(p) /\ SocketMoves(p) /\ SinkMoves
  <1>1. /\ channel \in [Processes -> Seq(PacketType)] /\ buffer \in [Processes -> Seq(PacketType)]
        /\ socket \in [Processes -> Seq(PacketType)]
    BY DEF Types
  <1>2. sink' = sink
    BY DEF Writer, ConnectToDaemon, ReceivePacket, BufferFull, WriteSocket, WriteFails, daemonVars
  <1>3. ChannelMoves(p)
    BY <1>1 DEF ChannelMoves, Writer, ConnectToDaemon, ReceivePacket, BufferFull, WriteSocket,
         WriteFails, WriterEnds
  <1>4. BufferMoves(p)
    BY <1>1 DEF BufferMoves, Writer, ConnectToDaemon, ReceivePacket, BufferFull, WriteSocket,
         WriteFails, WriterEnds
  <1>5. SocketMoves(p)
    BY <1>1 DEF SocketMoves, Writer, ConnectToDaemon, ReceivePacket, BufferFull, WriteSocket,
         WriteFails, WriterEnds
  <1>. QED  BY <1>2, <1>3, <1>4, <1>5 DEF SinkMoves

LEMMA Moves ==
  ASSUME Types, Next, NEW p \in Processes
  PROVE  ChannelMoves(p) /\ BufferMoves(p) /\ SocketMoves(p) /\ SinkMoves
  <1>1. /\ channel \in [Processes -> Seq(PacketType)] /\ buffer \in [Processes -> Seq(PacketType)]
        /\ socket \in [Processes -> Seq(PacketType)]
    BY DEF Types
  <1>2. ASSUME NEW u \in Processes, Connection(u)
        PROVE  ChannelMoves(p) /\ BufferMoves(p) /\ SocketMoves(p) /\ SinkMoves
    BY <1>1, <1>2 DEF Connection, AcceptConnection, Forward, CloseConnection, writerVars,
         ChannelMoves, BufferMoves, SocketMoves, SinkMoves
  <1>3. ASSUME NEW u \in Processes, ProcessEnds(u)
        PROVE  ChannelMoves(p) /\ BufferMoves(p) /\ SocketMoves(p) /\ SinkMoves
    BY <1>1, <1>3 DEF ProcessEnds, daemonVars, ChannelMoves, BufferMoves, SocketMoves, SinkMoves
  <1>4. CASE OnPacket
    BY <1>4 DEF OnPacket, writerVars, ChannelMoves, BufferMoves, SocketMoves, SinkMoves
  <1>5. CASE DaemonEnds
    BY <1>5 DEF DaemonEnds, ChannelMoves, BufferMoves, SocketMoves, SinkMoves
  <1>. QED  BY <1>2, <1>3, <1>4, <1>5, MovesThread, MovesWriter DEF Next

(* The packets stay what threads have made in their spans.                 *)
LEMMA QueueStep ==
  ASSUME Types, Types', Grown, NEW p, NEW q \in Seq(PacketType), AllOwned(p, q),
         NEW qq, \/ qq = q \/ qq = << >>
                 \/ q # << >> /\ qq = Tail(q)
                 \/ \E r \in PacketType : Owned(p, r)' /\ qq = Append(q, r)
  PROVE  AllOwned(p, qq)'
  <1>1. CASE qq = << >>
    BY <1>1, EmptyQueue DEF AllOwned
  <1>2. CASE qq # << >>
    BY <1>2, OwnedQueue
  <1>. QED  BY <1>1, <1>2

LEMMA SinkStep ==
  ASSUME Types, Types', Grown, NEW q \in Seq(RecordType), SinkOwned(q),
         NEW qq, \/ qq = q \/ qq = << >>
                 \/ q # << >> /\ qq = Tail(q)
                 \/ \E r \in RecordType : /\ IsMarker(r) \/ Owned(r.process, r)'
                                          /\ qq = Append(q, r)
  PROVE  SinkOwned(qq)'
  <1>1. CASE qq = << >>
    BY <1>1, EmptyQueue DEF SinkOwned
  <1>2. CASE qq # << >>
    BY <1>2, OwnedSink
  <1>. QED  BY <1>1, <1>2

(* A new packet is its thread's.                                           *)
LEMMA OwnedNew ==
  ASSUME Types, Ids, NEW t \in Threads, Push(t), NEW r, r = Packet(t)
  PROVE  r \in PacketType /\ Owned(ProcessOf[t], r)'
  <1>1. /\ Runs(t) /\ id' = id /\ step' = [step EXCEPT ![t] = @ + 1] /\ sending[t]
        /\ step \in [Threads -> Nat]
    BY DEF Push, Sent, Types, TypeOK
  <1>2. /\ r \in PacketType /\ r.time = step[t] + 1 /\ r.type = Script[t][step[t] + 1]
        /\ r.span = IF Script[t][step[t] + 1] = "Event" THEN 0 ELSE id[t]
        /\ r.type \notin {"Enter", "Exit"} => r.thread = t
    BY <1>1, PacketIs
  <1>3. id[t] # 0
    BY <1>1 DEF Ids
  <1>4. CASE r.type = "Event"
    BY <1>2, <1>4 DEF Owned
  <1>5. CASE r.type # "Event"
    <2>1. MadeBy(t, r)'
      BY <1>1, <1>2, <1>3, <1>5 DEF MadeBy
    <2>. QED  BY <1>2, <2>1 DEF Owned
  <1>. QED  BY <1>2, <1>4, <1>5

LEMMA PacketsStep ==
  ASSUME Types, Types', Ids, Grown, Packets, Next
  PROVE  Packets'
  <1>1. /\ channel \in [Processes -> Seq(PacketType)] /\ buffer \in [Processes -> Seq(PacketType)]
        /\ socket \in [Processes -> Seq(PacketType)] /\ sink \in Seq(RecordType)
    BY DEF Types
  <1>2. ASSUME NEW p \in Processes
        PROVE  /\ AllOwned(p, channel[p])' /\ AllOwned(p, buffer[p])'
               /\ AllOwned(p, socket[p])'
    <2>1. PICK c, b, k : c = channel[p] /\ b = buffer[p] /\ k = socket[p]
      OBVIOUS
    <2>2. PICK cc, bb, kk : cc = channel'[p] /\ bb = buffer'[p] /\ kk = socket'[p]
      OBVIOUS
    <2>3. /\ c \in Seq(PacketType) /\ b \in Seq(PacketType) /\ k \in Seq(PacketType)
          /\ AllOwned(p, c) /\ AllOwned(p, b) /\ AllOwned(p, k)
      BY <1>1, <2>1 DEF Packets
    <2>4. /\ c # << >> => Head(c) \in PacketType /\ Owned(p, Head(c))'
          /\ b # << >> => Head(b) \in PacketType /\ Owned(p, Head(b))'
      BY <2>3, OwnedQueue, TailSeq
    <2>5. AllOwned(p, cc)'
      <3>1. \/ cc = c \/ cc = << >> \/ (c # << >> /\ cc = Tail(c))
            \/ \E t \in Threads : ProcessOf[t] = p /\ Push(t) /\ cc = Append(c, Packet(t))
        BY <2>1, <2>2, Moves DEF ChannelMoves
      <3>2. CASE \E t \in Threads : ProcessOf[t] = p /\ Push(t) /\ cc = Append(c, Packet(t))
        <4>1. PICK t \in Threads : ProcessOf[t] = p /\ Push(t) /\ cc = Append(c, Packet(t))
          BY <3>2
        <4>2. PICK r : r = Packet(t)
          OBVIOUS
        <4>3. r \in PacketType /\ Owned(p, r)' /\ cc = Append(c, r)
          BY <4>1, <4>2, OwnedNew
        <4>. QED  BY <2>3, <4>3, QueueStep
      <3>. QED  BY <2>3, <3>1, <3>2, QueueStep
    <2>6. AllOwned(p, bb)'
      <3>1. \/ bb = b \/ bb = << >> \/ (b # << >> /\ bb = Tail(b))
            \/ c # << >> /\ bb = Append(b, Head(c))
        BY <2>1, <2>2, Moves DEF BufferMoves
      <3>. QED  BY <2>3, <2>4, <3>1, QueueStep
    <2>7. AllOwned(p, kk)'
      <3>1. \/ kk = k \/ kk = << >> \/ (k # << >> /\ kk = Tail(k))
            \/ b # << >> /\ kk = Append(k, Head(b))
        BY <2>1, <2>2, Moves DEF SocketMoves
      <3>. QED  BY <2>3, <2>4, <3>1, QueueStep
    <2>. QED  BY <2>2, <2>5, <2>6, <2>7 DEF AllOwned
  <1>3. SinkOwned(sink)'
    <2>1. PICK s, ss : s = sink /\ ss = sink'
      OBVIOUS
    <2>2. s \in Seq(RecordType) /\ SinkOwned(s)
      BY <1>1, <2>1 DEF Packets
    <2>3. \/ ss = s \/ ss = << >> \/ (s # << >> /\ ss = Tail(s))
          \/ \E r \in RecordType : (IsMarker(r) \/ Owned(r.process, r)') /\ ss = Append(s, r)
      <3>1. CASE Processes = {}
        BY <2>1, <3>1, Scripts DEF Next, Thread, NewSpanId, CheckEnabled, Push, PushFails, Sent,
             OnPacket, DaemonEnds, daemonVars
      <3>2. CASE Processes # {}
        <4>1. \/ ss = s \/ ss = << >> \/ (s # << >> /\ ss = Tail(s))
              \/ \E p \in Processes :
                    \/ ss = Append(s, Marker(p, "Exec")) \/ ss = Append(s, Marker(p, "ExitProcess"))
                    \/ socket[p] # << >> /\ ss = Append(s, Record(p, Head(socket[p])))
          BY <2>1, <3>2, Moves DEF SinkMoves
        <4>2. ASSUME NEW p \in Processes, NEW type \in {"Exec", "ExitProcess"}
              PROVE  Marker(p, type) \in RecordType /\ IsMarker(Marker(p, type))
          BY MarkerIs DEF IsMarker
        <4>3. ASSUME NEW p \in Processes, socket[p] # << >>,
                     ss = Append(s, Record(p, Head(socket[p])))
              PROVE  \E r \in RecordType : Owned(r.process, r)' /\ ss = Append(s, r)
          <5>1. PICK k : k = socket[p]
            OBVIOUS
          <5>2. k \in Seq(PacketType) /\ AllOwned(p, k) /\ k # << >>
            BY <1>1, <4>3, <5>1 DEF Packets
          <5>3. PICK h : h = Head(k)
            OBVIOUS
          <5>4. h \in PacketType /\ Owned(p, h)'
            BY <5>2, <5>3, OwnedQueue, TailSeq
          <5>5. PICK r : r = Record(p, h)
            OBVIOUS
          <5>6. /\ r \in RecordType /\ r.process = p /\ r.type = h.type /\ r.span = h.span
                /\ r.thread = h.thread /\ r.time = h.time
            BY <5>4, <5>5, RecordIs
          <5>7. Owned(r.process, r)'
            BY <5>4, <5>6 DEF Owned, MadeBy
          <5>. QED  BY <4>3, <5>1, <5>3, <5>5, <5>6, <5>7
        <4>. QED  BY <4>1, <4>2, <4>3
      <3>. QED  BY <3>1, <3>2
    <2>4. SinkOwned(ss)'
      BY <2>2, <2>3, SinkStep
    <2>. QED  BY <2>1, <2>4 DEF SinkOwned
  <1>. QED  BY <1>2, <1>3 DEF Packets

-----------------------------------------------------------------------------
(* Who has ended has nothing left in its queues.                           *)
EndsOf(p) ==
  /\ ~enabled[p] => writer[p] = "ended"
  /\ writer[p] = "ended" => channel[p] = << >> /\ buffer[p] = << >>
  /\ conn[p] = "closed" => writer[p] = "ended" /\ socket[p] = << >>

LastOf(q, c) ==
  \A k \in DOMAIN q : q[k].type = "ExitProcess" =>
    /\ c[q[k].process] = "closed"
    /\ \A l \in DOMAIN q : q[l].process = q[k].process => l <= k

LEMMA EndsAre == Ends <=> (\A p \in Processes : EndsOf(p)) /\ LastOf(sink, conn)
  BY DEF Ends, EndsOf, LastOf

LEMMA LastStep ==
  ASSUME NEW q \in Seq(RecordType), NEW c, NEW cc, LastOf(q, c),
         \A p \in Processes : c[p] = "closed" => cc[p] = "closed"
  PROVE  /\ LastOf(q, cc)
         /\ q # << >> => LastOf(Tail(q), cc)
         /\ \A r \in RecordType :
              /\ c[r.process] # "closed"
              /\ r.type = "ExitProcess" => cc[r.process] = "closed"
              => LastOf(Append(q, r), cc)
  <1>1. DOMAIN q = 1..Len(q) /\ Len(q) \in Nat /\ \A k \in DOMAIN q : q[k] \in RecordType
    BY LenProperties, ElementOfSeq
  <1>2. \A k \in DOMAIN q : q[k].process \in Processes
    BY <1>1 DEF RecordType
  <1>3. LastOf(q, cc)
    BY <1>2 DEF LastOf
  <1>4. ASSUME q # << >>
        PROVE  LastOf(Tail(q), cc)
    <2>1. /\ DOMAIN Tail(q) = 1..(Len(q) - 1)
          /\ \A k \in DOMAIN Tail(q) : k + 1 \in DOMAIN q /\ Tail(q)[k] = q[k + 1]
      BY <1>4, TailSeq
    <2>. QED  BY <1>1, <1>3, <2>1 DEF LastOf
  <1>5. ASSUME NEW r \in RecordType, c[r.process] # "closed",
               r.type = "ExitProcess" => cc[r.process] = "closed"
        PROVE  LastOf(Append(q, r), cc)
    <2>. DEFINE n == Len(q) + 1
                g == Append(q, r)
    <2>1. /\ DOMAIN g = 1..n /\ \A k \in DOMAIN q : g[k] = q[k]
          /\ g[n] = r
      BY AppendSeq
    <2>2. \A k \in DOMAIN g : k \in DOMAIN q \/ k = n
      BY <1>1, <2>1
    <2>3. \A k \in DOMAIN q : q[k].type = "ExitProcess" => q[k].process # r.process
      BY <1>5 DEF LastOf
    <2>4. n \in Nat /\ \A k \in DOMAIN g : k \in Nat /\ k <= n
      BY <1>1, <2>1
    <2>. HIDE DEF n, g
    <2>. SUFFICES ASSUME NEW k \in DOMAIN g, g[k].type = "ExitProcess"
                  PROVE  /\ cc[g[k].process] = "closed"
                         /\ \A l \in DOMAIN g : g[l].process = g[k].process => l <= k
      BY DEF LastOf, g
    <2>5. CASE k = n
      BY <1>5, <2>1, <2>4, <2>5
    <2>6. CASE k \in DOMAIN q
      <3>1. /\ cc[q[k].process] = "closed" /\ q[k].process # r.process
            /\ \A l \in DOMAIN q : q[l].process = q[k].process => l <= k
        BY <1>3, <2>1, <2>3, <2>6 DEF LastOf
      <3>. QED  BY <2>1, <2>2, <2>6, <3>1
    <2>. QED  BY <2>2, <2>5, <2>6
  <1>. QED  BY <1>3, <1>4, <1>5

LEMMA EndsThread ==
  ASSUME Types, Ends, NEW t \in Threads, Thread(t)
  PROVE  Ends'
  <1>1. UNCHANGED <<writerVars, sink, conn>> /\ ProcessOf[t] \in Processes
    BY Scripts DEF Thread, NewSpanId, CheckEnabled, Push, PushFails, Sent, daemonVars
  <1>2. /\ channel \in [Processes -> Seq(PacketType)] /\ enabled \in [Processes -> BOOLEAN]
        /\ \A p \in Processes : EndsOf(p)
    BY EndsAre DEF Types, TypeOK
  <1>3. ASSUME NEW p \in Processes
        PROVE  EndsOf(p)'
    <2>1. CASE p # ProcessOf[t]
      <3>1. channel'[p] = channel[p] /\ enabled'[p] = enabled[p]
        BY <1>2, <2>1 DEF Thread, NewSpanId, CheckEnabled, Push, PushFails
      <3>. QED  BY <1>1, <1>2, <3>1 DEF EndsOf, writerVars
    <2>2. CASE p = ProcessOf[t] /\ Push(t)
      <3>1. writer[p] # "ended" /\ enabled' = enabled
        BY <2>2 DEF Push, Receiving
      <3>. QED  BY <1>1, <1>2, <3>1 DEF EndsOf, writerVars
    <2>3. CASE p = ProcessOf[t] /\ PushFails(t)
      <3>1. writer[p] = "ended" /\ channel' = channel
        BY <2>3 DEF PushFails, Receiving
      <3>. QED  BY <1>1, <1>2, <3>1 DEF EndsOf, writerVars
    <2>4. CASE NewSpanId(t) \/ CheckEnabled(t)
      <3>1. channel' = channel /\ enabled' = enabled
        BY <2>4 DEF NewSpanId, CheckEnabled
      <3>. QED  BY <1>1, <1>2, <3>1 DEF EndsOf, writerVars
    <2>. QED  BY <2>1, <2>2, <2>3, <2>4 DEF Thread
  <1>4. LastOf(sink', conn')
    BY <1>1, EndsAre
  <1>. QED  BY <1>3, <1>4 DEF Ends, EndsOf, LastOf

LEMMA EndsWriter ==
  ASSUME Types, Ends, daemon = "listening", NEW u \in Processes, Writer(u)
  PROVE  Ends' /\ writer'[u] # "ended"
  <1>1. /\ channel \in [Processes -> Seq(PacketType)] /\ enabled \in [Processes -> BOOLEAN]
        /\ buffer \in [Processes -> Seq(PacketType)] /\ socket \in [Processes -> Seq(PacketType)]
        /\ writer \in [Processes -> {"connect", "receive", "flush", "ended"}]
        /\ conn \in [Processes -> {"none", "waiting", "open", "closed"}]
        /\ sink \in Seq(RecordType)
        /\ \A p \in Processes : EndsOf(p)
    BY EndsAre DEF Types, TypeOK
  <1>2. writer[u] # "ended"
    BY DEF Writer, ConnectToDaemon, ReceivePacket, BufferFull, WriteSocket, WriteFails
  <1>3. enabled[u] /\ conn[u] # "closed"
    BY <1>1, <1>2 DEF EndsOf
  <1>4. ~WriteFails(u)
    BY <1>3 DEF WriteFails, PeerGone
  <1>5. /\ enabled' = enabled /\ sink' = sink /\ writer'[u] # "ended" /\ conn'[u] # "closed"
        /\ \A p \in Processes : p # u =>
             /\ writer'[p] = writer[p] /\ conn'[p] = conn[p] /\ channel'[p] = channel[p]
             /\ buffer'[p] = buffer[p] /\ socket'[p] = socket[p]
    BY <1>1, <1>2, <1>3, <1>4 DEF Writer, ConnectToDaemon, ReceivePacket,
         BufferFull, WriteSocket, daemonVars
  <1>6. \A p \in Processes : EndsOf(p)'
    BY <1>1, <1>3, <1>5 DEF EndsOf
  <1>7. LastOf(sink, conn')
    <2>1. \A p \in Processes : conn[p] = "closed" => conn'[p] = "closed"
      BY <1>3, <1>5
    <2>2. LastOf(sink, conn)
      BY EndsAre
    <2>. QED  BY <1>1, <2>1, <2>2, LastStep
  <1>. QED  BY <1>5, <1>6, <1>7 DEF Ends, EndsOf, LastOf

LEMMA EndsConnection ==
  ASSUME Types, Ends, NEW u \in Processes, Connection(u)
  PROVE  Ends'
  <1>1. /\ socket \in [Processes -> Seq(PacketType)]
        /\ conn \in [Processes -> {"none", "waiting", "open", "closed"}]
        /\ sink \in Seq(RecordType)
        /\ \A p \in Processes : EndsOf(p)
    BY EndsAre DEF Types, TypeOK
  <1>2. conn[u] \in {"waiting", "open"} /\ UNCHANGED <<enabled, channel, writer, buffer>>
    BY DEF Connection, AcceptConnection, Forward, CloseConnection, writerVars
  <1>3. \A p \in Processes : p # u => conn'[p] = conn[p] /\ socket'[p] = socket[p]
    BY <1>1 DEF Connection, AcceptConnection, Forward, CloseConnection, writerVars
  <1>4. conn'[u] = "closed" => writer[u] = "ended" /\ socket'[u] = << >>
    BY <1>1 DEF Connection, AcceptConnection, Forward, CloseConnection, writerVars
  <1>5. \A p \in Processes : EndsOf(p)'
    BY <1>1, <1>2, <1>3, <1>4 DEF EndsOf
  <1>6. PICK r \in RecordType : /\ sink' = Append(sink, r) /\ r.process = u
                                /\ r.type = "ExitProcess" => conn'[u] = "closed"
    <2>1. CASE AcceptConnection(u)
      BY <2>1, MarkerIs DEF AcceptConnection
    <2>2. CASE Forward(u)
      <3>1. socket[u] # << >> /\ socket[u] \in Seq(PacketType)
        BY <1>1, <2>2 DEF Forward
      <3>2. Head(socket[u]) \in PacketType
        BY <3>1, TailSeq
      <3>3. Head(socket[u]).type \in DataTypes
        BY <3>2 DEF PacketType
      <3>4. Head(socket[u]).type # "ExitProcess"
        BY <3>3 DEF DataTypes
      <3>. QED  BY <2>2, <3>2, <3>4, RecordIs DEF Forward
    <2>3. CASE CloseConnection(u)
      BY <1>1, <2>3, MarkerIs DEF CloseConnection
    <2>. QED  BY <2>1, <2>2, <2>3 DEF Connection
  <1>7. \A p \in Processes : conn[p] = "closed" => conn'[p] = "closed"
    BY <1>2, <1>3
  <1>8. LastOf(Append(sink, r), conn')
    BY <1>1, <1>2, <1>6, <1>7, EndsAre, LastStep
  <1>. QED  BY <1>5, <1>6, <1>8 DEF Ends, EndsOf, LastOf

LEMMA EndsOnPacket ==
  ASSUME Types, Ends, OnPacket
  PROVE  Ends'
  <1>1. /\ sink \in Seq(RecordType) /\ sink # << >> /\ sink' = Tail(sink)
        /\ UNCHANGED <<enabled, channel, writerVars, conn>>
        /\ \A p \in Processes : EndsOf(p)
    BY EndsAre DEF Types, OnPacket
  <1>2. \A p \in Processes : EndsOf(p)'
    BY <1>1 DEF EndsOf, writerVars
  <1>3. LastOf(Tail(sink), conn)
    BY <1>1, EndsAre, LastStep
  <1>. QED  BY <1>1, <1>2, <1>3 DEF Ends, EndsOf, LastOf

LEMMA EndsEnd ==
  ASSUME Types, Ends, NEW u \in Processes, ProcessEnds(u)
  PROVE  Ends'
  <1>1. /\ channel \in [Processes -> Seq(PacketType)]
        /\ buffer \in [Processes -> Seq(PacketType)]
        /\ writer \in [Processes -> {"connect", "receive", "flush", "ended"}]
        /\ \A p \in Processes : EndsOf(p)
    BY EndsAre DEF Types, TypeOK
  <1>2. UNCHANGED <<enabled, socket, conn, sink>>
    BY DEF ProcessEnds, daemonVars
  <1>3. \A p \in Processes : EndsOf(p)'
    BY <1>1, <1>2 DEF EndsOf, ProcessEnds
  <1>. QED  BY <1>2, <1>3, EndsAre DEF Ends, EndsOf, LastOf

-----------------------------------------------------------------------------
(* The paths of all packets, step by step.                                 *)
LEMMA PathThread ==
  ASSUME Types, Types', Ids, File, Packets, Ends, Spans, Paths, Grown,
         NEW u \in Threads, Thread(u), NEW t \in Threads, id'[t] # 0
  PROVE  Path(t)'
  <1>1. /\ step \in [Threads -> Nat] /\ id \in [Threads -> Nat]
        /\ \A v \in Threads : ProcessOf[v] \in Processes
    BY Scripts DEF Types, TypeOK
  <1>2. CASE u = t /\ NewSpanId(u)
    BY <1>2, PathNew
  <1>3. CASE u # t /\ NewSpanId(u)
    <2>1. id[t] # 0
      BY <1>1, <1>3 DEF NewSpanId
    <2>. QED  BY <1>3, <2>1, PathSame DEF Paths, NewSpanId, writerVars, daemonVars
  <1>4. CASE CheckEnabled(u)
    <2>1. id[t] # 0 /\ UNCHANGED <<writer, buffer, socket, channel, sink, spans, file>>
      BY <1>4 DEF CheckEnabled, writerVars, daemonVars
    <2>2. writer[ProcessOf[t]] # "ended" => step'[t] = step[t]
      <3>1. CASE u = t
        <4>1. writer[ProcessOf[t]] # "ended" => enabled[ProcessOf[t]]
          BY <1>1 DEF Ends
        <4>. QED  BY <1>4, <3>1, <4>1 DEF CheckEnabled
      <3>2. CASE u # t
        BY <1>1, <1>4, <3>2 DEF CheckEnabled
      <3>. QED  BY <3>1, <3>2
    <2>. QED  BY <2>1, <2>2, PathSame DEF Paths
  <1>5. CASE Push(u)
    <2>1. id[t] # 0
      BY <1>5 DEF Push, Sent
    <2>. QED  BY <1>5, <2>1, PathPush, PathPushOther DEF Paths
  <1>6. CASE PushFails(u)
    <2>1. id[t] # 0 /\ UNCHANGED <<writer, buffer, socket, channel, sink, spans, file>>
      BY <1>6 DEF PushFails, Sent, writerVars, daemonVars
    <2>2. writer[ProcessOf[t]] # "ended" => step'[t] = step[t]
      BY <1>1, <1>6 DEF PushFails, Sent, Receiving
    <2>. QED  BY <2>1, <2>2, PathSame DEF Paths
  <1>. QED  BY <1>2, <1>3, <1>4, <1>5, <1>6 DEF Thread

LEMMA PathWriter ==
  ASSUME Types, Ends, Paths, Grown, daemon = "listening",
         NEW u \in Processes, Writer(u), NEW t \in Threads, id'[t] # 0
  PROVE  Path(t)'
  <1>. DEFINE p == ProcessOf[t]
  <1>1. /\ channel \in [Processes -> Seq(PacketType)] /\ buffer \in [Processes -> Seq(PacketType)]
        /\ socket \in [Processes -> Seq(PacketType)]
        /\ writer \in [Processes -> {"connect", "receive", "flush", "ended"}]
        /\ p \in Processes
    BY Scripts DEF Types, TypeOK
  <1>2. UNCHANGED <<step, id, file, spans, sink>>
    BY DEF Writer, ConnectToDaemon, ReceivePacket, BufferFull, WriteSocket, WriteFails,
           threadVars, daemonVars
  <1>3. id[t] # 0 /\ Path(t) /\ ~WriteFails(u)
    BY <1>1, <1>2, EndsWriter DEF Paths, WriteFails, WriterEnds
  <1>4. CASE u # p
    <2>1. /\ socket'[p] = socket[p] /\ buffer'[p] = buffer[p] /\ channel'[p] = channel[p]
          /\ writer'[p] = writer[p]
      BY <1>1, <1>3, <1>4 DEF Writer, ConnectToDaemon, WriterEnds, ReceivePacket,
           BufferFull, WriteSocket
    <2>. QED  BY <1>2, <1>3, <2>1, PathSame
  <1>5. CASE u = p /\ (ConnectToDaemon(u) \/ BufferFull(u))
    <2>1. UNCHANGED <<socket, buffer, channel>> /\ writer[p] # "ended"
      BY <1>5 DEF ConnectToDaemon, BufferFull
    <2>. QED  BY <1>2, <1>3, <2>1, PathSame
  <1>6. CASE u = p /\ (ReceivePacket(u) \/ WriteSocket(u))
    BY <1>3, <1>6, PathReceive, PathWrite
  <1>. QED  BY <1>3, <1>4, <1>5, <1>6 DEF Writer

LEMMA PathConnection ==
  ASSUME Types, Paths, Grown, NEW u \in Processes, Connection(u), NEW t \in Threads, id'[t] # 0
  PROVE  Path(t)'
  <1>. DEFINE p == ProcessOf[t]
  <1>1. socket \in [Processes -> Seq(PacketType)] /\ p \in Processes /\ sink \in Seq(RecordType)
    BY Scripts DEF Types
  <1>2. UNCHANGED <<step, id, file, spans, channel, writer, buffer>>
    BY DEF Connection, AcceptConnection, Forward, CloseConnection, threadVars, writerVars
  <1>3. id[t] # 0 /\ Path(t)
    BY <1>2 DEF Paths
  <1>4. ASSUME NEW r \in RecordType, sink' = Append(sink, r), ~(r.process = p /\ r.span = id[t]),
               socket'[p] = socket[p]
        PROVE  Path(t)'
    <2>1. /\ SinkTimes(Append(sink, r), p, id[t]) = SinkTimes(sink, p, id[t])
          /\ SinkIncreasing(sink, p, id[t]) => SinkIncreasing(Append(sink, r), p, id[t])
      BY <1>1, <1>4, OtherRecord
    <2>. QED  BY <1>2, <1>3, <1>4, <2>1, PathSame
  <1>5. CASE AcceptConnection(u)
    BY <1>3, <1>4, <1>5, MarkerIs DEF AcceptConnection, writerVars
  <1>6. CASE CloseConnection(u)
    BY <1>3, <1>4, <1>6, MarkerIs DEF CloseConnection, writerVars
  <1>7. CASE Forward(u) /\ u = p
    BY <1>3, <1>7, PathForward
  <1>8. CASE Forward(u) /\ u # p
    <2>1. /\ socket[u] \in Seq(PacketType) /\ socket[u] # << >>
          /\ sink' = Append(sink, Record(u, Head(socket[u]))) /\ socket'[p] = socket[p]
      BY <1>1, <1>8 DEF Forward
    <2>2. Head(socket[u]) \in PacketType
      BY <2>1, TailSeq
    <2>. QED  BY <1>4, <1>8, <2>1, <2>2, RecordIs
  <1>. QED  BY <1>5, <1>6, <1>7, <1>8 DEF Connection

LEMMA PathProcessEnds ==
  ASSUME Types, Paths, Grown, NEW u \in Processes, ProcessEnds(u), NEW t \in Threads, id'[t] # 0
  PROVE  Path(t)'
  <1>. DEFINE p == ProcessOf[t]
  <1>1. UNCHANGED <<step, id, file, spans, sink, socket>>
    BY DEF ProcessEnds, daemonVars
  <1>2. id[t] # 0 /\ Path(t)
    BY <1>1 DEF Paths
  <1>3. CASE u = p
    BY <1>2, <1>3, PathEnds
  <1>4. CASE u # p
    <2>1. /\ channel'[p] = channel[p] /\ buffer'[p] = buffer[p] /\ writer'[p] = writer[p]
      BY <1>4, Scripts DEF ProcessEnds, Types, TypeOK
    <2>. QED  BY <1>1, <1>2, <2>1, PathSame
  <1>. QED  BY <1>3, <1>4

LEMMA PathsStep ==
  ASSUME Types, Types', Ids, File, Packets, Ends, Spans, Paths, Grown,
         daemon = "listening", ~DaemonEnds, Next
  PROVE  Paths'
  <1>. SUFFICES ASSUME NEW t \in Threads, id'[t] # 0
                PROVE  Path(t)'
    BY DEF Paths
  <1>1. CASE OnPacket
    <2>1. id[t] # 0 /\ Path(t)
      BY <1>1 DEF OnPacket, threadVars, Paths
    <2>. QED  BY <1>1, <2>1, PathOwnPacket, PathOtherPacket
  <1>. QED  BY <1>1, PathThread, PathWriter, PathConnection, PathProcessEnds DEF Next

LEMMA EndsStep ==
  ASSUME Types, Ends, daemon = "listening", ~DaemonEnds, Next
  PROVE  Ends'
  BY EndsThread, EndsWriter, EndsConnection, EndsOnPacket, EndsEnd DEF Next

(* Only the builder of the trace touches it, and the daemon ends at most once. *)
LEMMA Untouched ==
  ASSUME Next, ~OnPacket
  PROVE  file' = file /\ (~DaemonEnds => spans' = spans /\ daemon' = daemon)
  <1>1. ASSUME NEW t \in Threads, Thread(t)
        PROVE  UNCHANGED daemonVars
    BY <1>1 DEF Thread, NewSpanId, CheckEnabled, Push, PushFails, Sent
  <1>2. ASSUME NEW p \in Processes, Writer(p) \/ Connection(p) \/ ProcessEnds(p)
        PROVE  UNCHANGED <<spans, file, daemon>>
    BY <1>2 DEF Writer, ConnectToDaemon, ReceivePacket, BufferFull, WriteSocket, WriteFails,
         Connection, AcceptConnection, Forward, CloseConnection, ProcessEnds, daemonVars
  <1>3. CASE DaemonEnds
    BY <1>3 DEF DaemonEnds
  <1>. QED  BY <1>1, <1>2, <1>3 DEF Next, daemonVars

LEMMA NextInvariant ==
  ASSUME TracingInv, Next
  PROVE  TracingInv'
  <1>1. Types /\ Ids /\ File /\ daemon # "panicked" /\ (daemon = "listening" => Collecting)
    BY DEF TracingInv
  <1>2. Types' /\ Grown
    BY <1>1, TypesStep, GrownStep
  <1>3. Ids'
    BY <1>1, IdsStep
  <1>4. CASE daemon = "listening" /\ ~DaemonEnds
    <2>1. Packets /\ Ends /\ Spans /\ Paths
      BY <1>1, <1>4 DEF Collecting
    <2>2. Packets' /\ Ends' /\ Paths'
      BY <1>1, <1>2, <1>4, <2>1, PacketsStep, EndsStep, PathsStep
    <2>3. Spans' /\ File' /\ daemon' = "listening"
      <3>1. CASE OnPacket
        BY <1>1, <1>2, <2>1, <3>1, SpansOnPacket, FileOnPacket, NoPanic
      <3>2. CASE ~OnPacket
        BY <1>1, <1>2, <1>4, <2>1, <3>2, Untouched, SpansStep, FileStep
      <3>. QED  BY <3>1, <3>2
    <2>. QED  BY <1>2, <1>3, <2>2, <2>3 DEF TracingInv, Collecting
  <1>5. CASE daemon # "listening" \/ DaemonEnds
    <2>1. ~OnPacket
      BY <1>5 DEF OnPacket, DaemonEnds, threadVars
    <2>2. file' = file /\ daemon' # "listening" /\ daemon' # "panicked"
      <3>1. CASE DaemonEnds
        BY <3>1 DEF DaemonEnds
      <3>2. CASE ~DaemonEnds
        BY <1>1, <1>5, <2>1, <3>2, Untouched
      <3>. QED  BY <3>1, <3>2
    <2>3. File'
      BY <1>1, <1>2, <2>2, FileStep
    <2>. QED  BY <1>2, <1>3, <2>2, <2>3 DEF TracingInv
  <1>. QED  BY <1>4, <1>5

LEMMA StutterInvariant ==
  ASSUME TracingInv, UNCHANGED vars
  PROVE  TracingInv'
  BY DEF TracingInv, Types, TypeOK, Ids, File, Collecting, Packets, Ends, Spans, Paths, Path,
         NotAgain, InOrder, Written, AllOwned, SinkOwned, Owned, MadeBy, Belongs,
         vars, threadVars, writerVars, daemonVars

-----------------------------------------------------------------------------
(***************************************************************************)
(* In every state, the packets of a span that the daemon has not written   *)
(* yet are on their way from its thread to the daemon in the order of      *)
(* their times and without a gap, and what the daemon has collected is the *)
(* beginning.  This is what the Subscriber, the thread that writes for it, *)
(* the connection's task and Perfetto::on_packet keep up between them.     *)
(***************************************************************************)
THEOREM TracingInvariant == Spec => []TracingInv
  <1>1. Init => TracingInv
    BY InitInvariant
  <1>2. TracingInv /\ [Next]_vars => TracingInv'
    BY NextInvariant, StutterInvariant
  <1>. QED  BY <1>1, <1>2, PTL DEF Spec

(***************************************************************************)
(* Perfetto::on_packet never meets the creation of a span it already       *)
(* knows, which it asserts: the ids of NEXT_SPAN_ID are those of one       *)
(* thread in a process, the creation is the first packet of a span and is  *)
(* sent once, and a span is forgotten only at an exit, which comes after.  *)
(* No channel, buffer or socket exceeds its bound.                         *)
(***************************************************************************)
THEOREM SpanIdsAreUnique == Spec => []SpanIdsUnique
  <1>1. TracingInv => SpanIdsUnique
    BY DEF TracingInv, Types, SpanIdsUnique
  <1>. QED  BY <1>1, TracingInvariant, PTL

(***************************************************************************)
(* What the daemon writes of a span is all and only what its thread did in *)
(* it up to its first exit, in order, on the track of that thread and      *)
(* once: nothing is lost, repeated or reordered between Subscriber::send   *)
(* and Perfetto::on_packet as long as the packets of the exit get there,   *)
(* whoever else traces, exits, ends or dies on the way.                    *)
(***************************************************************************)
THEOREM TraceIsWellFormed == Spec => []TraceWellFormed
  <1>1. TracingInv => TraceWellFormed
    <2>. SUFFICES ASSUME File, Types
                  PROVE  TraceWellFormed
      BY DEF TracingInv
    <2>1. ASSUME NEW i \in DOMAIN file, file[i].span # 0
          PROVE  LET t  == file[i].thread
                     es == file[i].events
                 IN  /\ t \in Threads /\ ProcessOf[t] = file[i].process /\ id[t] = file[i].span
                     /\ {es[k].time : k \in DOMAIN es} = InSpan(t)
                     /\ \A k \in DOMAIN es : es[k].type = Script[t][es[k].time]
                     /\ \A k, l \in DOMAIN es : k < l => es[k].time < es[l].time
                     /\ \A j \in DOMAIN file :
                          file[j].process = file[i].process /\ file[j].span = file[i].span => i = j
      BY <2>1 DEF File, Belongs, EventsOf, EventTimes
    <2>. QED  BY <2>1 DEF TraceWellFormed
  <1>. QED  BY <1>1, TracingInvariant, PTL
=============================================================================
