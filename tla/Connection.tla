------------------------------ MODULE Connection ------------------------------
(***************************************************************************)
(* One end of a signalling socket: SocketClient::receive (client.rs) over  *)
(* a Connection (connection.rs), a non-blocking stream registered with an  *)
(* edge-triggered mio poll.  The peer's messages are byte strings of       *)
(* different lengths; the bytes arrive in pieces of any size.              *)
(*                                                                         *)
(* A byte is represented by its position in the stream, so that recv_buf   *)
(* shows which bytes the buffer holds and the messages parsed from it can  *)
(* be compared with those sent.  Indices start at 0, as in the code.       *)
(***************************************************************************)
EXTENDS Integers, Sequences

CONSTANTS
  BUFFER_SIZE,    \* 128 in the code
  Lengths,        \* lengths of encoded messages (10, 11, 18 and 26 in the code)
  MaxMessages     \* bound: messages sent by the peer

ASSUME BufferAssumption ==
  /\ BUFFER_SIZE \in Nat \ {0} /\ MaxMessages \in Nat
  /\ Lengths \subseteq Nat \ {0}
  /\ \A l \in Lengths : l <= BUFFER_SIZE \div 2

VARIABLES
  sent,             \* the peer's messages, [at |-> first byte, len |-> length]
  total,            \* number of bytes sent
  arrived,          \* bytes that have arrived in the kernel
  taken,            \* bytes read from the kernel
  peer_closed,      \* the peer has closed its end
  event,            \* the poll has a readiness event for the stream
  recv_buf, recv_begin, recv_end, stream_readable, buffer_readable,
  call,             \* where receive() is: "idle", "first" or "second" read(), "poll"
  phase,            \* where read() is: parsing the "buffer", reading the "stream",
                    \* parsing the "rest"
  got,              \* numbers of the messages receive() has returned (history)
  result            \* of the last receive(): "none", "msg" or "err"

streamVars == <<sent, total, arrived, taken, peer_closed, event>>
bufferVars == <<recv_buf, recv_begin, recv_end, stream_readable, buffer_readable>>
connectionVars == <<streamVars, bufferVars, call, phase, got, result>>

ConnectionInit ==
  /\ sent = << >> /\ total = 0 /\ arrived = 0 /\ taken = 0
  /\ peer_closed = FALSE /\ event = FALSE
  /\ recv_buf = [i \in 0 .. BUFFER_SIZE - 1 |-> 0]
  /\ recv_begin = 0 /\ recv_end = 0
  /\ stream_readable = FALSE /\ buffer_readable = FALSE
  /\ call = "idle" /\ phase = "buffer" /\ got = << >> /\ result = "none"

ConnectionTypeOK ==
  /\ sent \in Seq([at : Nat, len : Lengths])
  /\ total \in Nat /\ arrived \in Nat /\ taken \in Nat
  /\ peer_closed \in BOOLEAN /\ event \in BOOLEAN
  /\ recv_buf \in [0 .. BUFFER_SIZE - 1 -> Nat]
  /\ recv_begin \in 0 .. BUFFER_SIZE /\ recv_end \in 0 .. BUFFER_SIZE
  /\ stream_readable \in BOOLEAN /\ buffer_readable \in BOOLEAN
  /\ call \in {"idle", "first", "poll", "second"}
  /\ phase \in {"buffer", "stream", "rest"}
  /\ got \in Seq(Nat)
  /\ result \in {"none", "msg", "err"}

-----------------------------------------------------------------------------
(***************************************************************************)
(* The peer and the network.  Every arrival, and the end of the stream,    *)
(* makes the edge-triggered poll report the stream once more.              *)
(***************************************************************************)
PeerSends(len) ==
  /\ ~peer_closed /\ Len(sent) < MaxMessages
  /\ sent' = Append(sent, [at |-> total, len |-> len])
  /\ total' = total + len
  /\ UNCHANGED <<arrived, taken, peer_closed, event, bufferVars, call, phase, got, result>>

Arrive(n) ==
  /\ n \in 1 .. total - arrived
  /\ arrived' = arrived + n
  /\ event' = TRUE
  /\ UNCHANGED <<sent, total, taken, peer_closed, bufferVars, call, phase, got, result>>

Close ==
  /\ ~peer_closed /\ arrived = total
  /\ peer_closed' = TRUE
  /\ event' = TRUE
  /\ UNCHANGED <<sent, total, arrived, taken, bufferVars, call, phase, got, result>>

-----------------------------------------------------------------------------
(* try_decode: the slice begins with a complete message, number k.         *)
Decodes(k) ==
  /\ recv_end - recv_begin >= sent[k].len
  /\ \A i \in 0 .. sent[k].len - 1 : recv_buf[recv_begin + i] = sent[k].at + i

Parsable == \E k \in 1 .. Len(sent) : Decodes(k)

(* Mutant: the buffer is never shifted.                                    *)
ParseWithoutShift ==
  \E k \in 1 .. Len(sent) :
    /\ Decodes(k)
    /\ got' = Append(got, k)
    /\ recv_begin' = recv_begin + sent[k].len
    /\ UNCHANGED <<recv_buf, recv_end, stream_readable, buffer_readable>>

(* Mutant: the remaining bytes are not copied.                             *)
ParseWithoutCopy ==
  \E k \in 1 .. Len(sent) :
    LET begin     == recv_begin + sent[k].len
        remaining == recv_end - begin
    IN
    /\ Decodes(k)
    /\ got' = Append(got, k)
    /\ IF begin > BUFFER_SIZE \div 2
       THEN recv_end' = remaining /\ recv_begin' = 0
       ELSE recv_begin' = begin /\ UNCHANGED recv_end
    /\ UNCHANGED <<recv_buf, stream_readable, buffer_readable>>

(* Mutant: one message per readiness of the buffer.                        *)
ParseOnce ==
  \E k \in 1 .. Len(sent) :
    LET begin     == recv_begin + sent[k].len
        remaining == recv_end - begin
    IN
    /\ Decodes(k)
    /\ got' = Append(got, k)
    /\ IF begin > BUFFER_SIZE \div 2
       THEN /\ recv_buf' = [i \in 0 .. BUFFER_SIZE - 1 |->
                             IF i < remaining THEN recv_buf[begin + i] ELSE recv_buf[i]]
            /\ recv_end' = remaining /\ recv_begin' = 0
       ELSE recv_begin' = begin /\ UNCHANGED <<recv_buf, recv_end>>
    /\ buffer_readable' = FALSE /\ UNCHANGED stream_readable

(***************************************************************************)
(* parse_from_buffer, when there is a message: it is returned, and the     *)
(* rest is moved to the front once more than half of the buffer is used up.*)
(***************************************************************************)
Parse ==
  \E k \in 1 .. Len(sent) :
    LET begin     == recv_begin + sent[k].len
        remaining == recv_end - begin
    IN
    /\ Decodes(k)
    /\ got' = Append(got, k)
    /\ IF begin > BUFFER_SIZE \div 2
       THEN /\ recv_buf' = [i \in 0 .. BUFFER_SIZE - 1 |->
                             IF i < remaining THEN recv_buf[begin + i] ELSE recv_buf[i]]
            /\ recv_end' = remaining /\ recv_begin' = 0
       ELSE recv_begin' = begin /\ UNCHANGED <<recv_buf, recv_end>>
    /\ UNCHANGED <<stream_readable, buffer_readable>>

is_readable == stream_readable \/ buffer_readable

ReceiveReturns(r) == call' = "idle" /\ phase' = "buffer" /\ result' = r

(* read() found no message: poll, or return without a message although the *)
(* timeout has not elapsed.                                                *)
NoMessage ==
  IF call = "first" THEN call' = "poll" /\ phase' = "buffer" /\ UNCHANGED result
  ELSE ReceiveReturns("none")

-----------------------------------------------------------------------------
CallReceive ==
  /\ call = "idle"
  /\ call' = IF is_readable THEN "first" ELSE "poll"
  /\ UNCHANGED <<streamVars, bufferVars, phase, got, result>>

Reading == call \in {"first", "second"}

(* First look at the buffer; without a message there, at the stream.       *)
ParseBuffer ==
  /\ Reading /\ phase = "buffer"
  /\ IF buffer_readable /\ Parsable
     THEN Parse /\ ReceiveReturns("msg")
     ELSE /\ buffer_readable' = FALSE
          /\ IF stream_readable
             THEN phase' = "stream" /\ UNCHANGED <<call, result>>
             ELSE NoMessage
          /\ UNCHANGED <<recv_buf, recv_begin, recv_end, stream_readable, got>>
  /\ UNCHANGED streamVars

(* The slice of the buffer that the stream is read into.                   *)
Room == BUFFER_SIZE - recv_end

(* Mutant: a full buffer is taken for the end of the stream's data.        *)
ReadBytesAll(n) ==
  /\ Reading /\ phase = "stream"
  /\ taken < arrived /\ n \in 1 .. Room /\ n <= arrived - taken
  /\ recv_buf' = [i \in 0 .. BUFFER_SIZE - 1 |->
                   IF i \in recv_end .. recv_end + n - 1 THEN taken + (i - recv_end)
                   ELSE recv_buf[i]]
  /\ recv_end' = recv_end + n
  /\ taken' = taken + n
  /\ buffer_readable' = TRUE
  /\ phase' = IF recv_end' = BUFFER_SIZE THEN "rest" ELSE "stream"
  /\ stream_readable' = (recv_end' # BUFFER_SIZE)
  /\ UNCHANGED <<sent, total, arrived, peer_closed, event, recv_begin, call, got, result>>

(***************************************************************************)
(* One stream.read() of the loop in read_from_stream: it delivers bytes,   *)
(* would block, or returns 0, which it also does for an empty slice.       *)
(***************************************************************************)
ReadBytes(n) ==
  /\ Reading /\ phase = "stream"
  /\ taken < arrived /\ n \in 1 .. Room /\ n <= arrived - taken
  /\ recv_buf' = [i \in 0 .. BUFFER_SIZE - 1 |->
                   IF i \in recv_end .. recv_end + n - 1 THEN taken + (i - recv_end)
                   ELSE recv_buf[i]]
  /\ recv_end' = recv_end + n
  /\ taken' = taken + n
  /\ buffer_readable' = TRUE
  /\ phase' = IF recv_end' = BUFFER_SIZE THEN "rest" ELSE "stream"
  /\ UNCHANGED <<sent, total, arrived, peer_closed, event, recv_begin, stream_readable, call, got,
                 result>>

WouldBlock ==
  /\ Reading /\ phase = "stream"
  /\ taken = arrived /\ ~peer_closed /\ Room > 0
  /\ stream_readable' = FALSE
  /\ phase' = "rest"
  /\ UNCHANGED <<streamVars, recv_buf, recv_begin, recv_end, buffer_readable, call, got, result>>

ReadZero ==
  /\ Reading /\ phase = "stream"
  /\ Room = 0 \/ (taken = arrived /\ peer_closed)
  /\ ReceiveReturns("err")
  /\ UNCHANGED <<streamVars, bufferVars, got>>

ParseRest ==
  /\ Reading /\ phase = "rest"
  /\ IF buffer_readable /\ Parsable
     THEN Parse /\ ReceiveReturns("msg")
     ELSE /\ buffer_readable' = FALSE
          /\ NoMessage
          /\ UNCHANGED <<recv_buf, recv_begin, recv_end, stream_readable, got>>
  /\ UNCHANGED streamVars

(* The poll reports the stream if it has an event and is readable.         *)
Reported == event /\ (taken < arrived \/ peer_closed)

PollEvent ==
  /\ call = "poll" /\ Reported
  /\ event' = FALSE
  /\ stream_readable' = TRUE
  /\ call' = "second"
  /\ UNCHANGED <<sent, total, arrived, taken, peer_closed, recv_buf, recv_begin, recv_end,
                 buffer_readable, phase, got, result>>

(* The poll's timeout elapses without an event.                            *)
PollTimeout ==
  /\ call = "poll" /\ ~Reported
  /\ IF is_readable THEN call' = "second" /\ UNCHANGED <<phase, result>>
     ELSE ReceiveReturns("none")
  /\ UNCHANGED <<streamVars, bufferVars, got>>

ConnectionNext ==
  \/ \E len \in Lengths : PeerSends(len)
  \/ \E n \in 1 .. total - arrived : Arrive(n)
  \/ Close
  \/ CallReceive \/ ParseBuffer \/ WouldBlock \/ ReadZero \/ ParseRest
  \/ PollEvent \/ PollTimeout
  \/ \E n \in 1 .. Room : ReadBytes(n)

ConnectionSpec == ConnectionInit /\ [][ConnectionNext]_connectionVars

ReceiveStep ==
  \/ CallReceive \/ ParseBuffer \/ WouldBlock \/ ReadZero \/ ParseRest \/ PollEvent
  \/ PollTimeout
  \/ \E n \in 1 .. Room : ReadBytes(n)

(***************************************************************************)
(* The network delivers what is sent and the caller calls receive() over   *)
(* and over.                                                               *)
(***************************************************************************)
ConnectionFairSpec ==
  /\ ConnectionSpec
  /\ WF_connectionVars(\E n \in 1 .. total - arrived : Arrive(n))
  /\ WF_connectionVars(ReceiveStep)

-----------------------------------------------------------------------------
(* Where the next message to be returned begins in the stream.             *)
Consumed == IF Len(got) < Len(sent) THEN sent[Len(got) + 1].at ELSE total

(* The messages follow one another without a gap.                          *)
Contiguous ==
  /\ \A k \in 1 .. Len(sent) :
       /\ sent[k].at + sent[k].len <= total
       /\ \A j \in 1 .. k - 1 : sent[j].at + sent[j].len <= sent[k].at
  /\ \A k \in 1 .. Len(sent) - 1 : sent[k].at + sent[k].len = sent[k + 1].at
  /\ Len(sent) > 0 => /\ sent[1].at = 0
                      /\ sent[Len(sent)].at + sent[Len(sent)].len = total
  /\ Len(sent) = 0 => total = 0

(* The buffer holds the bytes between what is consumed and what is taken.  *)
BufferIntact ==
  /\ taken <= arrived /\ arrived <= total
  /\ recv_begin <= recv_end /\ recv_begin <= BUFFER_SIZE \div 2
  /\ taken = Consumed + (recv_end - recv_begin)
  /\ \A i \in recv_begin .. recv_end - 1 : recv_buf[i] = Consumed + (i - recv_begin)

(***************************************************************************)
(* Messages are returned exactly once and in the order sent, however the   *)
(* bytes arrive and wherever the receive buffer wraps (parse_from_buffer,  *)
(* shift_buffer).                                                          *)
(***************************************************************************)
InOrder == \A i \in 1 .. Len(got) : got[i] = i

(***************************************************************************)
(* receive() reports a reset only if the peer has closed the stream.  The  *)
(* code takes every read of 0 bytes for the end of the stream, which it    *)
(* also is for an empty slice: the stream must never be read into a full   *)
(* buffer (read_from_stream).                                              *)
(***************************************************************************)
NoFalseReset ==
  /\ phase = "stream" => Room > 0
  /\ result = "err" => peer_closed

(***************************************************************************)
(* No wakeup is lost: whatever the caller has not got is known, as bytes   *)
(* of the stream by a flag or an event to come, and as a message in the    *)
(* buffer by its flag.                                                     *)
(***************************************************************************)
NoLostWakeup ==
  /\ taken < arrived \/ peer_closed => stream_readable \/ event
  /\ Parsable => buffer_readable

(***************************************************************************)
(* The inductive invariant of the receive path: the buffer always holds    *)
(* the unparsed bytes in order, begins in its first half, and is only read *)
(* into while it has room.                                                 *)
(***************************************************************************)
ReceiveInv ==
  /\ ConnectionTypeOK
  /\ Len(got) <= Len(sent) /\ InOrder
  /\ Contiguous /\ BufferIntact /\ NoFalseReset /\ NoLostWakeup

(***************************************************************************)
(* Every message sent is returned by a later receive(), also if the peer   *)
(* closes the stream behind it.                                            *)
(***************************************************************************)
Delivered == \A k \in 1 .. MaxMessages : Len(sent) >= k ~> Len(got) >= k

=============================================================================
