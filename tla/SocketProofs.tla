----------------------------- MODULE SocketProofs -----------------------------
(***************************************************************************)
(* Signalling over sockets.  First the receive path of one end: it is      *)
(* correct for every buffer size that holds two messages, all message      *)
(* lengths and every way in which the bytes arrive.  Then the connector of *)
(* direct socket signalling, over sockets that carry whole messages, for   *)
(* any number of workers, activities and connections, however often        *)
(* workers die and come back.                                              *)
(***************************************************************************)
EXTENDS Connection, DirectConnect, SequenceTheorems, TLAPS

-----------------------------------------------------------------------------
(* SocketClient::receive over Connection::read                             *)

LEMMA HalfFacts ==
  /\ BUFFER_SIZE \in Nat /\ BUFFER_SIZE > 0
  /\ BUFFER_SIZE \div 2 \in Nat
  /\ (BUFFER_SIZE \div 2) * 2 <= BUFFER_SIZE
  /\ \A l \in Lengths : l \in Nat /\ l >= 1 /\ l <= BUFFER_SIZE \div 2
  BY BufferAssumption

(* The types of the numbers the arguments below calculate with.            *)
LEMMA Numbers ==
  ASSUME ReceiveInv
  PROVE  /\ Len(sent) \in Nat /\ Len(got) \in Nat /\ total \in Nat
         /\ \A k \in 1 .. Len(sent) : sent[k].at \in Nat /\ sent[k].len \in Lengths
         /\ \A k \in 1 .. Len(sent) : sent[k].len \in Nat /\ sent[k].len >= 1
         /\ Consumed \in Nat
         /\ recv_begin \in Nat /\ recv_end \in Nat /\ taken \in Nat /\ arrived \in Nat
         /\ recv_end <= BUFFER_SIZE
  <1>1. Len(sent) \in Nat /\ Len(got) \in Nat /\ total \in Nat
    BY DEF ReceiveInv, ConnectionTypeOK
  <1>2. ASSUME NEW k \in 1 .. Len(sent) PROVE sent[k].at \in Nat /\ sent[k].len \in Lengths
    <2>1. sent \in Seq([at : Nat, len : Lengths])
      BY DEF ReceiveInv, ConnectionTypeOK
    <2>2. sent[k] \in [at : Nat, len : Lengths]
      BY <2>1, ElementOfSeq
    <2>. QED  BY <2>2
  <1>3. Consumed \in Nat
    BY <1>1, <1>2 DEF Consumed
  <1>. QED  BY <1>1, <1>2, <1>3, HalfFacts DEF ReceiveInv, ConnectionTypeOK

(* Only the next message can be parsed ...                                 *)
LEMMA DecodesNext ==
  ASSUME ReceiveInv, NEW k \in 1 .. Len(sent), Decodes(k)
  PROVE  k = Len(got) + 1 /\ Len(got) < Len(sent)
  <1>. DEFINE l == sent[k].len
  <1>1. l \in Nat /\ l >= 1 /\ sent[k].at \in Nat
    BY Numbers
  <1>2. recv_end - recv_begin >= l
        /\ \A i \in 0 .. l - 1 : recv_buf[recv_begin + i] = sent[k].at + i
    BY DEF Decodes
  <1>3. recv_buf[recv_begin + 0] = sent[k].at + 0
    BY <1>1, <1>2
  <1>4. recv_buf[recv_begin] = Consumed
    <2>1. recv_begin \in recv_begin .. recv_end - 1
      BY <1>1, <1>2, Numbers
    <2>2. recv_buf[recv_begin] = Consumed + (recv_begin - recv_begin)
      BY <2>1 DEF ReceiveInv, BufferIntact
    <2>. QED  BY <2>2, Numbers
  <1>5. Len(got) < Len(sent)
    BY <1>1, <1>2, Numbers DEF ReceiveInv, BufferIntact, Consumed
  <1>6. sent[k].at = sent[Len(got) + 1].at
    BY <1>1, <1>3, <1>4, <1>5, Numbers DEF Consumed
  <1>7. Len(got) + 1 \in 1 .. Len(sent)
    BY <1>5, Numbers
  <1>8. \A j, m \in 1 .. Len(sent) : j < m => sent[j].at < sent[m].at
    <2>1. \A m \in 1 .. Len(sent) : \A j \in 1 .. m - 1 : sent[j].at + sent[j].len <= sent[m].at
      BY DEF ReceiveInv, Contiguous
    <2>2. SUFFICES ASSUME NEW j \in 1 .. Len(sent), NEW m \in 1 .. Len(sent), j < m
                   PROVE  sent[j].at < sent[m].at
      OBVIOUS
    <2>3. j \in 1 .. m - 1
      BY <2>2, Numbers
    <2>4. sent[j].at + sent[j].len <= sent[m].at
      BY <2>1, <2>3
    <2>5. sent[j].at \in Nat /\ sent[m].at \in Nat /\ sent[j].len \in Nat /\ sent[j].len >= 1
      BY Numbers
    <2>. QED  BY <2>4, <2>5
  <1>. QED  BY <1>5, <1>6, <1>7, <1>8, Numbers

(* ... and it can be parsed as soon as it is complete.                     *)
LEMMA CompleteDecodes ==
  ASSUME ReceiveInv, Len(got) < Len(sent), recv_end - recv_begin >= sent[Len(got) + 1].len
  PROVE  Decodes(Len(got) + 1)
  <1>1. Len(got) + 1 \in 1 .. Len(sent)
    BY Numbers
  <1>2. ASSUME NEW i \in 0 .. sent[Len(got) + 1].len - 1
        PROVE  recv_buf[recv_begin + i] = sent[Len(got) + 1].at + i
    <2>1. recv_begin + i \in recv_begin .. recv_end - 1
      BY SMTT(30), <1>1, Numbers
    <2>2. recv_buf[recv_begin + i] = Consumed + ((recv_begin + i) - recv_begin)
      BY <2>1 DEF ReceiveInv, BufferIntact
    <2>. QED  BY <1>1, <2>2, Numbers DEF Consumed
  <1>. QED  BY <1>2 DEF Decodes

(* A buffer without a complete message has room.                           *)
LEMMA UnparsableHasRoom ==
  ASSUME ReceiveInv, ~Parsable
  PROVE  recv_end < BUFFER_SIZE
  <1>. SUFFICES ASSUME recv_end >= BUFFER_SIZE PROVE FALSE
    BY Numbers, HalfFacts
  <1>. DEFINE H == BUFFER_SIZE \div 2
  <1>1. recv_end - recv_begin >= H /\ recv_end - recv_begin >= 1
    <2>1. recv_begin <= H
      BY DEF ReceiveInv, BufferIntact
    <2>. HIDE DEF H
    <2>2. H \in Nat /\ H * 2 <= BUFFER_SIZE /\ BUFFER_SIZE > 0
      BY HalfFacts DEF H
    <2>. QED  BY <2>1, <2>2, Numbers, HalfFacts
  <1>2. Len(got) < Len(sent)
    BY <1>1, Numbers DEF ReceiveInv, BufferIntact, Consumed
  <1>3. sent[Len(got) + 1].len <= H
    <2>1. Len(got) + 1 \in 1 .. Len(sent)
      BY <1>2, Numbers
    <2>. QED  BY <2>1, Numbers, HalfFacts
  <1>4. Decodes(Len(got) + 1)
    <2>1. sent[Len(got) + 1].len \in Nat /\ recv_end \in Nat /\ recv_begin \in Nat /\ H \in Nat
      BY <1>2, Numbers, HalfFacts
    <2>. HIDE DEF H
    <2>2. recv_end - recv_begin >= sent[Len(got) + 1].len
      BY <1>1, <1>3, <2>1
    <2>. QED  BY <1>2, <2>2, CompleteDecodes
  <1>. QED  BY <1>2, <1>4, Numbers DEF Parsable

-----------------------------------------------------------------------------
(* What does not touch the messages and the buffer leaves their invariant. *)
LEMMA BufferUntouched ==
  ASSUME ReceiveInv, ConnectionTypeOK',
         UNCHANGED <<sent, total, taken, recv_buf, recv_begin, recv_end, got>>,
         arrived <= arrived', arrived' <= total,
         NoFalseReset',
         taken < arrived' \/ peer_closed' => stream_readable' \/ event',
         Parsable => buffer_readable'
  PROVE  ReceiveInv'
  <1>1. Len(got') <= Len(sent') /\ InOrder' /\ Contiguous'
    BY DEF ReceiveInv, InOrder, Contiguous
  <1>2. Consumed' = Consumed
    BY DEF Consumed
  <1>3. BufferIntact'
    <2>1. arrived' \in Nat
      BY DEF ConnectionTypeOK
    <2>. QED  BY <1>2, <2>1, Numbers DEF ReceiveInv, BufferIntact
  <1>4. Parsable' <=> Parsable
    BY DEF Parsable, Decodes
  <1>. QED  BY <1>1, <1>3, <1>4 DEF ReceiveInv, NoLostWakeup

LEMMA ReceiveInitially == ConnectionInit => ReceiveInv
  <1>. SUFFICES ASSUME ConnectionInit PROVE ReceiveInv
    OBVIOUS
  <1>1. sent = << >> /\ got = << >> /\ total = 0 /\ Len(sent) = 0 /\ Len(got) = 0
    BY DEF ConnectionInit
  <1>2. ConnectionTypeOK
    <2>1. sent \in Seq([at : Nat, len : Lengths]) /\ got \in Seq(Nat)
      BY <1>1, EmptySeq
    <2>2. recv_buf \in [0 .. BUFFER_SIZE - 1 -> Nat]
      BY DEF ConnectionInit
    <2>3. 0 \in 0 .. BUFFER_SIZE /\ 0 \in Nat
      BY HalfFacts
    <2>4. recv_begin \in 0 .. BUFFER_SIZE /\ recv_end \in 0 .. BUFFER_SIZE
      BY <2>3 DEF ConnectionInit
    <2>. QED  BY <2>1, <2>2, <2>3, <2>4 DEF ConnectionInit, ConnectionTypeOK
  <1>3. InOrder /\ Contiguous
    BY <1>1 DEF InOrder, Contiguous
  <1>4. BufferIntact
    BY <1>1, HalfFacts DEF ConnectionInit, BufferIntact, Consumed
  <1>5. NoFalseReset /\ NoLostWakeup
    BY <1>1 DEF ConnectionInit, NoFalseReset, NoLostWakeup, Parsable
  <1>. QED  BY <1>1, <1>2, <1>3, <1>4, <1>5 DEF ReceiveInv

(* A message sent starts where the stream ended and cannot be parsed yet.  *)
LEMMA PeerSendsStep ==
  ASSUME ReceiveInv, NEW len \in Lengths, PeerSends(len)
  PROVE  ReceiveInv'
  <1>. DEFINE m == [at |-> total, len |-> len]
              L == Len(sent)
  <1>1. m \in [at : Nat, len : Lengths] /\ sent \in Seq([at : Nat, len : Lengths])
    BY DEF ReceiveInv, ConnectionTypeOK
  <1>2. sent' = Append(sent, m) /\ total' = total + len
    BY DEF PeerSends
  <1>3. /\ sent' \in Seq([at : Nat, len : Lengths]) /\ Len(sent') = L + 1
        /\ \A k \in 1 .. L : sent'[k] = sent[k]
        /\ sent'[L + 1] = m
    BY <1>1, <1>2, AppendProperties
  <1>4. len \in Nat /\ len >= 1 /\ total \in Nat /\ L \in Nat /\ Len(got) \in Nat
    BY Numbers, HalfFacts
  <1>5. ConnectionTypeOK'
    BY <1>2, <1>3, <1>4 DEF PeerSends, ReceiveInv, ConnectionTypeOK, bufferVars
  <1>6. Len(got') <= Len(sent') /\ InOrder'
    BY <1>3, <1>4 DEF PeerSends, ReceiveInv, InOrder
  <1>7. Contiguous'
    <2>1. /\ \A k \in 1 .. L : sent[k].at \in Nat /\ sent[k].len \in Nat
          /\ \A k \in 1 .. L : sent[k].at + sent[k].len <= total
          /\ \A k \in 1 .. L : \A j \in 1 .. k - 1 : sent[j].at + sent[j].len <= sent[k].at
          /\ \A k \in 1 .. L - 1 : sent[k].at + sent[k].len = sent[k + 1].at
          /\ L > 0 => /\ sent[1].at = 0 /\ sent[L].at + sent[L].len = total
          /\ L = 0 => total = 0
      BY Numbers DEF ReceiveInv, Contiguous
    <2>2. sent'[L + 1].at = total /\ sent'[L + 1].len = len
      BY <1>3
    <2>3. ASSUME NEW k \in 1 .. L + 1
          PROVE  /\ sent'[k].at + sent'[k].len <= total'
                 /\ \A j \in 1 .. k - 1 : sent'[j].at + sent'[j].len <= sent'[k].at
      <3>1. CASE k \in 1 .. L
        BY SMTT(30), <1>2, <1>3, <1>4, <2>1, <3>1
      <3>2. CASE k = L + 1
        BY <1>2, <1>3, <1>4, <2>1, <2>2, <3>2
      <3>. QED  BY <1>4, <3>1, <3>2
    <2>4. ASSUME NEW k \in 1 .. L PROVE sent'[k].at + sent'[k].len = sent'[k + 1].at
      <3>1. CASE k \in 1 .. L - 1
        <4>1. k \in 1 .. L /\ k + 1 \in 1 .. L
          BY <1>4, <3>1
        <4>. QED  BY <1>3, <2>1, <3>1, <4>1
      <3>2. CASE k = L
        BY <1>3, <1>4, <2>1, <2>2, <3>2
      <3>. QED  BY <1>4, <3>1, <3>2
    <2>5. sent'[1].at = 0
      BY <1>3, <1>4, <2>1, <2>2
    <2>6. sent'[L + 1].at + sent'[L + 1].len = total'
      BY <1>2, <2>2
    <2>7. Len(sent') - 1 = L
      BY <1>3, <1>4
    <2>. QED  BY <1>3, <1>4, <2>3, <2>4, <2>5, <2>6, <2>7 DEF Contiguous
  <1>8. Consumed' = Consumed
    BY <1>2, <1>3, <1>4, Numbers DEF PeerSends, Consumed, ReceiveInv
  <1>9. BufferIntact'
    BY <1>2, <1>4, <1>8, Numbers DEF PeerSends, bufferVars, ReceiveInv, BufferIntact
  <1>10. NoFalseReset'
    BY DEF PeerSends, bufferVars, ReceiveInv, NoFalseReset, Room
  <1>11. NoLostWakeup'
    <2>1. ASSUME NEW k, k = L + 1, Decodes(k)' PROVE FALSE
      <3>1. recv_end - recv_begin >= len /\ \A i \in 0 .. len - 1 : recv_buf[recv_begin + i] = total + i
        BY <1>3, <2>1 DEF Decodes, PeerSends, bufferVars
      <3>2. recv_begin \in recv_begin .. recv_end - 1 /\ 0 \in 0 .. len - 1
        BY <1>4, <3>1, Numbers
      <3>3. recv_buf[recv_begin] = Consumed
        BY <3>2, Numbers DEF ReceiveInv, BufferIntact
      <3>4. recv_buf[recv_begin] = total
        BY <3>1, <3>2, <1>4, Numbers
      <3>. QED  BY <1>4, <3>1, <3>3, <3>4, Numbers DEF ReceiveInv, BufferIntact
    <2>2. ASSUME NEW k \in 1 .. L, Decodes(k)' PROVE Decodes(k)
      BY <1>3, <2>2 DEF Decodes, PeerSends, bufferVars
    <2>3. Parsable' => Parsable
      <3>1. SUFFICES ASSUME NEW k \in 1 .. L + 1, Decodes(k)' PROVE Parsable
        BY <1>3 DEF Parsable
      <3>2. k \in 1 .. L
        BY <1>4, <2>1, <3>1
      <3>. QED  BY <2>2, <3>1, <3>2 DEF Parsable
    <2>. QED  BY <2>3 DEF ReceiveInv, NoLostWakeup, PeerSends, bufferVars
  <1>. QED  BY <1>5, <1>6, <1>7, <1>9, <1>10, <1>11 DEF ReceiveInv

(***************************************************************************)
(* The next message leaves the buffer; what remains is kept, shifted or    *)
(* not.                                                                    *)
(***************************************************************************)
LEMMA ParseStep ==
  ASSUME ReceiveInv, Parse, buffer_readable, UNCHANGED streamVars, ReceiveReturns("msg")
  PROVE  ReceiveInv'
  <1>1. PICK k \in 1 .. Len(sent) :
          LET begin == recv_begin + sent[k].len  remaining == recv_end - begin
          IN /\ Decodes(k)
             /\ got' = Append(got, k)
             /\ IF begin > BUFFER_SIZE \div 2
                THEN /\ recv_buf' = [i \in 0 .. BUFFER_SIZE - 1 |->
                              IF i < remaining THEN recv_buf[begin + i] ELSE recv_buf[i]]
                     /\ recv_end' = remaining /\ recv_begin' = 0
                ELSE recv_begin' = begin /\ UNCHANGED <<recv_buf, recv_end>>
             /\ UNCHANGED <<stream_readable, buffer_readable>>
    BY DEF Parse
  <1>2. PICK l \in Nat : l = sent[k].len /\ l >= 1 /\ l <= BUFFER_SIZE \div 2
    <2>1. sent[k].len \in Lengths
      BY Numbers
    <2>. QED  BY <2>1, HalfFacts
  <1>3. PICK h \in Nat : h = BUFFER_SIZE \div 2 /\ h <= BUFFER_SIZE
    BY HalfFacts
  <1>4. /\ recv_begin \in Nat /\ recv_end \in Nat /\ taken \in Nat /\ Consumed \in Nat
         /\ BUFFER_SIZE \in Nat /\ recv_end <= BUFFER_SIZE
    BY Numbers, HalfFacts
  <1>. DEFINE begin == recv_begin + l
              remaining == recv_end - begin
  <1>5. k = Len(got) + 1 /\ Len(got) < Len(sent)
    BY <1>1, DecodesNext
  <1>6. /\ sent' = sent /\ total' = total /\ arrived' = arrived /\ taken' = taken
        /\ peer_closed' = peer_closed /\ event' = event
        /\ phase' = "buffer" /\ call' = "idle" /\ result' = "msg"
    BY DEF streamVars, ReceiveReturns
  <1>7. got' \in Seq(Nat) /\ Len(got') = Len(got) + 1 /\ got'[Len(got) + 1] = k
        /\ \A i \in 1 .. Len(got) : got'[i] = got[i]
    <2>1. got \in Seq(Nat) /\ k \in Nat
      BY Numbers DEF ReceiveInv, ConnectionTypeOK
    <2>. QED  BY <1>1, <2>1, AppendProperties
  <1>8. /\ recv_end - recv_begin >= l /\ begin \in Nat /\ recv_begin <= begin
        /\ remaining \in Nat /\ remaining <= recv_end /\ begin <= recv_end
    <2>1. recv_end - recv_begin >= l
      BY <1>1, <1>2 DEF Decodes
    <2>. QED  BY <1>4, <2>1
  <1>9. InOrder'
    <2>1. \A i \in 1 .. Len(got) : got[i] = i
      BY DEF ReceiveInv, InOrder
    <2>2. Len(got) \in Nat
      BY Numbers
    <2>. QED  BY <1>5, <1>7, <2>1, <2>2 DEF InOrder
  <1>10. Consumed = sent[k].at
    BY <1>5 DEF Consumed
  <1>11. Consumed' = Consumed + l
    <2>1. CASE k < Len(sent)
      <3>1. sent[k].at + sent[k].len = sent[k + 1].at
        BY <2>1, Numbers DEF ReceiveInv, Contiguous
      <3>2. Consumed' = sent[k + 1].at
        BY <1>5, <1>6, <1>7, <2>1, Numbers DEF Consumed
      <3>. QED  BY <1>10, <1>2, <3>1, <3>2
    <2>2. CASE k = Len(sent)
      <3>1. sent[k].at + sent[k].len = total
        BY <2>2, Numbers DEF ReceiveInv, Contiguous
      <3>2. Consumed' = total
        BY <1>5, <1>6, <1>7, <2>2, Numbers DEF Consumed
      <3>. QED  BY <1>10, <1>2, <3>1, <3>2
    <2>. QED  BY <2>1, <2>2, Numbers
  <1>12. /\ taken = Consumed + (recv_end - recv_begin)
        /\ taken <= arrived /\ arrived <= total /\ recv_begin <= recv_end
        /\ \A i \in recv_begin .. recv_end - 1 : recv_buf[i] = Consumed + (i - recv_begin)
    BY DEF ReceiveInv, BufferIntact
  <1>13. recv_buf \in [0 .. BUFFER_SIZE - 1 -> Nat]
    BY DEF ReceiveInv, ConnectionTypeOK
  <1>14. /\ BufferIntact'
         /\ recv_begin' \in 0 .. BUFFER_SIZE /\ recv_end' \in 0 .. BUFFER_SIZE
         /\ recv_buf' \in [0 .. BUFFER_SIZE - 1 -> Nat]
    <2>1. CASE begin > h
      <3>1. /\ recv_buf' = [i \in 0 .. BUFFER_SIZE - 1 |->
                              IF i < remaining THEN recv_buf[begin + i] ELSE recv_buf[i]]
            /\ recv_end' = remaining /\ recv_begin' = 0
        BY <1>1, <1>2, <1>3, <2>1
      <3>. HIDE DEF remaining, begin
      <3>2. \A i \in 0 .. remaining - 1 : begin + i \in recv_begin .. recv_end - 1
        BY <1>8, <1>4 DEF remaining, begin
      <3>3. \A i \in 0 .. remaining - 1 : i \in 0 .. BUFFER_SIZE - 1 /\ begin + i \in 0 .. BUFFER_SIZE - 1
        BY <1>8, <1>4, <3>2
      <3>4. \A i \in 0 .. remaining - 1 : recv_buf'[i] = Consumed + ((begin + i) - recv_begin)
        BY <1>8, <1>12, <3>1, <3>2, <3>3
      <3>5. \A i \in 0 .. remaining - 1 : recv_buf'[i] = Consumed' + (i - 0)
        BY <1>8, <1>11, <1>4, <3>4 DEF begin
      <3>6. taken' = Consumed' + (remaining - 0)
        BY <1>6, <1>8, <1>11, <1>12, <1>4 DEF begin, remaining
      <3>7. 0 <= remaining /\ 0 <= h /\ remaining <= BUFFER_SIZE
        BY <1>8, <1>4
      <3>8. BufferIntact'
        BY <1>6, <1>12, <1>3, <3>1, <3>5, <3>6, <3>7 DEF BufferIntact
      <3>9. recv_buf' \in [0 .. BUFFER_SIZE - 1 -> Nat]
        <4>1. \A i \in 0 .. BUFFER_SIZE - 1 : i < remaining => i \in 0 .. remaining - 1
          BY <1>8, <1>4
        <4>2. \A i \in 0 .. BUFFER_SIZE - 1 :
                (IF i < remaining THEN recv_buf[begin + i] ELSE recv_buf[i]) \in Nat
          BY <1>13, <3>3, <4>1
        <4>. QED  BY <3>1, <4>2
      <3>. QED  BY <1>8, <1>4, <3>1, <3>7, <3>8, <3>9
    <2>2. CASE ~(begin > h)
      <3>1. recv_begin' = begin /\ recv_buf' = recv_buf /\ recv_end' = recv_end
        BY <1>1, <1>2, <1>3, <2>2
      <3>2. \A i \in begin .. recv_end - 1 : i \in recv_begin .. recv_end - 1
        BY <1>8, <1>4
      <3>3. \A i \in begin .. recv_end - 1 : recv_buf[i] = Consumed' + (i - begin)
        BY <1>8, <1>11, <1>12, <1>4, <3>2
      <3>4. taken' = Consumed' + (recv_end - begin)
        BY <1>6, <1>8, <1>11, <1>12, <1>4
      <3>5. begin <= h /\ begin <= recv_end /\ begin \in 0 .. BUFFER_SIZE
        BY <1>8, <1>4, <2>2
      <3>6. BufferIntact'
        BY <1>6, <1>12, <1>3, <3>1, <3>3, <3>4, <3>5 DEF BufferIntact
      <3>. QED  BY <1>13, <3>1, <3>5, <3>6 DEF ReceiveInv, ConnectionTypeOK
    <2>. QED  BY <2>1, <2>2
  <1>15. ConnectionTypeOK'
    BY <1>1, <1>6, <1>7, <1>14 DEF ReceiveInv, ConnectionTypeOK
  <1>16. Contiguous'
    BY <1>6 DEF ReceiveInv, Contiguous
  <1>17. NoFalseReset' /\ NoLostWakeup'
    BY <1>1, <1>6 DEF ReceiveInv, NoFalseReset, NoLostWakeup
  <1>18. Len(got') <= Len(sent')
    BY <1>5, <1>6, <1>7, Numbers
  <1>. QED  BY <1>9, <1>14, <1>15, <1>16, <1>17, <1>18 DEF ReceiveInv

(* Bytes read from the stream are appended to those in the buffer.         *)
LEMMA ReadStep ==
  ASSUME ReceiveInv, NEW n \in 1 .. Room, ReadBytes(n)
  PROVE  ReceiveInv'
  <1>1. /\ recv_begin \in Nat /\ recv_end \in Nat /\ taken \in Nat /\ Consumed \in Nat
        /\ BUFFER_SIZE \in Nat /\ arrived \in Nat /\ recv_end <= BUFFER_SIZE
    BY Numbers, HalfFacts
  <1>2. n \in Nat /\ n >= 1 /\ recv_end + n <= BUFFER_SIZE /\ taken + n <= arrived
    BY <1>1 DEF ReadBytes, Room
  <1>3. /\ sent' = sent /\ total' = total /\ arrived' = arrived /\ peer_closed' = peer_closed
        /\ event' = event /\ recv_begin' = recv_begin /\ got' = got
        /\ call' = call /\ result' = result /\ stream_readable' = stream_readable
        /\ recv_end' = recv_end + n /\ taken' = taken + n /\ buffer_readable' = TRUE
        /\ recv_buf' = [i \in 0 .. BUFFER_SIZE - 1 |->
                         IF i \in recv_end .. recv_end + n - 1 THEN taken + (i - recv_end)
                         ELSE recv_buf[i]]
        /\ phase' = IF recv_end' = BUFFER_SIZE THEN "rest" ELSE "stream"
    BY DEF ReadBytes
  <1>4. Consumed' = Consumed
    BY <1>3 DEF Consumed
  <1>5. /\ taken = Consumed + (recv_end - recv_begin)
        /\ arrived <= total /\ recv_begin <= recv_end /\ recv_begin <= BUFFER_SIZE \div 2
        /\ \A i \in recv_begin .. recv_end - 1 : recv_buf[i] = Consumed + (i - recv_begin)
    BY DEF ReceiveInv, BufferIntact
  <1>6. \A i \in recv_begin .. recv_end + n - 1 : recv_buf'[i] = Consumed + (i - recv_begin)
    <2>. SUFFICES ASSUME NEW i \in recv_begin .. recv_end + n - 1
                  PROVE  recv_buf'[i] = Consumed + (i - recv_begin)
      OBVIOUS
    <2>1. i \in 0 .. BUFFER_SIZE - 1
      BY <1>1, <1>2
    <2>2. CASE i \in recv_end .. recv_end + n - 1
      <3>1. recv_buf'[i] = taken + (i - recv_end)
        BY <1>3, <2>1, <2>2
      <3>2. i \in Int
        BY <1>1
      <3>. QED  BY <1>1, <1>5, <3>1, <3>2
    <2>3. CASE i \in recv_begin .. recv_end - 1
      <3>1. i \notin recv_end .. recv_end + n - 1
        BY <1>1, <2>3
      <3>. QED  BY <1>3, <1>5, <2>1, <2>3, <3>1
    <2>. QED  BY <1>1, <1>2, <2>2, <2>3
  <1>7. BufferIntact'
    <2>1. taken' = Consumed' + (recv_end' - recv_begin')
      BY <1>1, <1>2, <1>3, <1>4, <1>5
    <2>2. recv_begin' <= recv_end' /\ taken' <= arrived'
      BY <1>1, <1>2, <1>3, <1>5
    <2>3. \A i \in recv_begin' .. recv_end' - 1 : recv_buf'[i] = Consumed' + (i - recv_begin')
      <3>1. recv_begin' = recv_begin /\ recv_end' = recv_end + n
        BY <1>3
      <3>2. SUFFICES ASSUME NEW i \in recv_begin' .. recv_end' - 1
                     PROVE  recv_buf'[i] = Consumed' + (i - recv_begin')
        OBVIOUS
      <3>3. i \in recv_begin .. recv_end + n - 1
        BY <1>1, <1>2, <3>1
      <3>4. recv_buf'[i] = Consumed + (i - recv_begin)
        BY <1>6, <3>3
      <3>. QED  BY <1>4, <3>1, <3>4
    <2>. QED  BY <1>3, <1>5, <2>1, <2>2, <2>3 DEF BufferIntact
  <1>8. ConnectionTypeOK'
    <2>1. recv_buf' \in [0 .. BUFFER_SIZE - 1 -> Nat]
      <3>1. \A i \in 0 .. BUFFER_SIZE - 1 :
              i \in recv_end .. recv_end + n - 1 => taken + (i - recv_end) \in Nat
        BY <1>1
      <3>. QED  BY <1>3, <3>1 DEF ReceiveInv, ConnectionTypeOK
    <2>2. recv_end' \in 0 .. BUFFER_SIZE /\ taken' \in Nat
      BY <1>1, <1>2, <1>3
    <2>3. phase' \in {"buffer", "stream", "rest"}
      BY <1>3
    <2>. QED  BY <1>3, <2>1, <2>2, <2>3 DEF ReceiveInv, ConnectionTypeOK
  <1>9. NoFalseReset'
    <2>1. phase' = "stream" => recv_end' # BUFFER_SIZE
      BY <1>3
    <2>2. result' = "err" => peer_closed'
      BY <1>3 DEF ReceiveInv, NoFalseReset
    <2>. QED  BY <1>1, <1>2, <1>3, <2>1, <2>2 DEF NoFalseReset, Room
  <1>10. NoLostWakeup'
    <2>1. taken' < arrived' => taken < arrived
      BY <1>1, <1>2, <1>3
    <2>. QED  BY <1>3, <2>1 DEF ReceiveInv, NoLostWakeup
  <1>11. Len(got') <= Len(sent') /\ InOrder' /\ Contiguous'
    BY <1>3 DEF ReceiveInv, InOrder, Contiguous
  <1>. QED  BY <1>7, <1>8, <1>9, <1>10, <1>11 DEF ReceiveInv

-----------------------------------------------------------------------------
LEMMA ReceiveStepInvariant == ReceiveInv /\ [ConnectionNext]_connectionVars => ReceiveInv'
  <1>. SUFFICES ASSUME ReceiveInv, [ConnectionNext]_connectionVars PROVE ReceiveInv'
    OBVIOUS
  <1>1. /\ arrived \in Nat /\ total \in Nat /\ taken \in Nat
        /\ taken <= arrived /\ arrived <= total
    BY Numbers DEF ReceiveInv, BufferIntact
  <1>2. arrived <= arrived
    BY <1>1
  <1>. DEFINE Quiet == /\ UNCHANGED <<sent, total, taken, recv_buf, recv_begin, recv_end, got>>
  <1>3. ASSUME NEW len \in Lengths, PeerSends(len) PROVE ReceiveInv'
    BY <1>3, PeerSendsStep
  <1>4. ASSUME NEW n \in 1 .. total - arrived, Arrive(n) PROVE ReceiveInv'
    <2>1. arrived' = arrived + n /\ event' = TRUE /\ Quiet /\ UNCHANGED <<peer_closed, call, phase, result,
             stream_readable, buffer_readable>>
      BY <1>4 DEF Arrive, bufferVars
    <2>2. arrived' \in Nat /\ arrived <= arrived' /\ arrived' <= total
      BY <1>1, <2>1
    <2>3. ConnectionTypeOK' /\ NoFalseReset' /\ (Parsable => buffer_readable')
      BY <2>1, <2>2 DEF ReceiveInv, ConnectionTypeOK, NoFalseReset, Room, NoLostWakeup
    <2>. QED  BY <2>1, <2>2, <2>3, BufferUntouched
  <1>5. CASE Close
    <2>1. event' = TRUE /\ peer_closed' = TRUE /\ Quiet /\ UNCHANGED <<arrived, call, phase, result,
             stream_readable, buffer_readable>>
      BY <1>5 DEF Close, bufferVars
    <2>2. ConnectionTypeOK' /\ NoFalseReset' /\ (Parsable => buffer_readable')
      BY <2>1 DEF ReceiveInv, ConnectionTypeOK, NoFalseReset, Room, NoLostWakeup
    <2>. QED  BY <1>1, <1>2, <2>1, <2>2, BufferUntouched
  <1>6. CASE CallReceive
    <2>1. Quiet /\ UNCHANGED <<arrived, peer_closed, event, phase, result, stream_readable,
                                  buffer_readable>>
          /\ call' \in {"first", "poll"}
      BY <1>6 DEF CallReceive, bufferVars, streamVars
    <2>2. ConnectionTypeOK' /\ NoFalseReset'
      BY <2>1 DEF ReceiveInv, ConnectionTypeOK, NoFalseReset, Room
    <2>3. (taken < arrived' \/ peer_closed' => stream_readable' \/ event') /\ (Parsable => buffer_readable')
      BY <2>1 DEF ReceiveInv, NoLostWakeup
    <2>. QED  BY <1>1, <1>2, <2>1, <2>2, <2>3, BufferUntouched
  <1>7. CASE ParseBuffer
    <2>1. CASE buffer_readable /\ Parsable
      <3>1. Parse /\ ReceiveReturns("msg") /\ UNCHANGED streamVars
        BY <1>7, <2>1 DEF ParseBuffer
      <3>. QED  BY <2>1, <3>1, ParseStep
    <2>2. CASE ~(buffer_readable /\ Parsable)
      <3>1. ~Parsable
        BY <2>2 DEF ReceiveInv, NoLostWakeup
      <3>2. /\ Quiet /\ UNCHANGED <<arrived, peer_closed, event, stream_readable>>
            /\ buffer_readable' = FALSE
            /\ IF stream_readable THEN phase' = "stream" /\ UNCHANGED <<call, result>> ELSE NoMessage
        BY <1>7, <2>2 DEF ParseBuffer, streamVars
      <3>3. ConnectionTypeOK' /\ (phase' = "stream" \/ phase' = "buffer")
        BY <3>2 DEF ReceiveInv, ConnectionTypeOK, NoMessage, ReceiveReturns
      <3>4. Room > 0
        BY <3>1, UnparsableHasRoom, Numbers, HalfFacts DEF Room
      <3>5. NoFalseReset'
        <4>1. result' = "err" => peer_closed'
          BY <3>2 DEF ReceiveInv, NoFalseReset, NoMessage, ReceiveReturns
        <4>. QED  BY <3>2, <3>4, <4>1 DEF NoFalseReset, Room
      <3>6. taken < arrived' \/ peer_closed' => stream_readable' \/ event'
        BY <3>2 DEF ReceiveInv, NoLostWakeup
      <3>. QED  BY <1>1, <1>2, <3>1, <3>2, <3>3, <3>5, <3>6, BufferUntouched
    <2>. QED  BY <2>1, <2>2
  <1>8. CASE WouldBlock
    <2>1. Quiet /\ UNCHANGED <<arrived, peer_closed, event, call, result, buffer_readable>>
          /\ stream_readable' = FALSE /\ phase' = "rest" /\ taken = arrived /\ ~peer_closed
      BY <1>8 DEF WouldBlock, streamVars
    <2>2. ConnectionTypeOK' /\ NoFalseReset'
      BY <2>1 DEF ReceiveInv, ConnectionTypeOK, NoFalseReset
    <2>3. ~(taken < arrived' \/ peer_closed')
      BY <1>1, <2>1
    <2>4. Parsable => buffer_readable'
      BY <2>1 DEF ReceiveInv, NoLostWakeup
    <2>. QED  BY <1>1, <1>2, <2>1, <2>2, <2>3, <2>4, BufferUntouched
  <1>9. CASE ReadZero
    <2>1. Quiet /\ UNCHANGED <<arrived, peer_closed, event, stream_readable, buffer_readable>>
          /\ phase' = "buffer" /\ call' = "idle" /\ result' = "err"
          /\ peer_closed
      <3>1. Room > 0
        BY <1>9 DEF ReadZero, ReceiveInv, NoFalseReset
      <3>2. Room # 0
        BY <3>1, Numbers, HalfFacts DEF Room
      <3>. QED  BY <1>9, <3>2 DEF ReadZero, ReceiveReturns, streamVars, bufferVars
    <2>2. ConnectionTypeOK' /\ NoFalseReset'
      BY <2>1 DEF ReceiveInv, ConnectionTypeOK, NoFalseReset
    <2>3. (taken < arrived' \/ peer_closed' => stream_readable' \/ event') /\ (Parsable => buffer_readable')
      BY <2>1 DEF ReceiveInv, NoLostWakeup
    <2>. QED  BY <1>1, <1>2, <2>1, <2>2, <2>3, BufferUntouched
  <1>10. CASE ParseRest
    <2>1. CASE buffer_readable /\ Parsable
      <3>1. Parse /\ ReceiveReturns("msg") /\ UNCHANGED streamVars
        BY <1>10, <2>1 DEF ParseRest
      <3>. QED  BY <2>1, <3>1, ParseStep
    <2>2. CASE ~(buffer_readable /\ Parsable)
      <3>1. ~Parsable
        BY <2>2 DEF ReceiveInv, NoLostWakeup
      <3>2. /\ Quiet /\ UNCHANGED <<arrived, peer_closed, event, stream_readable>>
            /\ buffer_readable' = FALSE /\ NoMessage
        BY <1>10, <2>2 DEF ParseRest, streamVars
      <3>3. ConnectionTypeOK' /\ phase' = "buffer"
        BY <3>2 DEF ReceiveInv, ConnectionTypeOK, NoMessage, ReceiveReturns
      <3>4. NoFalseReset'
        <4>1. result' = "err" => peer_closed'
          BY <3>2 DEF ReceiveInv, NoFalseReset, NoMessage, ReceiveReturns
        <4>. QED  BY <3>3, <4>1 DEF NoFalseReset
      <3>5. taken < arrived' \/ peer_closed' => stream_readable' \/ event'
        BY <3>2 DEF ReceiveInv, NoLostWakeup
      <3>. QED  BY <1>1, <1>2, <3>1, <3>2, <3>3, <3>4, <3>5, BufferUntouched
    <2>. QED  BY <2>1, <2>2
  <1>11. CASE PollEvent
    <2>1. Quiet /\ UNCHANGED <<arrived, peer_closed, phase, result, buffer_readable>>
          /\ stream_readable' = TRUE /\ event' = FALSE /\ call' = "second"
      BY <1>11 DEF PollEvent
    <2>2. ConnectionTypeOK' /\ NoFalseReset' /\ (Parsable => buffer_readable')
      BY <2>1 DEF ReceiveInv, ConnectionTypeOK, NoFalseReset, Room, NoLostWakeup
    <2>. QED  BY <1>1, <1>2, <2>1, <2>2, BufferUntouched
  <1>12. CASE PollTimeout
    <2>1. Quiet /\ UNCHANGED <<arrived, peer_closed, event, stream_readable, buffer_readable>>
          /\ \/ call' = "second" /\ UNCHANGED <<phase, result>>
             \/ call' = "idle" /\ phase' = "buffer" /\ result' = "none"
      BY <1>12 DEF PollTimeout, ReceiveReturns, streamVars, bufferVars
    <2>2. ConnectionTypeOK' /\ NoFalseReset'
      BY <2>1 DEF ReceiveInv, ConnectionTypeOK, NoFalseReset, Room
    <2>3. (taken < arrived' \/ peer_closed' => stream_readable' \/ event') /\ (Parsable => buffer_readable')
      BY <2>1 DEF ReceiveInv, NoLostWakeup
    <2>. QED  BY <1>1, <1>2, <2>1, <2>2, <2>3, BufferUntouched
  <1>13. ASSUME NEW n \in 1 .. Room, ReadBytes(n) PROVE ReceiveInv'
    BY <1>13, ReadStep
  <1>14. CASE UNCHANGED connectionVars
    <2>1. Quiet /\ UNCHANGED <<arrived, peer_closed, event, call, phase, result, stream_readable,
                               buffer_readable>>
      BY <1>14 DEF connectionVars, streamVars, bufferVars
    <2>2. ConnectionTypeOK' /\ NoFalseReset'
      BY <2>1 DEF ReceiveInv, ConnectionTypeOK, NoFalseReset, Room
    <2>3. (taken < arrived' \/ peer_closed' => stream_readable' \/ event') /\ (Parsable => buffer_readable')
      BY <2>1 DEF ReceiveInv, NoLostWakeup
    <2>. QED  BY <1>1, <1>2, <2>1, <2>2, <2>3, BufferUntouched
  <1>. QED  BY <1>3, <1>4, <1>5, <1>6, <1>7, <1>8, <1>9, <1>10, <1>11, <1>12, <1>13, <1>14
            DEF ConnectionNext

(***************************************************************************)
(* The receive buffer never loses, repeats, reorders or misreads a byte    *)
(* (parse_from_buffer, shift_buffer, read_from_stream).                    *)
(***************************************************************************)
THEOREM ReceiveInvariant == ConnectionSpec => []ReceiveInv
  BY ReceiveInitially, ReceiveStepInvariant, PTL DEF ConnectionSpec

(* Messages are returned in the order sent, each of them once.             *)
THEOREM MessagesInOrder == ConnectionSpec => []InOrder
  <1>1. ReceiveInv => InOrder
    BY DEF ReceiveInv
  <1>. QED  BY <1>1, ReceiveInvariant, PTL

(***************************************************************************)
(* The buffer is never full when the stream is read, and a reset is only   *)
(* reported if the peer has closed the stream (read_from_stream).          *)
(***************************************************************************)
THEOREM AlwaysRoom == ConnectionSpec => []NoFalseReset
  <1>1. ReceiveInv => NoFalseReset
    BY DEF ReceiveInv
  <1>. QED  BY <1>1, ReceiveInvariant, PTL

(***************************************************************************)
(* The readiness flags and the events of the poll together never forget a  *)
(* byte of the stream or a message in the buffer (receive, is_readable).   *)
(***************************************************************************)
THEOREM WakeupsKept == ConnectionSpec => []NoLostWakeup
  <1>1. ReceiveInv => NoLostWakeup
    BY DEF ReceiveInv
  <1>. QED  BY <1>1, ReceiveInvariant, PTL

-----------------------------------------------------------------------------
(* The connector.  Its inductive invariant:                                *)

Hosted(w)     == {a \in Activities : Hosts(w, a)}
FromWorker(w) == {Hello(a) : a \in Hosted(w)} \cup {Core(a) : a \in Hosted(w)}
ToWorker(w)   == {Core(a) : a \in Hosted(w)} \cup {StartupSync, Terminate}

(* A connection carries signals about the activities of its worker; one    *)
(* not yet opened carries none.                                            *)
Carried ==
  /\ DOMAIN toServer = Tokens /\ DOMAIN toClient = Tokens
  /\ \A c \in Tokens : /\ toServer[c] \in Seq(FromWorker(owner[c]))
                       /\ toClient[c] \in Seq(ToWorker(owner[c]))
                       /\ c > opened => toServer[c] = << >> /\ toClient[c] = << >>

(* A worker that runs has a connection of its own.                         *)
Connected ==
  /\ said \in [Workers -> Int]
  /\ \A w \in Workers : said[w] # Off =>
       /\ said[w] \in 0..Len(ActivitiesOf[w])
       /\ \E c \in 1..opened : /\ owner[c] = w
                               /\ \A d \in 1..opened : owner[d] = w => d <= c

(* A closed connection or an unread signal is kept in mind, by the flag of *)
(* the connection or by an event the poll still has.                       *)
Unread(c) == c \in closed \/ buffered[c] < Len(toServer[c])
Remembered == \A c \in 1..opened : Unread(c) => c \in readable \cup events

ServerInv ==
  /\ bound \in BOOLEAN /\ opened \in 0..MaxConnections /\ accepted \in 0..opened
  /\ owner \in [Tokens -> Workers]
  /\ DOMAIN buffered = Tokens /\ \A c \in Tokens : buffered[c] \in 0..Len(toServer[c])
  /\ readable \subseteq 1..accepted /\ events \subseteq 1..opened /\ closed \subseteq 1..opened
  /\ Carried /\ Connected /\ Remembered

(* The map of the connector has a connection of the right worker for each  *)
(* activity that is not missing, and nobody is missing after the start.    *)
ConnectorInv ==
  /\ pc \in {"bind", "connect", "sync", "run", "terminate", "done", "failed"}
  /\ outcome \in {"-", "none", "error", "signal", "hello"}
  /\ token \in [Activities -> 0..accepted] /\ missing \subseteq Activities
  /\ pc \in {"sync", "run", "terminate", "done"} => missing = {}
  /\ \A a \in Activities \ missing : token[a] # 0 /\ Hosts(owner[token[a]], a)
  /\ pc = "sync" => todo \subseteq Activities
  /\ pc = "terminate" => todo \subseteq 1..accepted

ConnectInv == ServerInv /\ ConnectorInv

-----------------------------------------------------------------------------
LEMMA Configuration ==
  /\ MaxConnections \in Nat /\ Workers # {}
  /\ \A w \in Workers : /\ ActivitiesOf[w] \in Seq(Activities)
                        /\ Len(ActivitiesOf[w]) \in Nat
                        /\ \A i \in 1..Len(ActivitiesOf[w]) : ActivitiesOf[w][i] \in Hosted(w)
  BY ServerAssumption DEF Hosted, Hosts

(* SocketClient: the connection a worker says hello and answers on.        *)
LEMMA ItsConnection ==
  ASSUME ServerInv, NEW w \in Workers, said[w] # Off
  PROVE  ConnectionOf(w) \in 1..opened /\ ConnectionOf(w) \in Tokens /\ owner[ConnectionOf(w)] = w
  <1>1. \E c \in 1..opened : owner[c] = w /\ \A d \in 1..opened : owner[d] = w => d <= c
    BY DEF ServerInv, Connected
  <1>2. ConnectionOf(w) \in 1..opened /\ owner[ConnectionOf(w)] = w
    BY <1>1 DEF ConnectionOf
  <1>3. opened \in Nat /\ opened <= MaxConnections
    BY Configuration DEF ServerInv
  <1>. QED  BY <1>2, <1>3, Configuration DEF Tokens

LEMMA Taken ==
  ASSUME NEW S, NEW s \in Seq(S), s # << >>
  PROVE  Head(s) \in S /\ Tail(s) \in Seq(S) /\ Len(s) \in Nat \ {0} /\ Len(Tail(s)) = Len(s) - 1
  <1>1. Len(s) \in Nat \ {0}
    BY EmptySeq
  <1>. QED  BY <1>1, HeadTailProperties

LEMMA InitiallyInv == Init => ConnectInv
  <1>. SUFFICES ASSUME Init PROVE ConnectInv
    OBVIOUS
  <1>1. owner \in [Tokens -> Workers]
    BY Configuration DEF Init, SocketInit
  <1>2. Carried
    BY DEF Init, SocketInit, Carried
  <1>3. Connected
    BY DEF Init, SocketInit, Connected, Off
  <1>4. DOMAIN buffered = Tokens /\ \A c \in Tokens : buffered[c] \in 0..Len(toServer[c])
    <2>1. buffered = [c \in Tokens |-> 0] /\ toServer = [c \in Tokens |-> << >>]
      BY DEF Init, SocketInit
    <2>2. Len(<< >>) = 0
      OBVIOUS
    <2>. QED  BY <2>1, <2>2
  <1>5. ServerInv
    <2>1. bound = FALSE /\ opened = 0 /\ accepted = 0 /\ readable = {} /\ events = {} /\ closed = {}
      BY DEF Init, SocketInit
    <2>2. opened \in 0..MaxConnections /\ accepted \in 0..opened
      BY <2>1, Configuration
    <2>3. Remembered
      BY <2>1 DEF Remembered
    <2>. QED  BY <1>1, <1>2, <1>3, <1>4, <2>1, <2>2, <2>3 DEF ServerInv
  <1>6. ConnectorInv
    BY DEF Init, SocketInit, ConnectorInv
  <1>. QED  BY <1>5, <1>6 DEF ConnectInv

-----------------------------------------------------------------------------
(* SocketServer::receive.                                                  *)
LEMMA Accepting ==
  ASSUME ServerInv
  PROVE  /\ accepted \in Nat /\ opened \in Nat /\ accepted <= opened /\ 1..accepted \subseteq Tokens
         /\ Ready \subseteq 1..accepted
         /\ Poll => accepted' \in accepted..opened /\ events' \subseteq events
         /\ \A c \in Tokens : /\ toServer[c] \in Seq(FromWorker(owner[c]))
                              /\ Len(toServer[c]) \in Nat /\ buffered[c] \in 0..Len(toServer[c])
  <1>1. accepted \in Nat /\ opened \in Nat /\ accepted <= opened /\ opened <= MaxConnections
    BY Configuration DEF ServerInv
  <1>2. 1..accepted \subseteq Tokens
    BY <1>1, Configuration DEF Tokens
  <1>3. Ready \subseteq 1..accepted
    BY DEF Ready, ServerInv
  <1>4. Poll => accepted' \in accepted..opened /\ events' \subseteq events
    BY <1>1 DEF Poll
  <1>. QED  BY <1>1, <1>2, <1>3, <1>4 DEF ServerInv, Carried

(* What is to be read is read, unless its event is left to a later poll.   *)
LEMMA ReadyReturns ==
  ASSUME ServerInv, NEW c \in 1..opened, Unread(c), Poll
  PROVE  c \in events' \/ (c \in Ready /\ Returns(c, Ready))
  <1>1. /\ c \in Nat /\ c \in Tokens /\ buffered[c] \in Nat /\ Len(toServer[c]) \in Nat
        /\ buffered[c] <= Len(toServer[c]) /\ c \in readable \cup events /\ readable \subseteq 1..accepted
    <2>1. c \in Tokens
      BY Configuration DEF ServerInv, Tokens
    <2>2. buffered[c] \in 0..Len(toServer[c]) /\ Len(toServer[c]) \in Nat
      BY <2>1, Accepting
    <2>. QED  BY <2>1, <2>2 DEF ServerInv, Remembered
  <1>2. ASSUME NEW ready, c \in ready PROVE Returns(c, ready)
    <2>1. CASE buffered[c] = 0 /\ c \in closed
      BY <1>2, <2>1 DEF Returns, ReadsError
    <2>2. CASE ~(buffered[c] = 0 /\ c \in closed)
      <3>1. Len(toServer[c]) # 0 /\ (buffered[c] > 0 \/ c \notin closed)
        BY <1>1, <2>2 DEF Unread
      <3>2. toServer[c] # << >>
        BY <3>1, EmptySeq
      <3>. QED  BY <1>2, <3>1, <3>2 DEF Returns, ReadsSignal
    <2>. QED  BY <2>1, <2>2
  <1>3. CASE Polled
    <2>1. c \notin readable
      BY <1>1, <1>2, <1>3 DEF Polled
    <2>2. c \in Ready \/ c \in events'
      BY <1>1, <1>3, <2>1 DEF Ready, Poll
    <2>. QED  BY <1>2, <2>2
  <1>4. CASE ~Polled
    BY <1>1, <1>2, <1>4 DEF Ready, Poll
  <1>. QED  BY <1>3, <1>4

LEMMA SignalReceived ==
  ASSUME ServerInv, NEW c, ReceiveSignal(c)
  PROVE  /\ ServerInv' /\ c \in 1..accepted /\ c \in Tokens /\ owner' = owner
         /\ accepted' \in Nat /\ accepted <= accepted' /\ accepted \in Nat
         /\ Head(toServer[c]) \in FromWorker(owner[c])
  <1>1. /\ c \in 1..accepted /\ c \in Tokens /\ toServer[c] # << >>
        /\ toServer[c] \in Seq(FromWorker(owner[c])) /\ buffered[c] \in 0..Len(toServer[c])
        /\ accepted' \in accepted..opened /\ accepted \in Nat /\ opened \in Nat
        /\ events' \subseteq events /\ Poll
        /\ toServer' = [toServer EXCEPT ![c] = Tail(@)]
        /\ UNCHANGED <<bound, opened, owner, closed, said, toClient>>
    BY Accepting DEF ReceiveSignal, ReadsSignal, clientVars
  <1>2. /\ Head(toServer[c]) \in FromWorker(owner[c])
        /\ Tail(toServer[c]) \in Seq(FromWorker(owner[c]))
        /\ Len(Tail(toServer[c])) = Len(toServer[c]) - 1 /\ Len(toServer[c]) \in Nat \ {0}
    <2>. DEFINE s == toServer[c]
                S == FromWorker(owner[c])
    <2>1. s \in Seq(S) /\ s # << >>
      BY <1>1
    <2>. HIDE DEF s, S
    <2>2. Head(s) \in S /\ Tail(s) \in Seq(S) /\ Len(s) \in Nat \ {0} /\ Len(Tail(s)) = Len(s) - 1
      BY <2>1, Taken
    <2>. QED  BY <2>2 DEF s, S
  <1>3. /\ DOMAIN buffered' = Tokens
        /\ \A d \in Tokens : buffered'[d] \in 0..Len(toServer'[d])
    <2>1. /\ DOMAIN buffered' = DOMAIN buffered /\ \A d \in Tokens \ {c} : buffered'[d] = buffered[d]
          /\ buffered'[c] = IF buffered[c] > 0 THEN buffered[c] - 1 ELSE Len(toServer[c]) - 1
      BY <1>1 DEF ReceiveSignal, ServerInv
    <2>2. buffered'[c] \in 0..Len(toServer'[c])
      BY <1>1, <1>2, <2>1 DEF ServerInv, Carried
    <2>. QED  BY <1>1, <2>1, <2>2 DEF ServerInv, Carried
  <1>4. readable' \subseteq 1..accepted'
    BY <1>1, Accepting DEF ReceiveSignal
  <1>5. Carried'
    BY <1>1, <1>2 DEF ServerInv, Carried
  <1>6. Connected'
    BY <1>1 DEF ServerInv, Connected
  <1>7. Remembered'
    <2>1. \E seen \in SUBSET Drained :
            IF buffered[c] > 0
            THEN buffered' = [buffered EXCEPT ![c] = @ - 1] /\ readable' = Ready \ seen
            ELSE /\ buffered' = [buffered EXCEPT ![c] = Len(toServer[c]) - 1]
                 /\ readable' = Ready \ (seen \cup {c})
      BY DEF ReceiveSignal
    <2>2. PICK seen \in SUBSET Drained :
            /\ readable' = IF buffered[c] > 0 THEN Ready \ seen ELSE Ready \ (seen \cup {c})
            /\ buffered' = [buffered EXCEPT ![c] = IF buffered[c] > 0 THEN buffered[c] - 1
                                                                   ELSE Len(toServer[c]) - 1]
      BY <2>1
    <2>. SUFFICES ASSUME NEW d \in 1..opened, Unread(d)' PROVE d \in readable' \cup events'
      BY <1>1 DEF Remembered
    <2>3. toServer'[c] = Tail(toServer[c]) /\ \A e \in Tokens \ {c} : toServer'[e] = toServer[e]
      BY <1>1 DEF ServerInv, Carried
    <2>4. /\ buffered'[c] = IF buffered[c] > 0 THEN buffered[c] - 1 ELSE Len(toServer[c]) - 1
          /\ \A e \in Tokens \ {c} : buffered'[e] = buffered[e]
      BY <1>1, <2>2 DEF ServerInv
    <2>5. d \in Tokens
      BY Configuration DEF ServerInv, Tokens
    <2>6. Unread(d)
      <3>1. CASE d # c
        BY <1>1, <2>3, <2>4, <2>5, <3>1 DEF Unread
      <3>2. CASE d = c
        <4>1. PICK n \in Nat, b \in Nat : n = Len(toServer[c]) /\ b = buffered[c] /\ b <= n /\ n # 0
          BY <1>1, <1>2
        <4>2. Len(toServer'[c]) = n - 1 /\ buffered'[c] = IF b > 0 THEN b - 1 ELSE n - 1
          BY <1>2, <2>3, <2>4, <4>1
        <4>3. d \in closed \/ (IF b > 0 THEN b - 1 ELSE n - 1) < n - 1
          BY <1>1, <3>2, <4>2 DEF Unread
        <4>. QED  BY <3>2, <4>1, <4>3 DEF Unread
      <3>. QED  BY <3>1, <3>2
    <2>7. d = c => buffered[c] > 0
      <3>. SUFFICES ASSUME d = c, ~(buffered[c] > 0) PROVE FALSE
        OBVIOUS
      <3>1. c \notin closed /\ closed' = closed
        BY <1>1 DEF ReceiveSignal, ReadsSignal
      <3>2. buffered'[c] = Len(toServer'[c])
        BY <1>2, <2>3, <2>4
      <3>3. ~(Len(toServer'[c]) < Len(toServer'[c]))
        BY <1>2, <2>3
      <3>. QED  BY <3>1, <3>2, <3>3 DEF Unread
    <2>8. d \in events' \/ (d \in Ready /\ Returns(d, Ready))
      BY <1>1, <2>6, ReadyReturns
    <2>9. d \in events' \/ (d \in Ready /\ d \notin seen)
      BY <2>2, <2>8 DEF Drained
    <2>. QED  BY <2>2, <2>7, <2>9
  <1>8. ServerInv'
    BY <1>1, <1>3, <1>4, <1>5, <1>6, <1>7 DEF ServerInv
  <1>. QED  BY <1>1, <1>2, <1>8

(* An error or nothing.                                                    *)
LEMMA NoSignalReceived ==
  ASSUME ServerInv, ReceiveNothing \/ \E c \in Tokens : ReceiveError(c)
  PROVE  /\ ServerInv' /\ owner' = owner
         /\ accepted' \in Nat /\ accepted <= accepted' /\ accepted \in Nat
  <1>1. /\ accepted' \in accepted..opened /\ accepted \in Nat /\ opened \in Nat
        /\ events' \subseteq events /\ Poll
        /\ UNCHANGED <<bound, opened, owner, closed, said, toServer, toClient>>
    BY Accepting DEF ReceiveNothing, ReceiveError, clientVars
  <1>2. readable' \subseteq 1..accepted'
    BY <1>1, Accepting DEF ReceiveNothing, ReceiveError
  <1>3. /\ DOMAIN buffered' = Tokens
        /\ \A d \in Tokens : buffered'[d] \in 0..Len(toServer'[d])
    <2>1. CASE ReceiveNothing
      BY <1>1, <2>1 DEF ReceiveNothing, ServerInv
    <2>2. ASSUME NEW c \in Tokens, ReceiveError(c)
          PROVE  /\ DOMAIN buffered' = Tokens
                 /\ \A d \in Tokens : buffered'[d] \in 0..Len(toServer'[d])
      <3>1. buffered' = [buffered EXCEPT ![c] = Len(toServer[c])]
        BY <2>2 DEF ReceiveError
      <3>2. /\ DOMAIN buffered' = Tokens
            /\ \A d \in Tokens : buffered'[d] \in {buffered[d], Len(toServer[d])}
        BY <3>1 DEF ServerInv
      <3>3. ASSUME NEW d \in Tokens PROVE buffered'[d] \in 0..Len(toServer'[d])
        BY <1>1, <3>2, Accepting
      <3>. QED  BY <3>2, <3>3
    <2>. QED  BY <2>1, <2>2
  <1>4. Carried' /\ Connected'
    BY <1>1 DEF ServerInv, Carried, Connected
  <1>5. Remembered'
    <2>. SUFFICES ASSUME NEW d \in 1..opened, Unread(d)' PROVE d \in readable' \cup events'
      BY <1>1 DEF Remembered
    <2>1. d \in Tokens
      BY Configuration DEF ServerInv, Tokens
    <2>2. CASE ReceiveNothing
      <3>1. Unread(d)
        BY <1>1, <2>2 DEF Unread, ReceiveNothing
      <3>2. d \in events' \/ (d \in Ready /\ Returns(d, Ready))
        BY <1>1, <3>1, ReadyReturns
      <3>3. d \in Ready => ~Returns(d, Ready)
        BY <2>2, Accepting DEF ReceiveNothing
      <3>. QED  BY <3>2, <3>3
    <2>3. ASSUME NEW c \in Tokens, ReceiveError(c)
          PROVE  d \in readable' \cup events'
      <3>1. PICK seen \in SUBSET Drained : readable' = Ready \ seen
        BY <2>3 DEF ReceiveError
      <3>2. /\ \A e \in Tokens \ {c} : buffered'[e] = buffered[e]
            /\ c \in closed
        BY <2>3 DEF ReceiveError, ReadsError, ServerInv
      <3>3. Unread(d)
        <4>1. CASE d = c
          BY <3>2, <4>1 DEF Unread
        <4>2. CASE d # c
          BY <1>1, <2>1, <3>2, <4>2 DEF Unread
        <4>. QED  BY <4>1, <4>2
      <3>4. d \in events' \/ (d \in Ready /\ Returns(d, Ready))
        BY <1>1, <3>3, ReadyReturns
      <3>. QED  BY <3>1, <3>4 DEF Drained
    <2>. QED  BY <2>2, <2>3
  <1>. QED  BY <1>1, <1>2, <1>3, <1>4, <1>5 DEF ServerInv

(* Writing and closing only add events.                                    *)
LEMMA ClientRemembers ==
  ASSUME ServerInv, UNCHANGED <<opened, buffered, readable>>, events \subseteq events',
         \A c \in 1..opened : \/ c \in events'
                             \/ (toServer'[c] = toServer[c] /\ (c \in closed' => c \in closed))
  PROVE  Remembered'
  BY DEF ServerInv, Remembered, Unread

(* SocketServer::send; only closed connections lose signals.               *)
LEMMA Sent ==
  ASSUME ServerInv, NEW c \in 1..accepted, NEW sig \in ToWorker(owner[c]),
         Send(c, sig) \/ UNCHANGED toClient, UNCHANGED <<serverVars, clientVars, events, toServer>>
  PROVE  ServerInv' /\ owner' = owner /\ accepted' = accepted
  <1>1. UNCHANGED <<bound, accepted, buffered, readable, events, opened, owner, closed, said, toServer>>
    BY DEF serverVars, clientVars
  <1>2. c \in Tokens /\ c <= opened
    BY Accepting
  <1>3. /\ DOMAIN toClient' = DOMAIN toClient
        /\ \A d \in Tokens : \/ toClient'[d] = toClient[d]
                             \/ d = c /\ toClient'[d] = Append(toClient[d], sig)
    BY <1>2 DEF Send, ServerInv, Carried
  <1>4. \A d \in Tokens : /\ toClient'[d] \in Seq(ToWorker(owner[d]))
                          /\ d > opened => toClient'[d] = << >>
    <2>. SUFFICES ASSUME NEW d \in Tokens
                  PROVE  toClient'[d] \in Seq(ToWorker(owner[d])) /\ (d > opened => toClient'[d] = << >>)
      OBVIOUS
    <2>1. toClient[d] \in Seq(ToWorker(owner[d])) /\ (d > opened => toClient[d] = << >>)
      BY DEF ServerInv, Carried
    <2>2. CASE toClient'[d] = toClient[d]
      BY <2>1, <2>2
    <2>3. CASE d = c /\ toClient'[d] = Append(toClient[d], sig)
      <3>1. sig \in ToWorker(owner[d])
        BY <2>3
      <3>2. Append(toClient[d], sig) \in Seq(ToWorker(owner[d]))
        BY <2>1, <3>1, AppendProperties
      <3>3. d <= opened /\ d \in Nat /\ opened \in Nat
        BY <1>2, <2>3, Accepting
      <3>. QED  BY <2>3, <3>2, <3>3
    <2>. QED  BY <1>3, <2>2, <2>3
  <1>5. Carried'
    BY <1>1, <1>3, <1>4 DEF ServerInv, Carried
  <1>6. Connected'
    BY <1>1 DEF ServerInv, Connected
  <1>7. Remembered'
    BY <1>1, ClientRemembers
  <1>. QED  BY <1>1, <1>5, <1>6, <1>7 DEF ServerInv

-----------------------------------------------------------------------------
(* SocketClient.                                                           *)
LEMMA Opens ==
  ASSUME ServerInv, NEW w \in Workers, OpenConnection(w)
  PROVE  ServerInv' /\ accepted' = accepted /\ \A c \in 1..accepted : owner'[c] = owner[c]
  <1>. DEFINE n == opened + 1
  <1>1. /\ n \in Tokens /\ opened \in Nat /\ opened' = n /\ said[w] = Off
        /\ owner' = [owner EXCEPT ![n] = w] /\ said' = [said EXCEPT ![w] = 0]
        /\ UNCHANGED <<bound, accepted, buffered, readable, events, closed, toServer, toClient>>
    BY Accepting, Configuration DEF OpenConnection, Tokens, serverVars
  <1>2. owner' \in [Tokens -> Workers] /\ owner'[n] = w /\ \A c \in Tokens \ {n} : owner'[c] = owner[c]
    BY <1>1 DEF ServerInv
  <1>3. Carried'
    <2>1. \A c \in Tokens : /\ toServer[c] \in Seq(FromWorker(owner'[c]))
                            /\ toClient[c] \in Seq(ToWorker(owner'[c]))
                            /\ c > n => toServer[c] = << >> /\ toClient[c] = << >>
      <3>. SUFFICES ASSUME NEW c \in Tokens
                    PROVE  /\ toServer[c] \in Seq(FromWorker(owner'[c]))
                           /\ toClient[c] \in Seq(ToWorker(owner'[c]))
                           /\ c > n => toServer[c] = << >> /\ toClient[c] = << >>
        OBVIOUS
      <3>1. CASE c = n
        <4>1. toServer[n] = << >> /\ toClient[n] = << >>
          BY <1>1 DEF ServerInv, Carried
        <4>2. << >> \in Seq(FromWorker(owner'[c])) /\ << >> \in Seq(ToWorker(owner'[c]))
          BY EmptySeq
        <4>. QED  BY <3>1, <4>1, <4>2
      <3>2. CASE c # n
        BY <1>1, <1>2, <3>2 DEF ServerInv, Carried, Tokens
      <3>. QED  BY <3>1, <3>2
    <2>. QED  BY <1>1, <2>1 DEF ServerInv, Carried
  <1>4. Connected'
    <2>. SUFFICES ASSUME NEW v \in Workers, said'[v] # Off
                  PROVE  /\ said'[v] \in 0..Len(ActivitiesOf[v])
                         /\ \E c \in 1..n : /\ owner'[c] = v
                                            /\ \A d \in 1..n : owner'[d] = v => d <= c
      <3>1. said' \in [Workers -> Int]
        BY <1>1 DEF ServerInv, Connected
      <3>. QED  BY <1>1, <3>1 DEF Connected
    <2>1. CASE v = w
      BY <1>1, <1>2, <2>1, Configuration DEF ServerInv, Connected
    <2>2. CASE v # w
      <3>1. said'[v] = said[v]
        BY <1>1, <2>2 DEF ServerInv, Connected
      <3>2. PICK c \in 1..opened : owner[c] = v /\ \A d \in 1..opened : owner[d] = v => d <= c
        BY <3>1 DEF ServerInv, Connected
      <3>3. c \in 1..n /\ owner'[c] = v /\ \A d \in 1..n : owner'[d] = v => d <= c
        BY <1>1, <1>2, <2>2, <3>2 DEF Tokens
      <3>. QED  BY <3>1, <3>3 DEF ServerInv, Connected
    <2>. QED  BY <2>1, <2>2
  <1>5. /\ opened' \in 0..MaxConnections /\ accepted' \in 0..opened'
        /\ events' \subseteq 1..opened' /\ closed' \subseteq 1..opened'
    BY <1>1, Accepting, Configuration DEF ServerInv, Tokens
  <1>6. Remembered'
    <2>1. ~Unread(n)
      <3>1. toServer[n] = << >> /\ n \notin closed /\ buffered[n] \in 0..Len(toServer[n])
        BY <1>1 DEF ServerInv, Carried
      <3>. QED  BY <3>1 DEF Unread
    <2>2. \A c : Unread(c)' <=> Unread(c)
      BY <1>1 DEF Unread
    <2>. QED  BY <1>1, <2>1, <2>2 DEF ServerInv, Remembered
  <1>7. ServerInv'
    BY <1>1, <1>2, <1>3, <1>4, <1>5, <1>6 DEF ServerInv
  <1>. QED  BY <1>1, <1>2, <1>7, Accepting

(* The worker writes a signal of its own to its connection.                *)
LEMMA Writes ==
  ASSUME ServerInv, NEW w \in Workers, said[w] # Off, NEW sig \in FromWorker(w),
         toServer' = [toServer EXCEPT ![ConnectionOf(w)] = Append(@, sig)]
  PROVE  /\ DOMAIN toServer' = Tokens
         /\ \A c \in Tokens : /\ toServer'[c] \in Seq(FromWorker(owner[c]))
                              /\ Len(toServer'[c]) \in Nat /\ Len(toServer[c]) <= Len(toServer'[c])
                              /\ c > opened => toServer'[c] = << >>
  <1>. DEFINE k == ConnectionOf(w)
  <1>1. k \in Tokens /\ k <= opened /\ owner[k] = w
    BY ItsConnection, Accepting
  <1>2. /\ Append(toServer[k], sig) \in Seq(FromWorker(owner[k]))
        /\ Len(Append(toServer[k], sig)) = Len(toServer[k]) + 1
    BY <1>1, Accepting
  <1>3. \A c \in Tokens : toServer'[c] = IF c = k THEN Append(toServer[k], sig) ELSE toServer[c]
    BY <1>1 DEF ServerInv, Carried
  <1>4. DOMAIN toServer' = Tokens
    BY DEF ServerInv, Carried
  <1>. SUFFICES ASSUME NEW c \in Tokens
                PROVE  /\ toServer'[c] \in Seq(FromWorker(owner[c]))
                       /\ Len(toServer'[c]) \in Nat /\ Len(toServer[c]) <= Len(toServer'[c])
                       /\ c > opened => toServer'[c] = << >>
    BY <1>4
  <1>5. /\ toServer[c] \in Seq(FromWorker(owner[c])) /\ Len(toServer[c]) \in Nat
        /\ c > opened => toServer[c] = << >>
    BY Accepting DEF ServerInv, Carried
  <1>6. CASE c # k
    BY <1>3, <1>5, <1>6
  <1>7. CASE c = k
    <2>1. k \in Nat /\ opened \in Nat /\ ~(k > opened)
      BY <1>1, Accepting DEF Tokens
    <2>2. toServer'[c] = Append(toServer[c], sig)
      BY <1>3, <1>7
    <2>3. /\ Append(toServer[c], sig) \in Seq(FromWorker(owner[c]))
          /\ Len(Append(toServer[c], sig)) = Len(toServer[c]) + 1
      BY <1>2, <1>7
    <2>4. toServer'[c] \in Seq(FromWorker(owner[c])) /\ Len(toServer'[c]) = Len(toServer[c]) + 1
      BY <2>2, <2>3
    <2>5. ~(c > opened)
      BY <1>7, <2>1
    <2>6. Len(toServer'[c]) \in Nat /\ Len(toServer[c]) <= Len(toServer'[c])
      BY <1>5, <2>4
    <2>. QED  BY <2>4, <2>5, <2>6
  <1>. QED  BY <1>6, <1>7

LEMMA SaysHello ==
  ASSUME ServerInv, NEW w \in Workers, SayHello(w)
  PROVE  ServerInv' /\ accepted' = accepted /\ owner' = owner
  <1>1. /\ said[w] # Off /\ said[w] < Len(ActivitiesOf[w]) /\ said' = [said EXCEPT ![w] = @ + 1]
        /\ UNCHANGED <<bound, accepted, buffered, readable, opened, owner, closed, toClient>>
    BY DEF SayHello, serverVars
  <1>2. said[w] \in 0..Len(ActivitiesOf[w])
    BY <1>1 DEF ServerInv, Connected
  <1>3. ActivitiesOf[w][said[w] + 1] \in Hosted(w)
    BY <1>1, <1>2, Configuration
  <1>4. Hello(ActivitiesOf[w][said[w] + 1]) \in FromWorker(w)
    BY <1>3 DEF FromWorker
  <1>5. /\ DOMAIN toServer' = Tokens
        /\ \A c \in Tokens : /\ toServer'[c] \in Seq(FromWorker(owner[c]))
                             /\ Len(toServer'[c]) \in Nat /\ Len(toServer[c]) <= Len(toServer'[c])
                             /\ c > opened => toServer'[c] = << >>
    BY <1>1, <1>4, Writes DEF SayHello
  <1>6. Carried'
    BY <1>1, <1>5 DEF ServerInv, Carried
  <1>7. Connected'
    BY <1>1, <1>2, Configuration DEF ServerInv, Connected, Off
  <1>8. \A c \in Tokens : buffered'[c] \in 0..Len(toServer'[c])
    BY <1>1, <1>5, Accepting
  <1>9. ConnectionOf(w) \in 1..opened /\ events' = events \cup {ConnectionOf(w)}
    BY <1>1, ItsConnection DEF SayHello
  <1>10. Remembered'
    <2>1. \A c \in 1..opened : c # ConnectionOf(w) => toServer'[c] = toServer[c]
      BY Configuration DEF SayHello, ServerInv, Carried, Tokens
    <2>. QED  BY <1>1, <1>9, <2>1, ClientRemembers
  <1>. QED  BY <1>1, <1>6, <1>7, <1>8, <1>9, <1>10 DEF ServerInv

LEMMA Answers ==
  ASSUME ServerInv, NEW w \in Workers, Answer(w)
  PROVE  ServerInv' /\ accepted' = accepted /\ owner' = owner
  <1>. DEFINE k == ConnectionOf(w)
              sig == Head(toClient[k])
  <1>1. /\ said[w] # Off /\ toClient[k] # << >> /\ toClient' = [toClient EXCEPT ![k] = Tail(@)]
        /\ UNCHANGED <<bound, accepted, buffered, readable, opened, owner, closed, said>>
    BY Configuration DEF Answer, serverVars, clientVars, Off
  <1>2. k \in Tokens /\ k <= opened /\ owner[k] = w /\ toClient[k] \in Seq(ToWorker(w))
    BY <1>1, ItsConnection, Accepting DEF ServerInv, Carried
  <1>3. sig \in ToWorker(w) /\ Tail(toClient[k]) \in Seq(ToWorker(w))
    BY <1>1, <1>2, Taken
  <1>4. /\ DOMAIN toServer' = Tokens
        /\ \A c \in Tokens : /\ toServer'[c] \in Seq(FromWorker(owner[c]))
                             /\ Len(toServer'[c]) \in Nat /\ Len(toServer[c]) <= Len(toServer'[c])
                             /\ c > opened => toServer'[c] = << >>
    <2>1. CASE sig.type = "Core"
      <3>1. sig \in FromWorker(w)
        BY <1>3, <2>1 DEF ToWorker, FromWorker, StartupSync, Terminate
      <3>2. toServer' = [toServer EXCEPT ![k] = Append(@, sig)]
        BY <2>1 DEF Answer
      <3>. QED  BY <1>1, <3>1, <3>2, Writes
    <2>2. CASE sig.type # "Core"
      BY <2>2, Accepting DEF Answer, ServerInv, Carried
    <2>. QED  BY <2>1, <2>2
  <1>5. /\ DOMAIN toClient' = Tokens
        /\ \A c \in Tokens : /\ toClient'[c] \in Seq(ToWorker(owner[c]))
                             /\ c > opened => toClient'[c] = << >>
    BY <1>1, <1>2, <1>3, Accepting DEF ServerInv, Carried
  <1>6. Carried' /\ Connected'
    BY <1>1, <1>4, <1>5 DEF ServerInv, Carried, Connected
  <1>7. \A c \in Tokens : buffered'[c] \in 0..Len(toServer'[c])
    BY <1>1, <1>4, Accepting
  <1>8. /\ events \subseteq events' /\ events' \subseteq events \cup {k}
        /\ \A c \in 1..opened : c \in events' \/ toServer'[c] = toServer[c]
    <2>1. CASE sig.type = "Core"
      <3>1. toServer' = [toServer EXCEPT ![k] = Append(@, sig)] /\ events' = events \cup {k}
        BY <2>1 DEF Answer
      <3>. QED  BY <3>1 DEF ServerInv, Carried
    <2>2. CASE sig.type # "Core"
      BY <2>2 DEF Answer
    <2>. QED  BY <2>1, <2>2
  <1>9. Remembered'
    BY <1>1, <1>8, ClientRemembers
  <1>10. events' \subseteq 1..opened'
    <2>1. k \in 1..opened
      BY <1>1, ItsConnection
    <2>. QED  BY <1>1, <1>8, <2>1 DEF ServerInv
  <1>. QED  BY <1>1, <1>6, <1>7, <1>9, <1>10 DEF ServerInv

LEMMA Dies ==
  ASSUME ServerInv, NEW w \in Workers, Die(w)
  PROVE  ServerInv' /\ accepted' = accepted /\ owner' = owner
  <1>1. /\ ConnectionOf(w) \in 1..opened /\ closed' = closed \cup {ConnectionOf(w)}
        /\ events' = events \cup {ConnectionOf(w)} /\ said' = [said EXCEPT ![w] = Off]
        /\ UNCHANGED <<bound, accepted, buffered, readable, opened, owner, toServer, toClient>>
    BY ItsConnection DEF Die, serverVars
  <1>2. Carried' /\ Connected'
    BY <1>1 DEF ServerInv, Carried, Connected, Off
  <1>3. Remembered'
    <2>1. \A c : c \in events' \/ (c \in closed' => c \in closed)
      BY <1>1
    <2>. QED  BY <1>1, <2>1, ClientRemembers
  <1>. QED  BY <1>1, <1>2, <1>3 DEF ServerInv

-----------------------------------------------------------------------------
(***************************************************************************)
(* The connector: what a step may change in its map, todo and phase.       *)
(***************************************************************************)
(* Nothing in the map is disturbed while connections are accepted.         *)
LEMMA MapStays ==
  ASSUME ServerInv, ConnectorInv, accepted' \in Nat, accepted <= accepted',
         \A c \in 1..accepted : owner'[c] = owner[c], UNCHANGED <<token, missing>>
  PROVE  /\ token' \in [Activities -> 0..accepted'] /\ missing' \subseteq Activities
         /\ \A a \in Activities \ missing' : token'[a] # 0 /\ Hosts(owner'[token'[a]], a)
         /\ \A a \in Activities \ missing : token[a] \in 1..accepted
         /\ 1..accepted \subseteq 1..accepted'
  <1>1. accepted \in Nat
    BY Accepting
  <1>2. 0..accepted \subseteq 0..accepted' /\ 1..accepted \subseteq 1..accepted'
    BY <1>1
  <1>3. \A a \in Activities \ missing : token[a] \in 1..accepted
    BY <1>1 DEF ConnectorInv
  <1>4. \A a \in Activities \ missing' : token'[a] # 0 /\ Hosts(owner'[token'[a]], a)
    BY <1>3 DEF ConnectorInv
  <1>. QED  BY <1>2, <1>3, <1>4 DEF ConnectorInv

LEMMA HelloStep ==
  ASSUME ConnectInv, NEW c, ReceiveHello(c)
  PROVE  ConnectInv'
  <1>. DEFINE sig == Head(toServer[c])
  <1>1. /\ ServerInv' /\ c \in 1..accepted /\ owner' = owner /\ sig \in FromWorker(owner[c])
        /\ accepted' \in Nat /\ accepted <= accepted' /\ accepted \in Nat
    BY SignalReceived DEF ReceiveHello, ConnectInv
  <1>2. /\ token' \in [Activities -> 0..accepted'] /\ missing' \subseteq Activities
        /\ \A a \in Activities \ missing' : token'[a] # 0 /\ Hosts(owner'[token'[a]], a)
    <2>1. CASE sig.type = "ActivityHello"
      <3>1. /\ sig.id \in Activities /\ Hosts(owner[c], sig.id)
        BY <1>1, <2>1 DEF FromWorker, Hello, Core, Hosted
      <3>2. token' = [token EXCEPT ![sig.id] = c] /\ missing' = missing \ {sig.id}
        BY <2>1 DEF ReceiveHello
      <3>3. c \in 0..accepted' /\ c # 0 /\ 0..accepted \subseteq 0..accepted'
        BY <1>1
      <3>4. token' \in [Activities -> 0..accepted'] /\ missing' \subseteq Activities
        BY <3>1, <3>2, <3>3 DEF ConnectInv, ConnectorInv
      <3>5. token'[sig.id] = c /\ \A a \in Activities \ {sig.id} : token'[a] = token[a]
        BY <3>1, <3>2 DEF ConnectInv, ConnectorInv
      <3>6. ASSUME NEW a \in Activities \ missing'
            PROVE  token'[a] # 0 /\ Hosts(owner'[token'[a]], a)
        <4>1. CASE a = sig.id
          BY <1>1, <3>1, <3>3, <3>5, <4>1
        <4>2. CASE a # sig.id
          BY <1>1, <3>2, <3>5, <4>2 DEF ConnectInv, ConnectorInv
        <4>. QED  BY <4>1, <4>2
      <3>. QED  BY <3>4, <3>6
    <2>2. CASE sig.type # "ActivityHello"
      BY <1>1, <2>2, MapStays DEF ReceiveHello, ConnectInv
    <2>. QED  BY <2>1, <2>2
  <1>3. \/ missing' = {} /\ pc' = "sync" /\ todo' = Activities
        \/ pc' = "connect"
    BY DEF ReceiveHello
  <1>4. outcome' = "-"
    BY DEF ReceiveHello
  <1>. QED  BY <1>1, <1>2, <1>3, <1>4 DEF ConnectInv, ConnectorInv

(* Steps that leave the map alone.                                         *)
LEMMA OtherSteps ==
  ASSUME ConnectInv, ServerInv', accepted' \in Nat, accepted <= accepted',
         \A c \in 1..accepted : owner'[c] = owner[c], UNCHANGED <<token, missing>>,
         outcome' \in {"-", "none", "error", "signal", "hello"},
         \/ UNCHANGED <<pc, todo>>
         \/ pc' \in {"connect", "failed"}
         \/ pc \in {"sync", "run", "terminate"} /\ pc' \in {"run", "done"}
         \/ pc = "sync" /\ pc' = "sync" /\ todo' \subseteq todo
         \/ pc = "run" /\ pc' = "terminate" /\ todo' = ConnectedTokens(token)
         \/ pc = "terminate" /\ pc' = "terminate" /\ todo' \subseteq todo
  PROVE  ConnectInv'
  <1>1. /\ token' \in [Activities -> 0..accepted'] /\ missing' \subseteq Activities
        /\ \A a \in Activities \ missing' : token'[a] # 0 /\ Hosts(owner'[token'[a]], a)
        /\ \A a \in Activities \ missing : token[a] \in 1..accepted
        /\ 1..accepted \subseteq 1..accepted'
    BY MapStays DEF ConnectInv
  <1>2. pc = "run" => ConnectedTokens(token) \subseteq 1..accepted
    BY <1>1 DEF ConnectInv, ConnectorInv, ConnectedTokens
  <1>3. /\ pc' \in {"bind", "connect", "sync", "run", "terminate", "done", "failed"}
        /\ pc' \in {"sync", "run", "terminate", "done"} => missing' = {}
    BY DEF ConnectInv, ConnectorInv
  <1>4. /\ pc' = "sync" => todo' \subseteq Activities
        /\ pc' = "terminate" => todo' \subseteq 1..accepted'
    BY <1>1, <1>2 DEF ConnectInv, ConnectorInv
  <1>. QED  BY <1>1, <1>3, <1>4 DEF ConnectInv, ConnectorInv

LEMMA SchedulerStep ==
  ASSUME ConnectInv, Scheduler \/ Receive \/ StartTerminate \/ \E a \in Activities : SendToActivity(a)
  PROVE  ConnectInv'
  <1>. USE DEF ConnectInv
  <1>1. accepted \in Nat /\ 1..accepted \subseteq Tokens
    BY Accepting
  <1>2. /\ pc \in {"sync", "run"} => \A a \in Activities : token[a] \in 1..accepted
        /\ pc = "terminate" => todo \subseteq 1..accepted
    BY <1>1 DEF ConnectorInv
  <1>3. \A c : StartupSync \in ToWorker(owner[c]) /\ Terminate \in ToWorker(owner[c])
    BY DEF ToWorker
  <1>4. CASE Start
    <2>1. /\ bound' = TRUE /\ pc' = "connect" /\ outcome' = "-"
          /\ UNCHANGED <<opened, accepted, owner, toServer, buffered, readable, events, closed,
                         toClient, said, token, missing, todo>>
      BY <1>4 DEF Start, Bind
    <2>2. ServerInv'
      BY <2>1 DEF ServerInv, Carried, Connected, Remembered, Unread
    <2>. QED  BY <1>1, <2>1, <2>2, OtherSteps
  <1>5. CASE ConnectGoesOn
    <2>1. ReceiveNothing \/ \E c \in Tokens : ReceiveError(c)
      BY <1>5 DEF ConnectGoesOn
    <2>2. /\ ServerInv' /\ owner' = owner
          /\ accepted' \in Nat /\ accepted <= accepted' /\ accepted \in Nat
      BY <2>1, NoSignalReceived
    <2>. QED  BY <1>5, <2>2, OtherSteps DEF ConnectGoesOn
  <1>6. CASE ConnectTimesOut
    <2>1. /\ pc' = "failed" /\ outcome' = "-" /\ UNCHANGED <<token, missing, todo>>
          /\ UNCHANGED <<bound, accepted, buffered, readable, events, opened, owner, closed, said,
                         toServer, toClient>>
      BY <1>6 DEF ConnectTimesOut, socketVars, serverVars, clientVars
    <2>2. ServerInv'
      BY <2>1 DEF ServerInv, Carried, Connected, Remembered, Unread
    <2>. QED  BY <1>1, <2>1, <2>2, OtherSteps
  <1>7. CASE \E c \in Tokens : ReceiveHello(c)
    BY <1>7, HelloStep
  <1>8. ASSUME NEW c \in Tokens, BroadcastTerminate(c)
        PROVE  ConnectInv'
    <2>1. c \in 1..accepted
      BY <1>2, <1>8 DEF BroadcastTerminate
    <2>2. ServerInv' /\ owner' = owner /\ accepted' = accepted
      BY <1>3, <1>8, <2>1, Sent DEF BroadcastTerminate
    <2>3. /\ pc = "terminate" /\ pc' \in {pc, "done"} /\ todo' \subseteq todo
          /\ UNCHANGED <<token, missing>> /\ outcome' = "-"
      BY <1>8 DEF BroadcastTerminate
    <2>. QED  BY <1>1, <2>2, <2>3, OtherSteps
  <1>9. ASSUME NEW a \in Activities, SyncTime(a)
        PROVE  ConnectInv'
    <2>1. token[a] \in 1..accepted
      BY <1>2, <1>9 DEF SyncTime
    <2>2. ServerInv' /\ owner' = owner /\ accepted' = accepted
      BY <1>3, <1>9, <2>1, Sent DEF SyncTime
    <2>3. /\ pc = "sync" /\ pc' \in {pc, "run", "failed"} /\ todo' \subseteq todo
          /\ UNCHANGED <<token, missing>> /\ outcome' = "-"
      BY <1>9 DEF SyncTime
    <2>. QED  BY <1>1, <2>2, <2>3, OtherSteps
  <1>10. ASSUME NEW a \in Activities, SendToActivity(a)
         PROVE  ConnectInv'
    <2>1. token[a] \in 1..accepted /\ Hosts(owner[token[a]], a)
      BY <1>2, <1>10 DEF SendToActivity, ConnectorInv
    <2>2. Core(a) \in ToWorker(owner[token[a]])
      BY <2>1 DEF ToWorker, Hosted
    <2>3. ServerInv' /\ owner' = owner /\ accepted' = accepted
      BY <1>10, <2>1, <2>2, Sent DEF SendToActivity
    <2>4. UNCHANGED <<pc, todo, token, missing>> /\ outcome' = "-"
      BY <1>10 DEF SendToActivity
    <2>. QED  BY <1>1, <2>3, <2>4, OtherSteps
  <1>11. CASE Receive
    <2>1. /\ ServerInv' /\ owner' = owner
          /\ accepted' \in Nat /\ accepted <= accepted' /\ accepted \in Nat
      BY <1>11, SignalReceived, NoSignalReceived DEF Receive
    <2>2. UNCHANGED <<pc, todo, token, missing>> /\ outcome' \in {"none", "error", "signal", "hello"}
      BY <1>11 DEF Receive
    <2>. QED  BY <2>1, <2>2, OtherSteps
  <1>12. CASE StartTerminate
    <2>1. /\ pc = "run" /\ pc' = "terminate" /\ todo' = ConnectedTokens(token)
          /\ outcome' = "-" /\ UNCHANGED <<token, missing>>
          /\ UNCHANGED <<bound, accepted, buffered, readable, events, opened, owner, closed, said,
                         toServer, toClient>>
      BY <1>12 DEF StartTerminate, socketVars, serverVars, clientVars
    <2>2. ServerInv'
      BY <2>1 DEF ServerInv, Carried, Connected, Remembered, Unread
    <2>. QED  BY <1>1, <2>1, <2>2, OtherSteps
  <1>. QED  BY <1>4, <1>5, <1>6, <1>7, <1>8, <1>9, <1>10, <1>11, <1>12 DEF Scheduler

LEMMA ClientStep ==
  ASSUME ConnectInv, NEW w \in Workers, Worker(w) \/ WorkerDies(w)
  PROVE  ConnectInv'
  <1>1. ServerInv' /\ accepted' = accepted /\ \A c \in 1..accepted : owner'[c] = owner[c]
    BY Opens, SaysHello, Answers, Dies DEF ConnectInv, Worker, WorkerDies, Client
  <1>2. accepted \in Nat
    BY Accepting DEF ConnectInv
  <1>3. UNCHANGED <<pc, todo, token, missing>> /\ outcome' = "-"
    BY DEF Worker, WorkerDies
  <1>. QED  BY <1>1, <1>2, <1>3, OtherSteps

-----------------------------------------------------------------------------
(***************************************************************************)
(* The invariant of direct socket signalling: every connection carries     *)
(* signals about the activities of its worker only, the server reads no    *)
(* further than what was written, and the connector's map follows the      *)
(* hellos (socket/server.rs, socket/client.rs, direct/scheduler.rs).       *)
(***************************************************************************)
THEOREM ConnectInvariant == Spec => []ConnectInv
  <1>1. ConnectInv /\ [Next]_vars => ConnectInv'
    <2>1. ConnectInv /\ Next => ConnectInv'
      BY SchedulerStep, ClientStep DEF Next
    <2>2. ConnectInv /\ UNCHANGED vars => ConnectInv'
      BY DEF ConnectInv, ServerInv, ConnectorInv, Carried, Connected, Remembered, Unread, vars, socketVars,
             serverVars, clientVars, connectorVars
    <2>. QED  BY <2>1, <2>2
  <1>. QED  BY <1>1, InitiallyInv, PTL DEF Spec

(***************************************************************************)
(* send_to_activity finds a token for every activity once connect_remotes  *)
(* has returned, and it is of a connection of the activity's own worker,   *)
(* whatever workers died, came back and said hello twice meanwhile.        *)
(***************************************************************************)
THEOREM EverythingIsRouted == Spec => []RoutedToHost
  <1>1. ConnectInv => RoutedToHost
    <2>. SUFFICES ASSUME ConnectInv PROVE RoutedToHost
      OBVIOUS
    <2>1. TypeOK
      BY DEF ConnectInv, ServerInv, ConnectorInv, TypeOK
    <2>2. ASSUME NEW c \in Tokens, NEW i \in DOMAIN toClient[c], toClient[c][i].type = "Core"
          PROVE  Hosts(owner[c], toClient[c][i].id)
      <3>1. toClient[c][i] \in ToWorker(owner[c])
        BY ElementOfSeq DEF ConnectInv, ServerInv, Carried
      <3>. QED  BY <2>2, <3>1 DEF ToWorker, Hosted, Core, StartupSync, Terminate
    <2>. QED  BY <2>1, <2>2 DEF RoutedToHost, ConnectInv, ConnectorInv
  <1>. QED  BY <1>1, ConnectInvariant, PTL

(***************************************************************************)
(* SocketServer::receive returns nothing only if no accepted connection is *)
(* closed and none has an unread signal, in whatever order connections are *)
(* read, errors repeated and connections accepted: an event the poll has   *)
(* given away is kept in stream_readable or in the receive buffer.         *)
(***************************************************************************)
THEOREM SilenceIsReal == Spec => NoFalseSilence
  <1>. DEFINE Silent == \A c \in 1..accepted : c \notin closed /\ toServer[c] = << >>
  <1>1. ASSUME ConnectInv, ReceiveNothing PROVE Silent
    <2>. SUFFICES ASSUME NEW c \in 1..accepted, c \in closed \/ toServer[c] # << >> PROVE FALSE
      OBVIOUS
    <2>1. /\ c \in 1..opened /\ c \in Tokens /\ buffered[c] \in 0..Len(toServer[c])
          /\ toServer[c] \in Seq(FromWorker(owner[c]))
      BY <1>1, Accepting DEF ConnectInv
    <2>2. ~Returns(c, Ready)
      BY <1>1 DEF ReceiveNothing
    <2>3. Poll
      BY <1>1 DEF ReceiveNothing
    <2>4. CASE Unread(c)
      <3>1. Polled
        BY <1>1 DEF ReceiveNothing, Polled, Ready
      <3>2. c \notin events'
        BY <2>3, <3>1 DEF Poll
      <3>. QED  BY <1>1, <2>1, <2>2, <2>3, <2>4, <3>2, ReadyReturns DEF ConnectInv
    <2>5. CASE ~Unread(c)
      <3>1. toServer[c] # << >> /\ Len(toServer[c]) # 0
        BY <2>1, <2>5, EmptySeq DEF Unread
      <3>2. buffered[c] > 0
        BY <2>1, <2>5, <3>1 DEF Unread
      <3>. QED  BY <2>2, <3>1, <3>2 DEF Returns, ReadsSignal
    <2>. QED  BY <2>4, <2>5
  <1>2. ConnectInv /\ Next => (outcome' = "none" => Silent)
    <2>. SUFFICES ASSUME ConnectInv, Next, outcome' = "none" PROVE Silent
      OBVIOUS
    <2>1. Receive
      BY DEF Next, Scheduler, Start, ConnectGoesOn, ConnectTimesOut, ReceiveHello,
             BroadcastTerminate, SyncTime, StartTerminate, SendToActivity, Worker, WorkerDies
    <2>2. ReceiveNothing
      BY <2>1 DEF Receive
    <2>. QED  BY <1>1, <2>2
  <1>3. ConnectInv /\ [Next]_vars => [outcome' = "none" => Silent]_vars
    BY <1>2
  <1>. QED  BY <1>3, ConnectInvariant, PTL DEF Spec, NoFalseSilence
=============================================================================
