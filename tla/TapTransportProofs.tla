-------------------------- MODULE TapTransportProofs --------------------------
(***************************************************************************)
(* Proofs about TapTransport.  With the stream behind it, the ring still   *)
(* does only what SpscRing allows, so that what is proved of the ring      *)
(* holds of the composition.  In the stream every thread's tokens keep     *)
(* their order, and until a frame is torn the stream is whole frames; so   *)
(* the frames arrive.                                                      *)
(***************************************************************************)
EXTENDS TapTransport, SpscRingProofs

(* A step of the composition is a step of one of the ring's threads, or leaves the ring alone. *)
LEMMA TapStep == [TapNext]_tapVars => [Next]_vars
<1> SUFFICES ASSUME [TapNext]_tapVars PROVE [Next]_vars
  OBVIOUS
<1>1. CASE Sieving
  BY <1>1 DEF Sieving, Next
<1>2. CASE Draining
  BY <1>2 DEF Draining, Next, IoThread
<1>3. CASE ChunkComplete \/ Flush \/ ChunkAssign \/ GiveUp \/ recvMsg \/ Read \/ (\E th \in Threads : sendExact(th))
  BY <1>3 DEF ChunkComplete, Flush, ChunkAssign, GiveUp, recvMsg, Read, sendExact
<1>4. CASE TapFinished \/ UNCHANGED tapVars
  BY <1>4 DEF TapFinished, tapVars
<1> QED BY <1>1, <1>2, <1>3, <1>4 DEF TapNext

(* The worker's and the coordinator's threads, sockets and all, implement the ring. *)
THEOREM TapIsRing == TapSpec => Spec
<1>1. TapInit => Init
  BY DEF TapInit
<1>2. [TapNext]_tapVars => [Next]_vars
  BY TapStep
<1> QED BY <1>1, <1>2, PTL DEF TapSpec, Spec

(* The two threads of the worker never meet at a slot of the ring, whatever the I/O thread
   is kept waiting for by the socket. *)
THEOREM TapSlotsApart == TapSpec => []SlotsApart
  BY TapIsRing, RingSlotsApart, PTL

(* FLUSH_ACK follows a drained ring. *)
THEOREM TapDrainedAtExit == TapSpec => []DrainedAtExit
  BY TapIsRing, RingDrainedAtExit, PTL

(* The ring of the data tap is a bounded first-in first-out queue. *)
THEOREM TapIsFifo == TapSpec => IsFifo
  BY TapIsRing, RingIsFifo, PTL

-----------------------------------------------------------------------------
(* The stream behind the ring.  A frame is its header, its payload if it has one, and its checksum. *)
Layouts == {<<Header, Crc>>, <<Header, Payload, Crc>>}
FrameSet == [type : {"batch", "complete", "flush", "assign"}, items : Seq(Nat), no : Nat, parts : Layouts]
Token == [frame : FrameSet, part : {Header, Payload, Crc}]

(* The I/O thread sends the batches, the main thread everything else. *)
Sender(f) == IF f.type = "batch" THEN "io" ELSE "main"

(* Where a token stands in what its thread sends. *)
Rank(t) == 4 * t.frame.no + t.part

(* Types of the stream and of its history. *)
TapTypeOK ==
  /\ dir \in {"up", "ring", "down"}
  /\ sending \in [Threads -> Seq(Token)]
  /\ controls \in Nat
  /\ wire \in Seq(Token) /\ recv_buf \in Seq(Token)
  /\ received \in Seq(FrameSet) /\ sent \in Seq(FrameSet)
  /\ failed \subseteq FrameSet
  /\ torn \in BOOLEAN

(* Every frame there is has been numbered by sendMsg. *)
Numbered ==
  /\ \A i \in DOMAIN Stream : Stream[i].frame.no < Len(sent)
  /\ \A th \in Threads : \A i \in DOMAIN sending[th] : sending[th][i].frame.no < Len(sent)
  /\ \A i \in DOMAIN received : received[i].no < Len(sent)
  /\ \A f \in failed : f.no < Len(sent)

(* What a thread has to send is the rest of one frame of its own, of no frame that failed. *)
RestOf(s, f, k) ==
  /\ k \in 1 .. Len(f.parts) /\ Len(s) = Len(f.parts) - k + 1
  /\ \A i \in DOMAIN s : s[i] = [frame |-> f, part |-> f.parts[k + i - 1]]

SendsRest ==
  /\ dir = "down" => sending["io"] = <<>>
  /\ \A th \in Threads : sending[th] # <<>> =>
       LET f == sending[th][1].frame
       IN  /\ Sender(f) = th /\ f \notin failed
           /\ \E k \in 1 .. 3 : RestOf(sending[th], f, k)

(* What a thread sends arrives in the order in which it was sent: first what recvMsg has returned, ... *)
ReceivedFirst ==
  \A i \in DOMAIN received :
    /\ received[i] \notin failed
    /\ \A j \in DOMAIN Stream : Sender(Stream[j].frame) = Sender(received[i]) => received[i].no < Stream[j].frame.no
    /\ \A j \in DOMAIN sending[Sender(received[i])] : received[i].no < sending[Sender(received[i])][j].frame.no
    /\ \A j \in DOMAIN received : i < j /\ Sender(received[i]) = Sender(received[j]) => received[i].no < received[j].no

(* ... then what is in the stream, then what is still to be sent.  A frame whose checksum is in the
   stream was sent to the end. *)
StreamNext ==
  \A i \in DOMAIN Stream :
    /\ Stream[i].part = Crc => Stream[i].frame \notin failed
    /\ \A j \in DOMAIN Stream : i < j /\ Sender(Stream[i].frame) = Sender(Stream[j].frame) => Rank(Stream[i]) < Rank(Stream[j])
    /\ \A j \in DOMAIN sending[Sender(Stream[i].frame)] : Rank(Stream[i]) < Rank(sending[Sender(Stream[i].frame)][j])

(* Token u may stand behind token t. *)
Behind(t, u) ==
  IF t.part = Crc THEN u.part = Header
  ELSE u.frame = t.frame /\ u.part = IF t.part = Header THEN t.frame.parts[2] ELSE Crc

(* Until a frame is torn the stream is whole frames and the beginning of one somebody is sending. *)
Framed ==
  /\ Stream # <<>> => Stream[1].part = Header
  /\ \A i \in DOMAIN Stream : i + 1 \in DOMAIN Stream => Behind(Stream[i], Stream[i + 1])
  /\ \A th \in Threads : Midway(th) =>
       /\ Stream # <<>> /\ Stream[Len(Stream)].part # Crc
       /\ Behind(Stream[Len(Stream)], sending[th][1])
  /\ (Stream # <<>> /\ Stream[Len(Stream)].part # Crc) => \E th \in Threads : Midway(th)

(* A frame that was sent failed, was received, is in the stream or is being sent. *)
Accounted ==
  \A i \in DOMAIN sent :
    \/ sent[i] \in failed
    \/ \E k \in DOMAIN received : received[k] = sent[i]
    \/ \E k \in DOMAIN Stream : Stream[k].frame = sent[i]
    \/ \E th \in Threads : sending[th] # <<>> /\ sending[th][1].frame = sent[i]

FramesInv ==
  /\ TapTypeOK /\ Numbered /\ SendsRest /\ ReceivedFirst /\ StreamNext
  /\ ~torn => Framed /\ Accounted

-----------------------------------------------------------------------------
(* The layout of a frame: its parts come in order, the checksum last. *)
LEMMA PartsShape ==
  ASSUME NEW p \in Layouts
  PROVE  /\ Len(p) \in 2 .. 3 /\ DOMAIN p = 1 .. Len(p)
         /\ p[1] = Header /\ p[Len(p)] = Crc
         /\ \A i \in 1 .. Len(p) : p[i] \in {Header, Payload, Crc} /\ (p[i] = Header <=> i = 1) /\ (p[i] = Crc <=> i = Len(p))
         /\ \A i, j \in 1 .. Len(p) : i < j => p[i] < p[j]
         /\ \A i \in 1 .. Len(p) - 1 : p[i + 1] = IF p[i] = Header THEN p[2] ELSE Crc
<1>1. CASE p = <<Header, Crc>>
  BY <1>1 DEF Header, Payload, Crc
<1>2. CASE p = <<Header, Payload, Crc>>
  BY <1>2 DEF Header, Payload, Crc
<1> QED BY <1>1, <1>2 DEF Layouts

(* A frame that sendMsg has just built is the rest of itself. *)
LEMMA TokensRest ==
  ASSUME NEW f \in FrameSet
  PROVE  /\ Tokens(f) \in Seq(Token) /\ Len(Tokens(f)) = Len(f.parts)
         /\ \A i \in 1 .. Len(f.parts) : Tokens(f)[i] = [frame |-> f, part |-> f.parts[i]]
         /\ Tokens(f) # <<>> /\ Tokens(f)[1].frame = f /\ Tokens(f)[1].part = Header
         /\ RestOf(Tokens(f), f, 1)
<1>1. f.parts \in Layouts
  BY DEF FrameSet
<1>2. /\ Len(f.parts) \in 2 .. 3 /\ DOMAIN f.parts = 1 .. Len(f.parts) /\ f.parts[1] = Header
      /\ \A i \in 1 .. Len(f.parts) : f.parts[i] \in {Header, Payload, Crc}
  BY <1>1, PartsShape
<1>3. Tokens(f) = [i \in 1 .. Len(f.parts) |-> [frame |-> f, part |-> f.parts[i]]]
  BY <1>2 DEF Tokens
<1>4. \A i \in 1 .. Len(f.parts) : [frame |-> f, part |-> f.parts[i]] \in Token
  BY <1>2 DEF Token
<1>5. Tokens(f) \in Seq(Token) /\ Len(Tokens(f)) = Len(f.parts) /\ DOMAIN Tokens(f) = 1 .. Len(f.parts)
  BY <1>2, <1>3, <1>4
<1>6. \A i \in 1 .. Len(f.parts) : Tokens(f)[i] = [frame |-> f, part |-> f.parts[i]]
  BY <1>3
<1>7. 1 \in 1 .. Len(f.parts)
  BY <1>2
<1>8. Tokens(f) # <<>> /\ Tokens(f)[1].frame = f /\ Tokens(f)[1].part = Header
  <2>1. Tokens(f)[1] = [frame |-> f, part |-> Header]
    BY <1>2, <1>6, <1>7
  <2>2. Len(Tokens(f)) # 0
    BY <1>2, <1>5
  <2> QED BY <2>1, <2>2, <1>5
<1>9. RestOf(Tokens(f), f, 1)
  BY <1>2, <1>5, <1>6, <1>7 DEF RestOf
<1> QED BY <1>5, <1>6, <1>8, <1>9

(* The stream is a sequence of tokens. *)
LEMMA StreamType ==
  ASSUME TapTypeOK
  PROVE  Stream \in Seq(Token) /\ Len(Stream) \in Nat /\ DOMAIN Stream = 1 .. Len(Stream)
<1>1. Stream \in Seq(Token)
  BY DEF TapTypeOK, Stream
<1> QED BY <1>1, LenProperties

(* A token's frame is numbered, has a layout, and ranks by its number first. *)
LEMMA RankOf ==
  ASSUME NEW t \in Token
  PROVE  /\ t.frame \in FrameSet /\ t.frame.no \in Nat /\ t.frame.parts \in Layouts
         /\ t.part \in 1 .. 3 /\ Rank(t) \in Nat
         /\ Rank(t) = 4 * t.frame.no + t.part
         /\ t.part \in {Header, Payload, Crc}
         /\ Sender(t.frame) \in Threads
<1>1. t.frame \in FrameSet /\ t.frame.no \in Nat /\ t.frame.parts \in Layouts /\ t.part \in 1 .. 3 /\ t.part \in {Header, Payload, Crc}
  BY DEF Token, FrameSet, Header, Payload, Crc
<1>2. Sender(t.frame) \in Threads
  BY DEF Sender, Threads
<1> QED BY <1>1, <1>2 DEF Rank

(* Frames of different numbers do not overlap in rank. *)
LEMMA RankNo ==
  ASSUME NEW t \in Token, NEW u \in Token
  PROVE  /\ t.frame.no < u.frame.no => Rank(t) < Rank(u)
         /\ t.part = Crc /\ Rank(t) < Rank(u) => t.frame.no < u.frame.no
<1>1. /\ t.frame.no \in Nat /\ t.part \in 1 .. 3 /\ Rank(t) = 4 * t.frame.no + t.part
      /\ u.frame.no \in Nat /\ u.part \in 1 .. 3 /\ Rank(u) = 4 * u.frame.no + u.part
  BY RankOf
<1>2. \A m, n \in Nat : \A a, b \in 1 .. 3 : /\ m < n => 4 * m + a < 4 * n + b
                                           /\ 4 * m + 3 < 4 * n + b => m < n
  OBVIOUS
<1> QED BY <1>1, <1>2 DEF Crc

(* What the rest of a frame looks like: tokens of that frame in rising rank, one behind the other. *)
LEMMA RestShape ==
  ASSUME NEW f \in FrameSet, NEW k \in 1 .. 3, NEW s \in Seq(Token), RestOf(s, f, k)
  PROVE  /\ Len(s) \in 1 .. 3 /\ DOMAIN s = 1 .. Len(s) /\ s # <<>> /\ s[1].frame = f
         /\ \A i \in 1 .. Len(s) : s[i].frame = f /\ (s[i].part = Crc <=> i = Len(s))
         /\ \A i \in 2 .. Len(s) : s[i].part # Header
         /\ \A i, j \in 1 .. Len(s) : i < j => Rank(s[i]) < Rank(s[j])
         /\ \A i \in 1 .. Len(s) - 1 : Behind(s[i], s[i + 1])
<1>1. f.parts \in Layouts /\ f.no \in Nat
  BY DEF FrameSet
<1> DEFINE p == f.parts
<1>2. /\ Len(p) \in 2 .. 3 
      /\ \A i \in 1 .. Len(p) : p[i] \in {Header, Payload, Crc} /\ (p[i] = Header <=> i = 1) /\ (p[i] = Crc <=> i = Len(p))
      /\ \A i, j \in 1 .. Len(p) : i < j => p[i] < p[j]
      /\ \A i \in 1 .. Len(p) - 1 : p[i + 1] = IF p[i] = Header THEN p[2] ELSE Crc
  BY <1>1, PartsShape
<1>3. Len(s) \in Nat /\ DOMAIN s = 1 .. Len(s)
  BY LenProperties
<1>4. k \in 1 .. Len(p) /\ Len(s) = Len(p) - k + 1 /\ \A i \in 1 .. Len(s) : s[i] = [frame |-> f, part |-> p[k + i - 1]]
  BY <1>3 DEF RestOf
<1> HIDE DEF p
<1>5. Len(s) \in 1 .. 3
  BY <1>2, <1>3, <1>4
<1>6. \A i \in 1 .. Len(s) : k + i - 1 \in 1 .. Len(p) /\ (k + i - 1 = Len(p) <=> i = Len(s)) /\ (k + i - 1 = 1 => i = 1)
  BY <1>2, <1>3, <1>4
<1>7. \A i \in 1 .. Len(s) : s[i].frame = f /\ s[i].part = p[k + i - 1]
  <2> SUFFICES ASSUME NEW i \in 1 .. Len(s) PROVE s[i].frame = f /\ s[i].part = p[k + i - 1]
    OBVIOUS
  <2>1. s[i] = [frame |-> f, part |-> p[k + i - 1]]
    BY <1>4
  <2> QED BY <2>1
<1>8. \A i \in 1 .. Len(s) : s[i].part = Crc <=> i = Len(s)
  BY <1>2, <1>6, <1>7
<1>9. \A i \in 2 .. Len(s) : s[i].part # Header
  <2> SUFFICES ASSUME NEW i \in 2 .. Len(s) PROVE s[i].part # Header
    OBVIOUS
  <2>1. i \in 1 .. Len(s) /\ k + i - 1 # 1
    BY <1>2, <1>3, <1>4
  <2> QED BY <2>1, <1>2, <1>6, <1>7
<1>10. ASSUME NEW i \in 1 .. Len(s), NEW j \in 1 .. Len(s), i < j PROVE Rank(s[i]) < Rank(s[j])
  <2>1. s[i] \in Token /\ s[j] \in Token
    BY <1>3
  <2>2. Rank(s[i]) = 4 * f.no + p[k + i - 1] /\ Rank(s[j]) = 4 * f.no + p[k + j - 1]
    BY <1>7 DEF Rank
  <2>3. k + i - 1 \in 1 .. Len(p) /\ k + j - 1 \in 1 .. Len(p) /\ k + i - 1 < k + j - 1
    <3>1. k + i - 1 \in 1 .. Len(p) /\ k + j - 1 \in 1 .. Len(p)
      BY <1>6
    <3>2. k + i - 1 < k + j - 1
      BY <1>3, <1>10
    <3> QED BY <3>1, <3>2
  <2>4. p[k + i - 1] < p[k + j - 1] /\ p[k + i - 1] \in 1 .. 3 /\ p[k + j - 1] \in 1 .. 3
    BY <1>2, <2>3 DEF Header, Payload, Crc
  <2>5. \A n \in Nat : \A a, b \in 1 .. 3 : a < b => 4 * n + a < 4 * n + b
    OBVIOUS
  <2> QED BY <2>2, <2>4, <2>5, <1>1
<1>11. ASSUME NEW i \in 1 .. Len(s) - 1 PROVE Behind(s[i], s[i + 1])
  <2>1. i \in 1 .. Len(s) /\ i + 1 \in 1 .. Len(s) /\ i # Len(s) /\ k + (i + 1) - 1 = (k + i - 1) + 1 /\ k + i - 1 \in 1 .. Len(p) - 1
    BY <1>2, <1>3, <1>4
  <2>2. p[(k + i - 1) + 1] = IF p[k + i - 1] = Header THEN p[2] ELSE Crc
    BY <2>1, <1>2
  <2>3. s[i].part # Crc /\ s[i].frame = f /\ s[i + 1].frame = f
    BY <2>1, <1>7, <1>8
  <2> QED BY <2>1, <2>2, <2>3, <1>7 DEF Behind, p
<1>12. s # <<>> /\ s[1].frame = f
  BY <1>3, <1>5, <1>7
<1>13. \A i \in 1 .. Len(s) : s[i].frame = f /\ (s[i].part = Crc <=> i = Len(s))
  BY <1>7, <1>8
<1> QED BY <1>3, <1>5, <1>9, <1>10, <1>11, <1>12, <1>13

-----------------------------------------------------------------------------
(* Streams are joined in any order. *)
LEMMA Regroup ==
  ASSUME NEW a \in Seq(Token), NEW b \in Seq(Token), NEW c \in Seq(Token)
  PROVE  (a \o b) \o c = a \o (b \o c)
  BY ConcatAssociative

(* What the calls do to the stream: recv() only moves its boundary, ... *)
LEMMA ReadKeeps ==
  ASSUME TapTypeOK, Read
  PROVE  Stream' = Stream /\ recv_buf' \in Seq(Token) /\ wire' \in Seq(Token)
<1>1. PICK k \in 1 .. Len(wire) : recv_buf' = recv_buf \o SubSeq(wire, 1, k) /\ wire' = SubSeq(wire, k + 1, Len(wire))
  BY DEF Read
<1>2. wire \in Seq(Token) /\ recv_buf \in Seq(Token) /\ k \in Nat
  BY DEF TapTypeOK
<1>3. SubSeq(wire, 1, k) \in Seq(Token) /\ SubSeq(wire, k + 1, Len(wire)) \in Seq(Token)
  BY <1>2
<1>4. SubSeq(wire, 1, k) \o SubSeq(wire, k + 1, Len(wire)) = wire
  BY <1>2
<1>5. Stream' = recv_buf \o (SubSeq(wire, 1, k) \o SubSeq(wire, k + 1, Len(wire)))
  <2>1. Stream' = (recv_buf \o SubSeq(wire, 1, k)) \o SubSeq(wire, k + 1, Len(wire))
    BY <1>1 DEF Stream
  <2> DEFINE x == SubSeq(wire, 1, k)
             y == SubSeq(wire, k + 1, Len(wire))
  <2>2. x \in Seq(Token) /\ y \in Seq(Token)
    BY <1>3
  <2> HIDE DEF x, y
  <2>3. (recv_buf \o x) \o y = recv_buf \o (x \o y)
    BY <1>2, <2>2, Regroup
  <2> QED BY <2>1, <2>3 DEF x, y
<1>6. recv_buf' \in Seq(Token) /\ wire' \in Seq(Token)
  BY <1>1, <1>2, <1>3, ConcatProperties
<1>7. Stream' = Stream
  BY <1>4, <1>5 DEF Stream
<1> QED BY <1>6, <1>7

(* ... send() appends to it what it takes, ... *)
LEMMA SendAppends ==
  ASSUME TapTypeOK, NEW th \in Threads, sendExact(th)
  PROVE  \E k \in 1 .. Len(sending[th]) :
           /\ Stream' = Stream \o SubSeq(sending[th], 1, k)
           /\ sending' = [sending EXCEPT ![th] = SubSeq(sending[th], k + 1, Len(sending[th]))]
           /\ wire' \in Seq(Token) /\ sending' \in [Threads -> Seq(Token)]
<1>1. sending[th] # <<>> /\ sending \in [Threads -> Seq(Token)] /\ sending[th] \in Seq(Token) /\ Len(sending[th]) \in Nat \ {0}
  BY DEF TapTypeOK, sendExact
<1>2. PICK k \in 1 .. (IF Len(sending[th]) = 1 THEN 1 ELSE Len(sending[th]) - 1) :
         /\ wire' = wire \o SubSeq(sending[th], 1, k)
         /\ sending' = [sending EXCEPT ![th] = SubSeq(@, k + 1, Len(@))]
  BY DEF sendExact
<1>3. k \in 1 .. Len(sending[th])
  BY <1>1
<1>4. SubSeq(sending[th], 1, k) \in Seq(Token) /\ SubSeq(sending[th], k + 1, Len(sending[th])) \in Seq(Token)
  BY <1>1, <1>3
<1>5. wire \in Seq(Token) /\ recv_buf \in Seq(Token) /\ recv_buf' = recv_buf
  BY DEF TapTypeOK, sendExact
<1>6. Stream' = Stream \o SubSeq(sending[th], 1, k) /\ wire' \in Seq(Token)
  BY <1>2, <1>4, <1>5 DEF Stream
<1>7. sending' = [sending EXCEPT ![th] = SubSeq(sending[th], k + 1, Len(sending[th]))] /\ sending' \in [Threads -> Seq(Token)]
  BY <1>1, <1>2, <1>4
<1> QED BY <1>3, <1>6, <1>7

(* ... and recvMsg takes its first frame, or all it has. *)
LEMMA ReceiveDrops ==
  ASSUME TapTypeOK, recvMsg
  PROVE  /\ recv_buf' \in Seq(Token)
         /\ \E n \in 1 .. Len(Stream) : Stream' = SubSeq(Stream, n + 1, Len(Stream))
         /\ Stream # <<>> /\ Stream[1] = recv_buf[1] /\ Stream[1] \in Token
         /\ Stream[1].part = Header =>
              /\ FrameTotal(recv_buf) = Len(Stream[1].frame.parts) /\ Len(Stream[1].frame.parts) <= Len(Stream)
              /\ Stream' = SubSeq(Stream, Len(Stream[1].frame.parts) + 1, Len(Stream))
              /\ CrcMatches(recv_buf) <=> \A i \in 1 .. Len(Stream[1].frame.parts) : Stream[i] = Tokens(Stream[1].frame)[i]
<1> DEFINE b == recv_buf
<1>1. b \in Seq(Token) /\ wire \in Seq(Token) /\ wire' = wire /\ Decided(b)
  BY DEF TapTypeOK, recvMsg
<1>2. b # <<>> /\ (b[1].part # Header \/ Len(b) >= FrameTotal(b))
  BY <1>1 DEF Decided
<1>3. Len(b) \in Nat \ {0} /\ Len(wire) \in Nat /\ 1 \in DOMAIN b /\ b[1] \in Token
  BY <1>1, <1>2
<1>4. /\ Stream \in Seq(Token) /\ Len(Stream) = Len(b) + Len(wire) /\ Stream # <<>>
      /\ \A i \in 1 .. Len(b) : Stream[i] = b[i]
  BY <1>1, <1>3 DEF Stream
<1>5. Stream[1] = b[1]
  BY <1>3, <1>4
<1>6. ASSUME NEW n \in 1 .. Len(b), recv_buf' = SubSeq(b, n + 1, Len(b))
      PROVE  Stream' = SubSeq(Stream, n + 1, Len(Stream)) /\ recv_buf' \in Seq(Token)
  <2>1. SubSeq(b, n + 1, Len(b)) \in Seq(Token)
    BY <1>1, <1>3
  <2>2. SubSeq(b, n + 1, Len(b)) \o wire = SubSeq(b \o wire, n + 1, Len(b) + Len(wire))
    <3> DEFINE L == SubSeq(b, n + 1, Len(b)) \o wire
               R == SubSeq(b \o wire, n + 1, Len(b) + Len(wire))
    <3>1. n \in Nat /\ n <= Len(b)
      BY <1>3
    <3>2. Len(SubSeq(b, n + 1, Len(b))) = Len(b) - n /\ \A i \in 1 .. Len(b) - n : SubSeq(b, n + 1, Len(b))[i] = b[n + i]
      BY <1>1, <1>3, <3>1
    <3>3. L \in Seq(Token) /\ Len(L) = Len(b) - n + Len(wire)
      BY <1>1, <1>3, <2>1, <3>2
    <3>4. b \o wire \in Seq(Token) /\ Len(b \o wire) = Len(b) + Len(wire)
      BY <1>1
    <3>5. /\ R \in Seq(Token) /\ Len(R) = Len(b) + Len(wire) - n
          /\ \A i \in 1 .. Len(R) : R[i] = (b \o wire)[n + i]
      BY <3>1, <3>4, <1>3
    <3>6. ASSUME NEW i \in 1 .. Len(L) PROVE L[i] = R[i]
      <4>1. i \in 1 .. Len(R) /\ R[i] = (b \o wire)[n + i]
        BY <1>3, <3>1, <3>3, <3>5
      <4>2. CASE i <= Len(b) - n
        <5>1. L[i] = SubSeq(b, n + 1, Len(b))[i]
          BY <4>2, <1>1, <1>3, <2>1, <3>1, <3>2, ConcatProperties
        <5>2. (b \o wire)[n + i] = b[n + i]
          BY <4>2, <1>1, <1>3, <3>1, <3>3, ConcatProperties
        <5> QED BY <4>1, <4>2, <5>1, <5>2, <3>1, <3>2, <3>3, <1>3
      <4>3. CASE i > Len(b) - n
        <5>1. i - (Len(b) - n) \in 1 .. Len(wire) /\ n + i > Len(b) /\ (n + i) - Len(b) = i - (Len(b) - n)
          BY <4>3, <1>3, <3>1, <3>3
        <5>2. L[i] = wire[i - (Len(b) - n)]
          BY <4>3, <1>1, <1>3, <2>1, <3>1, <3>2, <3>3, ConcatProperties
        <5>3. (b \o wire)[n + i] = wire[(n + i) - Len(b)]
          BY <5>1, <1>1, <1>3, <3>1, <3>3, ConcatProperties
        <5> QED BY <4>1, <5>1, <5>2, <5>3
      <4> QED BY <4>2, <4>3, <1>3, <3>1, <3>3
    <3>7. Len(L) = Len(R)
      BY <3>1, <3>3, <3>5, <1>3
    <3> HIDE DEF L, R
    <3>8. L = R
      BY <3>3, <3>5, <3>6, <3>7, SeqEqual
    <3> QED BY <3>8 DEF L, R
  <2> QED BY <1>6, <1>1, <1>4, <2>1, <2>2 DEF Stream
<1>7. CASE b[1].part # Header
  <2>1. recv_buf' = <<>>
    BY <1>7 DEF recvMsg
  <2>2. Len(b) \in 1 .. Len(b) /\ SubSeq(b, Len(b) + 1, Len(b)) = <<>>
    BY <1>1, <1>3
  <2>3. Stream' = SubSeq(Stream, Len(b) + 1, Len(Stream)) /\ recv_buf' \in Seq(Token)
    BY <1>6, <2>1, <2>2
  <2>4. Len(b) \in 1 .. Len(Stream)
    BY <1>3, <1>4
  <2> QED BY <2>3, <2>4, <1>3, <1>4, <1>5, <1>7
<1>8. CASE b[1].part = Header
  <2> DEFINE f == b[1].frame
  <2>1. f \in FrameSet /\ f.parts \in Layouts
    BY <1>3, RankOf
  <2>2. FrameTotal(b) = Len(f.parts) /\ Len(f.parts) \in 2 .. 3
    BY <2>1, PartsShape DEF FrameTotal
  <2>3. Len(f.parts) \in 1 .. Len(b)
    <3>1. Len(b) >= Len(f.parts)
      BY <1>2, <1>8, <2>2
    <3>2. \A x \in 2 .. 3 : \A y \in Nat : y >= x => x \in 1 .. y
      OBVIOUS
    <3> QED BY <3>1, <3>2, <2>2, <1>3
  <2>4. recv_buf' = SubSeq(b, Len(f.parts) + 1, Len(b))
    BY <1>8, <2>2 DEF recvMsg
  <2>5. Stream' = SubSeq(Stream, Len(f.parts) + 1, Len(Stream)) /\ recv_buf' \in Seq(Token)
    BY <1>6, <2>3, <2>4
  <2>6. Tokens(f) \in Seq(Token) /\ Len(Tokens(f)) = Len(f.parts)
    BY <2>1, TokensRest
  <2>7. /\ SubSeq(b, 1, Len(f.parts)) \in Seq(Token) /\ Len(SubSeq(b, 1, Len(f.parts))) = Len(f.parts)
        /\ \A i \in 1 .. Len(f.parts) : SubSeq(b, 1, Len(f.parts))[i] = b[i]
    BY <1>1, <1>3, <2>3
  <2>8. CrcMatches(b) <=> SubSeq(b, 1, Len(f.parts)) = Tokens(f)
    BY <2>2 DEF CrcMatches
  <2>9. SubSeq(b, 1, Len(f.parts)) = Tokens(f) <=> \A i \in 1 .. Len(f.parts) : b[i] = Tokens(f)[i]
    BY <2>2, <2>6, <2>7, SeqEqual
  <2>10. \A i \in 1 .. Len(f.parts) : Stream[i] = b[i]
    BY <1>3, <1>4, <2>3
  <2>11. CrcMatches(b) <=> \A i \in 1 .. Len(f.parts) : Stream[i] = Tokens(f)[i]
    BY <2>8, <2>9, <2>10
  <2>12. Len(f.parts) \in 1 .. Len(Stream) /\ Len(f.parts) <= Len(Stream)
    BY <1>3, <1>4, <2>3
  <2> QED BY <2>2, <2>5, <2>11, <2>12, <1>3, <1>4, <1>5
<1> QED BY <1>7, <1>8

-----------------------------------------------------------------------------
(* A sequence without its first n elements. *)
LEMMA DropAt ==
  ASSUME NEW s \in Seq(Token), NEW n \in 0 .. Len(s)
  PROVE  LET d == SubSeq(s, n + 1, Len(s))
         IN  /\ d \in Seq(Token) /\ Len(d) = Len(s) - n /\ DOMAIN d = 1 .. Len(d) /\ Len(d) \in Nat
             /\ \A i \in 1 .. Len(d) : n + i \in 1 .. Len(s) /\ d[i] = s[n + i]
<1>1. Len(s) \in Nat /\ n \in Nat /\ n <= Len(s)
  BY LenProperties
<1> DEFINE d == SubSeq(s, n + 1, Len(s))
<1>2. d \in Seq(Token) /\ Len(d) = Len(s) - n /\ \A i \in 1 .. Len(s) - n : d[i] = s[n + i]
  BY <1>1
<1>3. DOMAIN d = 1 .. Len(d) /\ Len(d) \in Nat
  BY <1>2, LenProperties
<1>4. \A i \in 1 .. Len(s) - n : n + i \in 1 .. Len(s)
  BY <1>1
<1> QED BY <1>2, <1>3, <1>4

(* A sequence with the first k elements of another one behind it. *)
LEMMA JoinAt ==
  ASSUME NEW s \in Seq(Token), NEW t \in Seq(Token), NEW k \in 1 .. Len(t)
  PROVE  LET d == s \o SubSeq(t, 1, k)
         IN  /\ d \in Seq(Token) /\ Len(d) = Len(s) + k /\ DOMAIN d = 1 .. Len(s) + k
             /\ \A i \in 1 .. Len(s) : d[i] = s[i]
             /\ \A i \in 1 .. k : d[Len(s) + i] = t[i]
<1>1. Len(s) \in Nat /\ Len(t) \in Nat /\ k \in Nat
  BY LenProperties
<1> DEFINE u == SubSeq(t, 1, k)
<1>2. u \in Seq(Token) /\ Len(u) = k /\ \A i \in 1 .. k : u[i] = t[i]
  BY <1>1
<1> HIDE DEF u
<1>3. s \o u \in Seq(Token) /\ Len(s \o u) = Len(s) + k
  BY <1>1, <1>2
<1>4. \A i \in 1 .. Len(s) : (s \o u)[i] = s[i]
  BY <1>1, <1>2
<1>5. \A i \in 1 .. k : (s \o u)[Len(s) + i] = u[i]
  BY <1>1, <1>2
<1>6. DOMAIN (s \o u) = 1 .. Len(s) + k
  BY <1>3, LenProperties
<1> QED BY <1>2, <1>3, <1>4, <1>5, <1>6 DEF u

-----------------------------------------------------------------------------
(* sendMsg begins a frame: it gets the next number, and stands behind everything its thread has sent. *)
LEMMA BeginInv ==
  ASSUME FramesInv, NEW th \in Threads, NEW f \in FrameSet, sendMsg(th, f), sending[th] = <<>>,
         f.no = Len(sent), Sender(f) = th, dir = "down" => th = "main", controls' \in Nat
  PROVE  FramesInv'
<1> DEFINE s == Tokens(f)
<1>1. /\ s \in Seq(Token) /\ Len(s) = Len(f.parts) /\ DOMAIN s = 1 .. Len(s)
      /\ s # <<>> /\ s[1].frame = f /\ s[1].part = Header /\ RestOf(s, f, 1)
      /\ \A i \in 1 .. Len(s) : s[i].frame = f
  <2>1. /\ s \in Seq(Token) /\ Len(s) = Len(f.parts) /\ s # <<>> /\ s[1].frame = f /\ s[1].part = Header /\ RestOf(s, f, 1)
        /\ \A i \in 1 .. Len(f.parts) : s[i] = [frame |-> f, part |-> f.parts[i]]
    BY TokensRest
  <2>2. DOMAIN s = 1 .. Len(s)
    BY <2>1, LenProperties
  <2> HIDE DEF s
  <2>3. ASSUME NEW i \in 1 .. Len(s) PROVE s[i].frame = f
    <3>1. s[i] = [frame |-> f, part |-> f.parts[i]]
      BY <2>1
    <3> QED BY <3>1
  <2> QED BY <2>1, <2>2, <2>3
<1>2. /\ sending' = [sending EXCEPT ![th] = s] /\ sent' = Append(sent, f)
      /\ UNCHANGED <<dir, wire, recv_buf, received, failed, torn>>
  BY DEF sendMsg
<1> HIDE DEF s
<1>3. TapTypeOK /\ Numbered /\ SendsRest /\ ReceivedFirst /\ StreamNext /\ (~torn => Framed /\ Accounted)
  BY DEF FramesInv
<1>4. sending \in [Threads -> Seq(Token)] /\ sent \in Seq(FrameSet) /\ received \in Seq(FrameSet) /\ failed \subseteq FrameSet
  BY <1>3 DEF TapTypeOK
<1>5. sending'[th] = s /\ (\A x \in Threads : x # th => sending'[x] = sending[x]) /\ sending' \in [Threads -> Seq(Token)]
  BY <1>1, <1>2, <1>4
<1>6. /\ sent' \in Seq(FrameSet) /\ Len(sent) \in Nat /\ Len(sent') = Len(sent) + 1 /\ DOMAIN sent' = 1 .. Len(sent) + 1 /\ DOMAIN sent = 1 .. Len(sent)
      /\ \A i \in 1 .. Len(sent) : sent'[i] = sent[i]
      /\ sent'[Len(sent) + 1] = f
  BY <1>2, <1>4, AppendProperties, LenProperties
<1>7. Stream' = Stream
  BY <1>2 DEF Stream
<1>8. Stream \in Seq(Token) /\ Len(Stream) \in Nat /\ DOMAIN Stream = 1 .. Len(Stream)
  BY <1>3, StreamType
<1>10. TapTypeOK'
  BY <1>2, <1>3, <1>5, <1>6 DEF TapTypeOK
<1>11. Numbered'
  <2>1. \A x \in Threads : \A i \in DOMAIN sending[x] : sending[x][i].frame.no \in Nat
    BY <1>4, RankOf
  <2>2. \A i \in DOMAIN Stream : Stream[i].frame.no \in Nat
    BY <1>8, RankOf
  <2>3. \A i \in DOMAIN received : received[i].no \in Nat
    <3>1. \A i \in DOMAIN received : received[i] \in FrameSet
      BY <1>4
    <3> QED BY <3>1 DEF FrameSet
  <2>4. \A g \in failed : g.no \in Nat
    BY <1>4 DEF FrameSet
  <2>5. \A x \in Threads : \A i \in DOMAIN sending'[x] : sending'[x][i].frame.no < Len(sent) + 1
    <3> SUFFICES ASSUME NEW x \in Threads, NEW i \in DOMAIN sending'[x] PROVE sending'[x][i].frame.no < Len(sent) + 1
      OBVIOUS
    <3>1. CASE x = th
      BY <3>1, <1>1, <1>5, <1>6
    <3>2. CASE x # th
      <4>1. sending'[x] = sending[x] /\ i \in DOMAIN sending[x] /\ sending[x][i].frame.no < Len(sent)
        BY <3>2, <1>3, <1>5 DEF Numbered
      <4> QED BY <4>1, <2>1, <1>6
    <3> QED BY <3>1, <3>2
  <2> QED BY <2>2, <2>3, <2>4, <2>5, <1>2, <1>3, <1>6, <1>7 DEF Numbered
<1>12. SendsRest'
  <2>1. f \notin failed
    BY <1>3, <1>6 DEF Numbered
  <2>2. dir' = "down" => sending'["io"] = <<>>
    BY <1>2, <1>3, <1>5 DEF SendsRest, Threads
  <2>3. ASSUME NEW x \in Threads, sending'[x] # <<>>
        PROVE  /\ Sender(sending'[x][1].frame) = x /\ sending'[x][1].frame \notin failed
               /\ \E k \in 1 .. 3 : RestOf(sending'[x], sending'[x][1].frame, k)
    <3>1. CASE x = th
      <4>1. sending'[x] = s /\ s[1].frame = f /\ 1 \in 1 .. 3
        BY <3>1, <1>1, <1>5
      <4> QED BY <4>1, <3>1, <1>1, <2>1
    <3>2. CASE x # th
      BY <2>3, <3>2, <1>3, <1>5 DEF SendsRest
    <3> QED BY <3>1, <3>2
  <2> QED BY <2>2, <2>3, <1>2 DEF SendsRest
<1>13. ReceivedFirst'
  <2>1. \A i \in DOMAIN received : received[i].no < Len(sent)
    BY <1>3 DEF Numbered
  <2>2. \A i \in DOMAIN received : \A j \in DOMAIN sending'[Sender(received[i])] :
          received[i].no < sending'[Sender(received[i])][j].frame.no
    <3> SUFFICES ASSUME NEW i \in DOMAIN received, NEW j \in DOMAIN sending'[Sender(received[i])]
                 PROVE  received[i].no < sending'[Sender(received[i])][j].frame.no
      OBVIOUS
    <3>0. Sender(received[i]) \in Threads
      BY DEF Sender, Threads
    <3>1. CASE Sender(received[i]) = th
      BY <3>1, <2>1, <1>1, <1>5
    <3>2. CASE Sender(received[i]) # th
      BY <3>0, <3>2, <1>3, <1>5 DEF ReceivedFirst
    <3> QED BY <3>1, <3>2
  <2> QED BY <2>2, <1>2, <1>3, <1>7 DEF ReceivedFirst
<1>14. StreamNext'
  <2>1. \A i \in DOMAIN Stream : \A j \in DOMAIN sending'[Sender(Stream[i].frame)] :
          Rank(Stream[i]) < Rank(sending'[Sender(Stream[i].frame)][j])
    <3> SUFFICES ASSUME NEW i \in DOMAIN Stream, NEW j \in DOMAIN sending'[Sender(Stream[i].frame)]
                 PROVE  Rank(Stream[i]) < Rank(sending'[Sender(Stream[i].frame)][j])
      OBVIOUS
    <3>0. Sender(Stream[i].frame) \in Threads /\ Stream[i] \in Token
      BY <1>8, RankOf
    <3>1. CASE Sender(Stream[i].frame) = th
      <4>1. s[j] \in Token /\ s[j].frame = f /\ sending'[Sender(Stream[i].frame)][j] = s[j]
        BY <3>1, <1>1, <1>5
      <4>2. Stream[i].frame.no < Len(sent)
        BY <1>3 DEF Numbered
      <4> QED BY <3>0, <4>1, <4>2, RankNo
    <3>2. CASE Sender(Stream[i].frame) # th
      BY <3>0, <3>2, <1>3, <1>5 DEF StreamNext
    <3> QED BY <3>1, <3>2
  <2> QED BY <2>1, <1>2, <1>3, <1>7 DEF StreamNext
<1>15. \A x \in Threads : Midway(x)' <=> Midway(x)
  <2> SUFFICES ASSUME NEW x \in Threads PROVE Midway(x)' <=> Midway(x)
    OBVIOUS
  <2> QED BY <1>1, <1>5 DEF Midway
<1>16. ~torn => Framed'
  <2>1. \A x \in Threads : Midway(x) => sending'[x] = sending[x]
    BY <1>5 DEF Midway
  <2>2. ~torn => Framed
    BY <1>3
  <2> QED BY <2>1, <2>2, <1>7, <1>15 DEF Framed
<1>17. ~torn => Accounted'
  <2> SUFFICES ASSUME ~torn, NEW i \in DOMAIN sent'
               PROVE  \/ sent'[i] \in failed
                      \/ \E k \in DOMAIN received : received[k] = sent'[i]
                      \/ \E k \in DOMAIN Stream : Stream[k].frame = sent'[i]
                      \/ \E x \in Threads : sending'[x] # <<>> /\ sending'[x][1].frame = sent'[i]
    BY <1>2, <1>7 DEF Accounted
  <2>1. CASE i = Len(sent) + 1
    BY <2>1, <1>1, <1>5, <1>6
  <2>2. CASE i \in 1 .. Len(sent)
    <3>1. sent'[i] = sent[i] /\ i \in DOMAIN sent
      BY <2>2, <1>6
    <3>2. \A x \in Threads : sending[x] # <<>> => sending'[x] = sending[x]
      BY <1>5
    <3> QED BY <3>1, <3>2, <1>3 DEF Accounted
  <2> QED BY <2>1, <2>2, <1>6
<1> QED BY <1>2, <1>10, <1>11, <1>12, <1>13, <1>14, <1>16, <1>17 DEF FramesInv

(* What sending a frame has left: the rest of that frame, tokens of its own thread. *)
LEMMA SendingShape ==
  ASSUME TapTypeOK, SendsRest, NEW th \in Threads, sending[th] # <<>>
  PROVE  LET s == sending[th]
             f == s[1].frame
         IN  /\ s \in Seq(Token) /\ Len(s) \in 1 .. 3 /\ DOMAIN s = 1 .. Len(s)
             /\ f \in FrameSet /\ Sender(f) = th /\ f \notin failed /\ s[1] \in Token
             /\ \A i \in 1 .. Len(s) : s[i].frame = f /\ (s[i].part = Crc <=> i = Len(s))
             /\ \A i \in 2 .. Len(s) : s[i].part # Header
             /\ \A i, j \in 1 .. Len(s) : i < j => Rank(s[i]) < Rank(s[j])
             /\ \A i \in 1 .. Len(s) - 1 : Behind(s[i], s[i + 1])
             /\ \E k \in 1 .. 3 : RestOf(s, f, k)
<1> DEFINE s == sending[th]
           f == s[1].frame
<1>1. s \in Seq(Token) /\ s # <<>>
  BY DEF TapTypeOK
<1>2. Sender(f) = th /\ f \notin failed /\ \E k \in 1 .. 3 : RestOf(s, f, k)
  BY <1>1 DEF SendsRest
<1> HIDE DEF s
<1>3. s[1] \in Token
  BY <1>1
<1>4. f \in FrameSet
  BY <1>3, RankOf
<1> HIDE DEF f
<1>5. PICK k \in 1 .. 3 : RestOf(s, f, k)
  BY <1>2
<1>6. /\ Len(s) \in 1 .. 3 /\ DOMAIN s = 1 .. Len(s)
      /\ \A i \in 1 .. Len(s) : s[i].frame = f /\ (s[i].part = Crc <=> i = Len(s))
      /\ \A i \in 2 .. Len(s) : s[i].part # Header
      /\ \A i, j \in 1 .. Len(s) : i < j => Rank(s[i]) < Rank(s[j])
      /\ \A i \in 1 .. Len(s) - 1 : Behind(s[i], s[i + 1])
  BY <1>1, <1>4, <1>5, RestShape
<1> QED BY <1>1, <1>2, <1>3, <1>4, <1>6 DEF s, f

(* A send that gives up: the checksum of the frame never reached the stream. *)
LEMMA GiveUpInv ==
  ASSUME FramesInv, GiveUp
  PROVE  FramesInv'
<1> DEFINE s == sending["main"]
           f == s[1].frame
<1>1. TapTypeOK /\ Numbered /\ SendsRest /\ ReceivedFirst /\ StreamNext /\ (~torn => Framed /\ Accounted)
  BY DEF FramesInv
<1>2. /\ dir = "down" /\ s # <<>> /\ failed' = failed \cup {f} /\ sending' = [sending EXCEPT !["main"] = <<>>]
      /\ torn' = (torn \/ Midway("main"))
      /\ UNCHANGED <<dir, controls, wire, recv_buf, received, sent>>
  BY DEF GiveUp
<1>3. "main" \in Threads /\ "io" \in Threads /\ \A x \in Threads : x = "main" \/ x = "io"
  BY DEF Threads
<1>4. /\ f \in FrameSet /\ Sender(f) = "main" /\ s[1] \in Token /\ s \in Seq(Token) /\ 1 \in DOMAIN s
  <2>1. /\ f \in FrameSet /\ Sender(f) = "main" /\ s[1] \in Token /\ s \in Seq(Token) /\ Len(s) \in 1 .. 3 /\ DOMAIN s = 1 .. Len(s)
    BY <1>1, <1>2, <1>3, SendingShape
  <2> QED BY <2>1
<1>5. Stream' = Stream
  BY <1>2 DEF Stream
<1>6. Stream \in Seq(Token) /\ Len(Stream) \in Nat /\ DOMAIN Stream = 1 .. Len(Stream)
  BY <1>1, StreamType
<1>7. sending \in [Threads -> Seq(Token)] /\ sending["io"] = <<>>
  BY <1>1, <1>2 DEF TapTypeOK, SendsRest
<1>8. sending' \in [Threads -> Seq(Token)] /\ \A x \in Threads : sending'[x] = <<>>
  BY <1>2, <1>3, <1>7
<1>9. \A x \in Threads : \A i \in DOMAIN sending'[x] : FALSE
  BY <1>8
<1>10. TapTypeOK'
  BY <1>1, <1>2, <1>4, <1>8 DEF TapTypeOK
<1>11. f.no < Len(sent)
  BY <1>1, <1>3, <1>4 DEF Numbered
<1>12. Numbered'
  BY <1>1, <1>2, <1>5, <1>9, <1>11 DEF Numbered
<1>13. SendsRest'
  BY <1>3, <1>8 DEF SendsRest
<1>14. ASSUME NEW i \in DOMAIN received PROVE received[i] # f
  <2> SUFFICES ASSUME received[i] = f PROVE FALSE
    OBVIOUS
  <2>1. f.no < s[1].frame.no
    BY <1>1, <1>4 DEF ReceivedFirst
  <2>2. f.no \in Nat
    BY <1>4 DEF FrameSet
  <2> QED BY <2>1, <2>2
<1>15. \A i \in DOMAIN received : Sender(received[i]) \in Threads
  BY DEF Sender, Threads
<1>16. ReceivedFirst'
  BY <1>1, <1>2, <1>5, <1>9, <1>14, <1>15 DEF ReceivedFirst
<1>17. ASSUME NEW i \in DOMAIN Stream, Stream[i].part = Crc PROVE Stream[i].frame # f
  <2> SUFFICES ASSUME Stream[i].frame = f PROVE FALSE
    OBVIOUS
  <2>1. Stream[i] \in Token
    BY <1>6
  <2>2. Rank(Stream[i]) < Rank(s[1])
    BY <1>1, <1>4 DEF StreamNext
  <2>3. f.no < f.no
    BY <2>1, <2>2, <1>4, <1>17, RankNo
  <2>4. f.no \in Nat
    BY <1>4 DEF FrameSet
  <2> QED BY <2>3, <2>4
<1>18. \A i \in DOMAIN Stream : Sender(Stream[i].frame) \in Threads
  BY DEF Sender, Threads
<1>19. StreamNext'
  BY <1>1, <1>2, <1>5, <1>9, <1>17, <1>18 DEF StreamNext
<1>20. ASSUME ~torn' PROVE Framed' /\ Accounted'
  <2>1. ~torn /\ ~Midway("main") /\ ~Midway("io") /\ Framed /\ Accounted
    BY <1>1, <1>2, <1>7, <1>20 DEF Midway
  <2>2. \A x \in Threads : ~Midway(x) /\ ~Midway(x)'
    BY <2>1, <1>3, <1>8 DEF Midway
  <2>3. Framed'
    BY <2>1, <2>2, <1>5 DEF Framed
  <2>4. \A x \in Threads : sending[x] # <<>> => sending[x][1].frame = f
    BY <1>3, <1>7
  <2>5. Accounted'
    BY <2>1, <2>4, <1>2, <1>5 DEF Accounted
  <2> QED BY <2>3, <2>5
<1> QED BY <1>10, <1>12, <1>13, <1>16, <1>19, <1>20 DEF FramesInv

(* Nothing but the boundary of the stream, or nothing of it, changes. *)
LEMMA SameStreamInv ==
  ASSUME FramesInv, Stream' = Stream, recv_buf' \in Seq(Token), wire' \in Seq(Token),
         UNCHANGED <<dir, sending, controls, received, sent, failed, torn>>
  PROVE  FramesInv'
<1>1. TapTypeOK'
  BY DEF FramesInv, TapTypeOK
<1>2. Numbered' /\ SendsRest' /\ ReceivedFirst' /\ StreamNext'
  BY DEF FramesInv, Numbered, SendsRest, ReceivedFirst, StreamNext
<1>3. \A x \in Threads : Midway(x)' <=> Midway(x)
  BY DEF Midway
<1>4. ~torn' => Framed' /\ Accounted'
  BY <1>3 DEF FramesInv, Framed, Accounted
<1> QED BY <1>1, <1>2, <1>4 DEF FramesInv

(* send() takes the next tokens of a frame: they stand behind what the thread has sent, and, unless
   the other thread is in the middle of a frame, behind a whole frame or their own beginning. *)
LEMMA SendInv ==
  ASSUME FramesInv, NEW th \in Threads, sendExact(th)
  PROVE  FramesInv'
<1> DEFINE s == sending[th]
           f == s[1].frame
           L == Len(Stream)
<1>1. TapTypeOK /\ Numbered /\ SendsRest /\ ReceivedFirst /\ StreamNext /\ (~torn => Framed /\ Accounted)
  BY DEF FramesInv
<1>2. /\ s # <<>> /\ torn' = (torn \/ \E other \in Threads \ {th} : Midway(other))
      /\ UNCHANGED <<dir, controls, recv_buf, received, sent, failed>>
  BY DEF sendExact
<1>3. /\ s \in Seq(Token) /\ Len(s) \in 1 .. 3 /\ DOMAIN s = 1 .. Len(s)
      /\ f \in FrameSet /\ Sender(f) = th /\ f \notin failed /\ s[1] \in Token
      /\ \A i \in 1 .. Len(s) : s[i].frame = f /\ (s[i].part = Crc <=> i = Len(s))
      /\ \A i \in 2 .. Len(s) : s[i].part # Header
      /\ \A i, j \in 1 .. Len(s) : i < j => Rank(s[i]) < Rank(s[j])
      /\ \A i \in 1 .. Len(s) - 1 : Behind(s[i], s[i + 1])
      /\ \E n \in 1 .. 3 : RestOf(s, f, n)
  BY <1>1, <1>2, SendingShape
<1>4. PICK k \in 1 .. Len(s) :
        /\ Stream' = Stream \o SubSeq(s, 1, k)
        /\ sending' = [sending EXCEPT ![th] = SubSeq(s, k + 1, Len(s))]
        /\ wire' \in Seq(Token) /\ sending' \in [Threads -> Seq(Token)]
  BY <1>1, SendAppends
<1>5. Stream \in Seq(Token) /\ L \in Nat /\ DOMAIN Stream = 1 .. L
  BY <1>1, StreamType
<1> DEFINE r == SubSeq(s, k + 1, Len(s))
<1> HIDE DEF s, f, L
<1>6. k \in 0 .. Len(s) /\ k \in 1 .. 3 /\ k \in Nat /\ Len(s) \in Nat
  <2>1. \A n \in 1 .. 3 : \A m \in 1 .. n : m \in 0 .. n /\ m \in 1 .. 3 /\ m \in Nat /\ n \in Nat
    OBVIOUS
  <2>2. Len(s) \in 1 .. 3 /\ k \in 1 .. Len(s)
    BY <1>3
  <2> QED BY <2>1, <2>2
<1>7. /\ r \in Seq(Token) /\ Len(r) = Len(s) - k /\ DOMAIN r = 1 .. Len(r) /\ Len(r) \in Nat
      /\ \A i \in 1 .. Len(r) : k + i \in 1 .. Len(s) /\ r[i] = s[k + i]
  BY <1>3, <1>6, DropAt
<1>8. /\ Stream' \in Seq(Token) /\ Len(Stream') = L + k /\ DOMAIN Stream' = 1 .. L + k
      /\ \A i \in 1 .. L : Stream'[i] = Stream[i]
      /\ \A i \in 1 .. k : Stream'[L + i] = s[i]
  <2> DEFINE d == Stream \o SubSeq(s, 1, k)
  <2>1. /\ d \in Seq(Token) /\ Len(d) = Len(Stream) + k /\ DOMAIN d = 1 .. Len(Stream) + k
        /\ \A i \in 1 .. Len(Stream) : d[i] = Stream[i]
        /\ \A i \in 1 .. k : d[Len(Stream) + i] = s[i]
    <3>1. s \in Seq(Token) /\ Stream \in Seq(Token)
      BY <1>3, <1>5
    <3> QED BY <3>1, JoinAt
  <2>2. Stream' = d
    BY <1>4
  <2> QED BY <2>1, <2>2 DEF L
<1>9. sending \in [Threads -> Seq(Token)]
  BY <1>1 DEF TapTypeOK
<1>10. sending[th] = s /\ sending'[th] = r /\ \A x \in Threads : x # th => sending'[x] = sending[x]
  BY <1>4, <1>9 DEF s
<1> HIDE DEF r
<1>11. TapTypeOK'
  BY <1>1, <1>2, <1>4 DEF TapTypeOK
(* Where a token of the new stream comes from. *)
<1>12. \A i \in DOMAIN Stream' : \/ i \in 1 .. L /\ i \in DOMAIN Stream /\ Stream'[i] = Stream[i]
                                 \/ i - L \in 1 .. k /\ i - L \in 1 .. Len(s) /\ i = L + (i - L) /\ Stream'[i] = s[i - L]
  <2> SUFFICES ASSUME NEW i \in 1 .. L + k
               PROVE  \/ i \in 1 .. L /\ i \in DOMAIN Stream /\ Stream'[i] = Stream[i]
                      \/ i - L \in 1 .. k /\ i - L \in 1 .. Len(s) /\ i = L + (i - L) /\ Stream'[i] = s[i - L]
    BY <1>8
  <2>1. CASE i <= L
    BY <2>1, <1>5, <1>8
  <2>2. CASE i > L
    <3>1. i - L \in 1 .. k /\ i - L \in 1 .. Len(s) /\ i = L + (i - L)
      BY <2>2, <1>5, <1>6
    <3> QED BY <3>1, <1>8
  <2> QED BY <2>1, <2>2, <1>5
<1>13. \A i \in DOMAIN r : i \in 1 .. Len(r) /\ k + i \in 1 .. Len(s) /\ k + i \in DOMAIN s /\ r[i] = s[k + i]
  BY <1>3, <1>7
<1>14. Numbered'
  <2>1. \A i \in 1 .. Len(s) : s[i].frame.no < Len(sent)
    BY <1>1, <1>3, <1>10 DEF Numbered
  <2>2. \A i \in DOMAIN Stream' : Stream'[i].frame.no < Len(sent)
    BY <2>1, <1>1, <1>12 DEF Numbered
  <2>3. \A x \in Threads : \A i \in DOMAIN sending'[x] : sending'[x][i].frame.no < Len(sent)
    BY <2>1, <1>1, <1>10, <1>13 DEF Numbered
  <2> QED BY <2>2, <2>3, <1>1, <1>2 DEF Numbered
<1>15. r # <<>> => 1 \in DOMAIN r /\ r[1] = s[k + 1] /\ r[1].frame = f /\ r[1].part # Header /\ k + 1 \in 2 .. Len(s)
  <2> SUFFICES ASSUME r # <<>> PROVE 1 \in DOMAIN r /\ r[1] = s[k + 1] /\ r[1].frame = f /\ r[1].part # Header /\ k + 1 \in 2 .. Len(s)
    OBVIOUS
  <2>1. Len(r) # 0
    BY <1>7
  <2>2. 1 \in 1 .. Len(r)
    BY <2>1, <1>7
  <2>3. 1 \in DOMAIN r /\ r[1] = s[k + 1] /\ k + 1 \in 1 .. Len(s)
    BY <2>2, <1>7
  <2>4. k + 1 \in 2 .. Len(s)
    BY <2>3, <1>6
  <2> QED BY <2>3, <2>4, <1>3
<1>16. SendsRest'
  <2>1. dir' = "down" => sending'["io"] = <<>>
    <3>1. "io" \in Threads
      BY DEF Threads
    <3> QED BY <3>1, <1>1, <1>2, <1>10 DEF SendsRest
  <2>2. ASSUME r # <<>> PROVE \E n \in 1 .. 3 : RestOf(r, f, n)
    <3>1. PICK n \in 1 .. 3 : RestOf(s, f, n)
      BY <1>3
    <3>2. f.parts \in Layouts /\ Len(f.parts) \in 2 .. 3
      BY <1>3, PartsShape DEF FrameSet
    <3>3. n \in 1 .. Len(f.parts) /\ Len(s) = Len(f.parts) - n + 1
      BY <3>1 DEF RestOf
    <3>4. n + k \in 1 .. Len(f.parts) /\ n + k \in 1 .. 3
      <4>1. k + 1 <= Len(s)
        BY <1>6, <1>15, <2>2
      <4>2. \A p \in 2 .. 3 : \A m \in 1 .. p : \A j \in 1 .. 3 : j + 1 <= p - m + 1 => m + j \in 1 .. p /\ m + j \in 1 .. 3
        OBVIOUS
      <4> QED BY <4>1, <4>2, <3>2, <3>3, <1>6
    <3>5. Len(r) = Len(f.parts) - (n + k) + 1
      BY <3>2, <3>3, <1>6, <1>7
    <3>6. ASSUME NEW i \in DOMAIN r PROVE r[i] = [frame |-> f, part |-> f.parts[(n + k) + i - 1]]
      <4>1. i \in 1 .. Len(r) /\ k + i \in DOMAIN s /\ r[i] = s[k + i]
        BY <1>13
      <4>2. s[k + i] = [frame |-> f, part |-> f.parts[n + (k + i) - 1]]
        BY <3>1, <4>1 DEF RestOf
      <4>3. n + (k + i) - 1 = (n + k) + i - 1
        BY <4>1, <1>6, <1>7
      <4> QED BY <4>1, <4>2, <4>3
    <3>7. RestOf(r, f, n + k)
      BY <3>4, <3>5, <3>6 DEF RestOf
    <3> QED BY <3>4, <3>7
  <2>3. ASSUME NEW x \in Threads, sending'[x] # <<>>
        PROVE  /\ Sender(sending'[x][1].frame) = x /\ sending'[x][1].frame \notin failed
               /\ \E n \in 1 .. 3 : RestOf(sending'[x], sending'[x][1].frame, n)
    <3>1. CASE x = th
      BY <2>2, <2>3, <3>1, <1>3, <1>10, <1>15
    <3>2. CASE x # th
      BY <2>3, <3>2, <1>1, <1>10 DEF SendsRest
    <3> QED BY <3>1, <3>2
  <2> QED BY <2>1, <2>3, <1>2 DEF SendsRest
<1>17. ReceivedFirst'
  <2> SUFFICES ASSUME NEW i \in DOMAIN received
               PROVE  /\ received[i] \notin failed
                      /\ \A j \in DOMAIN Stream' : Sender(Stream'[j].frame) = Sender(received[i]) => received[i].no < Stream'[j].frame.no
                      /\ \A j \in DOMAIN sending'[Sender(received[i])] : received[i].no < sending'[Sender(received[i])][j].frame.no
                      /\ \A j \in DOMAIN received : i < j /\ Sender(received[i]) = Sender(received[j]) => received[i].no < received[j].no
    BY <1>2 DEF ReceivedFirst
  <2>1. Sender(received[i]) \in Threads
    BY DEF Sender, Threads
  <2>2. Sender(received[i]) = th => \A j \in 1 .. Len(s) : received[i].no < s[j].frame.no
    BY <1>1, <1>3, <1>10 DEF ReceivedFirst
  <2>3. \A j \in DOMAIN Stream' : Sender(Stream'[j].frame) = Sender(received[i]) => received[i].no < Stream'[j].frame.no
    <3> SUFFICES ASSUME NEW j \in DOMAIN Stream', Sender(Stream'[j].frame) = Sender(received[i]) PROVE received[i].no < Stream'[j].frame.no
      OBVIOUS
    <3>1. CASE j \in DOMAIN Stream /\ Stream'[j] = Stream[j]
      BY <3>1, <1>1 DEF ReceivedFirst
    <3>2. CASE j - L \in 1 .. Len(s) /\ Stream'[j] = s[j - L]
      BY <3>2, <2>2, <1>3
    <3> QED BY <3>1, <3>2, <1>12
  <2>4. \A j \in DOMAIN sending'[Sender(received[i])] : received[i].no < sending'[Sender(received[i])][j].frame.no
    <3>1. CASE Sender(received[i]) = th
      BY <3>1, <2>2, <1>10, <1>13
    <3>2. CASE Sender(received[i]) # th
      BY <3>2, <2>1, <1>1, <1>10 DEF ReceivedFirst
    <3> QED BY <3>1, <3>2
  <2> QED BY <2>3, <2>4, <1>1 DEF ReceivedFirst
<1>18. StreamNext'
  <2> SUFFICES ASSUME NEW i \in DOMAIN Stream'
               PROVE  /\ Stream'[i].part = Crc => Stream'[i].frame \notin failed
                      /\ \A j \in DOMAIN Stream' : i < j /\ Sender(Stream'[i].frame) = Sender(Stream'[j].frame) => Rank(Stream'[i]) < Rank(Stream'[j])
                      /\ \A j \in DOMAIN sending'[Sender(Stream'[i].frame)] : Rank(Stream'[i]) < Rank(sending'[Sender(Stream'[i].frame)][j])
    BY <1>2 DEF StreamNext
  <2>1. Sender(Stream'[i].frame) \in Threads
    BY DEF Sender, Threads
  <2>2. CASE i \in 1 .. L /\ i \in DOMAIN Stream /\ Stream'[i] = Stream[i]
    <3>1. Stream[i].part = Crc => Stream[i].frame \notin failed
      BY <2>2, <1>1 DEF StreamNext
    <3>2. Sender(Stream[i].frame) = th => \A j \in 1 .. Len(s) : Rank(Stream[i]) < Rank(s[j])
      BY <2>2, <1>1, <1>3, <1>10 DEF StreamNext
    <3>3. ASSUME NEW j \in DOMAIN Stream', i < j, Sender(Stream'[i].frame) = Sender(Stream'[j].frame)
          PROVE  Rank(Stream'[i]) < Rank(Stream'[j])
      <4>1. CASE j \in 1 .. L /\ j \in DOMAIN Stream /\ Stream'[j] = Stream[j]
        BY <2>2, <3>3, <4>1, <1>1 DEF StreamNext
      <4>2. CASE j - L \in 1 .. Len(s) /\ Stream'[j] = s[j - L]
        BY <2>2, <3>2, <3>3, <4>2, <1>3
      <4> QED BY <4>1, <4>2, <1>12
    <3>4. ASSUME NEW j \in DOMAIN sending'[Sender(Stream'[i].frame)] PROVE Rank(Stream'[i]) < Rank(sending'[Sender(Stream'[i].frame)][j])
      <4>1. CASE Sender(Stream[i].frame) = th
        BY <2>2, <3>2, <3>4, <4>1, <1>10, <1>13
      <4>2. CASE Sender(Stream[i].frame) # th
        BY <2>1, <2>2, <3>4, <4>2, <1>1, <1>10 DEF StreamNext
      <4> QED BY <4>1, <4>2
    <3> QED BY <2>2, <3>1, <3>3, <3>4
  <2>3. CASE i - L \in 1 .. k /\ i - L \in 1 .. Len(s) /\ i = L + (i - L) /\ Stream'[i] = s[i - L]
    <3>1. Stream'[i].frame = f /\ Sender(Stream'[i].frame) = th /\ f \notin failed
      BY <2>3, <1>3
    <3>2. i \in Int /\ i - L \in Int
      BY <1>5, <1>6, <1>8
    <3>3. ASSUME NEW j \in DOMAIN Stream', i < j PROVE Rank(Stream'[i]) < Rank(Stream'[j])
      <4>1. j \notin 1 .. L /\ j \in Int
        BY <2>3, <3>2, <3>3, <1>5, <1>6, <1>8
      <4>2. j - L \in 1 .. Len(s) /\ Stream'[j] = s[j - L]
        BY <4>1, <1>12
      <4>3. i - L < j - L
        BY <3>2, <3>3, <4>1, <1>5
      <4> QED BY <2>3, <4>2, <4>3, <1>3
    <3>4. ASSUME NEW j \in DOMAIN r PROVE Rank(Stream'[i]) < Rank(r[j])
      <4>1. j \in 1 .. Len(r) /\ k + j \in 1 .. Len(s) /\ r[j] = s[k + j]
        BY <1>13
      <4>2. i - L < k + j
        BY <2>3, <4>1, <1>5, <1>6, <1>7
      <4> QED BY <2>3, <4>1, <4>2, <1>3
    <3> QED BY <3>1, <3>3, <3>4, <1>10
  <2> QED BY <2>2, <2>3, <1>12
<1>19. ASSUME ~torn' PROVE Framed'
  <2>1. ~torn /\ Framed /\ \A x \in Threads : x # th => ~Midway(x)
    BY <1>1, <1>2, <1>19
  <2>2. \A x \in Threads : x # th => ~Midway(x)'
    BY <2>1, <1>10 DEF Midway
  <2>3. Stream'[L + k] = s[k] /\ L + k \in DOMAIN Stream' /\ Len(Stream') = L + k /\ Stream' # <<>>
    <3>1. L + k \in 1 .. L + k
      BY <1>5, <1>6
    <3>2. k \in 1 .. k
      BY <1>6
    <3> QED BY <3>1, <3>2, <1>8
  (* Between the old stream and the new tokens. *)
  <2>4. /\ Stream = <<>> => s[1].part = Header
        /\ Stream # <<>> => Behind(Stream[L], s[1])
    <3>1. CASE s[1].part = Header
      <4>1. ~Midway(th)
        BY <3>1, <1>10 DEF Midway
      <4>2. Stream # <<>> => Stream[L].part = Crc
        BY <2>1, <4>1 DEF Framed, L
      <4> QED BY <3>1, <4>2 DEF Behind
    <3>2. CASE s[1].part # Header
      <4>1. Midway(th)
        BY <3>2, <1>2, <1>10 DEF Midway, s
      <4> QED BY <4>1, <2>1, <1>10 DEF Framed, L
    <3> QED BY <3>1, <3>2
  <2>5. Stream'[1].part = Header
    <3>1. CASE Stream = <<>>
      <4>1. L = 0 /\ 1 \in 1 .. k
        BY <3>1, <1>5, <1>6 DEF L
      <4>2. Stream'[L + 1] = s[1]
        BY <4>1, <1>8
      <4> QED BY <4>1, <4>2, <3>1, <2>4
    <3>2. CASE Stream # <<>>
      <4>1. 1 \in 1 .. L
        BY <3>2, <1>5 DEF L
      <4> QED BY <4>1, <3>2, <2>1, <1>8 DEF Framed
    <3> QED BY <3>1, <3>2
  <2>6. ASSUME NEW i \in DOMAIN Stream', i + 1 \in DOMAIN Stream' PROVE Behind(Stream'[i], Stream'[i + 1])
    <3>1. i \in 1 .. L + k /\ i + 1 \in 1 .. L + k
      BY <2>6, <1>8
    <3>2. CASE i < L
      <4>1. i \in 1 .. L /\ i + 1 \in 1 .. L
        BY <3>1, <3>2, <1>5
      <4> QED BY <4>1, <2>1, <1>5, <1>8 DEF Framed
    <3>3. CASE i = L
      <4>1. 1 \in 1 .. k /\ L \in 1 .. L /\ Stream # <<>>
        BY <3>1, <3>3, <1>5, <1>6
      <4>2. Stream'[i] = Stream[L] /\ Stream'[i + 1] = s[1]
        BY <4>1, <3>3, <1>8
      <4> QED BY <4>1, <4>2, <2>4
    <3>4. CASE i > L
      <4>1. i - L \in 1 .. k /\ (i - L) + 1 \in 1 .. k /\ i - L \in 1 .. Len(s) - 1 /\ i = L + (i - L) /\ i + 1 = L + ((i - L) + 1)
        BY <3>1, <3>4, <1>5, <1>6
      <4>2. Stream'[i] = s[i - L] /\ Stream'[i + 1] = s[(i - L) + 1]
        BY <4>1, <1>8
      <4> QED BY <4>1, <4>2, <1>3
    <3> QED BY <3>1, <3>2, <3>3, <3>4, <1>5
  <2>7. Midway(th)' => Stream'[Len(Stream')].part # Crc /\ Behind(Stream'[Len(Stream')], sending'[th][1])
    <3> SUFFICES ASSUME r # <<>> PROVE s[k].part # Crc /\ Behind(s[k], r[1])
      BY <2>3, <1>10 DEF Midway
    <3>1. k \in 1 .. Len(s) - 1 /\ k # Len(s) /\ r[1] = s[k + 1]
      BY <1>6, <1>15
    <3> QED BY <3>1, <1>3
  <2>8. Stream'[Len(Stream')].part # Crc => Midway(th)'
    <3> SUFFICES ASSUME s[k].part # Crc PROVE r # <<>> /\ r[1].part # Header
      BY <2>3, <1>10 DEF Midway
    <3>1. k # Len(s)
      BY <1>3
    <3>2. Len(r) # 0
      BY <3>1, <1>6, <1>7
    <3> QED BY <3>2, <1>15
  <2> QED BY <2>2, <2>3, <2>5, <2>6, <2>7, <2>8 DEF Framed
<1>20. ASSUME ~torn' PROVE Accounted'
  <2>1. Accounted
    BY <1>1, <1>2, <1>20
  <2>2. \A i \in DOMAIN Stream : i \in DOMAIN Stream' /\ Stream'[i] = Stream[i]
    BY <1>5, <1>6, <1>8
  <2>3. \E i \in DOMAIN Stream' : Stream'[i].frame = f
    <3>1. L + 1 \in DOMAIN Stream' /\ 1 \in 1 .. k /\ 1 \in 1 .. Len(s)
      BY <1>5, <1>6, <1>8
    <3>2. Stream'[L + 1] = s[1] /\ s[1].frame = f
      BY <3>1, <1>3, <1>8
    <3> QED BY <3>1, <3>2
  <2>4. \A x \in Threads : (sending[x] # <<>> /\ x # th => sending'[x] = sending[x])
    BY <1>10
  <2>5. sending[th][1].frame = f
    BY <1>10 DEF f
  <2> QED BY <2>1, <2>2, <2>3, <2>4, <2>5, <1>2 DEF Accounted
<1> QED BY <1>11, <1>14, <1>16, <1>17, <1>18, <1>19, <1>20 DEF FramesInv

(* recvMsg: the frame it returns was sent to the end and is older than everything left of its thread;
   while nothing is torn it is the first frame of the stream, and the next one follows. *)
LEMMA ReceiveInv ==
  ASSUME FramesInv, recvMsg
  PROVE  FramesInv'
<1> DEFINE f == Stream[1].frame
           p == Len(f.parts)
           L == Len(Stream)
<1>1. TapTypeOK /\ Numbered /\ SendsRest /\ ReceivedFirst /\ StreamNext /\ (~torn => Framed /\ Accounted)
  BY DEF FramesInv
<1>2. UNCHANGED <<dir, sending, controls, wire, sent, failed, torn>>
  BY DEF recvMsg
<1>3. /\ recv_buf' \in Seq(Token)
      /\ \E n \in 1 .. L : Stream' = SubSeq(Stream, n + 1, L)
      /\ Stream # <<>> /\ Stream[1] = recv_buf[1] /\ Stream[1] \in Token
      /\ Stream[1].part = Header =>
           /\ FrameTotal(recv_buf) = p /\ p <= L
           /\ Stream' = SubSeq(Stream, p + 1, L)
           /\ CrcMatches(recv_buf) <=> \A i \in 1 .. p : Stream[i] = Tokens(f)[i]
  BY <1>1, ReceiveDrops
<1>4. Stream \in Seq(Token) /\ L \in Nat /\ DOMAIN Stream = 1 .. L
  BY <1>1, StreamType
<1>5. f \in FrameSet /\ f.no \in Nat /\ f.parts \in Layouts
  BY <1>3, RankOf
<1>6. p \in 2 .. 3 /\ f.parts[1] = Header /\ f.parts[p] = Crc
  BY <1>5, PartsShape
<1>7. \A i \in 1 .. p : Tokens(f)[i] = [frame |-> f, part |-> f.parts[i]]
  BY <1>5, TokensRest
<1>8. \/ received' = received
      \/ /\ received' = Append(received, f) /\ Stream[1].part = Header /\ CrcMatches(recv_buf)
  BY <1>3 DEF recvMsg
<1>9. Stream[1].part = Header /\ CrcMatches(recv_buf) => received' = Append(received, f)
  BY <1>3 DEF recvMsg
<1>10. 1 \in DOMAIN Stream /\ L # 0
  BY <1>3, <1>4
<1> HIDE DEF f, p, L
<1>11. PICK n \in 1 .. L : Stream' = SubSeq(Stream, n + 1, L) /\ (Stream[1].part = Header => n = p)
  <2>1. CASE Stream[1].part = Header
    <3>1. p \in 1 .. L /\ Stream' = SubSeq(Stream, p + 1, L)
      BY <2>1, <1>3, <1>4, <1>6
    <3> QED BY <3>1
  <2>2. CASE Stream[1].part # Header
    BY <2>2, <1>3
  <2> QED BY <2>1, <2>2
<1>12. n \in 0 .. L /\ n \in Nat
  BY <1>4
<1>13. /\ Stream' \in Seq(Token) /\ Len(Stream') = L - n /\ DOMAIN Stream' = 1 .. Len(Stream') /\ Len(Stream') \in Nat
       /\ \A i \in 1 .. Len(Stream') : n + i \in 1 .. L /\ Stream'[i] = Stream[n + i]
  <2> DEFINE d == SubSeq(Stream, n + 1, Len(Stream))
  <2>0. n \in 0 .. Len(Stream)
    BY <1>12 DEF L
  <2>1. /\ d \in Seq(Token) /\ Len(d) = Len(Stream) - n /\ DOMAIN d = 1 .. Len(d) /\ Len(d) \in Nat
        /\ \A i \in 1 .. Len(d) : n + i \in 1 .. Len(Stream) /\ d[i] = Stream[n + i]
    BY <2>0, <1>4, DropAt
  <2>2. Stream' = d
    BY <1>11 DEF L
  <2> QED BY <2>1, <2>2 DEF L
<1>14. \A i \in DOMAIN Stream' : i \in Nat /\ i > 0 /\ n + i \in DOMAIN Stream /\ Stream'[i] = Stream[n + i]
  BY <1>4, <1>13
<1>15. received \in Seq(FrameSet) /\ Len(received) \in Nat /\ DOMAIN received = 1 .. Len(received)
  BY <1>1, LenProperties DEF TapTypeOK
<1>16. TapTypeOK'
  <2>1. received' \in Seq(FrameSet)
    BY <1>5, <1>8, <1>15
  <2> QED BY <2>1, <1>1, <1>2, <1>3 DEF TapTypeOK
(* What is received is old, or the first frame of the stream. *)
<1>17. \A i \in DOMAIN received' :
         \/ i \in DOMAIN received /\ received'[i] = received[i]
         \/ /\ i = Len(received) + 1 /\ received'[i] = f
            /\ Stream[1].part = Header /\ CrcMatches(recv_buf)
  <2>1. CASE received' = received
    BY <2>1
  <2>2. CASE received' = Append(received, f) /\ Stream[1].part = Header /\ CrcMatches(recv_buf)
    <3>1. DOMAIN received' = 1 .. Len(received) + 1 /\ received'[Len(received) + 1] = f /\ \A i \in 1 .. Len(received) : received'[i] = received[i]
      BY <2>2, <1>5, <1>15
    <3>2. \A i \in 1 .. Len(received) + 1 : i \in 1 .. Len(received) \/ i = Len(received) + 1
      BY <1>15
    <3> QED BY <2>2, <3>1, <3>2, <1>15
  <2> QED BY <2>1, <2>2, <1>8
<1>18. f.no < Len(sent)
  BY <1>1, <1>10 DEF Numbered, f
<1>19. Numbered'
  BY <1>1, <1>2, <1>14, <1>17, <1>18 DEF Numbered
<1>20. SendsRest'
  BY <1>1, <1>2 DEF SendsRest
(* The frame that is returned. *)
<1>21. ASSUME Stream[1].part = Header, CrcMatches(recv_buf)
       PROVE  /\ f \notin failed /\ n = p /\ n \in DOMAIN Stream
              /\ \A j \in DOMAIN Stream' : Sender(Stream'[j].frame) = Sender(f) => f.no < Stream'[j].frame.no
              /\ \A j \in DOMAIN sending[Sender(f)] : f.no < sending[Sender(f)][j].frame.no
  <2>1. n = p /\ n \in DOMAIN Stream /\ Stream[n] = Tokens(f)[n] /\ n \in 1 .. p
    <3>1. n = p
      BY <1>11, <1>21
    <3>2. n \in 1 .. p /\ n \in DOMAIN Stream
      BY <3>1, <1>4, <1>6
    <3> QED BY <3>1, <3>2, <1>3, <1>21
  <2>2. Stream[n] = [frame |-> f, part |-> Crc]
    BY <2>1, <1>6, <1>7
  <2>3. Stream[n].frame = f /\ Stream[n].part = Crc
    BY <2>2
  <2>4. Stream[n] \in Token
    BY <2>1, <1>4
  <2>5. f \notin failed
    BY <2>1, <2>3, <1>1 DEF StreamNext
  <2>6. ASSUME NEW j \in DOMAIN Stream', Sender(Stream'[j].frame) = Sender(f) PROVE f.no < Stream'[j].frame.no
    <3>1. n + j \in DOMAIN Stream /\ Stream'[j] = Stream[n + j] /\ n < n + j
      BY <1>12, <1>14
    <3>2. Rank(Stream[n]) < Rank(Stream[n + j])
      BY <2>1, <2>3, <2>6, <3>1, <1>1 DEF StreamNext
    <3>3. Stream[n + j] \in Token
      BY <3>1, <1>4
    <3> QED BY <2>3, <2>4, <3>1, <3>2, <3>3, RankNo
  <2>7. ASSUME NEW j \in DOMAIN sending[Sender(f)] PROVE f.no < sending[Sender(f)][j].frame.no
    <3>1. Sender(f) \in Threads
      BY DEF Sender, Threads
    <3>2. sending[Sender(f)] \in Seq(Token)
      BY <3>1, <1>1 DEF TapTypeOK
    <3>3. sending[Sender(f)][j] \in Token
      BY <3>2
    <3>4. Rank(Stream[n]) < Rank(sending[Sender(f)][j])
      BY <2>1, <2>3, <1>1 DEF StreamNext
    <3> QED BY <2>3, <2>4, <3>3, <3>4, RankNo
  <2> QED BY <2>1, <2>5, <2>6, <2>7
<1>22. ReceivedFirst'
  <2> SUFFICES ASSUME NEW i \in DOMAIN received'
               PROVE  /\ received'[i] \notin failed
                      /\ \A j \in DOMAIN Stream' : Sender(Stream'[j].frame) = Sender(received'[i]) => received'[i].no < Stream'[j].frame.no
                      /\ \A j \in DOMAIN sending[Sender(received'[i])] : received'[i].no < sending[Sender(received'[i])][j].frame.no
                      /\ \A j \in DOMAIN received' : i < j /\ Sender(received'[i]) = Sender(received'[j]) => received'[i].no < received'[j].no
    BY <1>2 DEF ReceivedFirst
  <2>1. CASE i \in DOMAIN received /\ received'[i] = received[i]
    <3>1. received[i] \notin failed /\ \A j \in DOMAIN sending[Sender(received[i])] : received[i].no < sending[Sender(received[i])][j].frame.no
      BY <2>1, <1>1 DEF ReceivedFirst
    <3>2. \A j \in DOMAIN Stream' : Sender(Stream'[j].frame) = Sender(received[i]) => received[i].no < Stream'[j].frame.no
      BY <2>1, <1>1, <1>14 DEF ReceivedFirst
    <3>3. Sender(f) = Sender(received[i]) => received[i].no < f.no
      BY <2>1, <1>1, <1>10 DEF ReceivedFirst, f
    <3>4. \A j \in DOMAIN received' : i < j /\ Sender(received[i]) = Sender(received'[j]) => received[i].no < received'[j].no
      BY <2>1, <3>3, <1>1, <1>17 DEF ReceivedFirst
    <3> QED BY <2>1, <3>1, <3>2, <3>4
  <2>2. CASE i = Len(received) + 1 /\ received'[i] = f /\ Stream[1].part = Header /\ CrcMatches(recv_buf)
    <3>1. \A j \in DOMAIN received' : ~(i < j)
      BY <2>2, <1>15, <1>17
    <3> QED BY <2>2, <3>1, <1>21
  <2> QED BY <2>1, <2>2, <1>17
<1>23. StreamNext'
  <2> SUFFICES ASSUME NEW i \in DOMAIN Stream'
               PROVE  /\ Stream'[i].part = Crc => Stream'[i].frame \notin failed
                      /\ \A j \in DOMAIN Stream' : i < j /\ Sender(Stream'[i].frame) = Sender(Stream'[j].frame) => Rank(Stream'[i]) < Rank(Stream'[j])
                      /\ \A j \in DOMAIN sending[Sender(Stream'[i].frame)] : Rank(Stream'[i]) < Rank(sending[Sender(Stream'[i].frame)][j])
    BY <1>2 DEF StreamNext
  <2>1. i \in Nat /\ n + i \in DOMAIN Stream /\ Stream'[i] = Stream[n + i]
    BY <1>14
  <2>2. ASSUME NEW j \in DOMAIN Stream', i < j, Sender(Stream'[i].frame) = Sender(Stream'[j].frame) PROVE Rank(Stream'[i]) < Rank(Stream'[j])
    <3>1. j \in Nat /\ n + j \in DOMAIN Stream /\ Stream'[j] = Stream[n + j] /\ n + i < n + j
      BY <2>1, <2>2, <1>12, <1>14
    <3> QED BY <2>1, <2>2, <3>1, <1>1 DEF StreamNext
  <2> QED BY <2>1, <2>2, <1>1 DEF StreamNext
<1>24. ASSUME ~torn' PROVE Framed' /\ Accounted'
  <2>1. ~torn /\ Framed /\ Accounted
    BY <1>1, <1>2, <1>24
  <2>2. Stream[1].part = Header /\ n = p
    BY <2>1, <1>3, <1>11 DEF Framed
  (* The first frame of the stream is whole. *)
  <2>3. /\ \A i \in 1 .. p : Stream[i] = [frame |-> f, part |-> f.parts[i]]
        /\ Stream[p].part = Crc
    <3>1. p <= L
      BY <2>2, <1>3
    <3>2. Stream[1] = [frame |-> f, part |-> f.parts[1]]
      BY <2>2, <1>3, <1>6 DEF Token, f
    <3>3. f.parts[2] = IF p = 2 THEN Crc ELSE Payload
      BY <1>5 DEF Layouts, p
    <3>4. 1 \in DOMAIN Stream /\ 2 \in DOMAIN Stream /\ 1 + 1 = 2
      BY <3>1, <1>4, <1>6
    <3>5. Behind(Stream[1], Stream[2]) /\ Stream[2] \in Token
      <4>1. 1 + 1 \in DOMAIN Stream
        BY <3>4
      <4>2. Behind(Stream[1], Stream[1 + 1])
        BY <3>4, <4>1, <2>1 DEF Framed
      <4>3. Stream[2] \in Token
        BY <3>4, <1>4
      <4> QED BY <4>2, <4>3
    <3>6. Stream[2].frame = f /\ Stream[2].part = f.parts[2]
      BY <3>5, <2>2 DEF Behind, Header, Crc, f
    <3>7. Stream[2] = [frame |-> f, part |-> f.parts[2]]
      BY <3>5, <3>6 DEF Token
    <3>8. CASE p = 2
      <4>1. \A i \in 1 .. 2 : i = 1 \/ i = 2
        OBVIOUS
      <4> QED BY <4>1, <3>2, <3>3, <3>6, <3>7, <3>8
    <3>9. CASE p = 3
      <4>1. 2 \in DOMAIN Stream /\ 3 \in DOMAIN Stream /\ 2 + 1 = 3
        BY <3>1, <3>9, <1>4
      <4>2. Behind(Stream[2], Stream[3]) /\ Stream[3] \in Token
        <5>1. 2 + 1 \in DOMAIN Stream
          BY <4>1
        <5>2. Behind(Stream[2], Stream[2 + 1])
          BY <4>1, <5>1, <2>1 DEF Framed
        <5>3. Stream[3] \in Token
          BY <4>1, <1>4
        <5> QED BY <5>2, <5>3
      <4>3. Stream[3].frame = f /\ Stream[3].part = Crc
        BY <4>2, <3>3, <3>6, <3>9 DEF Behind, Header, Payload, Crc
      <4>4. Stream[3] = [frame |-> f, part |-> f.parts[3]]
        BY <4>2, <4>3, <3>9, <1>6 DEF Token
      <4>5. \A i \in 1 .. 3 : i = 1 \/ i = 2 \/ i = 3
        OBVIOUS
      <4> QED BY <4>3, <4>4, <4>5, <3>2, <3>7, <3>9
    <3> QED BY <3>8, <3>9, <1>6
  <2>4. received' = Append(received, f)
    <3>1. \A i \in 1 .. p : Stream[i] = Tokens(f)[i]
      BY <2>3, <1>7
    <3> QED BY <3>1, <2>2, <1>3, <1>9
  <2>5. n \in DOMAIN Stream /\ Stream[n].part = Crc
    BY <2>2, <2>3, <1>4
  <2>6. \A x \in Threads : Midway(x)' <=> Midway(x)
    BY <1>2 DEF Midway
  <2>7. Stream' # <<>> => Stream'[1].part = Header
    <3> SUFFICES ASSUME Stream' # <<>> PROVE Stream'[1].part = Header
      OBVIOUS
    <3>1. 1 \in DOMAIN Stream'
      BY <1>13
    <3>2. n + 1 \in DOMAIN Stream /\ Stream'[1] = Stream[n + 1]
      BY <3>1, <1>14
    <3> QED BY <2>1, <2>5, <3>2 DEF Framed, Behind
  <2>8. ASSUME NEW i \in DOMAIN Stream', i + 1 \in DOMAIN Stream' PROVE Behind(Stream'[i], Stream'[i + 1])
    <3>1. n + i \in DOMAIN Stream /\ Stream'[i] = Stream[n + i] /\ n + (i + 1) \in DOMAIN Stream /\ Stream'[i + 1] = Stream[n + (i + 1)]
      BY <2>8, <1>14
    <3>2. n + (i + 1) = (n + i) + 1
      BY <1>12, <1>14
    <3> QED BY <3>1, <3>2, <2>1 DEF Framed
  (* The end of the stream is still there if a frame is being sent. *)
  <2>9. Stream' # <<>> => Stream'[Len(Stream')] = Stream[L]
    <3> SUFFICES ASSUME Stream' # <<>> PROVE Stream'[Len(Stream')] = Stream[L]
      OBVIOUS
    <3>1. Len(Stream') \in 1 .. Len(Stream') /\ n + Len(Stream') = L
      BY <1>4, <1>12, <1>13
    <3> QED BY <3>1, <1>13
  <2>10. Stream[L].part # Crc => Stream' # <<>>
    <3> SUFFICES ASSUME Stream' = <<>> PROVE n = L
      BY <2>5
    <3>1. Len(Stream') = 0
      OBVIOUS
    <3> QED BY <3>1, <1>4, <1>12, <1>13
  <2>11. Framed'
    <3>1. \A x \in Threads : Midway(x) => /\ Stream' # <<>> /\ Stream'[Len(Stream')].part # Crc
                                          /\ Behind(Stream'[Len(Stream')], sending[x][1])
      BY <2>1, <2>9, <2>10 DEF Framed, L
    <3>2. (Stream' # <<>> /\ Stream'[Len(Stream')].part # Crc) => \E x \in Threads : Midway(x)
      BY <2>1, <2>9, <1>3 DEF Framed, L
    <3> QED BY <3>1, <3>2, <2>6, <2>7, <2>8, <1>2 DEF Framed
  <2>12. Accounted'
    <3> SUFFICES ASSUME NEW i \in DOMAIN sent
                 PROVE  \/ sent[i] \in failed
                        \/ \E j \in DOMAIN received' : received'[j] = sent[i]
                        \/ \E j \in DOMAIN Stream' : Stream'[j].frame = sent[i]
                        \/ \E x \in Threads : sending[x] # <<>> /\ sending[x][1].frame = sent[i]
      BY <1>2 DEF Accounted
    <3>1. /\ \A j \in DOMAIN received : j \in DOMAIN received' /\ received'[j] = received[j]
          /\ Len(received) + 1 \in DOMAIN received' /\ received'[Len(received) + 1] = f
      BY <2>4, <1>5, <1>15
    <3>2. CASE \E j \in DOMAIN Stream : Stream[j].frame = sent[i]
      <4>1. PICK j \in DOMAIN Stream : Stream[j].frame = sent[i]
        BY <3>2
      <4>2. j \in 1 .. L
        BY <1>4
      <4>3. CASE j <= n
        <5>1. j \in 1 .. p
          BY <4>2, <4>3, <2>2, <1>4, <1>6
        <5>2. Stream[j] = [frame |-> f, part |-> f.parts[j]]
          BY <5>1, <2>3
        <5>3. sent[i] = f
          BY <4>1, <5>2
        <5> QED BY <5>3, <3>1
      <4>4. CASE j > n
        <5>1. j - n \in 1 .. Len(Stream') /\ n + (j - n) = j
          BY <4>2, <4>4, <1>4, <1>12, <1>13
        <5>2. j - n \in DOMAIN Stream' /\ Stream'[j - n] = Stream[j]
          BY <5>1, <1>13
        <5> QED BY <5>2, <4>1
      <4> QED BY <4>2, <4>3, <4>4, <1>4, <1>12
    <3> QED BY <3>1, <3>2, <2>1 DEF Accounted
  <2> QED BY <2>11, <2>12
<1> QED BY <1>2, <1>16, <1>19, <1>20, <1>22, <1>23, <1>24 DEF FramesInv

-----------------------------------------------------------------------------
(* A frame the worker or the coordinator builds gets the next number. *)
LEMMA FrameFields ==
  ASSUME TapTypeOK, NEW type \in {"batch", "complete", "flush", "assign"}, NEW items \in Seq(Nat)
  PROVE  /\ Frame(type, items) \in FrameSet /\ Frame(type, items).no = Len(sent)
         /\ Sender(Frame(type, items)) = IF type = "batch" THEN "io" ELSE "main"
<1>1. Len(sent) \in Nat
  BY LenProperties DEF TapTypeOK
<1> QED BY <1>1 DEF Frame, FrameSet, Layouts, Sender

(* Nothing has been sent yet. *)
LEMMA FramesInit == TapInit => FramesInv
<1> SUFFICES ASSUME TapInit PROVE FramesInv
  OBVIOUS
<1>1. /\ dir \in {"up", "ring", "down"} /\ sending = [th \in Threads |-> <<>>] /\ controls = 0 /\ wire = <<>> /\ recv_buf = <<>>
      /\ received = <<>> /\ sent = <<>> /\ failed = {} /\ torn = FALSE
  BY DEF TapInit
<1>2. Stream = <<>> /\ \A th \in Threads : sending[th] = <<>> /\ ~Midway(th)
  BY <1>1 DEF Stream, Midway
<1>3. TapTypeOK
  <2>1. <<>> \in Seq(Token) /\ <<>> \in Seq(FrameSet)
    OBVIOUS
  <2>2. sending \in [Threads -> Seq(Token)]
    BY <1>1, <2>1
  <2> QED BY <1>1, <2>1, <2>2 DEF TapTypeOK
<1>4. "io" \in Threads
  BY DEF Threads
<1>5. /\ \A i \in DOMAIN Stream : FALSE
      /\ \A i \in DOMAIN received : FALSE
      /\ \A i \in DOMAIN sent : FALSE
      /\ \A th \in Threads : \A i \in DOMAIN sending[th] : FALSE
  BY <1>1, <1>2
<1>6. Numbered /\ SendsRest /\ ReceivedFirst /\ StreamNext
  BY <1>1, <1>2, <1>4, <1>5 DEF Numbered, SendsRest, ReceivedFirst, StreamNext
<1>7. Framed /\ Accounted
  BY <1>2, <1>5 DEF Framed, Accounted
<1> QED BY <1>3, <1>6, <1>7 DEF FramesInv

(* Every step keeps the frames in order. *)
LEMMA FramesStep == RingInv /\ FramesInv /\ [TapNext]_tapVars => FramesInv'
<1> SUFFICES ASSUME RingInv, FramesInv, [TapNext]_tapVars PROVE FramesInv'
  OBVIOUS
<1>1. TapTypeOK
  BY DEF FramesInv
<1>2. "main" \in Threads /\ "io" \in Threads /\ controls \in Nat
  BY <1>1 DEF Threads, TapTypeOK
<1>3. ASSUME UNCHANGED net PROVE FramesInv'
  <2>1. Stream' = Stream /\ UNCHANGED <<dir, sending, controls, wire, recv_buf, received, sent, failed, torn>>
    BY <1>3 DEF net, Stream
  <2> QED BY <2>1, <1>1, SameStreamInv DEF TapTypeOK
<1>4. CASE Sieving \/ TapFinished \/ UNCHANGED tapVars
  BY <1>3, <1>4 DEF Sieving, TapFinished, tapVars
<1>5. CASE ChunkComplete
  <2>1. sendMsg("main", Frame("complete", <<>>)) /\ sending["main"] = <<>> /\ controls' = controls + 1
    BY <1>5 DEF ChunkComplete
  <2>2. <<>> \in Seq(Nat)
    OBVIOUS
  <2>3. controls' \in Nat
    BY <1>2, <2>1
  <2> QED BY <1>1, <1>2, <2>1, <2>2, <2>3, FrameFields, BeginInv
<1>6. CASE Draining
  <2>1. CASE UNCHANGED net
    BY <2>1, <1>3
  <2>2. CASE batch # <<>> /\ dir = "up" /\ sendMsg("io", Frame("batch", batch)) /\ UNCHANGED controls
    <3>1. batch \in Seq(Nat)
      <4>1. batch \in Seq(Item)
        BY DEF RingInv, RingTypeOK
      <4>2. Item \subseteq Nat
        BY MaxItemsAssumption DEF Item
      <4>3. Len(batch) \in Nat /\ batch = [i \in 1 .. Len(batch) |-> batch[i]] /\ \A i \in 1 .. Len(batch) : batch[i] \in Nat
        BY <4>1, <4>2
      <4> QED BY <4>3
    <3>2. sending["io"] = <<>>
      BY <1>6 DEF Draining
    <3> QED BY <1>1, <1>2, <2>2, <3>1, <3>2, FrameFields, BeginInv
  <2> QED BY <2>1, <2>2, <1>6 DEF Draining
<1>7. CASE Flush
  <2>1. sendMsg("main", Frame("flush", <<>>)) /\ sending["main"] = <<>> /\ controls' = controls
    BY <1>7 DEF Flush
  <2>2. <<>> \in Seq(Nat)
    OBVIOUS
  <2>3. controls' \in Nat
    BY <1>2, <2>1
  <2> QED BY <1>1, <1>2, <2>1, <2>2, <2>3, FrameFields, BeginInv
<1>8. CASE ChunkAssign
  <2>1. sendMsg("main", Frame("assign", <<controls>>)) /\ sending["main"] = <<>> /\ controls' = controls + 1
    BY <1>8 DEF ChunkAssign
  <2>2. <<controls>> \in Seq(Nat)
    BY <1>2
  <2>3. controls' \in Nat
    BY <1>2, <2>1
  <2> QED BY <1>1, <1>2, <2>1, <2>2, <2>3, FrameFields, BeginInv
<1>9. CASE GiveUp
  BY <1>9, GiveUpInv
<1>10. CASE \E th \in Threads : sendExact(th)
  BY <1>10, SendInv
<1>11. CASE recvMsg
  BY <1>11, ReceiveInv
<1>12. CASE Read
  <2>1. UNCHANGED <<dir, sending, controls, received, sent, failed, torn>>
    BY <1>12 DEF Read
  <2> QED BY <2>1, <1>1, <1>12, ReadKeeps, SameStreamInv
<1> QED BY <1>4, <1>5, <1>6, <1>7, <1>8, <1>9, <1>10, <1>11, <1>12 DEF TapNext

(* When everything is over and nothing is torn, the receive buffer is empty: half a frame would be
   a frame somebody is still sending. *)
LEMMA RestIsEmpty ==
  ASSUME FramesInv, ~torn, AtRest
  PROVE  Stream = <<>>
<1> SUFFICES ASSUME Stream # <<>> PROVE FALSE
  OBVIOUS
<1>1. TapTypeOK /\ Framed
  BY DEF FramesInv
<1>2. wire = <<>> /\ ~Decided(recv_buf) /\ \A th \in Threads : ~Midway(th)
  BY DEF AtRest, Midway
<1>3. Stream \in Seq(Token) /\ Len(Stream) \in Nat /\ DOMAIN Stream = 1 .. Len(Stream) /\ Stream = recv_buf
  BY <1>1, <1>2, StreamType DEF Stream, TapTypeOK
<1>4. Len(Stream) \in Nat \ {0} /\ 1 \in DOMAIN Stream /\ Stream[1] \in Token
  BY <1>3
<1> DEFINE f == Stream[1].frame
<1>5. f.parts \in Layouts
  BY <1>4, RankOf
<1>6. Stream[1].part = Header /\ Stream[Len(Stream)].part = Crc
  BY <1>1, <1>2 DEF Framed
<1>7. Len(f.parts) \in 2 .. 3 /\ Len(Stream) < Len(f.parts)
  BY <1>2, <1>3, <1>4, <1>5, <1>6, PartsShape DEF Decided, FrameTotal
<1>8. Len(Stream) # 1
  BY <1>6 DEF Header, Crc
<1>9. Len(Stream) = 2 /\ Len(f.parts) = 3
  <2>1. \A m \in Nat \ {0} : \A n \in 2 .. 3 : m < n /\ m # 1 => m = 2 /\ n = 3
    OBVIOUS
  <2> QED BY <1>4, <1>7, <1>8, <2>1
<1>10. 1 + 1 \in DOMAIN Stream
  BY <1>3, <1>9
<1>11. Behind(Stream[1], Stream[1 + 1])
  BY <1>1, <1>4, <1>10 DEF Framed
<1>12. f.parts[2] = Payload
  <2>1. Len(<<Header, Crc>>) = 2
    OBVIOUS
  <2>2. f.parts = <<Header, Payload, Crc>>
    BY <1>5, <1>9, <2>1 DEF Layouts
  <2> QED BY <2>2
<1> QED BY <1>6, <1>9, <1>11, <1>12 DEF Behind, Header, Payload, Crc

(* What FramesArrive says follows from the invariant. *)
LEMMA FramesInvArrive == FramesInv => FramesArrive
<1> SUFFICES ASSUME FramesInv PROVE FramesArrive
  OBVIOUS
<1>1. FramesIntact
  <2>1. ASSUME NEW i \in DOMAIN received, NEW j \in DOMAIN received, i < j, received[i].type = "batch" <=> received[j].type = "batch"
        PROVE  received[i].no < received[j].no
    <3>1. Sender(received[i]) = Sender(received[j])
      BY <2>1 DEF Sender
    <3> QED BY <2>1, <3>1 DEF FramesInv, ReceivedFirst
  <2> QED BY <2>1 DEF FramesIntact, FramesInv, ReceivedFirst
<1>2. ASSUME ~torn, NEW i \in DOMAIN sent
      PROVE  \/ sent[i] \in failed
             \/ \E k \in DOMAIN received : received[k] = sent[i]
             \/ /\ ~AtRest
                /\ \/ \E k \in DOMAIN Stream : Stream[k].frame = sent[i]
                   \/ \E th \in Threads : sending[th] # <<>> /\ sending[th][1].frame = sent[i]
  <2>1. Accounted
    BY <1>2 DEF FramesInv
  <2>2. CASE ~AtRest
    BY <2>1, <2>2 DEF Accounted
  <2>3. CASE AtRest
    <3>1. \A th \in Threads : sending[th] = <<>>
      BY <2>3 DEF AtRest
    <3>2. \A k \in DOMAIN Stream : FALSE
      BY <2>3, <1>2, RestIsEmpty
    <3> QED BY <2>1, <3>1, <3>2 DEF Accounted
  <2> QED BY <2>2, <2>3
<1> QED BY <1>1, <1>2 DEF FramesArrive

(* The invariant of the stream holds, for any ring, any number of frames, and any way send() and
   recv() split them. *)
THEOREM FramesInvariant == TapSpec => []FramesInv
<1>1. TapSpec => []RingInv
  BY TapIsRing, RingInvariant, PTL
<1> QED BY <1>1, FramesInit, FramesStep, PTL DEF TapSpec

(* The frames of two unlocked writers and of sends that give up: recvMsg returns only frames that were
   sent to the end, in the order of each thread, and loses one only to a frame that was cut. *)
THEOREM TapFramesArrive == TapSpec => []FramesArrive
  BY FramesInvariant, FramesInvArrive, PTL
=============================================================================
