---------------------------- MODULE TapTransport ----------------------------
(***************************************************************************)
(* The ring of the data tap together with the TCP stream behind it         *)
(* (src/src/cluster/tcp_transport.cpp, tcp_backend.cpp).                   *)
(*                                                                         *)
(* dir = "up": the worker.  Its I/O thread sends what it pops from the     *)
(* ring, its main thread, which is also the sieve thread of the ring,      *)
(* sends CHUNK_COMPLETE between two chunks and FLUSH_ACK once the I/O      *)
(* thread is joined; both call sendMsg on one socket, without a lock.      *)
(* dir = "ring": the same with a connection that takes every frame at      *)
(* once, for more batches than the stream can be followed for.             *)
(* dir = "down": the coordinator's Thread A sends CHUNK_ASSIGN over a      *)
(* non-blocking socket and gives up when the send buffer stays full.       *)
(*                                                                         *)
(* A frame is a sequence of tokens: its header, which holds the length,    *)
(* its payload and its checksum.  The stream keeps their order, a send or  *)
(* a receive may stop after any of them.  Checksums do not collide, and a  *)
(* payload does not look like a header.                                    *)
(***************************************************************************)
EXTENDS SpscRing

CONSTANTS
  MaxControl,  \* bound: CHUNK_COMPLETE frames
  MaxAssigns,  \* bound: CHUNK_ASSIGN frames
  MaxFollowed  \* bound: batches pushed while the stream is followed

ASSUME BoundsAssumption == MaxControl \in Nat /\ MaxAssigns \in Nat /\ MaxFollowed \in Nat

VARIABLES
  dir,       \* which end of the connection the behaviour is about
  sending,   \* per thread: what sendMsg still has to send
  controls,  \* control frames begun
  wire,      \* bytes in the connection
  recv_buf,  \* recv_buf_ of the receiver
  received,  \* history: the messages recvMsg returned
  sent,      \* history: the frames sendMsg began, in order
  failed,    \* history: the frames whose sendMsg returned false
  torn       \* history: a frame was cut by another one, or by a send that gave up

net == <<dir, sending, controls, wire, recv_buf, received, sent, failed, torn>>
tapVars == <<vars, net>>

Threads == {"main", "io"}
Header == 1
Payload == 2
Crc == 3

\* CHUNK_REQUEST and FLUSH_ACK have no payload.
Frame(type, items) == [type |-> type, items |-> items, no |-> Len(sent),
                       parts |-> IF type = "flush" THEN <<Header, Crc>> ELSE <<Header, Payload, Crc>>]
\* The thread is in the middle of a frame.
Midway(th) == sending[th] # <<>> /\ sending[th][1].part # Header
Tokens(f) == [k \in DOMAIN f.parts |-> [frame |-> f, part |-> f.parts[k]]]

\* sendMsg: the frame is built, then sent.
sendMsg(th, f) ==
  /\ sending' = [sending EXCEPT ![th] = Tokens(f)]
  /\ sent' = Append(sent, f)
  /\ UNCHANGED <<dir, wire, recv_buf, received, failed, torn>>

TapInit ==
  /\ Init
  /\ dir \in {"up", "ring", "down"}
  /\ sending = [th \in Threads |-> <<>>]
  /\ controls = 0 /\ wire = <<>> /\ recv_buf = <<>>
  /\ received = <<>> /\ sent = <<>> /\ failed = {} /\ torn = FALSE

-----------------------------------------------------------------------------
(* The worker. *)

\* The sieve thread sieves while it is not in sendMsg.
Sieving ==
  /\ dir # "down" /\ sending["main"] = <<>>
  /\ SieveThread
  /\ (dir = "up" /\ ppc' = "check") => item <= MaxFollowed
  /\ UNCHANGED net

\* The chunk is complete: the main thread reports it.
ChunkComplete ==
  /\ dir = "up" /\ sending["main"] = <<>> /\ ppc = "sieve"
  /\ controls < MaxControl /\ controls' = controls + 1
  /\ sendMsg("main", Frame("complete", <<>>))
  /\ UNCHANGED vars

\* The I/O thread sends the batches it popped as one INCREMENTAL_BATCH.
Draining ==
  /\ dir # "down" /\ sending["io"] = <<>>
  /\ \/ (LoopTop \/ LoopSize \/ PopLoad \/ PopMove) /\ UNCHANGED net
     \/ PopPublish /\ (batch = <<>> \/ dir = "ring") /\ UNCHANGED net
     \/ PopPublish /\ batch # <<>> /\ dir = "up" /\ sendMsg("io", Frame("batch", batch)) /\ UNCHANGED controls

\* The I/O thread is joined: FLUSH_ACK.
Flush ==
  /\ dir = "up" /\ ppc = "over" /\ sending["main"] = <<>>
  /\ \A i \in DOMAIN sent : sent[i].type # "flush"
  /\ sendMsg("main", Frame("flush", <<>>))
  /\ UNCHANGED <<vars, controls>>

-----------------------------------------------------------------------------
(* The coordinator. *)

ChunkAssign ==
  /\ dir = "down" /\ sending["main"] = <<>>
  /\ controls < MaxAssigns /\ controls' = controls + 1
  /\ sendMsg("main", Frame("assign", <<controls>>))
  /\ UNCHANGED vars

\* The send buffer stays full over 1000 retries: sendMsg returns false in the middle.
GiveUp ==
  /\ dir = "down" /\ sending["main"] # <<>>
  /\ failed' = failed \union {sending["main"][1].frame}
  /\ sending' = [sending EXCEPT !["main"] = <<>>]
  /\ torn' = (torn \/ Midway("main"))
  /\ UNCHANGED <<vars, dir, controls, wire, recv_buf, received, sent>>

-----------------------------------------------------------------------------
(* The stream. *)

\* One call of send() by sendExact: header and payload are one buffer, the
\* checksum is another; a call may take only a part of its buffer.
sendExact(th) ==
  /\ sending[th] # <<>>
  /\ \E k \in 1 .. (IF Len(sending[th]) = 1 THEN 1 ELSE Len(sending[th]) - 1) :
       /\ wire' = wire \o SubSeq(sending[th], 1, k)
       /\ sending' = [sending EXCEPT ![th] = SubSeq(@, k + 1, Len(@))]
  /\ torn' = (torn \/ \E other \in Threads \ {th} : Midway(other))
  /\ UNCHANGED <<vars, dir, controls, recv_buf, received, sent, failed>>

FrameTotal(b) == Len(b[1].frame.parts)
\* The checksum at the end of the frame is the one of what stands before it.
CrcMatches(b) == SubSeq(b, 1, FrameTotal(b)) = Tokens(b[1].frame)

\* What recvMsg can do without reading.
Decided(b) == b # <<>> /\ (b[1].part # Header \/ Len(b) >= FrameTotal(b))

\* Mutant: the buffer is emptied with the frame.
recvMsg_DropsRest ==
  /\ Decided(recv_buf)
  /\ recv_buf' = <<>>
  /\ received' = IF recv_buf[1].part = Header /\ CrcMatches(recv_buf)
                 THEN Append(received, recv_buf[1].frame) ELSE received
  /\ UNCHANGED <<vars, dir, sending, controls, wire, sent, failed, torn>>

\* A buffer that does not begin with a header is thrown away, a frame whose
\* checksum differs is skipped, another one is returned.
recvMsg ==
  /\ Decided(recv_buf)
  /\ IF recv_buf[1].part # Header THEN recv_buf' = <<>> /\ UNCHANGED received
     ELSE /\ recv_buf' = SubSeq(recv_buf, FrameTotal(recv_buf) + 1, Len(recv_buf))
          /\ received' = IF CrcMatches(recv_buf) THEN Append(received, recv_buf[1].frame) ELSE received
  /\ UNCHANGED <<vars, dir, sending, controls, wire, sent, failed, torn>>

\* recv() returns some of what has arrived; only an undecided buffer is read into.
Read ==
  /\ ~Decided(recv_buf) /\ wire # <<>>
  /\ \E k \in 1 .. Len(wire) :
       /\ recv_buf' = recv_buf \o SubSeq(wire, 1, k)
       /\ wire' = SubSeq(wire, k + 1, Len(wire))
  /\ UNCHANGED <<vars, dir, sending, controls, received, sent, failed, torn>>

AtRest ==
  /\ CASE dir = "up"   -> \E i \in DOMAIN sent : sent[i].type = "flush"
       [] dir = "ring" -> ppc = "over"
       [] dir = "down" -> controls = MaxAssigns
  /\ \A th \in Threads : sending[th] = <<>>
  /\ wire = <<>> /\ ~Decided(recv_buf)

TapFinished == AtRest /\ UNCHANGED tapVars

TapNext ==
  \/ Sieving \/ ChunkComplete \/ Draining \/ Flush
  \/ ChunkAssign \/ GiveUp
  \/ \E th \in Threads : sendExact(th)
  \/ recvMsg \/ Read
  \/ TapFinished

TapSpec == TapInit /\ [][TapNext]_tapVars

-----------------------------------------------------------------------------
Stream == recv_buf \o wire

(* The framing of tcp_transport.cpp holds against two writers and against a
   send that gives up: what recvMsg returns are frames that were sent to the
   end, each once, and those of one thread in the order it sent them. *)
FramesIntact ==
  /\ \A i \in DOMAIN received : received[i] \notin failed
  /\ \A i, j \in DOMAIN received :
       (i < j /\ (received[i].type = "batch" <=> received[j].type = "batch"))
          => received[i].no < received[j].no

(* A frame is lost only to a frame that was cut: until then everything sendMsg
   was given has been received, is in the stream, or is still being sent, and
   when all is over the coordinator has every batch the sieve thread pushed,
   none of them left behind in recv_buf_. *)
FramesArrive ==
  /\ FramesIntact
  /\ ~torn => \A i \in DOMAIN sent :
              \/ sent[i] \in failed
              \/ \E k \in DOMAIN received : received[k] = sent[i]
              \/ /\ ~AtRest
                 /\ \/ \E k \in DOMAIN Stream : Stream[k].frame = sent[i]
                    \/ \E th \in Threads : sending[th] # <<>> /\ sending[th][1].frame = sent[i]

(* sendMsg is frame-atomic per call (orchestrator.cpp): the frames of the
   worker's two threads follow each other in the stream, none inside another. *)
FrameAtomic ==
  dir = "up" => \A k \in 1 .. Len(Stream) - 1 :
                   IF Stream[k + 1].part = Header THEN Stream[k].part = Crc
                   ELSE Stream[k + 1].frame = Stream[k].frame
=============================================================================
