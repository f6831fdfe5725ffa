------------------------------ MODULE SpscRing ------------------------------
(***************************************************************************)
(* The lock-free ring of spsc_ring.h between a worker's sieve thread       *)
(* (AsyncNetworkDataTap::onBatchComplete, then shutdown) and its I/O       *)
(* thread (ioThreadMain), at the granularity of single loads and stores.   *)
(*                                                                         *)
(* Memory order.  Each thread owns one index and reads the other's.  A     *)
(* load of the other index may be stale: it returns any value that index   *)
(* had since the one this thread saw last (headSeen, tailSeen).  An        *)
(* acquire load makes the slots stored before the value it returns         *)
(* visible; seeing shutdown_ makes the last tail_ visible, because the     *)
(* sieve thread stores shutdown_ after its last push.  A slot is not       *)
(* atomic, so the two threads must never be at the same slot.              *)
(***************************************************************************)
EXTENDS Integers, Sequences

CONSTANTS
  N,             \* slots of the ring, 32 in the code
  CoalesceCount, \* most items popBatch takes at once
  MaxItems       \* bound: batches the sieve produces

ASSUME NAssumption == N \in Nat \ {0}
ASSUME CoalesceAssumption == CoalesceCount \in Nat \ {0}
ASSUME MaxItemsAssumption == MaxItems \in Nat

VARIABLES
  head, tail,     \* head_, tail_
  slots,          \* slots_; Empty before the first push and once moved out
  shutdown,       \* shutdown_
  ppc,            \* sieve thread: sieve, check, fill, publish, over
  item,           \* batch the sieve thread is at
  headSeen,       \* sieve thread: head_ as it saw it last
  cpc,            \* I/O thread: top, size, load, move, publish, over
  tailSeen,       \* I/O thread: tail_ as it saw it last
  h,              \* popBatch: local h
  batch,          \* popBatch: out
  delivered,      \* history: everything popBatch returned, in order
  accepted        \* history: everything tryPush took, in order

sieveThread == <<ppc, item, headSeen, accepted, tail, shutdown>>
ioThread == <<cpc, tailSeen, h, batch, delivered, head>>
vars == <<sieveThread, ioThread, slots>>

Empty == 0
Index == 0 .. (N - 1)

\* (i + 1) & mask_
Succ(i) == (i + 1) % N

\* How far j is ahead of i in the ring: (j - i) & mask_.
Ahead(i, j) == (j - i) % N

\* The values an index can have had from seen up to now.
SinceSeen(seen, now) == {(seen + k) % N : k \in 0 .. Ahead(seen, now)}

Init ==
  /\ head = 0 /\ tail = 0
  /\ slots = [i \in Index |-> Empty]
  /\ shutdown = FALSE
  /\ ppc = "sieve" /\ item = 1 /\ headSeen = 0
  /\ cpc = "top" /\ tailSeen = 0 /\ h = 0 /\ batch = <<>>
  /\ delivered = <<>> /\ accepted = <<>>

-----------------------------------------------------------------------------
(* The sieve thread. *)

\* onBatchComplete calls tryPush, which reads its own tail_ ...
PushBegin ==
  /\ ppc = "sieve" /\ item <= MaxItems
  /\ ppc' = "check"
  /\ UNCHANGED <<item, headSeen, accepted, tail, shutdown, ioThread, slots>>

\* Mutant: a ring that is filled to the last slot.
Full_AllSlots(seen) == Ahead(seen, tail) = N

\* One slot stays free, so that full and empty differ.
Full(seen) == Succ(tail) = seen

\* ... and head_: when the ring is full, the batch is dropped.
PushCheck ==
  /\ ppc = "check"
  /\ \E seen \in SinceSeen(headSeen, head) :
       /\ headSeen' = seen
       /\ \/ Full(seen) /\ ppc' = "sieve" /\ item' = item + 1
          \/ ~Full(seen) /\ ppc' = "fill" /\ UNCHANGED item
  /\ UNCHANGED <<accepted, tail, shutdown, ioThread, slots>>

\* slots_[t] = std::move(item)
PushFill ==
  /\ ppc = "fill"
  /\ slots' = [slots EXCEPT ![tail] = item]
  /\ ppc' = "publish"
  /\ UNCHANGED <<item, headSeen, accepted, tail, shutdown, ioThread>>

\* tail_.store(next, release)
PushPublish ==
  /\ ppc = "publish"
  /\ tail' = Succ(tail)
  /\ accepted' = Append(accepted, item)
  /\ item' = item + 1
  /\ ppc' = "sieve"
  /\ UNCHANGED <<headSeen, shutdown, ioThread, slots>>

\* AsyncNetworkDataTap::shutdown, called once no batch will follow ...
Shutdown ==
  /\ ppc = "sieve"
  /\ shutdown' = TRUE
  /\ ppc' = "join"
  /\ UNCHANGED <<item, headSeen, accepted, tail, ioThread, slots>>

\* ... joins the I/O thread.
Join ==
  /\ ppc = "join" /\ cpc = "over"
  /\ ppc' = "over"
  /\ UNCHANGED <<item, headSeen, accepted, tail, shutdown, ioThread, slots>>

-----------------------------------------------------------------------------
(* The I/O thread. *)

\* Mutant: shutdown_ loaded relaxed, so that it makes no tail_ visible.
TailLoads_Relaxed(sawShutdown) == SinceSeen(tailSeen, tail)

\* The values of tail_ a relaxed load can return: the last one, once the
\* thread has seen shutdown_ with an acquire load.
TailLoads(sawShutdown) == IF sawShutdown THEN {tail} ELSE SinceSeen(tailSeen, tail)

\* The head of the loop: shutdown_ is loaded before the size.
LoopTop ==
  /\ cpc = "top"
  /\ cpc' = IF shutdown THEN "size" ELSE "load"
  /\ UNCHANGED <<tailSeen, h, batch, delivered, head, sieveThread, slots>>

\* approxSize() == 0 after shutdown_: leave.
LoopSize ==
  /\ cpc = "size"
  /\ \E t \in TailLoads(TRUE) :
       /\ tailSeen' = t
       /\ cpc' = IF Ahead(head, t) = 0 THEN "over" ELSE "load"
  /\ UNCHANGED <<h, batch, delivered, head, sieveThread, slots>>

\* popBatch: tail_ (acquire), then its own head_.
PopLoad ==
  /\ cpc = "load"
  /\ \E t \in SinceSeen(tailSeen, tail) : tailSeen' = t
  /\ h' = head /\ batch' = <<>>
  /\ cpc' = "move"
  /\ UNCHANGED <<delivered, head, sieveThread, slots>>

More == Len(batch) < CoalesceCount /\ h # tailSeen

\* out.push_back(std::move(slots_[h])): the slot is left empty.
PopMove ==
  /\ cpc = "move" /\ More
  /\ batch' = Append(batch, slots[h])
  /\ slots' = [slots EXCEPT ![h] = Empty]
  /\ h' = Succ(h)
  /\ UNCHANGED <<cpc, tailSeen, delivered, head, sieveThread>>

\* Mutant: the slots are given back one too far.
PopPublish_OneMore ==
  /\ cpc = "move" /\ ~More
  /\ head' = IF batch # <<>> THEN Succ(h) ELSE h
  /\ h' = head'
  /\ delivered' = delivered \o batch
  /\ batch' = <<>>
  /\ cpc' = "top"
  /\ UNCHANGED <<tailSeen, sieveThread, slots>>

\* head_.store(h, release), if anything was popped; the caller merges and
\* sends the batch, and starts over.
PopPublish ==
  /\ cpc = "move" /\ ~More
  /\ head' = h
  /\ delivered' = delivered \o batch
  /\ batch' = <<>>
  /\ cpc' = "top"
  /\ UNCHANGED <<tailSeen, h, sieveThread, slots>>

SieveThread == PushBegin \/ PushCheck \/ PushFill \/ PushPublish \/ Shutdown \/ Join

IoThread == LoopTop \/ LoopSize \/ PopLoad \/ PopMove \/ PopPublish

\* shutdown() has returned.
Finished == ppc = "over" /\ UNCHANGED vars

Next == SieveThread \/ IoThread \/ Finished

Spec == Init /\ [][Next]_vars

-----------------------------------------------------------------------------
(* The two threads never touch a slot at the same time, whatever stale
   indices they act on: the slot tryPush fills has been moved out, and is not
   the one popBatch is at.  (A TapSlot holds vectors; a race on it is
   undefined behaviour.) *)
SlotsApart ==
  ppc = "fill" => /\ slots[tail] = Empty
                  /\ ~(cpc = "move" /\ More /\ h = tail)

(* When the I/O thread ends, every batch tryPush has accepted has been handed
   to it, in order: shutdown() drains the ring, FLUSH_ACK is sent after it. *)
DrainedAtExit == cpc = "over" => delivered = accepted

(* The batches in the ring: those popBatch has moved out but not given back,
   then those waiting. *)
Waiting == batch \o [k \in 1 .. Ahead(h, tail) |-> slots[(h + k - 1) % N]]

Fifo == INSTANCE TapQueue WITH Items <- 1 .. MaxItems, Capacity <- N - 1,
                               queue <- Waiting, over <- (cpc = "over")

(* The ring is a bounded FIFO queue: no batch is lost, duplicated, reordered
   or torn between tryPush and popBatch, and none is accepted or left behind
   when the I/O thread is over. *)
IsFifo == Fifo!Spec
=============================================================================
