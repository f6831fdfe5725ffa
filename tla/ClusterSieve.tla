---------------------------- MODULE ClusterSieve ----------------------------
(***************************************************************************)
(* One sieving run of the cluster: the coordinator's Thread A (networkLoop *)
(* in orchestrator.cpp), its Thread B (the local GPU sieve and the         *)
(* overflow loop), the workers' main threads (the chunk loop) and their    *)
(* I/O threads (AsyncNetworkDataTap), over the coordinator's WorkPool.     *)
(*                                                                         *)
(* Data is abstracted to a-value indices: sieving index a yields "the      *)
(* relations of a", and the accumulator is the set of indices whose        *)
(* relations Thread A has ingested (deduplication makes it a set).  A      *)
(* batch is one index.  Chunk sizes are any member of ChunkSizes.  Every   *)
(* connection is a FIFO byte stream; heartbeats carry no state besides     *)
(* "this worker is alive" and appear as the guard of HeartbeatTimeout.     *)
(*                                                                         *)
(* Timeouts.  In a prompt run the 15 s re-request and the 600 s hard cap   *)
(* of a waiting worker only expire when no answer is on its way, i.e.      *)
(* round trips and Thread A's stalls are shorter than the timeouts, and    *)
(* the idle sweep does not assign to a worker whose CHUNK_REQUEST is       *)
(* already on the wire; in a late run they may expire at any time and the  *)
(* two may cross, which nothing in the code prevents, see README.md.       *)
(***************************************************************************)
EXTENDS Integers, Sequences, FiniteSets

CONSTANTS
  NumWorkers,    \* remote workers, numbered from 1; node 0 is the coordinator
  InitialCount,  \* a-values in each node's initial range
  PoolTotal,     \* a-values in the overflow pool
  ChunkSizes,    \* what ChunkScheduler::nextChunkSize may return
  Target,        \* effective target, counted in indices
  RingCap,       \* capacity of a worker's SPSC ring
  Coalesce,      \* coalesce_count of the I/O thread
  ChannelCap,    \* capacity of the DirectChannel
  MaxChunks,     \* bound on the chunk ids
  Budgets        \* what a run may meet: how many of each kind of fault, prompt or late

ASSUME ClusterAssumption ==
  /\ NumWorkers \in Nat /\ InitialCount \in Nat /\ PoolTotal \in Nat /\ MaxChunks \in Nat
  /\ ChunkSizes \subseteq Nat \ {0}
  /\ Coalesce \in Nat \ {0} /\ ChannelCap \in Nat \ {0}

Budget == [crash : Nat, request : Nat, hardcap : Nat, sendfail : Nat, recall : Nat, save : Nat,
           prompt : BOOLEAN]

ASSUME BudgetsAssumption == Budgets \subseteq Budget

VARIABLES
  next, nextChunkId, inFlight, returned, done, saved,   \* the WorkPool
  wpc,        \* worker main thread: sieve, wait, shutdown, exited, dead
  wchunk,     \* worker: chunk being sieved, [id, start, count]
  consumed,   \* worker: range_a_consumed_
  pending,    \* worker: pending_assign_ ({} or a singleton)
  stop,       \* worker: stop_
  recall,     \* worker: recall_
  ring,       \* worker: SPSC ring of batches
  toC, toW,   \* the two directions of each connection
  apc,        \* Thread A: where it is
  current,    \* Thread A: worker_trackers[w].current_chunk_id
  alive,      \* Thread A: worker_trackers[w].alive
  hw,         \* initial-range high-water of every node
  deferred,   \* Thread A: deferred_batches
  acc,        \* the accumulator
  flushed, allFlushed,      \* workers_flushed, all_workers_flushed
  bpc, bchunk, bconsumed,   \* Thread B: where it is, its range, its progress
  channel, chanStop, sieveDone,  \* DirectChannel, its stop_, sieve_done_
  budget,     \* how often each bounded event may still happen, and if the run is prompt
  lost        \* history: indices whose relations a crash or a full buffer dropped

pool   == <<next, nextChunkId, inFlight, returned, done, saved>>
worker == <<wpc, wchunk, consumed, pending, stop, recall, ring>>
threadA == <<apc, current, alive, hw, deferred, acc, flushed, allFlushed>>
threadB == <<bpc, bchunk, bconsumed, channel, chanStop, sieveDone>>
vars == <<pool, worker, toC, toW, threadA, threadB, budget, lost>>

Workers == 1 .. NumWorkers
Nodes == 0 .. NumWorkers

\* Sentinels of worker_trackers[w].current_chunk_id.
Idle == -1          \* UINT32_MAX
Initial == -2       \* kInitialChunk

\* A worker's tracker starts out busy with the initial range.
InitialTracker_Idle == Idle

InitialTracker == Initial

PoolStart == (NumWorkers + 1) * InitialCount
AllIndices == 0 .. (PoolStart + PoolTotal - 1)

Pool == INSTANCE WorkPool WITH Start <- PoolStart, Total <- PoolTotal,
                               Workers <- Nodes, Counts <- ChunkSizes

\* A worker labels its initial range chunk 0, which is also a pool id.
InitialRange(n) == [id |-> 0, start |-> n * InitialCount, count |-> InitialCount]

TargetReached == Cardinality(acc) >= Target

Contents(s) == {s[i] : i \in DOMAIN s}

\* The relations in the INCREMENTAL_BATCHes among the frames s.
Batched(s) == UNION {s[i].data : i \in {j \in DOMAIN s : s[j].type = "batch"}}

Init ==
  /\ Pool!Init
  /\ wpc = [w \in Workers |-> "sieve"]
  /\ wchunk = [w \in Workers |-> InitialRange(w)]
  /\ consumed = [w \in Workers |-> 0]
  /\ pending = [w \in Workers |-> {}]
  /\ stop = [w \in Workers |-> FALSE]
  /\ recall = [w \in Workers |-> FALSE]
  /\ ring = [w \in Workers |-> <<>>]
  /\ toC = [w \in Workers |-> <<>>]
  /\ toW = [w \in Workers |-> <<>>]
  /\ apc = [at |-> "loop"]
  /\ current = [w \in Workers |-> InitialTracker]
  /\ alive = [w \in Workers |-> TRUE]
  /\ hw = [n \in Nodes |-> 0]
  /\ deferred = {}
  /\ acc = {}
  /\ flushed = 0
  /\ allFlushed = (NumWorkers = 0)
  /\ bpc = "initial"
  /\ bchunk = InitialRange(0)
  /\ bconsumed = 0
  /\ channel = <<>>
  /\ chanStop = FALSE
  /\ sieveDone = FALSE
  /\ budget \in Budgets
  /\ lost = {}

Spend(what) ==
  /\ budget[what] > 0
  /\ budget' = [budget EXCEPT ![what] = @ - 1]

\* Timeouts are longer than round trips.
Prompt == budget.prompt

-----------------------------------------------------------------------------
(* The worker's main thread. *)

\* Definitions named X_Y are mutants: the plausible bug Y in place of X.

\* shouldStop's range check.
RangeLeft(w) == consumed[w] < wchunk[w].count

\* One batch: onBatchComplete pushes to the ring, or drops the newest batch
\* when the ring is full; either way the a-value counts as consumed.
WorkerSieve(w) ==
  /\ wpc[w] = "sieve" /\ ~stop[w] /\ RangeLeft(w)
  /\ LET a == wchunk[w].start + consumed[w]
     IN  \/ /\ Len(ring[w]) < RingCap
            /\ ring' = [ring EXCEPT ![w] = Append(@, a)]
            /\ UNCHANGED lost
         \/ /\ Len(ring[w]) = RingCap
            /\ lost' = lost \cup {a}
            /\ UNCHANGED ring
  /\ consumed' = [consumed EXCEPT ![w] = @ + 1]
  /\ UNCHANGED <<pool, wpc, wchunk, pending, stop, recall, toC, toW, threadA, threadB, budget>>

\* SieveStage returns because of STOP: leave the chunk loop.
WorkerStopped(w) ==
  /\ wpc[w] = "sieve" /\ stop[w]
  /\ wpc' = [wpc EXCEPT ![w] = "shutdown"]
  /\ UNCHANGED <<pool, wchunk, consumed, pending, stop, recall, ring, toC, toW,
                 threadA, threadB, budget, lost>>

\* SieveStage returns because the range is consumed (shouldStop does not look
\* at recall_): clear the recall flag and send CHUNK_COMPLETE, past the ring.
\* The result of the send is not looked at.
ChunkComplete(w) ==
  /\ wpc[w] = "sieve" /\ ~stop[w] /\ ~RangeLeft(w)
  /\ recall' = [recall EXCEPT ![w] = FALSE]
  /\ \/ /\ toC' = [toC EXCEPT ![w] = Append(@, [type |-> "complete", id |-> wchunk[w].id,
                                               consumed |-> consumed[w]])]
        /\ UNCHANGED budget
     \/ Spend("sendfail") /\ UNCHANGED toC
  /\ wpc' = [wpc EXCEPT ![w] = "wait"]
  /\ UNCHANGED <<pool, wchunk, consumed, pending, stop, ring, toW, threadA, threadB, lost>>

\* tryTakeChunkAssign, setRange and back into SieveStage.
TakeChunkAssign(w) ==
  /\ wpc[w] = "wait" /\ pending[w] # {}
  /\ wchunk' = [wchunk EXCEPT ![w] = CHOOSE c \in pending[w] : TRUE]
  /\ pending' = [pending EXCEPT ![w] = {}]
  /\ consumed' = [consumed EXCEPT ![w] = 0]
  /\ wpc' = [wpc EXCEPT ![w] = "sieve"]
  /\ UNCHANGED <<pool, stop, recall, ring, toC, toW, threadA, threadB, budget, lost>>

WaitStopped(w) ==
  /\ wpc[w] = "wait" /\ pending[w] = {} /\ stop[w]
  /\ wpc' = [wpc EXCEPT ![w] = "shutdown"]
  /\ UNCHANGED <<pool, wchunk, consumed, pending, stop, recall, ring, toC, toW,
                 threadA, threadB, budget, lost>>

\* Nothing that could end the wait of w is on its way.
NoAnswerDue(w) ==
  /\ toW[w] = <<>> /\ \A i \in DOMAIN toC[w] : toC[w][i].type = "batch"
  /\ apc.at \in {"assign", "send"} => apc.w # w

\* The rate-limited CHUNK_REQUEST of a waiting worker, on time or too early.
ReRequest(w) ==
  /\ wpc[w] = "wait" /\ pending[w] = {} /\ ~stop[w]
  /\ \/ NoAnswerDue(w) /\ UNCHANGED budget
     \/ ~Prompt /\ ~NoAnswerDue(w) /\ Spend("request")
  /\ toC' = [toC EXCEPT ![w] = Append(@, [type |-> "request"])]
  /\ UNCHANGED <<pool, worker, toW, threadA, threadB, lost>>

\* The hard cap: no CHUNK_ASSIGN and no STOP for ten minutes.
HardCap(w) ==
  /\ wpc[w] = "wait" /\ pending[w] = {} /\ ~stop[w]
  /\ Prompt => NoAnswerDue(w) /\ (Pool!exhausted \/ apc.at = "exit")
  /\ Spend("hardcap")
  /\ wpc' = [wpc EXCEPT ![w] = "shutdown"]
  /\ UNCHANGED <<pool, wchunk, consumed, pending, stop, recall, ring, toC, toW,
                 threadA, threadB, lost>>

\* AsyncNetworkDataTap::shutdown drains the ring and joins the I/O thread,
\* then the main thread sends FLUSH_ACK and exits.
FlushAndExit(w) ==
  /\ wpc[w] = "shutdown" /\ ring[w] = <<>>
  /\ toC' = [toC EXCEPT ![w] = Append(@, [type |-> "flush"])]
  /\ wpc' = [wpc EXCEPT ![w] = "exited"]
  /\ UNCHANGED <<pool, wchunk, consumed, pending, stop, recall, ring, toW,
                 threadA, threadB, budget, lost>>

\* The process dies; what the kernel had not delivered may be lost.
Crash(w) ==
  /\ wpc[w] \notin {"exited", "dead"}
  /\ Spend("crash")
  /\ wpc' = [wpc EXCEPT ![w] = "dead"]
  /\ \E k \in 0 .. Len(toC[w]) :
       /\ toC' = [toC EXCEPT ![w] = SubSeq(@, 1, k)]
       /\ lost' = lost \cup Contents(ring[w]) \cup Batched(SubSeq(toC[w], k + 1, Len(toC[w])))
  /\ ring' = [ring EXCEPT ![w] = <<>>]
  /\ toW' = [toW EXCEPT ![w] = <<>>]
  /\ UNCHANGED <<pool, wchunk, consumed, pending, stop, recall, threadA, threadB>>

-----------------------------------------------------------------------------
(* The worker's I/O thread, running until the ring is drained after shutdown. *)

IoRunning(w) == wpc[w] \in {"sieve", "wait", "shutdown"}

\* popBatch, mergeRelationBatches, send: one INCREMENTAL_BATCH, of at most
\* coalesce_count ring slots.  The result of the send is not looked at.
IoSendBatch(w) ==
  /\ IoRunning(w) /\ ring[w] # <<>>
  /\ LET k == IF Len(ring[w]) < Coalesce THEN Len(ring[w]) ELSE Coalesce
         items == {ring[w][i] : i \in 1 .. k}
     IN  /\ \/ /\ toC' = [toC EXCEPT ![w] = Append(@, [type |-> "batch", data |-> items])]
               /\ UNCHANGED <<budget, lost>>
            \/ /\ Spend("sendfail")
               /\ lost' = lost \cup items
               /\ UNCHANGED toC
         /\ ring' = [ring EXCEPT ![w] = SubSeq(@, k + 1, Len(@))]
  /\ UNCHANGED <<pool, wpc, wchunk, consumed, pending, stop, recall, toW, threadA, threadB>>

\* One control frame: STOP, CHUNK_RECALL or CHUNK_ASSIGN (last writer wins).
IoRecv(w) ==
  /\ IoRunning(w) /\ toW[w] # <<>>
  /\ toW' = [toW EXCEPT ![w] = Tail(@)]
  /\ LET m == Head(toW[w])
     IN  \/ /\ m.type = "stop"
            /\ stop' = [stop EXCEPT ![w] = TRUE]
            /\ UNCHANGED <<recall, pending>>
         \/ /\ m.type = "recall"
            /\ recall' = [recall EXCEPT ![w] = @ \/ m.id = wchunk[w].id]
            /\ UNCHANGED <<stop, pending>>
         \/ /\ m.type = "assign"
            /\ pending' = [pending EXCEPT ![w] = {m.chunk}]
            /\ UNCHANGED <<stop, recall>>
  /\ UNCHANGED <<pool, wpc, wchunk, consumed, ring, toC, threadA, threadB, budget, lost>>

-----------------------------------------------------------------------------
(* Thread A.  apc says where it is in an iteration of its loop:             *)
(*   loop       polling; deferred is empty between two drains               *)
(*   assign     in assignChunkTo(w), before the checkout                    *)
(*   send       in assignChunkTo(w), chunk id checked out, before the send  *)
(*   straggler  in checkStragglers                                          *)
(*   flush      waiting for FLUSH_ACKs after STOP                           *)
(*   exit       final batch delivered                                       *)
(* then is where assignChunkTo returns to.                                  *)

Loop == [at |-> "loop"]
Gone(w) == wpc[w] \in {"exited", "dead"}
IsPoolChunk(id) == id \notin {Idle, Initial}

\* The in-flight entry with this id, as a set of at most one record.
Entry(id) == {c \in inFlight : c.chunk_id = id}

\* Every batch of the DirectChannel goes into the accumulator.
PollChannel ==
  /\ apc = Loop /\ deferred = {} /\ channel # <<>>
  /\ acc' = acc \cup Contents(channel)
  /\ channel' = <<>>
  /\ UNCHANGED <<pool, worker, toC, toW, apc, current, alive, hw, deferred, flushed, allFlushed,
                 bpc, bchunk, bconsumed, chanStop, sieveDone, budget, lost>>

\* recv: the next frame of w, while Thread A is at `at`.
Receive(w, at, type) ==
  /\ apc = [at |-> at] /\ alive[w]
  /\ toC[w] # <<>> /\ Head(toC[w]).type = type
  /\ toC' = [toC EXCEPT ![w] = Tail(@)]

\* INCREMENTAL_BATCH: set aside until the drain is over.
RecvIncrementalBatch(w) ==
  /\ Receive(w, "loop", "batch")
  /\ deferred' = deferred \cup Head(toC[w]).data
  /\ UNCHANGED <<pool, worker, toW, apc, current, alive, hw, acc, flushed, allFlushed,
                 threadB, budget, lost>>

\* A worker's first CHUNK_COMPLETE carries the label 0 of its initial range,
\* which is also a pool id: only a chunk the tracker holds is reclaimed.
HoldsChunk_AnyInFlight(w, id) == Entry(id) # {}

HoldsChunk(w, id) == current[w] = id /\ IsPoolChunk(current[w])

RecvChunkComplete(w) ==
  /\ Receive(w, "loop", "complete")
  /\ LET m == Head(toC[w])
     IN  /\ \/ /\ HoldsChunk(w, m.id)
               /\ \E c \in Entry(m.id) : Pool!reclaimPartial(c, m.consumed)
            \/ ~HoldsChunk(w, m.id) /\ UNCHANGED pool
         /\ hw' = IF current[w] = Initial
                  THEN [hw EXCEPT ![w] = IF m.consumed < InitialCount THEN m.consumed
                                                                      ELSE InitialCount]
                  ELSE hw
  /\ current' = [current EXCEPT ![w] = Idle]
  /\ apc' = [at |-> "assign", w |-> w, then |-> "straggler"]
  /\ UNCHANGED <<worker, toW, alive, deferred, acc, flushed, allFlushed, threadB, budget, lost>>

\* The tracker is taken to be stale: whatever it holds is returned.
ForgetTracked(w) ==
  /\ \/ /\ IsPoolChunk(current[w])
        /\ \E c \in Entry(current[w]) : Pool!returnChunk(c)
     \/ ~IsPoolChunk(current[w]) /\ UNCHANGED pool
  /\ current' = [current EXCEPT ![w] = Idle]

\* CHUNK_REQUEST: return and re-assign.
RecvChunkRequest(w) ==
  /\ Receive(w, "loop", "request")
  /\ ForgetTracked(w)
  /\ apc' = [at |-> "assign", w |-> w, then |-> "loop"]
  /\ UNCHANGED <<worker, toW, alive, hw, deferred, acc, flushed, allFlushed, threadB, budget, lost>>

CountFlushed ==
  /\ flushed' = flushed + 1
  /\ allFlushed' = (allFlushed \/ flushed + 1 >= NumWorkers)

RecvFlushAck(w) ==
  /\ Receive(w, "loop", "flush")
  /\ CountFlushed
  /\ UNCHANGED <<pool, worker, toW, apc, current, alive, hw, deferred, acc, threadB, budget, lost>>

\* assignChunkTo: the early returns.
AssignNothing ==
  /\ apc.at = "assign"
  /\ \/ current[apc.w] # Idle
     \/ TargetReached
     \/ Pool!exhausted
     \/ nextChunkId = MaxChunks        \* bound
  /\ apc' = [at |-> apc.then]
  /\ UNCHANGED <<pool, worker, toC, toW, current, alive, hw, deferred, acc, flushed, allFlushed,
                 threadB, budget, lost>>

\* assignChunkTo: check a chunk out.
AssignCheckout ==
  /\ apc.at = "assign"
  /\ current[apc.w] = Idle /\ ~TargetReached
  /\ \E n \in ChunkSizes : Pool!checkoutWork(n, apc.w)
  /\ apc' = [at |-> "send", w |-> apc.w, id |-> nextChunkId, then |-> apc.then]
  /\ UNCHANGED <<worker, toC, toW, current, alive, hw, deferred, acc, flushed, allFlushed,
                 threadB, budget, lost>>

\* assignChunkTo: CHUNK_ASSIGN sent.  A frame for a peer that is gone vanishes.
AssignSent ==
  /\ apc.at = "send"
  /\ \E c \in Entry(apc.id) :
       toW' = IF Gone(apc.w) THEN toW
              ELSE [toW EXCEPT ![apc.w] =
                      Append(@, [type |-> "assign",
                                 chunk |-> [id |-> c.chunk_id, start |-> c.unit.start,
                                            count |-> c.unit.count]])]
  /\ current' = [current EXCEPT ![apc.w] = apc.id]
  /\ apc' = [at |-> apc.then]
  /\ UNCHANGED <<pool, worker, toC, alive, hw, deferred, acc, flushed, allFlushed,
                 threadB, budget, lost>>

\* returnChunk of the chunk whose CHUNK_ASSIGN was not sent.
GiveBack_Not(id) == UNCHANGED pool

GiveBack(id) == \E c \in Entry(id) : Pool!returnChunk(c)

\* assignChunkTo: the send failed, the chunk goes back to the pool.
AssignSendFailed ==
  /\ apc.at = "send"
  /\ \/ Gone(apc.w) /\ UNCHANGED budget
     \/ ~Gone(apc.w) /\ Spend("sendfail")
  /\ GiveBack(apc.id)
  /\ apc' = [at |-> apc.then]
  /\ UNCHANGED <<worker, toC, toW, current, alive, hw, deferred, acc, flushed, allFlushed,
                 threadB, lost>>

\* checkStragglers: CHUNK_RECALL for a chunk in flight.  Which chunks are slow
\* is up to the throughput estimates, so any may be recalled, or none.
RecallStraggler ==
  /\ apc.at = "straggler"
  /\ Spend("recall")
  /\ \E c \in inFlight :
       /\ c.worker_id \in Workers
       /\ toW' = IF Gone(c.worker_id) THEN toW
                 ELSE [toW EXCEPT ![c.worker_id] = Append(@, [type |-> "recall", id |-> c.chunk_id])]
  /\ UNCHANGED <<pool, worker, toC, threadA, threadB, lost>>

StragglersChecked ==
  /\ apc.at = "straggler"
  /\ apc' = Loop
  /\ UNCHANGED <<pool, worker, toC, toW, current, alive, hw, deferred, acc, flushed, allFlushed,
                 threadB, budget, lost>>

\* processIncrementalBatch for every deferred batch.
ProcessDeferred ==
  /\ apc = Loop /\ deferred # {}
  /\ acc' = acc \cup deferred
  /\ deferred' = {}
  /\ UNCHANGED <<pool, worker, toC, toW, apc, current, alive, hw, flushed, allFlushed,
                 threadB, budget, lost>>

\* A dead worker sends no FLUSH_ACK and is counted as flushed.
CountDead_Not == UNCHANGED <<flushed, allFlushed>>

CountDead == CountFlushed

\* No heartbeat for kFlushTimeoutMs.  Heartbeats are sent every 5 s until the
\* I/O thread ends, so only a worker that is gone runs into this, and every
\* frame it had sent has been received long before.
HeartbeatTimeout(w) ==
  /\ apc = Loop /\ deferred = {}
  /\ alive[w] /\ Gone(w) /\ toC[w] = <<>>
  /\ alive' = [alive EXCEPT ![w] = FALSE]
  /\ \/ IsPoolChunk(current[w]) /\ Pool!reclaimWork(w)
     \/ ~IsPoolChunk(current[w]) /\ UNCHANGED pool
  /\ current' = [current EXCEPT ![w] = Idle]
  /\ CountDead
  /\ UNCHANGED <<worker, toC, toW, apc, hw, deferred, acc, threadB, budget, lost>>

\* The idle-worker sweep of the same five-second timer.
IdleSweep(w) ==
  /\ apc = Loop /\ deferred = {}
  /\ ~TargetReached /\ ~Pool!exhausted
  /\ alive[w] /\ current[w] = Idle
  /\ ~Prompt \/ \A i \in DOMAIN toC[w] : toC[w][i].type # "request"
  /\ nextChunkId < MaxChunks           \* bound
  /\ apc' = [at |-> "assign", w |-> w, then |-> "loop"]
  /\ UNCHANGED <<pool, worker, toC, toW, current, alive, hw, deferred, acc, flushed, allFlushed,
                 threadB, budget, lost>>

\* Target reached: stop Thread B and broadcast STOP, then wait for the flush.
StopEverybody ==
  /\ apc = Loop /\ deferred = {} /\ TargetReached
  /\ chanStop' = TRUE
  /\ toW' = [w \in Workers |-> IF alive[w] /\ ~Gone(w) THEN Append(toW[w], [type |-> "stop"])
                                                      ELSE toW[w]]
  /\ apc' = [at |-> IF allFlushed THEN "exit" ELSE "flush"]
  /\ UNCHANGED <<pool, worker, toC, current, alive, hw, deferred, acc, flushed, allFlushed,
                 bpc, bchunk, bconsumed, channel, sieveDone, budget, lost>>

\* While flushing, batches go straight into the accumulator, FLUSH_ACKs are
\* counted and every other frame is ignored.
FlushRecv(w) ==
  /\ \/ /\ Receive(w, "flush", "batch")
        /\ acc' = acc \cup Head(toC[w]).data
        /\ UNCHANGED <<flushed, allFlushed>>
     \/ /\ Receive(w, "flush", "flush")
        /\ CountFlushed
        /\ UNCHANGED acc
     \/ /\ Receive(w, "flush", "complete") \/ Receive(w, "flush", "request")
        /\ UNCHANGED <<acc, flushed, allFlushed>>
  /\ UNCHANGED <<pool, worker, toW, apc, current, alive, hw, deferred, threadB, budget, lost>>

\* All flushed, or the two-minute deadline; then the final batch is delivered.
\* With Prompt, workers that are up flush before the deadline.
FlushEnd ==
  /\ apc = [at |-> "flush"]
  /\ allFlushed \/ ~Prompt \/ \A w \in Workers : Gone(w) /\ (alive[w] => toC[w] = <<>>)
  /\ apc' = [at |-> "exit"]
  /\ UNCHANGED <<pool, worker, toC, toW, current, alive, hw, deferred, acc, flushed, allFlushed,
                 threadB, budget, lost>>

\* Local sieve done and all workers flushed, without reaching the target.
AllSourcesDone ==
  /\ apc = Loop /\ deferred = {} /\ ~TargetReached
  /\ sieveDone /\ allFlushed
  /\ acc' = acc \cup Contents(channel)
  /\ channel' = <<>>
  /\ apc' = [at |-> "exit"]
  /\ UNCHANGED <<pool, worker, toC, toW, current, alive, hw, deferred, flushed, allFlushed,
                 bpc, bchunk, bconsumed, chanStop, sieveDone, budget, lost>>

\* writeClusterCheckpoint, at the bottom of the loop.
WriteCheckpoint ==
  /\ apc = Loop /\ deferred = {} /\ ~TargetReached /\ ~(sieveDone /\ allFlushed)
  /\ Spend("save")
  /\ Pool!SaveCursor
  /\ UNCHANGED <<worker, toC, toW, threadA, threadB, lost>>

-----------------------------------------------------------------------------
(* Thread B: the local sieve, then the overflow loop, then the handoff. *)

Sieving == {"initial", "chunk"}

\* One batch.  DirectChannel::onBatchComplete drops the oldest batch when full.
LocalSieve ==
  /\ bpc \in Sieving /\ bconsumed < bchunk.count
  /\ LET a == bchunk.start + bconsumed
     IN  \/ /\ Len(channel) < ChannelCap
            /\ channel' = Append(channel, a)
            /\ UNCHANGED lost
         \/ /\ Len(channel) = ChannelCap
            /\ channel' = Append(Tail(channel), a)
            /\ lost' = lost \cup {Head(channel)}
  /\ bconsumed' = bconsumed + 1
  /\ UNCHANGED <<pool, worker, toC, toW, threadA, bpc, bchunk, chanStop, sieveDone, budget>>

\* SieveStage returns (range consumed, or stop) and has signalled sieve done.
LocalSieveEnd ==
  /\ bpc \in Sieving
  /\ chanStop \/ bconsumed >= bchunk.count
  /\ sieveDone' = TRUE
  /\ bpc' = IF bpc = "initial" THEN "recordInitial" ELSE "recordChunk"
  /\ UNCHANGED <<pool, worker, toC, toW, threadA, bchunk, bconsumed, channel, chanStop, budget, lost>>

\* cluster_node0_initial_hw_.
LocalInitialDone ==
  /\ bpc = "recordInitial"
  /\ hw' = [hw EXCEPT ![0] = bconsumed]
  /\ bpc' = "test"
  /\ UNCHANGED <<pool, worker, toC, toW, apc, current, alive, deferred, acc, flushed, allFlushed,
                 bchunk, bconsumed, channel, chanStop, sieveDone, budget, lost>>

\* The local pool chunk is reclaimed with what was consumed of it.
LocalChunkDone ==
  /\ bpc = "recordChunk"
  /\ \E c \in Entry(bchunk.id) : Pool!reclaimPartial(c, bconsumed)
  /\ bpc' = "test"
  /\ UNCHANGED <<worker, toC, toW, threadA, bchunk, bconsumed, channel, chanStop, sieveDone,
                 budget, lost>>

\* The condition of the overflow loop.
LocalTest ==
  /\ bpc = "test"
  /\ bpc' = IF chanStop \/ TargetReached \/ Pool!exhausted THEN "await" ELSE "checkout"
  /\ UNCHANGED <<pool, worker, toC, toW, threadA, bchunk, bconsumed, channel, chanStop, sieveDone,
                 budget, lost>>

\* checkoutWork for node 0; Thread A may have emptied the pool in between.
LocalCheckout ==
  /\ bpc = "checkout"
  /\ \/ \E n \in ChunkSizes :
          /\ Pool!checkoutWork(n, 0)
          /\ \E c \in inFlight' \ inFlight :
               bchunk' = [id |-> c.chunk_id, start |-> c.unit.start, count |-> c.unit.count]
          /\ bconsumed' = 0
          /\ bpc' = "chunk"
     \/ /\ Pool!exhausted \/ nextChunkId = MaxChunks
        /\ bpc' = "await"
        /\ UNCHANGED <<pool, bchunk, bconsumed>>
  /\ UNCHANGED <<worker, toC, toW, threadA, channel, chanStop, sieveDone, budget, lost>>

\* FinalBatchHandoff::await returns once Thread A has delivered.
LocalAwait ==
  /\ bpc = "await" /\ apc.at = "exit"
  /\ bpc' = "done"
  /\ UNCHANGED <<pool, worker, toC, toW, threadA, bchunk, bconsumed, channel, chanStop, sieveDone,
                 budget, lost>>

-----------------------------------------------------------------------------
MainThread(w) == WorkerSieve(w) \/ WorkerStopped(w) \/ ChunkComplete(w) \/ TakeChunkAssign(w)
                   \/ WaitStopped(w) \/ FlushAndExit(w)

IoThread(w) == IoSendBatch(w) \/ IoRecv(w)

Receipt(w) == RecvIncrementalBatch(w) \/ RecvChunkComplete(w) \/ RecvChunkRequest(w)
                \/ RecvFlushAck(w) \/ FlushRecv(w)

Assignment == AssignNothing \/ AssignCheckout \/ AssignSent \/ StragglersChecked

LocalThread == LocalSieve \/ LocalSieveEnd \/ LocalInitialDone \/ LocalChunkDone
                 \/ LocalTest \/ LocalCheckout \/ LocalAwait

\* Everything is over: Thread B goes on to the matrix, no process is left.
Finished ==
  /\ bpc = "done" /\ \A w \in Workers : Gone(w)
  /\ UNCHANGED vars

Next ==
  \/ \E w \in Workers :
       \/ MainThread(w) \/ ReRequest(w) \/ HardCap(w) \/ Crash(w) \/ IoThread(w)
       \/ Receipt(w) \/ HeartbeatTimeout(w) \/ IdleSweep(w)
  \/ PollChannel \/ Assignment \/ AssignSendFailed \/ RecallStraggler \/ ProcessDeferred
  \/ StopEverybody \/ FlushEnd \/ AllSourcesDone \/ WriteCheckpoint
  \/ LocalThread
  \/ Finished

\* Threads keep running.  Thread A serves every source again and again (its
\* loop polls all of them each iteration) and its timers expire in real time,
\* hence strong fairness where other work of Thread A may intervene.
Fairness ==
  /\ \A w \in Workers : /\ WF_vars(MainThread(w)) /\ WF_vars(IoThread(w)) /\ SF_vars(HardCap(w))
                        /\ WF_vars(ReRequest(w))
                        /\ SF_vars(Receipt(w)) /\ SF_vars(HeartbeatTimeout(w))
                        /\ SF_vars(IdleSweep(w))
  /\ SF_vars(PollChannel) /\ WF_vars(Assignment) /\ SF_vars(ProcessDeferred)
  /\ SF_vars(StopEverybody) /\ WF_vars(FlushEnd) /\ SF_vars(AllSourcesDone)
  /\ WF_vars(LocalThread)

Spec == Init /\ [][Next]_vars

FairSpec == Spec /\ Fairness

-----------------------------------------------------------------------------
(* Properties. *)

\* A range of a-values, the frames of a worker and those of the coordinator.
Chunk == [id : Nat, start : Nat, count : Nat]
Frame == [type : {"batch"}, data : SUBSET Int] \cup [type : {"complete"}, id : Nat, consumed : Nat]
           \cup [type : {"request"}] \cup [type : {"flush"}]
Control == [type : {"stop"}] \cup [type : {"recall"}, id : Nat] \cup [type : {"assign"}, chunk : Chunk]

(* Types of the threads' state and of the frames between them. *)
TypeOK ==
  /\ wpc \in [Workers -> {"sieve", "wait", "shutdown", "exited", "dead"}]
  /\ wchunk \in [Workers -> Chunk] /\ consumed \in [Workers -> Nat]
  /\ pending \in [Workers -> SUBSET Chunk]
  /\ ring \in [Workers -> Seq(Int)]
  /\ toC \in [Workers -> Seq(Frame)] /\ toW \in [Workers -> Seq(Control)]
  /\ apc.at \in {"loop", "assign", "send", "straggler", "flush", "exit"}
  /\ apc.at \in {"assign", "send"} => apc.w \in Workers /\ apc.then \in {"loop", "straggler"}
  /\ current \in [Workers -> {Idle, Initial} \cup Nat]
  /\ hw \in [Nodes -> Nat]
  /\ bpc \in {"initial", "recordInitial", "test", "checkout", "chunk", "recordChunk", "await", "done"}
  /\ bchunk \in Chunk /\ bconsumed \in Nat /\ channel \in Seq(Int)
  /\ budget \in Budget

\* Who is to release chunk c of the pool: Thread B, or Thread A on behalf of
\* the worker it tracks or is about to send the chunk to.
HasOwner(c) ==
  \/ c.worker_id = 0 /\ bpc \in {"chunk", "recordChunk"} /\ bchunk.id = c.chunk_id
  \/ c.worker_id \in Workers /\ current[c.worker_id] = c.chunk_id
  \/ apc.at = "send" /\ apc.id = c.chunk_id /\ apc.w = c.worker_id

\* Thread A's trackers, Thread B and the pool's in-flight list agree: every
\* chunk in flight has an owner that will complete, return or reclaim it, and
\* a tracked chunk is in flight for that very worker.  (A chunk without an
\* owner is never sieved; a tracker without a chunk makes reclaimPartial,
\* returnChunk and reclaimWork silent no-ops.)  A late CHUNK_COMPLETE that
\* clears a newer tracker takes this away from a run that is not prompt.
TrackersMatchPool == Prompt =>
  /\ \A c \in inFlight : HasOwner(c)
  /\ \A w \in Workers : IsPoolChunk(current[w]) =>
       \E c \in inFlight : c.chunk_id = current[w] /\ c.worker_id = w

InTransit ==
  deferred \cup Contents(channel) \cup UNION {Contents(ring[w]) \cup Batched(toC[w]) : w \in Workers}

InitialSieved == UNION {{n * InitialCount + i : i \in 0 .. (hw[n] - 1)} : n \in Nodes}

\* What the coordinator books as sieved (pool chunks by reclaimPartial,
\* initial ranges by their high-water) really has been sieved: its relations
\* are in the accumulator, on their way to it, or were dropped by a crash, a
\* failed send or a full buffer.  It must never book a range nobody sieved.
BookedIsSieved == done \cup InitialSieved \subseteq acc \cup InTransit \cup lost

\* An assignment is never superseded before the worker has taken it, and never
\* sent to a worker that is still sieving: pending_assign_ holds one entry,
\* and a chunk overwritten there would be tracked but sieved by nobody.  A
\* request that is repeated too early does overwrite one.
OneChunkAtATime == Prompt =>
  \A w \in Workers : ~Gone(w) =>
    LET sent == {i \in DOMAIN toW[w] : toW[w][i].type = "assign"}
    IN  Cardinality(sent) + Cardinality(pending[w]) + (IF wpc[w] = "sieve" THEN 1 ELSE 0) <= 1

\* A resume starts the pool at the saved cursor, so everything below it is
\* skipped for good: a checkpoint never skips an a-value nobody has sieved.
CheckpointSkipsOnlySieved ==
  PoolStart .. (saved.cursor - 1) \subseteq acc \cup InTransit \cup lost

\* The run ends: whatever crashes, failed sends and silent workers there are,
\* Thread B gets its final batch, given that a worker nobody answers gives up
\* at its hard cap.
RunEnds == budget.hardcap > 0 => <>(bpc = "done")

\* As long as no worker dies or gives up, every a-value gets sieved and its
\* relations reach the accumulator, unless the target is reached before:
\* failed sends, lost CHUNK_COMPLETEs and recalls strand no chunk.
AllSieved == (budget.crash = 0 /\ budget.hardcap = 0) => <>(TargetReached \/ acc \cup lost = AllIndices)
=============================================================================
