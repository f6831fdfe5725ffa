------------------------ MODULE ClusterTrackerProofs ------------------------
(***************************************************************************)
(* Who holds which chunk: proofs that Thread A's trackers and the pool     *)
(* agree, and that a worker is never given a second chunk.  That a tracked *)
(* chunk is in flight holds of every run.  That every chunk in flight has  *)
(* an owner, and that assignments do not overlap, holds of prompt runs and *)
(* needs the invariant below: a worker's report or request, Thread A's     *)
(* assignment to it, the CHUNK_ASSIGN on the wire, the one waiting in      *)
(* pending_assign_ and the chunk it sieves are one token, and the tracker  *)
(* names the chunk the token carries.                                      *)
(***************************************************************************)
EXTENDS ClusterSieveProofs

(* A frame that Thread A answers with an assignment; where the token is. *)
IsControl(m) == m.type \in {"complete", "request"}
Asks(w) == \E i \in DOMAIN toC[w] : IsControl(toC[w][i])
AssignTo(w) == apc.at \in {"assign", "send"} /\ apc.w = w
Sent(w) == \E i \in DOMAIN toW[w] : toW[w][i].type = "assign"

(* There is at most one token. *)
Token(w) ==
  /\ \A i, j \in DOMAIN toC[w] : IsControl(toC[w][i]) /\ IsControl(toC[w][j]) => i = j
  /\ AssignTo(w) => ~Asks(w)
  /\ ~Gone(w) =>
       /\ \A i, j \in DOMAIN toW[w] : toW[w][i].type = "assign" /\ toW[w][j].type = "assign" => i = j
       /\ \A k, l \in pending[w] : k = l
       /\ wpc[w] = "sieve" => pending[w] = {}
       /\ wpc[w] = "sieve" \/ pending[w] # {} => ~Sent(w)
       /\ AssignTo(w) \/ Asks(w) => wpc[w] # "sieve" /\ pending[w] = {} /\ ~Sent(w)

(* The tracker names the chunk the token carries. *)
Follows(w) ==
  /\ \A i \in DOMAIN toC[w] : toC[w][i].type = "complete" => current[w] \in {Initial, toC[w][i].id}
  /\ ~Gone(w) =>
       /\ \A i \in DOMAIN toW[w] : toW[w][i].type = "assign" => current[w] = toW[w][i].chunk.id
       /\ \A k \in pending[w] : current[w] = k.id
       /\ wpc[w] = "sieve" => current[w] \in {Initial, wchunk[w].id}

OneToken == \A w \in Workers : Token(w) /\ Follows(w)

(* A tracked chunk is in flight for that worker, so are the chunk Thread A is about to send and
   the one Thread B sieves; and every chunk in flight is one of these. *)
TrackedInFlight ==
  \A w \in Workers : IsPoolChunk(current[w]) =>
    \E c \in inFlight : c.chunk_id = current[w] /\ c.worker_id = w

InHand ==
  /\ apc.at = "send" => \E c \in inFlight : c.chunk_id = apc.id /\ c.worker_id = apc.w
  /\ bpc \in {"chunk", "recordChunk"} => \E c \in inFlight : c.chunk_id = bchunk.id /\ c.worker_id = 0

AllOwned == \A c \in inFlight : HasOwner(c)

TrackerInv == SieveInv /\ TrackedInFlight /\ InHand /\ (Prompt => OneToken /\ AllOwned)

-----------------------------------------------------------------------------
(* A stream whose frames of interest are still the old ones, in their old order. *)
StreamC(v) ==
  \E d \in Int : \A i \in DOMAIN toC'[v] :
    IsControl(toC'[v][i]) => i \in Int /\ i + d \in DOMAIN toC[v] /\ toC[v][i + d] = toC'[v][i]

StreamW(v) ==
  \E d \in Int : \A i \in DOMAIN toW'[v] :
    toW'[v][i].type = "assign" => i \in Int /\ i + d \in DOMAIN toW[v] /\ toW[v][i + d] = toW'[v][i]

(* A stream that does not change. *)
LEMMA StillC ==
  ASSUME TypeOK, NEW v \in Workers, toC'[v] = toC[v]
  PROVE  StreamC(v)
<1>1. \A i \in DOMAIN toC[v] : i \in Int /\ i + 0 = i
  BY LenProperties DEF TypeOK
<1> QED BY <1>1 DEF StreamC

(* The same for the coordinator's frames. *)
LEMMA StillW ==
  ASSUME TypeOK, NEW v \in Workers, toW'[v] = toW[v]
  PROVE  StreamW(v)
<1>1. \A i \in DOMAIN toW[v] : i \in Int /\ i + 0 = i
  BY LenProperties DEF TypeOK
<1> QED BY <1>1 DEF StreamW

(* A stream that gains no report or request at its end. *)
LEMMA ShorterC ==
  ASSUME TypeOK, NEW v \in Workers,
         \A i \in DOMAIN toC'[v] : IsControl(toC'[v][i]) => i \in DOMAIN toC[v] /\ toC'[v][i] = toC[v][i]
  PROVE  StreamC(v)
<1>1. \A i \in DOMAIN toC[v] : i \in Int /\ i + 0 = i
  BY LenProperties DEF TypeOK
<1> QED BY <1>1 DEF StreamC

(* A stream that gains no assignment at its end. *)
LEMMA ShorterW ==
  ASSUME TypeOK, NEW v \in Workers,
         \A i \in DOMAIN toW'[v] : toW'[v][i].type = "assign" => i \in DOMAIN toW[v] /\ toW'[v][i] = toW[v][i]
  PROVE  StreamW(v)
<1>1. \A i \in DOMAIN toW[v] : i \in Int /\ i + 0 = i
  BY LenProperties DEF TypeOK
<1> QED BY <1>1 DEF StreamW

(* A stream whose first frame is received. *)
LEMMA ReceivedC ==
  ASSUME NEW v \in Workers, Receives(v)
  PROVE  StreamC(v)
<1>1. \A i \in DOMAIN toC'[v] : i \in Int /\ i + 1 \in DOMAIN toC[v] /\ toC[v][i + 1] = toC'[v][i]
  BY DEF Receives
<1> QED BY <1>1 DEF StreamC

(* The same for the coordinator's frames. *)
LEMMA ReceivedW ==
  ASSUME NEW v \in Workers, ReceivesControl(v)
  PROVE  StreamW(v)
<1>1. \A i \in DOMAIN toW'[v] : i \in Int /\ i + 1 \in DOMAIN toW[v] /\ toW[v][i + 1] = toW'[v][i]
  BY DEF ReceivesControl
<1> QED BY <1>1 DEF StreamW

(* What leaves the token of worker v where it is, or drops it. *)
SameWork(v) ==
  /\ current'[v] = current[v] /\ StreamC(v) /\ StreamW(v)
  /\ AssignTo(v)' => AssignTo(v)
  /\ pending'[v] \subseteq pending[v]
  /\ Gone(v) => Gone(v)'
  /\ wpc'[v] = "sieve" => wpc[v] = "sieve" /\ wchunk'[v] = wchunk[v]

(* Such a step keeps the token single and the tracker right. *)
LEMMA SameToken ==
  ASSUME NEW v \in Workers, Token(v), Follows(v), SameWork(v)
  PROVE  Token(v)' /\ Follows(v)'
<1>1. PICK d \in Int : \A i \in DOMAIN toC'[v] :
        IsControl(toC'[v][i]) => i \in Int /\ i + d \in DOMAIN toC[v] /\ toC[v][i + d] = toC'[v][i]
  BY DEF SameWork, StreamC
<1>2. PICK e \in Int : \A i \in DOMAIN toW'[v] :
        toW'[v][i].type = "assign" => i \in Int /\ i + e \in DOMAIN toW[v] /\ toW[v][i + e] = toW'[v][i]
  BY DEF SameWork, StreamW
<1>3. /\ Asks(v)' => Asks(v)
      /\ Sent(v)' => Sent(v)
  BY <1>1, <1>2 DEF Asks, Sent
<1>4. \A i, j \in DOMAIN toC'[v] : IsControl(toC'[v][i]) /\ IsControl(toC'[v][j]) => i = j
  <2> SUFFICES ASSUME NEW i \in DOMAIN toC'[v], NEW j \in DOMAIN toC'[v], IsControl(toC'[v][i]), IsControl(toC'[v][j])
               PROVE  i = j
    OBVIOUS
  <2>1. i \in Int /\ j \in Int /\ i + d = j + d
    BY <1>1 DEF Token
  <2> QED BY <2>1
<1>5. ASSUME ~Gone(v) PROVE \A i, j \in DOMAIN toW'[v] : toW'[v][i].type = "assign" /\ toW'[v][j].type = "assign" => i = j
  <2> SUFFICES ASSUME NEW i \in DOMAIN toW'[v], NEW j \in DOMAIN toW'[v], toW'[v][i].type = "assign", toW'[v][j].type = "assign"
               PROVE  i = j
    OBVIOUS
  <2>1. i \in Int /\ j \in Int /\ i + e = j + e
    BY <1>2, <1>5 DEF Token
  <2> QED BY <2>1
<1>6. Token(v)'
  BY <1>3, <1>4, <1>5 DEF Token, SameWork
<1>7. Follows(v)'
  BY <1>1, <1>2 DEF Follows, SameWork, IsControl
<1> QED BY <1>6, <1>7

(* What leaves the holders of the pool's chunks alone. *)
Locally == {"chunk", "recordChunk"}

SameHands ==
  /\ UNCHANGED <<inFlight, current>>
  /\ apc.at = "send" \/ apc'.at = "send" => apc' = apc
  /\ bpc' \in Locally <=> bpc \in Locally
  /\ bpc \in Locally => bchunk' = bchunk

(* Such a step keeps every chunk with its holder. *)
LEMMA SameOwners ==
  ASSUME TrackedInFlight, InHand, SameHands
  PROVE  TrackedInFlight' /\ InHand' /\ (AllOwned => AllOwned')
  BY DEF TrackedInFlight, InHand, SameHands, AllOwned, HasOwner, Locally

-----------------------------------------------------------------------------
(* The pool's chunks stay with their holders in every step but the eight that book, return or
   check out a chunk. *)
WorkerStep(w) ==
  MainThread(w) \/ ReRequest(w) \/ HardCap(w) \/ Crash(w) \/ IoThread(w)

(* No step of a worker touches the holders. *)
LEMMA WorkerHands ==
  ASSUME TypeOK, NEW w \in Workers, WorkerStep(w)
  PROVE  SameHands
<1>1. UNCHANGED <<pool, threadA, threadB>>
  BY DEF WorkerStep, MainThread, IoThread, WorkerSieve, WorkerStopped, ChunkComplete, TakeChunkAssign, WaitStopped,
         FlushAndExit, ReRequest, HardCap, Crash, IoSendBatch, IoRecv
<1> QED BY <1>1 DEF SameHands, pool, threadA, threadB

QuietReceipt(w) == RecvIncrementalBatch(w) \/ RecvFlushAck(w) \/ FlushRecv(w) \/ IdleSweep(w)

QuietStep ==
  \/ PollChannel \/ AssignNothing \/ StragglersChecked \/ RecallStraggler \/ ProcessDeferred
  \/ StopEverybody \/ FlushEnd \/ AllSourcesDone \/ WriteCheckpoint

LocalQuiet == LocalSieve \/ LocalSieveEnd \/ LocalInitialDone \/ LocalTest \/ LocalAwait

(* Nor does a batch, a FLUSH_ACK or the idle sweep. *)
LEMMA ReceiptHands ==
  ASSUME TypeOK, NEW w \in Workers, QuietReceipt(w)
  PROVE  SameHands
<1>1. /\ UNCHANGED <<pool, current, threadB>>
      /\ apc' = apc \/ (apc = [at |-> "loop"] /\ apc' = [at |-> "assign", w |-> w, then |-> "loop"])
  BY DEF QuietReceipt, RecvIncrementalBatch, RecvFlushAck, FlushRecv, IdleSweep, Loop
<1>2. apc' = apc \/ (apc.at = "loop" /\ apc'.at = "assign")
  BY <1>1
<1> QED BY <1>1, <1>2 DEF SameHands, pool, threadB

(* Nor do these steps of Thread A. *)
LEMMA QuietHands ==
  ASSUME TypeOK, QuietStep
  PROVE  SameHands
<1>1. UNCHANGED <<inFlight, current, bpc, bchunk>>
  BY DEF QuietStep, PollChannel, AssignNothing, StragglersChecked, RecallStraggler, ProcessDeferred,
         StopEverybody, FlushEnd, AllSourcesDone, WriteCheckpoint, pool, threadA, threadB, Pool!SaveCursor
<1>2. apc' = apc \/ (apc.at # "send" /\ apc'.at # "send")
  BY DEF QuietStep, PollChannel, AssignNothing, StragglersChecked, RecallStraggler, ProcessDeferred,
         StopEverybody, FlushEnd, AllSourcesDone, WriteCheckpoint, threadA, Loop, TypeOK
<1> QED BY <1>1, <1>2 DEF SameHands

(* Nor does Thread B while it sieves. *)
LEMMA LocalHands ==
  ASSUME TypeOK, LocalQuiet
  PROVE  SameHands
<1>1. UNCHANGED <<inFlight, current, apc, bchunk>> /\ (bpc' \in Locally <=> bpc \in Locally)
  BY DEF LocalQuiet, LocalSieve, LocalSieveEnd, LocalInitialDone, LocalTest, LocalAwait, pool, threadA, Sieving, Locally
<1> QED BY <1>1 DEF SameHands

(* A chunk leaves the pool's list with its tracker. *)
LEMMA RemovedHands ==
  ASSUME SieveInv, TrackedInFlight, InHand, NEW w \in Workers,
         current'[w] = Idle, \A v \in Workers : v # w => current'[v] = current[v],
         UNCHANGED <<bpc, bchunk>>, apc.at # "send", apc'.at # "send",
         inFlight' = {c \in inFlight : c.chunk_id # current[w]}
  PROVE  TrackedInFlight' /\ InHand' /\ (AllOwned => AllOwned')
<1> USE DEF SieveInv
<1>1. /\ \A c, d \in inFlight : c.chunk_id = d.chunk_id => c = d
      /\ \A c \in inFlight : c.chunk_id \in Nat
      /\ 0 \notin Workers
  BY PoolTypes, WorkersAreNodes
<1>2. TrackedInFlight'
  BY <1>1 DEF TrackedInFlight, IsPoolChunk, Idle
<1>3. InHand'
  <2> SUFFICES ASSUME bpc \in {"chunk", "recordChunk"}
               PROVE  \E c \in inFlight' : c.chunk_id = bchunk.id /\ c.worker_id = 0
    BY DEF InHand
  <2>1. PICK d \in inFlight : d.chunk_id = bchunk.id /\ d.worker_id = 0
    BY DEF InHand
  <2>2. ASSUME d.chunk_id = current[w] PROVE FALSE
    <3>1. IsPoolChunk(current[w])
      BY <1>1, <2>2 DEF IsPoolChunk, Idle, Initial
    <3>2. PICK c \in inFlight : c.chunk_id = current[w] /\ c.worker_id = w
      BY <3>1 DEF TrackedInFlight
    <3> QED BY <1>1, <2>1, <2>2, <3>2
  <2> QED BY <2>1, <2>2
<1>4. AllOwned => AllOwned'
  BY <1>1 DEF AllOwned, HasOwner
<1> QED BY <1>2, <1>3, <1>4

(* A CHUNK_REQUEST returns the tracked chunk. *)
LEMMA ForgetHands ==
  ASSUME SieveInv, TrackedInFlight, InHand, NEW w \in Workers, RecvChunkRequest(w)
  PROVE  TrackedInFlight' /\ InHand' /\ (AllOwned => AllOwned')
<1> USE DEF SieveInv
<1>1. /\ current' = [current EXCEPT ![w] = Idle] /\ UNCHANGED <<bpc, bchunk>>
      /\ apc.at = "loop" /\ apc'.at = "assign"
      /\ \/ IsPoolChunk(current[w]) /\ \E c \in Entry(current[w]) : Pool!returnChunk(c)
         \/ ~IsPoolChunk(current[w]) /\ UNCHANGED pool
  BY DEF RecvChunkRequest, Receive, ForgetTracked, threadB
<1>2. current \in [Workers -> {Idle, Initial} \cup Nat]
  BY DEF TypeOK
<1>3. current'[w] = Idle /\ \A v \in Workers : v # w => current'[v] = current[v]
  BY <1>1, <1>2
<1>4. inFlight' = {c \in inFlight : c.chunk_id # current[w]}
  <2>1. CASE IsPoolChunk(current[w]) /\ \E c \in Entry(current[w]) : Pool!returnChunk(c)
    <3>1. PICK c \in inFlight : c.chunk_id = current[w] /\ Pool!returnChunk(c)
      BY <2>1 DEF Entry
    <3>2. inFlight' = inFlight \ {c}
      BY <3>1, PoolReturn
    <3> QED BY <3>1, <3>2, PoolTypes
  <2>2. CASE ~IsPoolChunk(current[w]) /\ UNCHANGED pool
    BY <2>2, PoolTypes DEF IsPoolChunk, Idle, Initial, pool
  <2> QED BY <1>1, <2>1, <2>2
<1> QED BY <1>1, <1>3, <1>4, RemovedHands

(* A CHUNK_COMPLETE of a prompt run reports the tracked chunk. *)
LEMMA CompleteHands ==
  ASSUME SieveInv, TrackedInFlight, InHand, NEW w \in Workers, RecvChunkComplete(w)
  PROVE  TrackedInFlight' /\ InHand' /\ (OneToken /\ AllOwned => AllOwned')
<1> USE DEF SieveInv
<1> DEFINE m == Head(toC[w])
<1>1. /\ current' = [current EXCEPT ![w] = Idle] /\ UNCHANGED <<bpc, bchunk>>
      /\ apc.at = "loop" /\ apc'.at = "assign" /\ m.type = "complete"
      /\ \/ HoldsChunk(w, m.id) /\ \E c \in Entry(m.id) : Pool!reclaimPartial(c, m.consumed)
         \/ ~HoldsChunk(w, m.id) /\ UNCHANGED pool
      /\ toC[w] # <<>> /\ toC' = [toC EXCEPT ![w] = Tail(@)]
  BY DEF RecvChunkComplete, Receive, threadB
<1>2. current \in [Workers -> {Idle, Initial} \cup Nat]
  BY DEF TypeOK
<1>3. current'[w] = Idle /\ \A v \in Workers : v # w => current'[v] = current[v]
  BY <1>1, <1>2
<1>4. Receives(w)
  BY <1>1, FrameReceived
<1>5. m \in Frame /\ m.id \in Nat /\ m.consumed \in Nat /\ 1 \in DOMAIN toC[w] /\ toC[w][1] = m
  BY <1>1, <1>4, FrameTypes DEF Receives
<1> HIDE DEF m
<1>6. CASE HoldsChunk(w, m.id) /\ \E c \in Entry(m.id) : Pool!reclaimPartial(c, m.consumed)
  <2>1. PICK c \in inFlight : c.chunk_id = m.id /\ Pool!reclaimPartial(c, m.consumed)
    BY <1>6 DEF Entry
  <2>2. inFlight' = inFlight \ {c}
    BY <1>5, <2>1, PoolPartial
  <2>3. inFlight' = {d \in inFlight : d.chunk_id # current[w]}
    BY <1>6, <2>1, <2>2, PoolTypes DEF HoldsChunk
  <2> QED BY <1>1, <1>3, <2>3, RemovedHands
<1>7. CASE ~HoldsChunk(w, m.id) /\ UNCHANGED pool
  <2>1. inFlight' = inFlight
    BY <1>7 DEF pool
  <2>2. TrackedInFlight'
    BY <1>3, <2>1 DEF TrackedInFlight, IsPoolChunk
  <2>3. InHand'
    BY <1>1, <2>1 DEF InHand
  <2>4. ASSUME OneToken, AllOwned PROVE AllOwned'
    <3>1. current[w] \in {Initial, m.id}
      BY <1>1, <1>5, <2>4 DEF OneToken, Follows
    <3>2. current[w] = Initial
      BY <1>5, <1>7, <3>1 DEF HoldsChunk, IsPoolChunk, Idle, Initial
    <3>3. \A c \in inFlight : c.chunk_id # current[w]
      BY <3>2, PoolTypes DEF Initial
    <3> QED BY <1>1, <1>3, <2>1, <2>4, <3>3 DEF AllOwned, HasOwner
  <2> QED BY <2>2, <2>3, <2>4
<1> QED BY <1>1, <1>6, <1>7

(* A dead worker's chunks all go back. *)
LEMMA TimeoutHands ==
  ASSUME SieveInv, TrackedInFlight, InHand, NEW w \in Workers, HeartbeatTimeout(w)
  PROVE  TrackedInFlight' /\ InHand' /\ (AllOwned => AllOwned')
<1> USE DEF SieveInv
<1>1. /\ current' = [current EXCEPT ![w] = Idle] /\ UNCHANGED <<apc, bpc, bchunk>> /\ apc.at = "loop"
      /\ \/ IsPoolChunk(current[w]) /\ Pool!reclaimWork(w)
         \/ ~IsPoolChunk(current[w]) /\ UNCHANGED pool
  BY DEF HeartbeatTimeout, Loop, threadB
<1>2. current \in [Workers -> {Idle, Initial} \cup Nat]
  BY DEF TypeOK
<1>3. current'[w] = Idle /\ \A v \in Workers : v # w => current'[v] = current[v]
  BY <1>1, <1>2
<1>4. 0 \notin Workers /\ w \in Nodes /\ ~IsPoolChunk(Idle)
  BY WorkersAreNodes DEF IsPoolChunk
<1>5. CASE Pool!reclaimWork(w)
  <2>1. inFlight' = {c \in inFlight : c.worker_id # w}
    BY <1>4, <1>5, PoolReclaim
  <2>2. TrackedInFlight'
    BY <1>3, <1>4, <2>1 DEF TrackedInFlight
  <2>3. InHand'
    BY <1>1, <1>4, <2>1 DEF InHand
  <2>4. AllOwned => AllOwned'
    BY <1>1, <1>3, <2>1 DEF AllOwned, HasOwner
  <2> QED BY <2>2, <2>3, <2>4
<1>6. CASE ~IsPoolChunk(current[w]) /\ UNCHANGED pool
  <2>1. inFlight' = {c \in inFlight : c.chunk_id # current[w]}
    BY <1>6, PoolTypes DEF IsPoolChunk, Idle, Initial, pool
  <2> QED BY <1>1, <1>3, <2>1, RemovedHands
<1> QED BY <1>1, <1>5, <1>6

(* assignChunkTo hands the chunk from the pool to Thread A, to the tracker, or back. *)
LEMMA CheckoutHands ==
  ASSUME SieveInv, TrackedInFlight, InHand, AssignCheckout
  PROVE  TrackedInFlight' /\ InHand' /\ (AllOwned => AllOwned')
<1> USE DEF SieveInv
<1>1. /\ UNCHANGED <<current, bpc, bchunk>> /\ apc.at = "assign"
      /\ apc' = [at |-> "send", w |-> apc.w, id |-> nextChunkId, then |-> apc.then]
  BY DEF AssignCheckout, threadB
<1>2. PICK n \in ChunkSizes : Pool!checkoutWork(n, apc.w)
  BY DEF AssignCheckout
<1>3. apc.w \in Nodes
  BY <1>1, WorkersAreNodes DEF TypeOK
<1>4. \E c : inFlight' = inFlight \cup {c} /\ c.chunk_id = nextChunkId /\ c.worker_id = apc.w
  BY <1>2, <1>3, PoolCheckout
<1>5. PICK c : inFlight' = inFlight \cup {c} /\ c.chunk_id = nextChunkId /\ c.worker_id = apc.w
  BY <1>4
<1>6. apc'.at = "send" /\ apc'.w = apc.w /\ apc'.id = nextChunkId
  BY <1>1
<1>7. TrackedInFlight'
  BY <1>1, <1>5 DEF TrackedInFlight
<1>8. InHand'
  BY <1>1, <1>5, <1>6 DEF InHand
<1>9. AllOwned => AllOwned'
  BY <1>1, <1>5, <1>6 DEF AllOwned, HasOwner
<1> QED BY <1>7, <1>8, <1>9

(* The sent chunk is tracked. *)
LEMMA SentHands ==
  ASSUME SieveInv, TrackedInFlight, InHand, AssignSent
  PROVE  TrackedInFlight' /\ InHand' /\ (AllOwned => AllOwned')
<1> USE DEF SieveInv
<1>1. /\ UNCHANGED <<inFlight, bpc, bchunk>> /\ apc.at = "send" /\ apc' = [at |-> apc.then]
      /\ current' = [current EXCEPT ![apc.w] = apc.id]
  BY DEF AssignSent, pool, threadB
<1>2. apc.w \in Workers /\ apc'.at # "send" /\ current[apc.w] = Idle
  BY <1>1 DEF TypeOK, AssignsIdle
<1>3. current \in [Workers -> {Idle, Initial} \cup Nat]
  BY DEF TypeOK
<1>4. current'[apc.w] = apc.id /\ \A v \in Workers : v # apc.w => current'[v] = current[v]
  BY <1>1, <1>2, <1>3
<1>5. PICK c \in inFlight : c.chunk_id = apc.id /\ c.worker_id = apc.w
  BY <1>1 DEF InHand
<1>6. \A d \in inFlight : d.chunk_id # Idle
  BY PoolTypes DEF Idle
<1>7. TrackedInFlight'
  BY <1>1, <1>4, <1>5 DEF TrackedInFlight
<1>8. InHand'
  BY <1>1, <1>2 DEF InHand
<1>9. AllOwned => AllOwned'
  BY <1>1, <1>2, <1>4, <1>6 DEF AllOwned, HasOwner
<1> QED BY <1>7, <1>8, <1>9

(* The chunk that was not sent goes back. *)
LEMMA FailedHands ==
  ASSUME SieveInv, TrackedInFlight, InHand, AssignSendFailed
  PROVE  TrackedInFlight' /\ InHand' /\ (AllOwned => AllOwned')
<1> USE DEF SieveInv
<1>1. /\ UNCHANGED <<current, bpc, bchunk>> /\ apc.at = "send" /\ apc' = [at |-> apc.then]
  BY DEF AssignSendFailed, threadB
<1>2. apc.w \in Workers /\ apc'.at # "send" /\ current[apc.w] = Idle
  BY <1>1 DEF TypeOK, AssignsIdle
<1>3. PICK d \in inFlight : d.chunk_id = apc.id /\ Pool!returnChunk(d)
  BY DEF AssignSendFailed, GiveBack, Entry
<1>4. inFlight' = inFlight \ {d}
  BY <1>3, PoolReturn
<1>5. /\ \A b, c \in inFlight : b.chunk_id = c.chunk_id => b = c
      /\ 0 \notin Workers /\ ~IsPoolChunk(Idle)
  BY PoolTypes, WorkersAreNodes DEF IsPoolChunk
<1>6. d.worker_id = apc.w
  BY <1>1, <1>3, <1>5 DEF InHand
<1>7. TrackedInFlight'
  BY <1>1, <1>2, <1>4, <1>5, <1>6 DEF TrackedInFlight
<1>8. InHand'
  BY <1>1, <1>2, <1>4, <1>5, <1>6 DEF InHand
<1>9. AllOwned => AllOwned'
  BY <1>1, <1>2, <1>3, <1>4, <1>5 DEF AllOwned, HasOwner
<1> QED BY <1>7, <1>8, <1>9

(* Thread B's own chunk. *)
LEMMA LocalDoneHands ==
  ASSUME SieveInv, TrackedInFlight, InHand, LocalChunkDone
  PROVE  TrackedInFlight' /\ InHand' /\ (AllOwned => AllOwned')
<1> USE DEF SieveInv
<1>1. UNCHANGED <<current, apc>> /\ bpc = "recordChunk" /\ bpc' = "test"
  BY DEF LocalChunkDone, threadA
<1>2. PICK d \in inFlight : d.chunk_id = bchunk.id /\ Pool!reclaimPartial(d, bconsumed)
  BY DEF LocalChunkDone, Entry
<1>3. bconsumed \in Nat
  BY DEF TypeOK
<1>4. inFlight' = inFlight \ {d}
  BY <1>2, <1>3, PoolPartial
<1>5. /\ \A b, c \in inFlight : b.chunk_id = c.chunk_id => b = c
      /\ 0 \notin Workers
  BY PoolTypes, WorkersAreNodes
<1>6. d.worker_id = 0
  BY <1>1, <1>2, <1>5 DEF InHand
<1>7. TrackedInFlight'
  BY <1>1, <1>4, <1>5, <1>6 DEF TrackedInFlight
<1>8. InHand'
  BY <1>1, <1>4, <1>5, <1>6 DEF InHand, TypeOK
<1>9. AllOwned => AllOwned'
  BY <1>1, <1>2, <1>4, <1>5 DEF AllOwned, HasOwner
<1> QED BY <1>7, <1>8, <1>9

(* Thread B checks a chunk out for itself. *)
LEMMA LocalCheckoutHands ==
  ASSUME SieveInv, TrackedInFlight, InHand, LocalCheckout
  PROVE  TrackedInFlight' /\ InHand' /\ (AllOwned => AllOwned')
<1> USE DEF SieveInv
<1>1. UNCHANGED <<current, apc>> /\ bpc = "checkout"
  BY DEF LocalCheckout, threadA
<1>2. CASE bpc' = "await" /\ UNCHANGED pool
  BY <1>1, <1>2 DEF TrackedInFlight, InHand, AllOwned, HasOwner, pool
<1>3. CASE \E n \in ChunkSizes :
             /\ Pool!checkoutWork(n, 0)
             /\ \E c \in inFlight' \ inFlight :
                  bchunk' = [id |-> c.chunk_id, start |-> c.unit.start, count |-> c.unit.count]
             /\ bconsumed' = 0
             /\ bpc' = "chunk"
  <2>1. PICK n \in ChunkSizes : Pool!checkoutWork(n, 0)
    BY <1>3
  <2>2. \E c : inFlight' = inFlight \cup {c} /\ c.chunk_id = nextChunkId /\ c.worker_id = 0
    BY <2>1, PoolCheckout, WorkersAreNodes
  <2>3. PICK c : inFlight' = inFlight \cup {c} /\ c.chunk_id = nextChunkId /\ c.worker_id = 0
    BY <2>2
  <2>4. bchunk' = [id |-> c.chunk_id, start |-> c.unit.start, count |-> c.unit.count]
    BY <1>3, <2>3
  <2>5. bchunk'.id = c.chunk_id
    BY <2>4
  <2>6. TrackedInFlight'
    BY <1>1, <2>3 DEF TrackedInFlight
  <2>7. InHand'
    BY <1>1, <1>3, <2>3, <2>5 DEF InHand
  <2>8. AllOwned => AllOwned'
    BY <1>1, <1>3, <2>3, <2>5 DEF AllOwned, HasOwner
  <2> QED BY <2>6, <2>7, <2>8
<1> QED BY <1>2, <1>3 DEF LocalCheckout

-----------------------------------------------------------------------------
(* The tokens.  A step that leaves a worker alone leaves its token alone. *)
LEMMA StillWork ==
  ASSUME TypeOK, NEW v \in Workers, toC'[v] = toC[v], toW'[v] = toW[v], current'[v] = current[v],
         pending'[v] = pending[v], wpc'[v] = wpc[v], wchunk'[v] = wchunk[v], AssignTo(v)' => AssignTo(v)
  PROVE  SameWork(v)
  BY StillC, StillW DEF SameWork, Gone

(* A worker's step leaves the other workers alone. *)
LEMMA OtherWork ==
  ASSUME TypeOK, NEW w \in Workers, WorkerStep(w), NEW v \in Workers, v # w
  PROVE  SameWork(v)
<1>1. UNCHANGED <<apc, current>>
  BY DEF WorkerStep, MainThread, IoThread, WorkerSieve, WorkerStopped, ChunkComplete, TakeChunkAssign, WaitStopped,
         FlushAndExit, ReRequest, HardCap, Crash, IoSendBatch, IoRecv, threadA
<1>2. toC'[v] = toC[v]
  BY DEF TypeOK, WorkerStep, MainThread, IoThread, WorkerSieve, WorkerStopped, ChunkComplete, TakeChunkAssign, WaitStopped,
         FlushAndExit, ReRequest, HardCap, Crash, IoSendBatch, IoRecv
<1>3. toW'[v] = toW[v] /\ pending'[v] = pending[v]
  BY DEF TypeOK, WorkerStep, MainThread, IoThread, WorkerSieve, WorkerStopped, ChunkComplete, TakeChunkAssign, WaitStopped,
         FlushAndExit, ReRequest, HardCap, Crash, IoSendBatch, IoRecv, worker
<1>4. wpc'[v] = wpc[v] /\ wchunk'[v] = wchunk[v]
  BY DEF TypeOK, WorkerStep, MainThread, IoThread, WorkerSieve, WorkerStopped, ChunkComplete, TakeChunkAssign, WaitStopped,
         FlushAndExit, ReRequest, HardCap, Crash, IoSendBatch, IoRecv, worker
<1>5. AssignTo(v)' => AssignTo(v)
  BY <1>1 DEF AssignTo
<1> QED BY <1>1, <1>2, <1>3, <1>4, <1>5, StillWork

(* The worker leaves its token where it is, or drops it. *)
LEMMA QuietWork ==
  ASSUME SieveInv, NEW w \in Workers, WorkerSieve(w) \/ WorkerStopped(w) \/ WaitStopped(w) \/ HardCap(w)
  PROVE  SameWork(w)
<1> USE DEF SieveInv
<1>1. UNCHANGED <<apc, current, toC, toW, pending, wchunk>> /\ (wpc' = wpc \/ wpc' = [wpc EXCEPT ![w] = "shutdown"])
      /\ wpc[w] \in {"sieve", "wait"}
  BY DEF WorkerSieve, WorkerStopped, WaitStopped, HardCap, threadA
<1>2. wpc \in [Workers -> {"sieve", "wait", "shutdown", "exited", "dead"}]
  BY DEF TypeOK
<1>3. StreamC(w) /\ StreamW(w)
  BY <1>1, StillC, StillW
<1> QED BY <1>1, <1>2, <1>3 DEF SameWork, AssignTo, Gone

(* FLUSH_ACK is no report. *)
LEMMA FlushWork ==
  ASSUME SieveInv, NEW w \in Workers, FlushAndExit(w)
  PROVE  SameWork(w)
<1> USE DEF SieveInv
<1> DEFINE m == [type |-> "flush"]
<1>1. UNCHANGED <<apc, current, toW, pending, wchunk>> /\ toC' = [toC EXCEPT ![w] = Append(@, m)]
      /\ wpc' = [wpc EXCEPT ![w] = "exited"]
  BY DEF FlushAndExit, threadA
<1>2. wpc'[w] = "exited"
  BY <1>1 DEF TypeOK
<1>3. m \in Frame /\ ~IsControl(m)
  BY FrameMakes DEF IsControl
<1> HIDE DEF m
<1>4. Sends(w, m)
  BY <1>1, <1>3, FrameSent
<1>5. StreamC(w)
  <2>1. \A i \in DOMAIN toC'[w] : IsControl(toC'[w][i]) => i \in DOMAIN toC[w] /\ toC'[w][i] = toC[w][i]
    BY <1>3, <1>4 DEF Sends
  <2> QED BY <2>1, ShorterC
<1>6. StreamW(w)
  BY <1>1, StillW
<1> QED BY <1>1, <1>2, <1>5, <1>6 DEF SameWork, AssignTo, Gone

(* A crash may drop the token with the frames not delivered. *)
LEMMA CrashWork ==
  ASSUME SieveInv, NEW w \in Workers, Crash(w)
  PROVE  SameWork(w)
<1> USE DEF SieveInv
<1>1. /\ UNCHANGED <<apc, current, pending, wchunk>> /\ wpc' = [wpc EXCEPT ![w] = "dead"]
      /\ toW' = [toW EXCEPT ![w] = <<>>]
  BY DEF Crash, threadA
<1>2. PICK k \in 0 .. Len(toC[w]) : toC' = [toC EXCEPT ![w] = SubSeq(@, 1, k)]
  BY DEF Crash
<1>3. wpc'[w] = "dead" /\ toW'[w] = <<>> /\ toC'[w] = SubSeq(toC[w], 1, k) /\ toC[w] \in Seq(Frame)
  BY <1>1, <1>2 DEF TypeOK
<1>4. /\ DOMAIN SubSeq(toC[w], 1, k) \subseteq DOMAIN toC[w]
      /\ \A i \in DOMAIN SubSeq(toC[w], 1, k) : SubSeq(toC[w], 1, k)[i] = toC[w][i]
  BY <1>3, ShapeCut
<1>5. StreamC(w)
  <2>1. \A i \in DOMAIN toC'[w] : IsControl(toC'[w][i]) => i \in DOMAIN toC[w] /\ toC'[w][i] = toC[w][i]
    BY <1>3, <1>4
  <2> QED BY <2>1, ShorterC
<1>6. StreamW(w)
  BY <1>3, ShorterW
<1> QED BY <1>1, <1>3, <1>5, <1>6 DEF SameWork, AssignTo, Gone

(* A batch is no report. *)
LEMMA SendBatchWork ==
  ASSUME SieveInv, NEW w \in Workers, IoSendBatch(w)
  PROVE  SameWork(w)
<1> USE DEF SieveInv
<1> DEFINE k == IF Len(ring[w]) < Coalesce THEN Len(ring[w]) ELSE Coalesce
           items == {ring[w][i] : i \in 1 .. k}
           m == [type |-> "batch", data |-> items]
<1>1. /\ UNCHANGED <<apc, current, toW, pending, wpc, wchunk>>
      /\ toC' = [toC EXCEPT ![w] = Append(@, m)] \/ UNCHANGED toC
  BY DEF IoSendBatch, threadA
<1>2. items \subseteq Int
  <2>1. ring[w] \in Seq(Int) /\ Len(ring[w]) \in Nat
    BY DEF TypeOK
  <2>2. k \in 0 .. Len(ring[w])
    BY <2>1, ClusterAssumption
  <2>3. \A i \in 1 .. Len(ring[w]) : ring[w][i] \in Int
    BY <2>1, ElementOfSeq
  <2> QED BY <2>1, <2>2, <2>3
<1> HIDE DEF items
<1>3. m \in Frame /\ ~IsControl(m)
  BY <1>2, FrameMakes DEF IsControl
<1> HIDE DEF m
<1>4. StreamC(w)
  <2>1. CASE UNCHANGED toC
    BY <2>1, StillC
  <2>2. CASE toC' = [toC EXCEPT ![w] = Append(@, m)]
    <3>1. Sends(w, m)
      BY <1>3, <2>2, FrameSent
    <3>2. \A i \in DOMAIN toC'[w] : IsControl(toC'[w][i]) => i \in DOMAIN toC[w] /\ toC'[w][i] = toC[w][i]
      BY <1>3, <3>1 DEF Sends
    <3> QED BY <3>2, ShorterC
  <2> QED BY <1>1, <2>1, <2>2
<1>5. StreamW(w)
  BY <1>1, StillW
<1> QED BY <1>1, <1>4, <1>5 DEF SameWork, AssignTo, Gone

(* The worker moves its token: it reports what it sieved ... *)
LEMMA CompleteToken ==
  ASSUME SieveInv, NEW w \in Workers, Token(w), Follows(w), ChunkComplete(w)
  PROVE  Token(w)' /\ Follows(w)'
<1> USE DEF SieveInv
<1> DEFINE m == [type |-> "complete", id |-> wchunk[w].id, consumed |-> consumed[w]]
<1>1. /\ UNCHANGED <<apc, current, toW, pending, wchunk>>
      /\ wpc' = [wpc EXCEPT ![w] = "wait"] /\ wpc[w] = "sieve"
      /\ toC' = [toC EXCEPT ![w] = Append(@, m)] \/ UNCHANGED toC
  BY DEF ChunkComplete, threadA
<1>2. wpc'[w] = "wait" /\ ~Gone(w)
  BY <1>1 DEF TypeOK, Gone
<1>3. m \in Frame /\ m.id = wchunk[w].id
  BY FrameMakes, ChunkTypes DEF TypeOK
<1> HIDE DEF m
<1>4. ~Asks(w) /\ ~AssignTo(w) /\ ~Sent(w) /\ pending[w] = {} /\ current[w] \in {Initial, wchunk[w].id}
  BY <1>1, <1>2 DEF Token, Follows
<1>5. /\ \A i, j \in DOMAIN toC'[w] : IsControl(toC'[w][i]) /\ IsControl(toC'[w][j]) => i = j
      /\ \A i \in DOMAIN toC'[w] : IsControl(toC'[w][i]) => toC'[w][i] = m
  <2>1. CASE UNCHANGED toC
    BY <1>4, <2>1 DEF Asks
  <2>2. CASE toC' = [toC EXCEPT ![w] = Append(@, m)]
    <3>1. Sends(w, m)
      BY <1>3, <2>2, FrameSent
    <3>2. \A i \in DOMAIN toC'[w] : IsControl(toC'[w][i]) => i = Len(toC[w]) + 1 /\ toC'[w][i] = m
      BY <1>4, <3>1 DEF Asks, Sends
    <3> QED BY <3>2
  <2> QED BY <1>1, <2>1, <2>2
<1>6. ~Sent(w)' /\ ~AssignTo(w)' /\ pending'[w] = {}
  BY <1>1, <1>4 DEF Sent, AssignTo
<1>7. Token(w)'
  BY <1>2, <1>5, <1>6 DEF Token, Sent
<1>8. Follows(w)'
  BY <1>1, <1>2, <1>3, <1>4, <1>5, <1>6 DEF Follows, IsControl, Sent
<1> QED BY <1>7, <1>8

(* ... takes the chunk it has been assigned ... *)
LEMMA TakeToken ==
  ASSUME SieveInv, NEW w \in Workers, Token(w), Follows(w), TakeChunkAssign(w)
  PROVE  Token(w)' /\ Follows(w)'
<1> USE DEF SieveInv
<1> DEFINE k == CHOOSE c \in pending[w] : TRUE
<1>1. /\ UNCHANGED <<apc, current, toC, toW>> /\ wpc[w] = "wait" /\ pending[w] # {}
      /\ wchunk' = [wchunk EXCEPT ![w] = k] /\ pending' = [pending EXCEPT ![w] = {}]
      /\ wpc' = [wpc EXCEPT ![w] = "sieve"]
  BY DEF TakeChunkAssign, threadA
<1>2. k \in pending[w]
  BY <1>1
<1> HIDE DEF k
<1>3. wpc'[w] = "sieve" /\ wchunk'[w] = k /\ pending'[w] = {} /\ ~Gone(w)
  BY <1>1 DEF TypeOK, Gone
<1>4. ~Asks(w) /\ ~AssignTo(w) /\ ~Sent(w) /\ current[w] = k.id
  BY <1>1, <1>2, <1>3 DEF Token, Follows
<1>5. ~Asks(w)' /\ ~AssignTo(w)' /\ ~Sent(w)'
  BY <1>1, <1>4 DEF Asks, AssignTo, Sent
<1>6. Token(w)'
  BY <1>3, <1>5 DEF Token, Asks, Sent
<1>7. Follows(w)'
  BY <1>1, <1>3, <1>4, <1>5 DEF Follows, Asks, Sent, IsControl
<1> QED BY <1>6, <1>7

(* ... asks again, in a prompt run only when no answer is due ... *)
LEMMA RequestToken ==
  ASSUME SieveInv, Prompt, NEW w \in Workers, Token(w), Follows(w), ReRequest(w)
  PROVE  Token(w)' /\ Follows(w)'
<1> USE DEF SieveInv
<1> DEFINE m == [type |-> "request"]
<1>1. /\ UNCHANGED <<apc, current, toW, pending, wpc, wchunk>> /\ wpc[w] = "wait" /\ pending[w] = {}
      /\ NoAnswerDue(w) /\ toC' = [toC EXCEPT ![w] = Append(@, m)]
  BY DEF ReRequest, worker, threadA
<1>2. m \in Frame /\ m.type = "request"
  BY FrameMakes
<1> HIDE DEF m
<1>3. Sends(w, m)
  BY <1>1, <1>2, FrameSent
<1>4. ~Asks(w) /\ ~AssignTo(w) /\ ~Sent(w)
  BY <1>1 DEF NoAnswerDue, Asks, AssignTo, Sent, IsControl
<1>5. /\ \A i, j \in DOMAIN toC'[w] : IsControl(toC'[w][i]) /\ IsControl(toC'[w][j]) => i = j
      /\ \A i \in DOMAIN toC'[w] : IsControl(toC'[w][i]) => toC'[w][i] = m
  <2>1. \A i \in DOMAIN toC'[w] : IsControl(toC'[w][i]) => i = Len(toC[w]) + 1 /\ toC'[w][i] = m
    BY <1>3, <1>4 DEF Asks, Sends
  <2> QED BY <2>1
<1>6. ~AssignTo(w)' /\ ~Sent(w)'
  BY <1>1, <1>4 DEF AssignTo, Sent
<1>7. Token(w)'
  BY <1>1, <1>5, <1>6 DEF Token, Sent
<1>8. Follows(w)'
  BY <1>1, <1>2, <1>5, <1>6 DEF Follows, IsControl, Sent
<1> QED BY <1>7, <1>8

(* ... or receives the assignment. *)
LEMMA IoRecvToken ==
  ASSUME SieveInv, NEW w \in Workers, Token(w), Follows(w), IoRecv(w)
  PROVE  Token(w)' /\ Follows(w)'
<1> USE DEF SieveInv
<1> DEFINE m == Head(toW[w])
<1>1. /\ UNCHANGED <<apc, current, toC, wpc, wchunk>> /\ wpc[w] \in {"sieve", "wait", "shutdown"}
      /\ \/ UNCHANGED pending
         \/ m.type = "assign" /\ pending' = [pending EXCEPT ![w] = {m.chunk}]
  BY DEF IoRecv, threadA, IoRunning
<1>2. ReceivesControl(w)
  BY ControlReceived DEF IoRecv
<1>3. /\ 1 \in DOMAIN toW[w] /\ toW[w][1] = m
      /\ \A i \in DOMAIN toW'[w] : i \in Nat \ {0} /\ i + 1 \in DOMAIN toW[w] /\ toW'[w][i] = toW[w][i + 1]
  BY <1>2 DEF ReceivesControl
<1> HIDE DEF m
<1>4. CASE UNCHANGED pending
  <2>1. StreamC(w) /\ StreamW(w)
    BY <1>1, <1>2, StillC, ReceivedW
  <2>2. SameWork(w)
    BY <1>1, <1>4, <2>1 DEF SameWork, AssignTo, Gone
  <2> QED BY <2>2, SameToken
<1>5. CASE m.type = "assign" /\ pending' = [pending EXCEPT ![w] = {m.chunk}]
  <2>1. ~Gone(w) /\ Sent(w)
    BY <1>1, <1>3, <1>5 DEF Gone, Sent
  <2>2. ~Asks(w) /\ ~AssignTo(w) /\ wpc[w] # "sieve" /\ current[w] = m.chunk.id
    BY <1>3, <1>5, <2>1 DEF Token, Follows
  <2>3. ~Sent(w)'
    <3> SUFFICES ASSUME NEW i \in DOMAIN toW'[w], toW'[w][i].type = "assign" PROVE FALSE
      BY DEF Sent
    <3>1. i + 1 = 1
      BY <1>3, <1>5, <2>1 DEF Token
    <3> QED BY <1>3, <3>1
  <2>4. pending'[w] = {m.chunk}
    BY <1>5 DEF TypeOK
  <2>5. ~Asks(w)' /\ ~AssignTo(w)'
    BY <1>1, <2>2 DEF Asks, AssignTo
  <2>6. Token(w)'
    BY <1>1, <2>2, <2>3, <2>4, <2>5 DEF Token, Asks, Sent
  <2>7. Follows(w)'
    BY <1>1, <2>2, <2>3, <2>4, <2>5 DEF Follows, Asks, Sent, IsControl
  <2> QED BY <2>6, <2>7
<1> QED BY <1>1, <1>4, <1>5

(* Together: a worker's step keeps all tokens. *)
LEMMA WorkerTokens ==
  ASSUME SieveInv, Prompt, OneToken, NEW w \in Workers, WorkerStep(w)
  PROVE  OneToken'
<1> SUFFICES ASSUME NEW v \in Workers PROVE Token(v)' /\ Follows(v)'
  BY DEF OneToken
<1>1. Token(v) /\ Follows(v) /\ TypeOK
  BY DEF OneToken, SieveInv
<1>2. CASE v # w
  BY <1>1, <1>2, OtherWork, SameToken
<1>3. CASE v = w
  <2>1. CASE WorkerSieve(v) \/ WorkerStopped(v) \/ WaitStopped(v) \/ HardCap(v) \/ FlushAndExit(v) \/ Crash(v) \/ IoSendBatch(v)
    BY <1>1, <2>1, QuietWork, FlushWork, CrashWork, SendBatchWork, SameToken
  <2>2. CASE ChunkComplete(v) \/ TakeChunkAssign(v) \/ ReRequest(v) \/ IoRecv(v)
    BY <1>1, <2>2, CompleteToken, TakeToken, RequestToken, IoRecvToken
  <2> QED BY <1>3, <2>1, <2>2 DEF WorkerStep, MainThread, IoThread
<1> QED BY <1>2, <1>3

-----------------------------------------------------------------------------
(* Thread A receives the token with a report or a request, and passes it on. *)
LEMMA TakenToken ==
  ASSUME SieveInv, OneToken, NEW w \in Workers, Receives(w), IsControl(Head(toC[w])),
         UNCHANGED <<worker, toW>>, current' = [current EXCEPT ![w] = Idle],
         apc'.at = "assign", apc'.w = w
  PROVE  OneToken'
<1> USE DEF SieveInv
<1> SUFFICES ASSUME NEW v \in Workers PROVE Token(v)' /\ Follows(v)'
  BY DEF OneToken
<1>1. Token(v) /\ Follows(v) /\ UNCHANGED <<wpc, wchunk, pending>>
  BY DEF OneToken, worker
<1>2. current'[w] = Idle /\ \A u \in Workers : u # w => current'[u] = current[u]
  BY DEF TypeOK
<1>3. CASE v # w
  <2>1. toC'[v] = toC[v] /\ ~AssignTo(v)'
    BY <1>3 DEF Receives, AssignTo
  <2>2. SameWork(v)
    BY <1>1, <1>2, <1>3, <2>1, StillWork
  <2> QED BY <1>1, <2>2, SameToken
<1>4. CASE v = w
  <2>1. Asks(v)
    BY <1>4 DEF Asks, Receives
  <2>2. ~Asks(v)'
    <3> SUFFICES ASSUME NEW i \in DOMAIN toC'[v], IsControl(toC'[v][i]) PROVE FALSE
      BY DEF Asks
    <3>1. i \in Nat /\ i + 1 \in DOMAIN toC[v] /\ toC'[v][i] = toC[v][i + 1] /\ 1 \in DOMAIN toC[v] /\ IsControl(toC[v][1])
      BY <1>4 DEF Receives
    <3>2. i + 1 = 1
      BY <1>1, <3>1 DEF Token
    <3>3. i = 0
      BY <3>1, <3>2
    <3>4. toC'[v] \in Seq(Frame)
      BY DEF Receives
    <3>5. i \in 1 .. Len(toC'[v])
      BY <3>4, LenProperties
    <3> QED BY <3>3, <3>5
  <2>3. ~Gone(v) => wpc[v] # "sieve" /\ pending[v] = {} /\ ~Sent(v)
    BY <1>1, <2>1 DEF Token
  <2>4. Sent(v)' <=> Sent(v)
    BY DEF Sent
  <2>5. Token(v)'
    BY <1>1, <2>2, <2>3, <2>4 DEF Token, Asks, Sent, Gone
  <2>6. Follows(v)'
    BY <1>1, <2>2, <2>3, <2>4 DEF Follows, Asks, Sent, Gone, IsControl
  <2> QED BY <2>5, <2>6
<1> QED BY <1>3, <1>4

(* That is what CHUNK_COMPLETE and CHUNK_REQUEST do. *)
LEMMA ReceiptTokens ==
  ASSUME SieveInv, OneToken, NEW w \in Workers, RecvChunkComplete(w) \/ RecvChunkRequest(w)
  PROVE  OneToken'
<1>1. /\ toC[w] # <<>> /\ toC' = [toC EXCEPT ![w] = Tail(@)] /\ Head(toC[w]).type \in {"complete", "request"}
      /\ UNCHANGED <<worker, toW>> /\ current' = [current EXCEPT ![w] = Idle]
      /\ \E x : apc' = [at |-> "assign", w |-> w, then |-> x]
  BY DEF RecvChunkComplete, RecvChunkRequest, Receive, ForgetTracked
<1>2. apc'.at = "assign" /\ apc'.w = w
  BY <1>1
<1>3. Receives(w)
  BY <1>1, FrameReceived DEF SieveInv
<1> QED BY <1>1, <1>2, <1>3, TakenToken DEF IsControl

(* The idle sweep makes a token, for a worker that has none: its tracker would name the chunk. *)
LEMMA SweepTokens ==
  ASSUME SieveInv, Prompt, OneToken, NEW w \in Workers, IdleSweep(w)
  PROVE  OneToken'
<1> USE DEF SieveInv
<1> SUFFICES ASSUME NEW v \in Workers PROVE Token(v)' /\ Follows(v)'
  BY DEF OneToken
<1>1. /\ UNCHANGED <<wpc, wchunk, pending, toC, toW, current>> /\ current[w] = Idle
      /\ apc' = [at |-> "assign", w |-> w, then |-> "loop"]
      /\ \A i \in DOMAIN toC[w] : toC[w][i].type # "request"
  BY DEF IdleSweep, worker
<1>2. apc'.at = "assign" /\ apc'.w = w
  BY <1>1
<1>3. Token(v) /\ Follows(v)
  BY DEF OneToken
<1>4. CASE v # w
  <2>1. ~AssignTo(v)'
    BY <1>2, <1>4 DEF AssignTo
  <2>2. SameWork(v)
    BY <1>1, <2>1, StillWork
  <2> QED BY <1>3, <2>2, SameToken
<1>5. CASE v = w
  <2>1. \A n \in Nat : Idle # n /\ Idle # Initial
    BY DEF Idle, Initial
  <2>2. ~Asks(v)
    <3> SUFFICES ASSUME NEW i \in DOMAIN toC[v], IsControl(toC[v][i]) PROVE FALSE
      BY DEF Asks
    <3>1. toC[v][i].type = "complete"
      BY <1>1, <1>5 DEF IsControl
    <3>2. toC[v][i] \in Frame
      BY ElementOfSeq, LenProperties DEF TypeOK
    <3>3. toC[v][i].id \in Nat
      BY <3>1, <3>2, FrameTypes
    <3> QED BY <1>1, <1>3, <1>5, <2>1, <3>1, <3>3 DEF Follows
  <2>3. ASSUME ~Gone(v) PROVE wpc[v] # "sieve" /\ pending[v] = {} /\ ~Sent(v)
    <3>1. wchunk[v].id \in Nat /\ \A k \in pending[v] : k.id \in Nat
      BY ChunkTypes DEF TypeOK
    <3>2. \A i \in DOMAIN toW[v] : toW[v][i].type = "assign" => toW[v][i].chunk.id \in Nat
      <4> SUFFICES ASSUME NEW i \in DOMAIN toW[v], toW[v][i].type = "assign" PROVE toW[v][i].chunk.id \in Nat
        OBVIOUS
      <4>1. toW[v][i] \in Control
        BY ElementOfSeq, LenProperties DEF TypeOK
      <4> QED BY <4>1, ControlTypes, ChunkTypes
    <3> QED BY <1>1, <1>3, <1>5, <2>1, <2>3, <3>1, <3>2 DEF Follows, Sent
  <2>4. (Asks(v)' <=> Asks(v)) /\ (Sent(v)' <=> Sent(v)) /\ (Gone(v)' <=> Gone(v))
    BY <1>1 DEF Asks, Sent, Gone
  <2>5. Token(v)'
    BY <1>1, <1>3, <2>2, <2>3, <2>4 DEF Token
  <2>6. Follows(v)'
    BY <1>1, <1>3, <2>4 DEF Follows
  <2> QED BY <2>5, <2>6
<1> QED BY <1>4, <1>5

(* Thread A sends the token. *)
LEMMA SentTokens ==
  ASSUME SieveInv, OneToken, AssignSent
  PROVE  OneToken'
<1> USE DEF SieveInv
<1> SUFFICES ASSUME NEW v \in Workers PROVE Token(v)' /\ Follows(v)'
  BY DEF OneToken
<1> DEFINE w == apc.w
<1>1. PICK c \in Entry(apc.id) :
        toW' = IF Gone(w) THEN toW
               ELSE [toW EXCEPT ![w] =
                       Append(@, [type |-> "assign",
                                  chunk |-> [id |-> c.chunk_id, start |-> c.unit.start, count |-> c.unit.count]])]
  BY DEF AssignSent
<1>2. /\ UNCHANGED <<wpc, wchunk, pending, toC>> /\ apc.at = "send"
      /\ current' = [current EXCEPT ![w] = apc.id] /\ apc' = [at |-> apc.then]
  BY DEF AssignSent, worker
<1>3. w \in Workers /\ apc'.at \in {"loop", "straggler"} /\ AssignTo(w)
  BY <1>2 DEF TypeOK, AssignTo
<1> DEFINE k == [id |-> c.chunk_id, start |-> c.unit.start, count |-> c.unit.count]
           m == [type |-> "assign", chunk |-> k]
<1>4. m \in Control /\ m.chunk.id = apc.id
  <2>1. c.chunk_id = apc.id /\ c.chunk_id \in Nat /\ c.unit.start \in Nat /\ c.unit.count \in Nat
    BY PoolTypes DEF Entry
  <2>2. k \in Chunk /\ k.id = apc.id
    BY <2>1, ChunkTypes
  <2> HIDE DEF k
  <2>3. m.chunk = k
    OBVIOUS
  <2> QED BY <2>2, <2>3, ControlMakes
<1>5. toW' = IF Gone(w) THEN toW ELSE [toW EXCEPT ![w] = Append(@, m)]
  BY <1>1
<1> HIDE DEF w, k, m
<1>6. current'[w] = apc.id /\ \A u \in Workers : u # w => current'[u] = current[u]
  BY <1>2, <1>3 DEF TypeOK
<1>7. Token(v) /\ Follows(v) /\ ~AssignTo(v)'
  BY <1>3 DEF OneToken, AssignTo
<1>8. CASE v # w
  <2>1. toW'[v] = toW[v]
    BY <1>3, <1>5, <1>8 DEF TypeOK
  <2>2. SameWork(v)
    BY <1>2, <1>6, <1>7, <1>8, <2>1, StillWork
  <2> QED BY <1>7, <2>2, SameToken
<1>9. CASE v = w
  <2>1. ~Asks(v) /\ (~Gone(v) => wpc[v] # "sieve" /\ pending[v] = {} /\ ~Sent(v))
    BY <1>3, <1>7, <1>9 DEF Token
  <2>2. ~Asks(v)' /\ (Gone(v)' <=> Gone(v))
    BY <1>2, <2>1 DEF Asks, Gone
  <2>3. ASSUME ~Gone(v)
        PROVE  \E n : \A i \in DOMAIN toW'[v] : toW'[v][i].type = "assign" => i = n /\ toW'[v][i] = m
    <3>1. toW' = [toW EXCEPT ![w] = Append(@, m)]
      BY <1>5, <1>9, <2>3
    <3>2. SendsControl(w, m)
      BY <1>3, <1>4, <3>1, ControlSent
    <3>3. \A i \in DOMAIN toW'[v] : toW'[v][i].type = "assign" => i = Len(toW[v]) + 1 /\ toW'[v][i] = m
      BY <1>9, <2>1, <2>3, <3>2 DEF SendsControl, Sent
    <3> QED BY <3>3
  <2>4. Token(v)'
    BY <1>2, <1>7, <2>1, <2>2, <2>3 DEF Token, Asks, Gone
  <2>5. Follows(v)'
    BY <1>2, <1>4, <1>6, <1>9, <2>1, <2>2, <2>3 DEF Follows, Asks, Gone, IsControl
  <2> QED BY <2>4, <2>5
<1> QED BY <1>8, <1>9

(* A worker that is gone has no token, or its frame is on the wire. *)
LEMMA TimeoutTokens ==
  ASSUME SieveInv, OneToken, NEW w \in Workers, HeartbeatTimeout(w)
  PROVE  OneToken'
<1> USE DEF SieveInv
<1> SUFFICES ASSUME NEW v \in Workers PROVE Token(v)' /\ Follows(v)'
  BY DEF OneToken
<1>1. /\ UNCHANGED <<wpc, wchunk, pending, toC, toW, apc>> /\ Gone(w) /\ toC[w] = <<>> /\ apc.at = "loop"
      /\ current' = [current EXCEPT ![w] = Idle]
  BY DEF HeartbeatTimeout, worker, Loop
<1>2. Token(v) /\ Follows(v) /\ (AssignTo(v)' <=> AssignTo(v)) /\ ~AssignTo(v)
  BY <1>1 DEF OneToken, AssignTo
<1>3. CASE v # w
  <2>1. current'[v] = current[v]
    BY <1>1, <1>3 DEF TypeOK
  <2>2. SameWork(v)
    BY <1>1, <1>2, <2>1, StillWork
  <2> QED BY <1>2, <2>2, SameToken
<1>4. CASE v = w
  <2>1. Gone(v)' /\ DOMAIN toC'[v] = {}
    BY <1>1, <1>4 DEF Gone
  <2> QED BY <1>2, <2>1 DEF Token, Follows, Asks
<1> QED BY <1>3, <1>4

(* Every other step of Thread A, and every step of Thread B, leaves the tokens alone. *)
LEMMA QuietReceiptTokens ==
  ASSUME SieveInv, OneToken, NEW w \in Workers, RecvIncrementalBatch(w) \/ RecvFlushAck(w) \/ FlushRecv(w)
  PROVE  OneToken'
<1> USE DEF SieveInv
<1> SUFFICES ASSUME NEW v \in Workers PROVE Token(v)' /\ Follows(v)'
  BY DEF OneToken
<1>1. /\ UNCHANGED <<wpc, wchunk, pending, toW, apc, current>>
      /\ toC[w] # <<>> /\ toC' = [toC EXCEPT ![w] = Tail(@)]
  BY DEF RecvIncrementalBatch, RecvFlushAck, FlushRecv, Receive, worker
<1>2. Receives(w)
  BY <1>1, FrameReceived
<1>3. StreamC(v)
  <2>1. CASE v = w
    BY <1>2, <2>1, ReceivedC
  <2>2. CASE v # w
    BY <1>2, <2>2, StillC DEF Receives
  <2> QED BY <2>1, <2>2
<1>4. SameWork(v)
  BY <1>1, <1>3, StillW DEF SameWork, AssignTo, Gone
<1> QED BY <1>4, SameToken DEF OneToken

(* Workers and trackers unchanged, and no new assignment. *)
LEMMA OtherTokens ==
  ASSUME SieveInv, OneToken, UNCHANGED <<wpc, wchunk, pending, toC, current>>,
         \A v \in Workers : StreamW(v), \A v \in Workers : AssignTo(v)' => AssignTo(v)
  PROVE  OneToken'
<1> USE DEF SieveInv
<1> SUFFICES ASSUME NEW v \in Workers PROVE Token(v)' /\ Follows(v)'
  BY DEF OneToken
<1>1. SameWork(v)
  BY StillC DEF SameWork, Gone
<1> QED BY <1>1, SameToken DEF OneToken

(* Steps that send no frame to a worker. *)
LEMMA QuietTokens ==
  ASSUME SieveInv, OneToken, PollChannel \/ ProcessDeferred \/ AllSourcesDone \/ AssignNothing \/ StragglersChecked
                             \/ FlushEnd \/ WriteCheckpoint \/ AssignCheckout \/ AssignSendFailed \/ LocalThread
  PROVE  OneToken'
<1> USE DEF SieveInv
<1>1. /\ UNCHANGED <<wpc, wchunk, pending, toC, toW, current>>
      /\ apc' = apc \/ apc' \in [at : {"loop", "straggler", "flush", "exit"}]
         \/ (apc.at = "assign" /\ apc' = [at |-> "send", w |-> apc.w, id |-> nextChunkId, then |-> apc.then])
  BY DEF PollChannel, ProcessDeferred, AllSourcesDone, AssignNothing, StragglersChecked, FlushEnd, WriteCheckpoint,
         AssignCheckout, AssignSendFailed, LocalThread, LocalSieve, LocalSieveEnd, LocalInitialDone, LocalChunkDone,
         LocalTest, LocalCheckout, LocalAwait, worker, threadA, TypeOK, Loop
<1>2. apc' = apc \/ apc'.at \in {"loop", "straggler", "flush", "exit"} \/ (apc.at = "assign" /\ apc'.w = apc.w)
  BY <1>1
<1>3. \A v \in Workers : AssignTo(v)' => AssignTo(v)
  BY <1>2 DEF AssignTo
<1>4. \A v \in Workers : StreamW(v)
  BY <1>1, StillW
<1> QED BY <1>1, <1>3, <1>4, OtherTokens

(* A CHUNK_RECALL is no assignment. *)
LEMMA RecallTokens ==
  ASSUME SieveInv, OneToken, RecallStraggler
  PROVE  OneToken'
<1> USE DEF SieveInv
<1>1. PICK c \in inFlight :
        /\ c.worker_id \in Workers
        /\ toW' = IF Gone(c.worker_id) THEN toW
                  ELSE [toW EXCEPT ![c.worker_id] = Append(@, [type |-> "recall", id |-> c.chunk_id])]
  BY DEF RecallStraggler
<1>2. UNCHANGED <<wpc, wchunk, pending, toC, apc, current>>
  BY DEF RecallStraggler, worker, threadA
<1> DEFINE w == c.worker_id
           m == [type |-> "recall", id |-> c.chunk_id]
<1>3. m \in Control /\ m.type = "recall" /\ w \in Workers
  BY <1>1, PoolTypes, ControlMakes
<1>4. toW' = toW \/ toW' = [toW EXCEPT ![w] = Append(@, m)]
  BY <1>1
<1> HIDE DEF w, m
<1>5. ASSUME NEW v \in Workers PROVE StreamW(v)
  <2>1. CASE toW'[v] = toW[v]
    BY <2>1, StillW
  <2>2. CASE v = w /\ toW' = [toW EXCEPT ![w] = Append(@, m)]
    <3>1. SendsControl(w, m)
      BY <1>3, <2>2, ControlSent
    <3>2. \A i \in DOMAIN toW'[v] : toW'[v][i].type = "assign" => i \in DOMAIN toW[v] /\ toW'[v][i] = toW[v][i]
      BY <1>3, <2>2, <3>1 DEF SendsControl
    <3> QED BY <3>2, ShorterW
  <2>3. v # w => toW'[v] = toW[v]
    BY <1>3, <1>4 DEF TypeOK
  <2> QED BY <1>4, <2>1, <2>2, <2>3
<1>6. \A v \in Workers : AssignTo(v)' => AssignTo(v)
  BY <1>2 DEF AssignTo
<1> QED BY <1>2, <1>5, <1>6, OtherTokens

(* A STOP is no assignment. *)
LEMMA StopTokens ==
  ASSUME SieveInv, OneToken, StopEverybody
  PROVE  OneToken'
<1> USE DEF SieveInv
<1> DEFINE m == [type |-> "stop"]
<1>1. /\ UNCHANGED <<wpc, wchunk, pending, toC, current>>
      /\ apc' = [at |-> IF allFlushed THEN "exit" ELSE "flush"]
      /\ toW' = [w \in Workers |-> IF alive[w] /\ ~Gone(w) THEN Append(toW[w], m) ELSE toW[w]]
  BY DEF StopEverybody, worker
<1>2. m \in Control /\ m.type = "stop"
  BY ControlMakes
<1> HIDE DEF m
<1>3. ASSUME NEW v \in Workers PROVE StreamW(v)
  <2>1. toW[v] \in Seq(Control)
    BY DEF TypeOK
  <2>2. CASE toW'[v] = Append(toW[v], m)
    <3>1. /\ DOMAIN toW[v] = 1 .. Len(toW[v]) /\ Len(toW[v]) \in Nat
          /\ DOMAIN Append(toW[v], m) = 1 .. Len(toW[v]) + 1
          /\ \A i \in DOMAIN toW[v] : Append(toW[v], m)[i] = toW[v][i]
          /\ Append(toW[v], m)[Len(toW[v]) + 1] = m
      BY <1>2, <2>1, AppendAt
    <3>2. \A i \in DOMAIN toW'[v] : i \in DOMAIN toW[v] \/ i = Len(toW[v]) + 1
      BY <2>2, <3>1
    <3>3. \A i \in DOMAIN toW'[v] : toW'[v][i].type = "assign" => i \in DOMAIN toW[v] /\ toW'[v][i] = toW[v][i]
      BY <1>2, <2>2, <3>1, <3>2
    <3> QED BY <3>3, ShorterW
  <2>3. CASE toW'[v] = toW[v]
    BY <2>3, StillW
  <2> QED BY <1>1, <2>2, <2>3
<1>4. apc'.at \in {"exit", "flush"}
  BY <1>1
<1>5. \A v \in Workers : AssignTo(v)' => AssignTo(v)
  BY <1>4 DEF AssignTo
<1> QED BY <1>1, <1>3, <1>5, OtherTokens

-----------------------------------------------------------------------------
(* A run is prompt from beginning to end, or not. *)
LEMMA PromptStays ==
  ASSUME TypeOK, Next
  PROVE  Prompt' = Prompt
<1>1. \/ UNCHANGED budget
      \/ \E what \in {"crash", "request", "hardcap", "sendfail", "recall", "save"} : Spend(what)
  <2>1. ASSUME NEW w \in Workers, WorkerStep(w)
        PROVE  \/ UNCHANGED budget
               \/ \E what \in {"crash", "request", "hardcap", "sendfail", "recall", "save"} : Spend(what)
    BY <2>1 DEF WorkerStep, MainThread, IoThread, WorkerSieve, WorkerStopped, ChunkComplete, TakeChunkAssign, WaitStopped,
         FlushAndExit, ReRequest, HardCap, Crash, IoSendBatch, IoRecv
  <2>2. ASSUME NEW w \in Workers, Receipt(w) \/ HeartbeatTimeout(w) \/ IdleSweep(w)
        PROVE  UNCHANGED budget
    BY <2>2 DEF Receipt, RecvIncrementalBatch, RecvChunkComplete, RecvChunkRequest, RecvFlushAck, FlushRecv,
         HeartbeatTimeout, IdleSweep
  <2>3. ASSUME PollChannel \/ Assignment \/ AssignSendFailed \/ RecallStraggler \/ ProcessDeferred
               \/ StopEverybody \/ FlushEnd \/ AllSourcesDone \/ WriteCheckpoint
        PROVE  \/ UNCHANGED budget
               \/ \E what \in {"crash", "request", "hardcap", "sendfail", "recall", "save"} : Spend(what)
    BY <2>3 DEF PollChannel, Assignment, AssignNothing, AssignCheckout, AssignSent, StragglersChecked, AssignSendFailed,
         RecallStraggler, ProcessDeferred, StopEverybody, FlushEnd, AllSourcesDone, WriteCheckpoint
  <2>4. ASSUME LocalThread PROVE UNCHANGED budget
    BY <2>4 DEF LocalThread, LocalSieve, LocalSieveEnd, LocalInitialDone, LocalChunkDone, LocalTest, LocalCheckout, LocalAwait
  <2>5. ASSUME Finished PROVE UNCHANGED budget
    BY <2>5 DEF Finished, vars
  <2> QED BY <2>1, <2>2, <2>3, <2>4, <2>5 DEF Next, WorkerStep
<1>2. budget \in Budget
  BY DEF TypeOK
<1> QED BY <1>1, <1>2, Spends DEF Prompt

(* The invariant holds initially: each worker sieves its initial range. *)
LEMMA TrackerInit == Init => TrackerInv
<1> SUFFICES ASSUME Init PROVE TrackerInv
  OBVIOUS
<1>1. SieveInv /\ inFlight = {}
  BY SieveInit, PoolInit DEF Init
<1> USE DEF Init
<1>2. apc.at = "loop"
  OBVIOUS
<1>3. TrackedInFlight /\ InHand /\ AllOwned
  BY <1>1, <1>2 DEF TrackedInFlight, InHand, AllOwned, IsPoolChunk, InitialTracker
<1>4. OneToken
  BY <1>2 DEF OneToken, Token, Follows, Asks, AssignTo, Sent, InitialTracker
<1> QED BY <1>1, <1>3, <1>4 DEF TrackerInv

(* Every step keeps the chunks with their holders. *)
LEMMA HandsStep ==
  ASSUME SieveInv, TrackedInFlight, InHand, Next
  PROVE  TrackedInFlight' /\ InHand' /\ (OneToken /\ AllOwned => AllOwned')
<1>1. TypeOK
  BY DEF SieveInv
<1>2. ASSUME NEW w \in Workers, WorkerStep(w) \/ QuietReceipt(w) PROVE SameHands
  BY <1>1, <1>2, WorkerHands, ReceiptHands
<1>3. ASSUME QuietStep \/ LocalQuiet PROVE SameHands
  BY <1>1, <1>3, QuietHands, LocalHands
<1>4. ASSUME Finished PROVE SameHands
  BY <1>4 DEF Finished, SameHands, vars, pool, threadA, threadB
<1>5. ASSUME NEW w \in Workers, RecvChunkComplete(w) \/ RecvChunkRequest(w) \/ HeartbeatTimeout(w)
      PROVE  TrackedInFlight' /\ InHand' /\ (OneToken /\ AllOwned => AllOwned')
  BY <1>5, CompleteHands, ForgetHands, TimeoutHands
<1>6. ASSUME AssignCheckout \/ AssignSent \/ AssignSendFailed \/ LocalChunkDone \/ LocalCheckout
      PROVE  TrackedInFlight' /\ InHand' /\ (OneToken /\ AllOwned => AllOwned')
  BY <1>6, CheckoutHands, SentHands, FailedHands, LocalDoneHands, LocalCheckoutHands
<1>7. SameHands => TrackedInFlight' /\ InHand' /\ (AllOwned => AllOwned')
  BY SameOwners
<1> QED BY <1>2, <1>3, <1>4, <1>5, <1>6, <1>7
        DEF Next, WorkerStep, QuietReceipt, QuietStep, LocalQuiet, Receipt, Assignment, LocalThread

(* Every step of a prompt run keeps the tokens single. *)
LEMMA TokenStep ==
  ASSUME SieveInv, Prompt, OneToken, Next
  PROVE  OneToken'
<1>1. ASSUME NEW w \in Workers, WorkerStep(w) PROVE OneToken'
  BY <1>1, WorkerTokens
<1>2. ASSUME NEW w \in Workers, Receipt(w) \/ HeartbeatTimeout(w) \/ IdleSweep(w) PROVE OneToken'
  BY <1>2, ReceiptTokens, QuietReceiptTokens, TimeoutTokens, SweepTokens DEF Receipt
<1>3. ASSUME PollChannel \/ ProcessDeferred \/ AllSourcesDone \/ FlushEnd \/ WriteCheckpoint \/ AssignSendFailed \/ LocalThread
      PROVE  OneToken'
  BY <1>3, QuietTokens
<1>4. ASSUME Assignment \/ RecallStraggler \/ StopEverybody PROVE OneToken'
  BY <1>4, QuietTokens, SentTokens, RecallTokens, StopTokens DEF Assignment
<1>5. ASSUME Finished PROVE OneToken'
  BY <1>5 DEF Finished, vars, worker, threadA, OneToken, Token, Follows, Asks, AssignTo, Sent, Gone
<1> QED BY <1>1, <1>2, <1>3, <1>4, <1>5 DEF Next, WorkerStep

(* Every step keeps the invariant. *)
LEMMA TrackerStep == TrackerInv /\ [Next]_vars => TrackerInv'
<1> SUFFICES ASSUME TrackerInv, [Next]_vars PROVE TrackerInv'
  OBVIOUS
<1> USE DEF TrackerInv
<1>1. SieveInv'
  BY SieveStep
<1>2. CASE Next
  <2>1. TypeOK
    BY DEF SieveInv
  <2>2. Prompt' = Prompt
    BY <1>2, <2>1, PromptStays
  <2>3. TrackedInFlight' /\ InHand' /\ (OneToken /\ AllOwned => AllOwned')
    BY <1>2, HandsStep
  <2>4. Prompt => OneToken'
    BY <1>2, TokenStep
  <2> QED BY <1>1, <2>2, <2>3, <2>4
<1>3. CASE UNCHANGED vars
  <2>1. TrackedInFlight' /\ InHand' /\ (AllOwned => AllOwned')
    BY <1>3 DEF vars, pool, threadA, threadB, TrackedInFlight, InHand, AllOwned, HasOwner
  <2>2. OneToken => OneToken'
    BY <1>3 DEF vars, worker, threadA, OneToken, Token, Follows, Asks, AssignTo, Sent, Gone
  <2>3. Prompt' = Prompt
    BY <1>3 DEF vars, Prompt
  <2> QED BY <1>1, <2>1, <2>2, <2>3
<1> QED BY <1>2, <1>3

(* The invariant of the trackers, for any number of workers and of faults. *)
THEOREM TrackerInvariant == Spec => []TrackerInv
  BY TrackerInit, TrackerStep, PTL DEF Spec

(* In every run, prompt or late, a chunk Thread A tracks for a worker is in flight for that worker:
   reclaimPartial, returnChunk and reclaimWork find what they are called for. *)
THEOREM TrackedChunkInFlight == Spec => []TrackedInFlight
<1>1. TrackerInv => TrackedInFlight
  BY DEF TrackerInv
<1> QED BY <1>1, TrackerInvariant, PTL

(* In a prompt run every chunk in flight has exactly the owner that will complete, return or reclaim
   it: crashes, failed sends, recalls and hard caps strand none. *)
THEOREM ClusterTrackersMatchPool == Spec => []TrackersMatchPool
<1>1. TrackerInv => TrackersMatchPool
  BY DEF TrackerInv, TrackersMatchPool, AllOwned, TrackedInFlight
<1> QED BY <1>1, TrackerInvariant, PTL

(* In a prompt run a worker never has two chunks: none is overwritten in pending_assign_. *)
THEOREM ClusterOneChunkAtATime == Spec => []OneChunkAtATime
<1>1. TrackerInv => OneChunkAtATime
  <2> SUFFICES ASSUME TrackerInv, Prompt, NEW w \in Workers, ~Gone(w)
               PROVE  LET sent == {i \in DOMAIN toW[w] : toW[w][i].type = "assign"}
                      IN  Cardinality(sent) + Cardinality(pending[w]) + (IF wpc[w] = "sieve" THEN 1 ELSE 0) <= 1
    BY DEF OneChunkAtATime
  <2> DEFINE sent == {i \in DOMAIN toW[w] : toW[w][i].type = "assign"}
  <2>1. Token(w)
    BY DEF TrackerInv, OneToken
  <2>2. sent = {} \/ \E i : sent = {i}
    <3> SUFFICES ASSUME NEW i \in sent PROVE sent = {i}
      OBVIOUS
    <3>1. \A j \in sent : j = i
      BY <2>1 DEF Token
    <3> HIDE DEF sent
    <3> QED BY <3>1
  <2>3. pending[w] = {} \/ \E k : pending[w] = {k}
    <3> SUFFICES ASSUME NEW k \in pending[w] PROVE pending[w] = {k}
      OBVIOUS
    <3>1. \A l \in pending[w] : l = k
      BY <2>1 DEF Token
    <3> QED BY <3>1
  <2>4. /\ Cardinality({}) = 0
        /\ \A x : Cardinality({x}) = 1
    BY FS_EmptySet, FS_Singleton
  <2>5. wpc[w] = "sieve" \/ pending[w] # {} => sent = {}
    BY <2>1 DEF Token, Sent
  <2>6. wpc[w] = "sieve" => pending[w] = {}
    BY <2>1 DEF Token
  <2> HIDE DEF sent
  <2>7. Cardinality(sent) + Cardinality(pending[w]) + (IF wpc[w] = "sieve" THEN 1 ELSE 0) <= 1
    <3>1. Cardinality(sent) = (IF sent = {} THEN 0 ELSE 1)
      BY <2>2, <2>4
    <3>2. Cardinality(pending[w]) = (IF pending[w] = {} THEN 0 ELSE 1)
      BY <2>3, <2>4
    <3> QED BY <2>5, <2>6, <3>1, <3>2
  <2> QED BY <2>7 DEF sent
<1> QED BY <1>1, TrackerInvariant, PTL
(* Where an a-value that the pool has handed out may be: sieved, back in the pool, or in a chunk
   somebody is to complete, return or reclaim. *)
NothingStranded == Prompt =>
  \A a \in PoolStart .. (next - 1) :
    \/ a \in Sieved
    \/ \E i \in DOMAIN returned : a \in Pool!Span(returned[i])
    \/ \E c \in inFlight : a \in Pool!Span(c.unit) /\ HasOwner(c)

(* In a prompt run no a-value below the pool's cursor is stranded, whatever crashes, failed sends,
   recalls and partial chunks there were. *)
THEOREM ClusterNothingStranded == Spec => []NothingStranded
<1>1. TrackerInv => NothingStranded
  <2> SUFFICES ASSUME TrackerInv, Prompt, NEW a \in PoolStart .. (next - 1)
               PROVE  \/ a \in Sieved
                      \/ \E i \in DOMAIN returned : a \in Pool!Span(returned[i])
                      \/ \E c \in inFlight : a \in Pool!Span(c.unit) /\ HasOwner(c)
    BY DEF NothingStranded
  <2>1. PP!NoWorkLost /\ next \in PoolStart .. (PoolStart + PoolTotal)
    BY DEF TrackerInv, SieveInv, PP!IInv, PP!TypeOK, PP!End
  <2>2. a \in PP!Index /\ a < next
    BY <2>1, PoolNumbers DEF PP!Index, PP!End
  <2>3. \/ \E c \in inFlight : a \in Pool!Span(c.unit)
        \/ \E i \in DOMAIN returned : a \in Pool!Span(returned[i])
        \/ a \in done
    BY <2>1, <2>2 DEF PP!NoWorkLost, PP!InFlightAt, PP!ReturnedAt, PP!Span, Pool!Span
  <2>4. done \subseteq Sieved
    BY DEF TrackerInv, SieveInv, BooksSieved
  <2>5. \A c \in inFlight : HasOwner(c)
    BY DEF TrackerInv, AllOwned
  <2> QED BY <2>3, <2>4, <2>5
<1> QED BY <1>1, TrackerInvariant, PTL
=============================================================================
