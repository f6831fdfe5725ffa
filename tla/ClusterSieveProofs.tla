------------------------- MODULE ClusterSieveProofs -------------------------
(***************************************************************************)
(* Proofs about ClusterSieve, for any number of workers, any ranges, chunk *)
(* sizes and buffers, and any number of faults.                            *)
(***************************************************************************)
EXTENDS ClusterSieve, SequenceTheorems, FiniteSetTheorems, TLAPS

(* What is proved of the pool alone, for the coordinator's pool. *)
PP == INSTANCE WorkPoolProofs WITH Start <- PoolStart, Total <- PoolTotal,
                                   Workers <- Nodes, Counts <- ChunkSizes

(* The a-values whose relations exist somewhere, or were dropped. *)
Sieved == acc \cup InTransit \cup lost

SievedFrom(start, n) == start .. (start + n - 1) \subseteq Sieved

(* The pool has issued the chunk's id, and an entry in flight under it starts where the chunk does. *)
Known(k) ==
  /\ k.id < nextChunkId
  /\ \A c \in inFlight : c.chunk_id = k.id => c.unit.start = k.start

(* Thread A assigns to a worker it takes to be idle. *)
AssignsIdle == apc.at \in {"assign", "send"} => current[apc.w] = Idle

(* Every chunk a worker is sent, or has waiting, is a chunk of the pool. *)
AssignedKnown ==
  \A w \in Workers :
    /\ \A i \in DOMAIN toW[w] : toW[w][i].type = "assign" => Known(toW[w][i].chunk)
    /\ \A k \in pending[w] : Known(k)

AllBatches(s) == \A i \in DOMAIN s : s[i].type = "batch"
BatchesFirst(s) == \A i, j \in DOMAIN s : (i < j /\ s[j].type = "complete") => s[i].type = "batch"

(* While its tracker says "initial", the worker is at its initial range or waits behind it, and
   the only CHUNK_COMPLETE under way is that of the initial range, with nothing but batches before it. *)
InitialFirst ==
  \A w \in Workers : current[w] = Initial =>
    /\ wchunk[w] = InitialRange(w) /\ pending[w] = {}
    /\ \A i \in DOMAIN toW[w] : toW[w][i].type # "assign"
    /\ wpc[w] = "sieve" => AllBatches(toC[w])
    /\ BatchesFirst(toC[w])

(* What a worker counts as consumed is sieved. *)
ProgressSieved ==
  \A w \in Workers : wpc[w] = "sieve" =>
    /\ SievedFrom(wchunk[w].start, consumed[w])
    /\ current[w] # Initial => Known(wchunk[w])

(* So is what a CHUNK_COMPLETE will be booked as, when it arrives. *)
Report(w, m) ==
  IF current[w] = Initial THEN SievedFrom(w * InitialCount, m.consumed)
  ELSE /\ m.id < nextChunkId
       /\ \A c \in Entry(m.id) : SievedFrom(c.unit.start, m.consumed)

ReportsSieved ==
  \A w \in Workers : \A i \in DOMAIN toC[w] :
    toC[w][i].type = "complete" => Report(w, toC[w][i])

(* Thread B's own range. *)
LocalSieved ==
  /\ bpc \in {"initial", "recordInitial"} => bchunk = InitialRange(0)
  /\ bpc \in {"chunk", "recordChunk"} => Known(bchunk)
  /\ bpc \in {"initial", "recordInitial", "chunk", "recordChunk"} => SievedFrom(bchunk.start, bconsumed)

(* What is booked is sieved: the pool's done, the high-water of each initial range, the saved prefix. *)
BooksSieved ==
  /\ done \subseteq Sieved
  /\ \A n \in Nodes : SievedFrom(n * InitialCount, hw[n])
  /\ PoolStart .. (saved.cursor - 1) \subseteq Sieved

SieveInv ==
  /\ TypeOK /\ PP!IInv /\ AssignsIdle /\ AssignedKnown /\ InitialFirst
  /\ ProgressSieved /\ ReportsSieved /\ LocalSieved /\ BooksSieved

-----------------------------------------------------------------------------
(* What the queues of the model hold after an operation on them. *)
LEMMA AppendAt ==
  ASSUME NEW S, NEW s \in Seq(S), NEW x \in S
  PROVE  /\ Append(s, x) \in Seq(S) /\ DOMAIN s = 1 .. Len(s) /\ Len(s) \in Nat
         /\ DOMAIN Append(s, x) = 1 .. Len(s) + 1
         /\ \A i \in DOMAIN s : Append(s, x)[i] = s[i]
         /\ Append(s, x)[Len(s) + 1] = x
  BY AppendProperties, LenProperties

(* Taking the first element off. *)
LEMMA TailAt ==
  ASSUME NEW S, NEW s \in Seq(S), s # <<>>
  PROVE  /\ Tail(s) \in Seq(S) /\ Head(s) = s[1] /\ s[1] \in S
         /\ DOMAIN s = 1 .. Len(s) /\ Len(s) \in Nat \ {0}
         /\ DOMAIN Tail(s) = 1 .. Len(s) - 1
         /\ \A i \in 1 .. Len(s) - 1 : Tail(s)[i] = s[i + 1]
<1>1. Len(s) \in Nat \ {0} /\ DOMAIN s = 1 .. Len(s)
  BY LenProperties, EmptySeq
<1>2. Tail(s) \in Seq(S) /\ Head(s) = s[1] /\ Len(Tail(s)) = Len(s) - 1
  BY HeadTailProperties
<1>3. DOMAIN Tail(s) = 1 .. Len(s) - 1
  BY <1>2, LenProperties
<1> QED BY <1>1, <1>2, <1>3, HeadTailProperties, ElementOfSeq

(* Taking a part. *)
LEMMA PartAt ==
  ASSUME NEW S, NEW s \in Seq(S), NEW m \in 1 .. Len(s) + 1, NEW n \in 0 .. Len(s), m <= n + 1
  PROVE  /\ SubSeq(s, m, n) \in Seq(S) /\ DOMAIN s = 1 .. Len(s) /\ Len(s) \in Nat
         /\ DOMAIN SubSeq(s, m, n) = 1 .. n - m + 1
         /\ \A i \in 1 .. n - m + 1 : SubSeq(s, m, n)[i] = s[m + i - 1]
<1>1. DOMAIN s = 1 .. Len(s) /\ Len(s) \in Nat
  BY LenProperties
<1>2. m \in Int /\ n \in Int /\ \A i \in m .. n : s[i] \in S
  BY <1>1, ElementOfSeq
<1>3. /\ SubSeq(s, m, n) \in Seq(S) /\ Len(SubSeq(s, m, n)) = IF m <= n THEN n - m + 1 ELSE 0
      /\ \A i \in 1 .. n - m + 1 : SubSeq(s, m, n)[i] = s[m + i - 1]
  BY <1>2, SubSeqProperties
<1>4. DOMAIN SubSeq(s, m, n) = 1 .. Len(SubSeq(s, m, n))
  BY <1>3, LenProperties
<1> QED BY <1>1, <1>2, <1>3, <1>4

(* The elements after an append. *)
LEMMA AppendContents ==
  ASSUME NEW S, NEW s \in Seq(S), NEW x \in S
  PROVE  Contents(Append(s, x)) = Contents(s) \cup {x}
<1>1. /\ DOMAIN s = 1 .. Len(s) /\ Len(s) \in Nat /\ DOMAIN Append(s, x) = 1 .. Len(s) + 1
      /\ \A i \in DOMAIN s : Append(s, x)[i] = s[i]
      /\ Append(s, x)[Len(s) + 1] = x
  BY AppendAt
<1>2. \A i \in 1 .. Len(s) + 1 : i \in 1 .. Len(s) \/ i = Len(s) + 1
  BY <1>1
<1>3. 1 .. Len(s) \subseteq 1 .. Len(s) + 1 /\ Len(s) + 1 \in 1 .. Len(s) + 1
  BY <1>1
<1> QED BY <1>1, <1>2, <1>3 DEF Contents

(* The elements after the first is taken off. *)
LEMMA TailContents ==
  ASSUME NEW S, NEW s \in Seq(S), s # <<>>
  PROVE  Contents(s) = {Head(s)} \cup Contents(Tail(s))
<1>1. /\ Head(s) = s[1] /\ DOMAIN s = 1 .. Len(s) /\ Len(s) \in Nat \ {0}
      /\ DOMAIN Tail(s) = 1 .. Len(s) - 1
      /\ \A i \in 1 .. Len(s) - 1 : Tail(s)[i] = s[i + 1]
  BY TailAt
<1>2. \A i \in 1 .. Len(s) : i = 1 \/ (i - 1 \in 1 .. Len(s) - 1 /\ i - 1 + 1 = i)
  BY <1>1
<1>3. 1 \in 1 .. Len(s) /\ \A i \in 1 .. Len(s) - 1 : i + 1 \in 1 .. Len(s)
  BY <1>1
<1>4. ASSUME NEW i \in 1 .. Len(s) PROVE s[i] \in {Head(s)} \cup Contents(Tail(s))
  <2>1. CASE i = 1
    BY <1>1, <2>1
  <2>2. CASE i # 1
    <3>1. i - 1 \in DOMAIN Tail(s) /\ Tail(s)[i - 1] = s[i]
      BY <1>1, <1>2, <2>2
    <3> QED BY <3>1 DEF Contents
  <2> QED BY <2>1, <2>2
<1>5. ASSUME NEW i \in DOMAIN Tail(s) PROVE Tail(s)[i] \in Contents(s)
  BY <1>1, <1>3 DEF Contents
<1>6. Head(s) \in Contents(s)
  BY <1>1, <1>3 DEF Contents
<1> QED BY <1>1, <1>4, <1>5, <1>6 DEF Contents

(* The elements after the first k are taken off. *)
LEMMA SuffixContents ==
  ASSUME NEW S, NEW s \in Seq(S), NEW k \in 0 .. Len(s)
  PROVE  Contents(s) = {s[i] : i \in 1 .. k} \cup Contents(SubSeq(s, k + 1, Len(s)))
<1>0. Len(s) \in Nat /\ k + 1 \in 1 .. Len(s) + 1 /\ Len(s) \in 0 .. Len(s) /\ k + 1 <= Len(s) + 1
  BY LenProperties
<1>1. /\ DOMAIN s = 1 .. Len(s)
      /\ DOMAIN SubSeq(s, k + 1, Len(s)) = 1 .. Len(s) - (k + 1) + 1
      /\ \A i \in 1 .. Len(s) - (k + 1) + 1 : SubSeq(s, k + 1, Len(s))[i] = s[k + 1 + i - 1]
  BY <1>0, PartAt
<1>2. \A i \in 1 .. Len(s) : i \in 1 .. k \/ (i - k \in 1 .. Len(s) - (k + 1) + 1 /\ k + 1 + (i - k) - 1 = i)
  BY <1>0
<1>3. /\ \A i \in 1 .. k : i \in 1 .. Len(s)
      /\ \A i \in 1 .. Len(s) - (k + 1) + 1 : k + 1 + i - 1 \in 1 .. Len(s)
  BY <1>0
<1> DEFINE rest == SubSeq(s, k + 1, Len(s))
<1>4. ASSUME NEW i \in 1 .. Len(s), i \notin 1 .. k PROVE s[i] \in Contents(rest)
  <2>1. i - k \in DOMAIN rest /\ rest[i - k] = s[i]
    BY <1>1, <1>2, <1>4
  <2> HIDE DEF rest
  <2> QED BY <2>1 DEF Contents
<1>5. ASSUME NEW i \in DOMAIN rest PROVE rest[i] \in Contents(s)
  BY <1>1, <1>3 DEF Contents
<1>6. \A i \in 1 .. k : s[i] \in Contents(s)
  BY <1>1, <1>3 DEF Contents
<1> HIDE DEF rest
<1>7. Contents(s) \subseteq {s[i] : i \in 1 .. k} \cup Contents(rest)
  BY <1>1, <1>4 DEF Contents
<1>8. Contents(rest) \subseteq Contents(s)
  BY <1>5 DEF Contents
<1> QED BY <1>6, <1>7, <1>8 DEF rest

(* The relations among frames. *)
LEMMA BatchedIs ==
  ASSUME NEW s, NEW a
  PROVE  a \in Batched(s) <=> \E i \in DOMAIN s : s[i].type = "batch" /\ a \in s[i].data
  BY DEF Batched

(* A batch adds its relations to the stream, another frame adds none. *)
LEMMA AppendBatched ==
  ASSUME NEW S, NEW s \in Seq(S), NEW m \in S
  PROVE  Batched(Append(s, m)) = Batched(s) \cup (IF m.type = "batch" THEN m.data ELSE {})
<1>1. /\ DOMAIN s = 1 .. Len(s) /\ Len(s) \in Nat /\ DOMAIN Append(s, m) = 1 .. Len(s) + 1
      /\ \A i \in DOMAIN s : Append(s, m)[i] = s[i]
      /\ Append(s, m)[Len(s) + 1] = m
  BY AppendAt
<1>2. \A i \in 1 .. Len(s) + 1 : i \in 1 .. Len(s) \/ i = Len(s) + 1
  BY <1>1
<1>3. 1 .. Len(s) \subseteq 1 .. Len(s) + 1 /\ Len(s) + 1 \in 1 .. Len(s) + 1
  BY <1>1
<1> SUFFICES ASSUME NEW a
             PROVE  a \in Batched(Append(s, m)) <=> (a \in Batched(s) \/ (m.type = "batch" /\ a \in m.data))
  OBVIOUS
<1> DEFINE t == Append(s, m)
<1>4. /\ DOMAIN t = 1 .. Len(s) + 1 /\ \A i \in 1 .. Len(s) : t[i] = s[i]
      /\ t[Len(s) + 1] = m
  BY <1>1
<1> HIDE DEF t
<1>5. ASSUME a \in Batched(t) PROVE a \in Batched(s) \/ (m.type = "batch" /\ a \in m.data)
  <2>1. PICK i \in 1 .. Len(s) + 1 : t[i].type = "batch" /\ a \in t[i].data
    BY <1>4, <1>5, BatchedIs
  <2>2. CASE i = Len(s) + 1
    BY <1>4, <2>1, <2>2
  <2>3. CASE i \in 1 .. Len(s)
    <3>1. i \in DOMAIN s /\ s[i].type = "batch" /\ a \in s[i].data
      BY <1>1, <1>4, <2>1, <2>3
    <3> QED BY <3>1, BatchedIs
  <2> QED BY <1>2, <2>2, <2>3
<1>6. ASSUME a \in Batched(s) PROVE a \in Batched(t)
  <2>1. PICK i \in 1 .. Len(s) : s[i].type = "batch" /\ a \in s[i].data
    BY <1>1, <1>6, BatchedIs
  <2>2. i \in DOMAIN t /\ t[i].type = "batch" /\ a \in t[i].data
    BY <1>3, <1>4, <2>1
  <2> QED BY <2>2, BatchedIs
<1>7. ASSUME m.type = "batch", a \in m.data PROVE a \in Batched(t)
  <2>1. Len(s) + 1 \in DOMAIN t /\ t[Len(s) + 1].type = "batch" /\ a \in t[Len(s) + 1].data
    BY <1>3, <1>4, <1>7
  <2> QED BY <2>1, BatchedIs
<1> QED BY <1>5, <1>6, <1>7 DEF t

(* Receiving a batch takes its relations out of the stream. *)
LEMMA TailBatched ==
  ASSUME NEW S, NEW s \in Seq(S), s # <<>>
  PROVE  Batched(s) = (IF Head(s).type = "batch" THEN Head(s).data ELSE {}) \cup Batched(Tail(s))
<1>1. /\ Head(s) = s[1] /\ DOMAIN s = 1 .. Len(s) /\ Len(s) \in Nat \ {0}
      /\ DOMAIN Tail(s) = 1 .. Len(s) - 1
      /\ \A i \in 1 .. Len(s) - 1 : Tail(s)[i] = s[i + 1]
  BY TailAt
<1>2. \A i \in 1 .. Len(s) : i = 1 \/ (i - 1 \in 1 .. Len(s) - 1 /\ i - 1 + 1 = i)
  BY <1>1
<1>3. 1 \in 1 .. Len(s) /\ \A i \in 1 .. Len(s) - 1 : i + 1 \in 1 .. Len(s)
  BY <1>1
<1> SUFFICES ASSUME NEW a
             PROVE  a \in Batched(s) <=> ((Head(s).type = "batch" /\ a \in Head(s).data) \/ a \in Batched(Tail(s)))
  OBVIOUS
<1> DEFINE t == Tail(s)
<1>4. DOMAIN t = 1 .. Len(s) - 1 /\ \A i \in 1 .. Len(s) - 1 : t[i] = s[i + 1]
  BY <1>1
<1> HIDE DEF t
<1>5. ASSUME a \in Batched(s) PROVE (Head(s).type = "batch" /\ a \in Head(s).data) \/ a \in Batched(t)
  <2>1. PICK i \in 1 .. Len(s) : s[i].type = "batch" /\ a \in s[i].data
    BY <1>1, <1>5, BatchedIs
  <2>2. CASE i = 1
    BY <1>1, <2>1, <2>2
  <2>3. CASE i # 1
    <3>1. i - 1 \in DOMAIN t /\ t[i - 1] = s[i]
      BY <1>2, <1>4, <2>3
    <3>2. i - 1 \in DOMAIN t /\ t[i - 1].type = "batch" /\ a \in t[i - 1].data
      BY <2>1, <3>1
    <3> QED BY <3>2, BatchedIs
  <2> QED BY <2>2, <2>3
<1>6. ASSUME a \in Batched(t) PROVE a \in Batched(s)
  <2>1. PICK i \in 1 .. Len(s) - 1 : t[i].type = "batch" /\ a \in t[i].data
    BY <1>4, <1>6, BatchedIs
  <2>2. i + 1 \in DOMAIN s /\ s[i + 1].type = "batch" /\ a \in s[i + 1].data
    BY <1>1, <1>3, <1>4, <2>1
  <2> QED BY <2>2, BatchedIs
<1>7. ASSUME Head(s).type = "batch", a \in Head(s).data PROVE a \in Batched(s)
  <2>1. 1 \in DOMAIN s /\ s[1].type = "batch" /\ a \in s[1].data
    BY <1>1, <1>3, <1>7
  <2> QED BY <2>1, BatchedIs
<1> QED BY <1>5, <1>6, <1>7 DEF t

(* Cutting a stream in two splits its relations. *)
LEMMA CutBatched ==
  ASSUME NEW S, NEW s \in Seq(S), NEW k \in 0 .. Len(s)
  PROVE  Batched(s) = Batched(SubSeq(s, 1, k)) \cup Batched(SubSeq(s, k + 1, Len(s)))
<1>0. /\ Len(s) \in Nat /\ k + 1 \in 1 .. Len(s) + 1 /\ Len(s) \in 0 .. Len(s) /\ k + 1 <= Len(s) + 1
      /\ 1 \in 1 .. Len(s) + 1 /\ 1 <= k + 1
  BY LenProperties
<1>1. /\ DOMAIN s = 1 .. Len(s)
      /\ DOMAIN SubSeq(s, k + 1, Len(s)) = 1 .. Len(s) - (k + 1) + 1
      /\ \A i \in 1 .. Len(s) - (k + 1) + 1 : SubSeq(s, k + 1, Len(s))[i] = s[k + 1 + i - 1]
  BY <1>0, PartAt
<1>2. /\ DOMAIN SubSeq(s, 1, k) = 1 .. k - 1 + 1
      /\ \A i \in 1 .. k - 1 + 1 : SubSeq(s, 1, k)[i] = s[1 + i - 1]
  BY <1>0, PartAt
<1>3. DOMAIN SubSeq(s, 1, k) = 1 .. k /\ \A i \in 1 .. k : SubSeq(s, 1, k)[i] = s[i]
  <2>1. k - 1 + 1 = k /\ \A i \in 1 .. k : 1 + i - 1 = i
    BY <1>0
  <2> QED BY <1>2, <2>1
<1>4. \A i \in 1 .. Len(s) : i \in 1 .. k \/ (i - k \in 1 .. Len(s) - (k + 1) + 1 /\ k + 1 + (i - k) - 1 = i)
  BY <1>0
<1>5. /\ \A i \in 1 .. k : i \in 1 .. Len(s)
      /\ \A i \in 1 .. Len(s) - (k + 1) + 1 : k + 1 + i - 1 \in 1 .. Len(s)
  BY <1>0
<1> SUFFICES ASSUME NEW a
             PROVE  a \in Batched(s) <=> (a \in Batched(SubSeq(s, 1, k)) \/ a \in Batched(SubSeq(s, k + 1, Len(s))))
  OBVIOUS
<1> DEFINE t == SubSeq(s, 1, k)
           u == SubSeq(s, k + 1, Len(s))
<1>6. /\ DOMAIN t = 1 .. k /\ \A i \in 1 .. k : t[i] = s[i]
      /\ DOMAIN u = 1 .. Len(s) - (k + 1) + 1 /\ \A i \in DOMAIN u : u[i] = s[k + 1 + i - 1]
  BY <1>1, <1>3
<1> HIDE DEF t, u
<1>7. ASSUME a \in Batched(s) PROVE a \in Batched(t) \/ a \in Batched(u)
  <2>1. PICK i \in 1 .. Len(s) : s[i].type = "batch" /\ a \in s[i].data
    BY <1>1, <1>7, BatchedIs
  <2>2. CASE i \in 1 .. k
    <3>1. i \in DOMAIN t /\ t[i].type = "batch" /\ a \in t[i].data
      BY <1>6, <2>1, <2>2
    <3> QED BY <3>1, BatchedIs
  <2>3. CASE i \notin 1 .. k
    <3>1. i - k \in DOMAIN u /\ u[i - k] = s[i]
      BY <1>4, <1>6, <2>3
    <3>2. i - k \in DOMAIN u /\ u[i - k].type = "batch" /\ a \in u[i - k].data
      BY <2>1, <3>1
    <3> QED BY <3>2, BatchedIs
  <2> QED BY <2>2, <2>3
<1>8. ASSUME a \in Batched(t) PROVE a \in Batched(s)
  <2>1. PICK i \in 1 .. k : t[i].type = "batch" /\ a \in t[i].data
    BY <1>6, <1>8, BatchedIs
  <2>2. i \in DOMAIN s /\ s[i].type = "batch" /\ a \in s[i].data
    BY <1>1, <1>5, <1>6, <2>1
  <2> QED BY <2>2, BatchedIs
<1>9. ASSUME a \in Batched(u) PROVE a \in Batched(s)
  <2>1. PICK i \in DOMAIN u : u[i].type = "batch" /\ a \in u[i].data
    BY <1>9, BatchedIs
  <2>2. k + 1 + i - 1 \in DOMAIN s /\ s[k + 1 + i - 1] = u[i]
    BY <1>1, <1>5, <1>6
  <2>3. k + 1 + i - 1 \in DOMAIN s /\ s[k + 1 + i - 1].type = "batch" /\ a \in s[k + 1 + i - 1].data
    BY <2>1, <2>2
  <2> QED BY <2>3, BatchedIs
<1> QED BY <1>7, <1>8, <1>9 DEF t, u

-----------------------------------------------------------------------------
(* The pool's operations, from the proofs about WorkPool: each keeps the pool's invariant. *)
LEMMA PoolNumbers ==
  PoolStart \in Nat /\ PoolTotal \in Nat /\ ChunkSizes \subseteq Nat \ {0} /\ MaxChunks \in Nat
  BY ClusterAssumption DEF PoolStart

(* What the pool's invariant says of its numbers and of the chunks in flight. *)
LEMMA PoolTypes ==
  ASSUME PP!IInv
  PROVE  /\ nextChunkId \in Nat /\ saved.cursor \in Int
         /\ \A c \in inFlight : /\ c.chunk_id \in Nat /\ c.chunk_id < nextChunkId
                                /\ c.unit.start \in Nat /\ c.unit.count \in Nat /\ c.worker_id \in Nodes
         /\ \A c, d \in inFlight : c.chunk_id = d.chunk_id => c = d
  BY PoolNumbers DEF PP!IInv, PP!TypeOK, PP!NoDoubleAssign, PP!CheckedOutWork, PP!WorkUnit, PP!End

(* The same in the next state. *)
LEMMA PoolTypesNext ==
  ASSUME PP!IInv'
  PROVE  /\ nextChunkId' \in Nat /\ saved'.cursor \in Int
         /\ \A c \in inFlight' : /\ c.chunk_id \in Nat /\ c.chunk_id < nextChunkId'
                                 /\ c.unit.start \in Nat /\ c.unit.count \in Nat /\ c.worker_id \in Nodes
         /\ \A c, d \in inFlight' : c.chunk_id = d.chunk_id => c = d
  BY PoolNumbers DEF PP!IInv, PP!TypeOK, PP!NoDoubleAssign, PP!CheckedOutWork, PP!WorkUnit, PP!End

(* A new pool has issued and booked nothing. *)
LEMMA PoolInit == Pool!Init => PP!IInv /\ inFlight = {} /\ done = {} /\ saved.cursor = PoolStart
<1> SUFFICES ASSUME Pool!Init PROVE PP!IInv /\ inFlight = {} /\ done = {} /\ saved.cursor = PoolStart
  OBVIOUS
<1>1. PP!Init
  BY DEF Pool!Init, PP!Init
<1>2. PP!IInv
  BY <1>1, PoolNumbers, PP!InitIInv DEF PP!InitIInv
<1> QED BY <1>2 DEF Pool!Init

(* A step that leaves the pool alone. *)
LEMMA PoolStutters == PP!IInv /\ UNCHANGED pool => PP!IInv'
<1> SUFFICES ASSUME PP!IInv, UNCHANGED pool PROVE PP!IInv'
  OBVIOUS
<1>1. UNCHANGED PP!vars
  BY DEF pool, PP!vars
<1> QED BY <1>1, PoolNumbers, PP!StutterIInv DEF PP!StutterIInv

(* in_flight_ gains one entry, under the next id. *)
LEMMA RecordEffect ==
  ASSUME NEW w, NEW u, Pool!Record(u, w)
  PROVE  /\ nextChunkId' = nextChunkId + 1
         /\ \E c : inFlight' = inFlight \cup {c} /\ c.chunk_id = nextChunkId /\ c.worker_id = w
<1> DEFINE c == [chunk_id |-> nextChunkId, unit |-> u, worker_id |-> w]
<1>1. inFlight' = inFlight \cup {c} /\ nextChunkId' = nextChunkId + 1
  BY DEF Pool!Record
<1>2. c.chunk_id = nextChunkId /\ c.worker_id = w
  OBVIOUS
<1> HIDE DEF c
<1> QED BY <1>1, <1>2

(* checkoutWork adds one entry and books nothing. *)
LEMMA PoolCheckout ==
  ASSUME PP!IInv, NEW n \in ChunkSizes, NEW w \in Nodes, Pool!checkoutWork(n, w)
  PROVE  /\ PP!IInv' /\ UNCHANGED <<done, saved>> /\ nextChunkId' = nextChunkId + 1
         /\ \E c : inFlight' = inFlight \cup {c} /\ c.chunk_id = nextChunkId /\ c.worker_id = w
<1>1. CASE Pool!CheckoutReturned(n, w)
  <2>1. PP!CheckoutReturned(n, w)
    BY <1>1 DEF Pool!CheckoutReturned, PP!CheckoutReturned, Pool!Record, PP!Record
  <2>2. PP!IInv'
    BY <2>1, PoolNumbers, PP!ReturnedIInv DEF PP!ReturnedIInv
  <2>3. \E u : Pool!Record(u, w)
    BY <1>1 DEF Pool!CheckoutReturned
  <2>4. UNCHANGED <<done, saved>>
    BY <1>1 DEF Pool!CheckoutReturned
  <2> QED BY <2>2, <2>3, <2>4, RecordEffect
<1>2. CASE Pool!CheckoutLinear(n, w)
  <2>1. PP!CheckoutLinear(n, w)
    BY <1>2 DEF Pool!CheckoutLinear, PP!CheckoutLinear, Pool!Record, PP!Record, Pool!Smaller, PP!Smaller, Pool!End, PP!End
  <2>2. PP!IInv'
    BY <2>1, PoolNumbers, PP!LinearIInv DEF PP!LinearIInv
  <2>3. \E u : Pool!Record(u, w)
    BY <1>2 DEF Pool!CheckoutLinear
  <2>4. UNCHANGED <<done, saved>>
    BY <1>2 DEF Pool!CheckoutLinear
  <2> QED BY <2>2, <2>3, <2>4, RecordEffect
<1> QED BY <1>1, <1>2 DEF Pool!checkoutWork

(* returnChunk removes one entry and books nothing. *)
LEMMA PoolReturn ==
  ASSUME PP!IInv, NEW c \in inFlight, Pool!returnChunk(c)
  PROVE  PP!IInv' /\ inFlight' = inFlight \ {c} /\ UNCHANGED <<done, saved, nextChunkId>>
<1>1. PP!returnChunk(c)
  BY DEF Pool!returnChunk, PP!returnChunk
<1>2. PP!IInv'
  BY <1>1, PoolNumbers, PP!ReturnIInv DEF PP!ReturnIInv
<1> QED BY <1>2 DEF Pool!returnChunk

(* reclaimPartial removes one entry and books at most what was reported. *)
LEMMA PoolPartial ==
  ASSUME PP!IInv, NEW c \in inFlight, NEW k \in Nat, Pool!reclaimPartial(c, k)
  PROVE  /\ PP!IInv' /\ inFlight' = inFlight \ {c} /\ UNCHANGED <<saved, nextChunkId>>
         /\ done' \subseteq done \cup c.unit.start .. (c.unit.start + k - 1)
<1>1. PP!reclaimPartial(c, k)
  BY DEF Pool!reclaimPartial, PP!reclaimPartial, Pool!Smaller, PP!Smaller
<1>2. PP!IInv'
  BY <1>1, PoolNumbers, PP!PartialIInv DEF PP!PartialIInv
<1>3. done' = done \cup c.unit.start .. (c.unit.start + Pool!Smaller(k, c.unit.count) - 1)
  BY DEF Pool!reclaimPartial
<1>4. c.unit.start \in Nat /\ c.unit.count \in Nat
  BY PoolTypes
<1>5. Pool!Smaller(k, c.unit.count) \in Nat /\ Pool!Smaller(k, c.unit.count) <= k
  BY <1>4 DEF Pool!Smaller
<1>6. c.unit.start .. (c.unit.start + Pool!Smaller(k, c.unit.count) - 1) \subseteq c.unit.start .. (c.unit.start + k - 1)
  BY <1>4, <1>5
<1> QED BY <1>2, <1>3, <1>6 DEF Pool!reclaimPartial

(* reclaimWork, of the pool and of the pool its proofs speak of. *)
LEMMA ReclaimIs ==
  ASSUME NEW w \in Nodes, Pool!reclaimWork(w)
  PROVE  PP!reclaimWork(w)
<1>2. \A f, S : Pool!IsScanOf(f, S) <=> PP!IsScanOf(f, S)
  BY DEF Pool!IsScanOf, PP!IsScanOf
<1> DEFINE S == {c \in inFlight : c.worker_id = w}
           j == Pool!Cardinality(S)
           k == PP!Cardinality(S)
           After(f, n) == [i \in 1 .. (Len(returned) + n) |->
                             IF i <= Len(returned) THEN returned[i] ELSE f[i - Len(returned)].unit]
<1>3. \E f \in [1 .. j -> S] : Pool!IsScanOf(f, S) /\ returned' = After(f, j)
  BY Zenon DEF Pool!reclaimWork, Pool!ChunksOf
<1>4. S # {} /\ inFlight' = inFlight \ S /\ UNCHANGED <<next, nextChunkId, done, saved>>
  BY DEF Pool!reclaimWork, Pool!ChunksOf
<1>5. j = k
  BY Zenon DEF Pool!Cardinality, PP!Cardinality
<1>6. \E f \in [1 .. k -> S] : PP!IsScanOf(f, S) /\ returned' = After(f, k)
  <2> HIDE DEF S, After, j, k
  <2> QED BY <1>2, <1>3, <1>5
<1> QED BY <1>4, <1>6, Zenon DEF PP!reclaimWork, PP!ChunksOf

(* reclaimWork removes the entries of one worker and books nothing. *)
LEMMA PoolReclaim ==
  ASSUME PP!IInv, NEW w \in Nodes, Pool!reclaimWork(w)
  PROVE  /\ PP!IInv' /\ UNCHANGED <<done, saved, nextChunkId>>
         /\ inFlight' = {c \in inFlight : c.worker_id # w}
<1>1. PP!reclaimWork(w)
  BY ReclaimIs
<1>2. PP!IInv'
  BY <1>1, PoolNumbers, PP!ReclaimIInv DEF PP!ReclaimIInv
<1> QED BY <1>2 DEF Pool!reclaimWork, Pool!ChunksOf

(* The cursor a checkpoint saves skips only what is booked. *)
LEMMA PoolSave ==
  ASSUME PP!IInv, Pool!SaveCursor
  PROVE  /\ PP!IInv' /\ UNCHANGED <<next, nextChunkId, inFlight, returned, done>>
         /\ PoolStart .. (saved'.cursor - 1) \subseteq done
<1>0. /\ saved' = [cursor |-> Pool!completedPrefixCursor, done |-> done]
      /\ UNCHANGED <<next, nextChunkId, inFlight, returned, done>>
  BY DEF Pool!SaveCursor
<1>1. Pool!completedPrefixCursor = PP!completedPrefixCursor
  BY DEF Pool!completedPrefixCursor, PP!completedPrefixCursor, Pool!IsCompletedPrefix, PP!IsCompletedPrefix, Pool!End, PP!End
<1>2. PP!SaveCursor
  BY <1>0, <1>1 DEF PP!SaveCursor
<1>3. PP!IInv'
  BY <1>2, PoolNumbers, PP!SaveIInv DEF PP!SaveIInv
<1>4. PP!PrefixSound
  BY PoolNumbers, PP!PrefixIsDone DEF PP!PrefixIsDone
<1>5. \A a \in PoolStart .. (PP!completedPrefixCursor - 1) : a \in done
  BY <1>4 DEF PP!PrefixSound
<1> QED BY <1>0, <1>1, <1>3, <1>5

-----------------------------------------------------------------------------
(* The frames and records of the model are of their types. *)
LEMMA FrameMakes ==
  /\ \A D \in SUBSET Int : [type |-> "batch", data |-> D] \in Frame
  /\ \A i, n \in Nat : [type |-> "complete", id |-> i, consumed |-> n] \in Frame
  /\ [type |-> "request"] \in Frame /\ [type |-> "flush"] \in Frame
  BY DEF Frame

(* The fields of a worker's frame. *)
LEMMA FrameTypes ==
  ASSUME NEW m \in Frame
  PROVE  /\ m.type \in {"batch", "complete", "request", "flush"}
         /\ m.type = "batch" => m.data \subseteq Int
         /\ m.type = "complete" => m.id \in Nat /\ m.consumed \in Nat
  BY DEF Frame

(* The frames of the coordinator. *)
LEMMA ControlMakes ==
  /\ [type |-> "stop"] \in Control
  /\ \A i \in Nat : [type |-> "recall", id |-> i] \in Control
  /\ \A k \in Chunk : [type |-> "assign", chunk |-> k] \in Control
  BY DEF Control

(* Their fields. *)
LEMMA ControlTypes ==
  ASSUME NEW m \in Control
  PROVE  /\ m.type \in {"stop", "recall", "assign"}
         /\ m.type = "assign" => m.chunk \in Chunk
  BY DEF Control

(* Ranges of a-values. *)
LEMMA ChunkTypes ==
  /\ \A k \in Chunk : k.id \in Nat /\ k.start \in Nat /\ k.count \in Nat
  /\ \A i, s, n \in Nat : [id |-> i, start |-> s, count |-> n] \in Chunk
  BY DEF Chunk

(* The initial range of node n starts at n * InitialCount. *)
LEMMA InitialChunk ==
  ASSUME NEW n \in Nodes
  PROVE  InitialRange(n) \in Chunk /\ InitialRange(n).start = n * InitialCount /\ n * InitialCount \in Nat
<1>1. n * InitialCount \in Nat /\ InitialCount \in Nat
  BY ClusterAssumption DEF Nodes
<1> QED BY <1>1, ChunkTypes DEF InitialRange

(* Workers are nodes, and node 0 is not a worker. *)
LEMMA WorkersAreNodes == Workers \subseteq Nodes /\ 0 \in Nodes /\ 0 \notin Workers /\ Workers \subseteq Nat
  BY ClusterAssumption DEF Workers, Nodes

(* A fault is counted against its budget; the run stays prompt, or late. *)
LEMMA Spends ==
  ASSUME budget \in Budget, NEW what \in {"crash", "request", "hardcap", "sendfail", "recall", "save"}, Spend(what)
  PROVE  budget' \in Budget /\ budget'.prompt = budget.prompt
<1>1. budget' = [budget EXCEPT ![what] = @ - 1] /\ budget[what] > 0
  BY DEF Spend
<1>2. CASE what = "crash"
  BY <1>1, <1>2 DEF Budget
<1>3. CASE what = "request"
  BY <1>1, <1>3 DEF Budget
<1>4. CASE what = "hardcap"
  BY <1>1, <1>4 DEF Budget
<1>5. CASE what = "sendfail"
  BY <1>1, <1>5 DEF Budget
<1>6. CASE what = "recall"
  BY <1>1, <1>6 DEF Budget
<1>7. CASE what = "save"
  BY <1>1, <1>7 DEF Budget
<1> QED BY <1>2, <1>3, <1>4, <1>5, <1>6, <1>7

(* The shape of a worker's stream behind its initial range. *)
LEMMA ShapeAppend ==
  ASSUME NEW s \in Seq(Frame), NEW m \in Frame
  PROVE  /\ AllBatches(s) /\ m.type = "batch" => AllBatches(Append(s, m))
         /\ (AllBatches(s) \/ m.type # "complete") /\ BatchesFirst(s) => BatchesFirst(Append(s, m))
<1>1. /\ DOMAIN s = 1 .. Len(s) /\ Len(s) \in Nat
      /\ DOMAIN Append(s, m) = 1 .. Len(s) + 1
      /\ \A i \in DOMAIN s : Append(s, m)[i] = s[i]
      /\ Append(s, m)[Len(s) + 1] = m
  BY AppendAt
<1> QED BY <1>1 DEF AllBatches, BatchesFirst

(* Receiving a frame keeps the shape; behind a frame that is no batch there is no report. *)
LEMMA ShapeTail ==
  ASSUME NEW s \in Seq(Frame), s # <<>>
  PROVE  /\ AllBatches(s) => AllBatches(Tail(s))
         /\ BatchesFirst(s) => BatchesFirst(Tail(s))
         /\ BatchesFirst(s) /\ Head(s).type # "batch" => \A i \in DOMAIN Tail(s) : Tail(s)[i].type # "complete"
<1>1. /\ Head(s) = s[1] /\ DOMAIN s = 1 .. Len(s) /\ Len(s) \in Nat \ {0}
      /\ DOMAIN Tail(s) = 1 .. Len(s) - 1
      /\ \A i \in 1 .. Len(s) - 1 : Tail(s)[i] = s[i + 1]
  BY TailAt
<1>2. \A i \in 1 .. Len(s) - 1 : i + 1 \in 1 .. Len(s) /\ 1 < i + 1
  BY <1>1
<1>3. 1 \in 1 .. Len(s)
  BY <1>1
<1>4. AllBatches(s) => AllBatches(Tail(s))
  BY <1>1, <1>2 DEF AllBatches
<1>5. BatchesFirst(s) => BatchesFirst(Tail(s))
  BY <1>1, <1>2 DEF BatchesFirst
<1>6. BatchesFirst(s) /\ Head(s).type # "batch" => \A i \in DOMAIN Tail(s) : Tail(s)[i].type # "complete"
  BY <1>1, <1>2, <1>3 DEF BatchesFirst
<1> QED BY <1>4, <1>5, <1>6

(* Losing the end of the stream keeps it. *)
LEMMA ShapeCut ==
  ASSUME NEW s \in Seq(Frame), NEW k \in 0 .. Len(s)
  PROVE  /\ SubSeq(s, 1, k) \in Seq(Frame) /\ DOMAIN SubSeq(s, 1, k) \subseteq DOMAIN s
         /\ \A i \in DOMAIN SubSeq(s, 1, k) : SubSeq(s, 1, k)[i] = s[i]
         /\ AllBatches(s) => AllBatches(SubSeq(s, 1, k))
         /\ BatchesFirst(s) => BatchesFirst(SubSeq(s, 1, k))
<1>0. Len(s) \in Nat /\ 1 \in 1 .. Len(s) + 1 /\ 1 <= k + 1
  BY LenProperties
<1>1. /\ SubSeq(s, 1, k) \in Seq(Frame) /\ DOMAIN s = 1 .. Len(s)
      /\ DOMAIN SubSeq(s, 1, k) = 1 .. k - 1 + 1
      /\ \A i \in 1 .. k - 1 + 1 : SubSeq(s, 1, k)[i] = s[1 + i - 1]
  BY <1>0, PartAt
<1>2. k - 1 + 1 = k /\ (\A i \in 1 .. k : 1 + i - 1 = i) /\ 1 .. k \subseteq 1 .. Len(s)
  BY <1>0
<1>3. DOMAIN SubSeq(s, 1, k) = 1 .. k /\ \A i \in 1 .. k : SubSeq(s, 1, k)[i] = s[i]
  BY <1>1, <1>2
<1> QED BY <1>1, <1>2, <1>3 DEF AllBatches, BatchesFirst

-----------------------------------------------------------------------------
(* What most steps have in common.  The pool only issues ids it has not issued, and drops entries. *)
PoolKeeps ==
  /\ nextChunkId' \in Nat /\ nextChunkId' >= nextChunkId
  /\ \A c \in inFlight' : c \in inFlight \/ c.chunk_id = nextChunkId

(* Relations do not disappear: what was sieved stays with somebody, or is counted as lost. *)
Grows == Sieved \subseteq Sieved'

(* A worker is sent no new chunk, and takes one only from its stream. *)
NoNewAssign ==
  \A v \in Workers :
    /\ \A i \in DOMAIN toW'[v] : toW'[v][i].type = "assign" => \E j \in DOMAIN toW[v] : toW[v][j] = toW'[v][i]
    /\ \A k \in pending'[v] : \/ k \in pending[v]
                              \/ \E j \in DOMAIN toW[v] : toW[v][j].type = "assign" /\ toW[v][j].chunk = k

(* No worker reports a chunk, and none leaves its initial range. *)
NoNewReport ==
  \A v \in Workers :
    /\ current'[v] = Initial <=> current[v] = Initial
    /\ \A i \in DOMAIN toC'[v] : toC'[v][i].type = "complete" => \E j \in DOMAIN toC[v] : toC[v][j] = toC'[v][i]

(* No worker sieves on. *)
NoNewSieving ==
  \A v \in Workers : wpc'[v] = "sieve" =>
    /\ wpc[v] = "sieve" /\ wchunk'[v] = wchunk[v] /\ consumed'[v] = consumed[v]
    /\ current'[v] = Initial <=> current[v] = Initial

(* A worker at its initial range stays there. *)
NoNewInitial ==
  \A v \in Workers : current'[v] = Initial =>
    /\ current[v] = Initial /\ wchunk'[v] = wchunk[v] /\ pending'[v] \subseteq pending[v]
    /\ \A i \in DOMAIN toW'[v] : toW'[v][i].type = "assign" => \E j \in DOMAIN toW[v] : toW[v][j].type = "assign"
    /\ wpc'[v] = "sieve" => wpc[v] = "sieve" /\ (AllBatches(toC[v]) => AllBatches(toC'[v]))
    /\ BatchesFirst(toC[v]) => BatchesFirst(toC'[v])

(* A chunk the pool knows stays known: a new entry has a new id. *)
LEMMA KnownKeeps ==
  ASSUME PP!IInv, PoolKeeps, NEW k, k.id \in Nat, Known(k)
  PROVE  k.id < nextChunkId' /\ \A c \in inFlight' : c.chunk_id = k.id => c.unit.start = k.start
  BY PoolTypes DEF PoolKeeps, Known

(* A step that assigns nothing new keeps AssignedKnown. *)
LEMMA KeepAssigned ==
  ASSUME TypeOK, PP!IInv, PoolKeeps, AssignedKnown, NoNewAssign
  PROVE  AssignedKnown'
<1>1. ASSUME NEW v \in Workers, NEW i \in DOMAIN toW'[v], toW'[v][i].type = "assign"
      PROVE  /\ toW'[v][i].chunk.id < nextChunkId'
             /\ \A c \in inFlight' : c.chunk_id = toW'[v][i].chunk.id => c.unit.start = toW'[v][i].chunk.start
  <2>1. PICK j \in DOMAIN toW[v] : toW[v][j] = toW'[v][i]
    BY <1>1 DEF NoNewAssign
  <2>2. toW[v][j] \in Control
    BY ElementOfSeq, LenProperties DEF TypeOK
  <2>3. toW'[v][i].chunk.id \in Nat /\ Known(toW'[v][i].chunk)
    BY <1>1, <2>1, <2>2, ControlTypes, ChunkTypes DEF AssignedKnown
  <2> QED BY <2>3, KnownKeeps
<1>2. ASSUME NEW v \in Workers, NEW k \in pending'[v]
      PROVE  k.id < nextChunkId' /\ \A c \in inFlight' : c.chunk_id = k.id => c.unit.start = k.start
  <2>1. k.id \in Nat /\ Known(k)
    <3>1. CASE k \in pending[v]
      BY <3>1, ChunkTypes DEF AssignedKnown, TypeOK
    <3>2. CASE k \notin pending[v]
      <4>1. PICK j \in DOMAIN toW[v] : toW[v][j].type = "assign" /\ toW[v][j].chunk = k
        BY <3>2 DEF NoNewAssign
      <4>2. toW[v][j] \in Control
        BY ElementOfSeq, LenProperties DEF TypeOK
      <4> QED BY <4>1, <4>2, ControlTypes, ChunkTypes DEF AssignedKnown
    <3> QED BY <3>1, <3>2
  <2> QED BY <2>1, KnownKeeps
<1> QED BY <1>1, <1>2 DEF AssignedKnown, Known

(* A step that keeps workers at their initial ranges keeps InitialFirst. *)
LEMMA KeepInitial ==
  ASSUME InitialFirst, NoNewInitial
  PROVE  InitialFirst'
  BY DEF InitialFirst, NoNewInitial

(* A step in which no worker sieves keeps ProgressSieved. *)
LEMMA KeepProgress ==
  ASSUME TypeOK, PP!IInv, PoolKeeps, Grows, ProgressSieved, NoNewSieving
  PROVE  ProgressSieved'
<1> SUFFICES ASSUME NEW v \in Workers, wpc'[v] = "sieve"
             PROVE  /\ SievedFrom(wchunk[v].start, consumed[v])'
                    /\ current'[v] # Initial => Known(wchunk[v])'
  BY DEF ProgressSieved
<1>1. wchunk'[v] = wchunk[v] /\ consumed'[v] = consumed[v] /\ (current'[v] = Initial <=> current[v] = Initial)
      /\ SievedFrom(wchunk[v].start, consumed[v]) /\ (current[v] # Initial => Known(wchunk[v]))
  BY DEF NoNewSieving, ProgressSieved
<1>2. wchunk[v].id \in Nat
  BY ChunkTypes DEF TypeOK
<1>3. SievedFrom(wchunk[v].start, consumed[v])'
  BY <1>1 DEF SievedFrom, Grows
<1>4. ASSUME current'[v] # Initial PROVE Known(wchunk[v])'
  <2>1. Known(wchunk[v])
    BY <1>1, <1>4
  <2> QED BY <1>1, <1>2, <2>1, KnownKeeps DEF Known
<1> QED BY <1>3, <1>4

(* A report that has been sent stays true. *)
LEMMA ReportKeeps ==
  ASSUME PP!IInv, PoolKeeps, Grows, NEW v \in Workers, NEW m, m.id \in Nat, Report(v, m),
         current'[v] = Initial <=> current[v] = Initial
  PROVE  IF current'[v] = Initial THEN v * InitialCount .. (v * InitialCount + m.consumed - 1) \subseteq Sieved'
         ELSE /\ m.id < nextChunkId'
              /\ \A c \in inFlight' : c.chunk_id = m.id =>
                   c.unit.start .. (c.unit.start + m.consumed - 1) \subseteq Sieved'
  BY PoolTypes DEF PoolKeeps, Report, Entry, SievedFrom, Grows

(* A step in which no worker reports keeps ReportsSieved. *)
LEMMA KeepReports ==
  ASSUME TypeOK, PP!IInv, PoolKeeps, Grows, ReportsSieved, NoNewReport
  PROVE  ReportsSieved'
<1> SUFFICES ASSUME NEW v \in Workers, NEW i \in DOMAIN toC'[v], toC'[v][i].type = "complete"
             PROVE  Report(v, toC[v][i])'
  BY DEF ReportsSieved
<1>1. PICK j \in DOMAIN toC[v] : toC[v][j] = toC'[v][i]
  BY DEF NoNewReport
<1>2. toC[v][j] \in Frame
  BY ElementOfSeq, LenProperties DEF TypeOK
<1>3. toC'[v][i].id \in Nat /\ Report(v, toC'[v][i]) /\ (current'[v] = Initial <=> current[v] = Initial)
  BY <1>1, <1>2, FrameTypes DEF ReportsSieved, NoNewReport
<1> QED BY <1>3, ReportKeeps DEF Report, Entry, SievedFrom

(* A step that leaves Thread B alone keeps LocalSieved. *)
LEMMA KeepLocal ==
  ASSUME TypeOK, PP!IInv, PoolKeeps, Grows, LocalSieved, UNCHANGED <<bpc, bchunk, bconsumed>>
  PROVE  LocalSieved'
<1>1. bchunk.id \in Nat
  BY ChunkTypes DEF TypeOK
<1>2. Known(bchunk) => Known(bchunk)'
  BY <1>1, KnownKeeps DEF Known
<1>3. SievedFrom(bchunk.start, bconsumed) => SievedFrom(bchunk.start, bconsumed)'
  BY DEF SievedFrom, Grows
<1> QED BY <1>2, <1>3 DEF LocalSieved, InitialRange

(* A step that books nothing keeps BooksSieved. *)
LEMMA KeepBooks ==
  ASSUME Grows, BooksSieved, UNCHANGED <<done, hw, saved>>
  PROVE  BooksSieved'
  BY DEF Grows, BooksSieved, SievedFrom

(* The pool is left alone. *)
LEMMA PoolStays ==
  ASSUME PP!IInv, UNCHANGED pool
  PROVE  PP!IInv' /\ PoolKeeps /\ UNCHANGED <<done, saved, inFlight, nextChunkId>>
  BY PoolStutters, PoolTypes DEF PoolKeeps, pool

(* The pool aside, a step of this kind keeps the invariant. *)
LEMMA Kept ==
  ASSUME SieveInv, TypeOK', PP!IInv', PoolKeeps, Grows, AssignsIdle', NoNewAssign, NoNewReport,
         NoNewSieving, NoNewInitial, UNCHANGED <<bpc, bchunk, bconsumed>>, UNCHANGED <<done, hw, saved>>
  PROVE  SieveInv'
  BY KeepAssigned, KeepInitial, KeepProgress, KeepReports, KeepLocal, KeepBooks DEF SieveInv

(* Where a sieved a-value is found. *)
LEMMA SievedHas ==
  /\ acc \subseteq Sieved /\ deferred \subseteq Sieved /\ lost \subseteq Sieved /\ Contents(channel) \subseteq Sieved
  /\ \A v \in Workers : Contents(ring[v]) \subseteq Sieved /\ Batched(toC[v]) \subseteq Sieved
  BY DEF Sieved, InTransit

(* The same in the next state. *)
LEMMA SievedHasNext ==
  /\ acc' \subseteq Sieved' /\ deferred' \subseteq Sieved' /\ lost' \subseteq Sieved' /\ Contents(channel') \subseteq Sieved'
  /\ \A v \in Workers : Contents(ring'[v]) \subseteq Sieved' /\ Batched(toC'[v]) \subseteq Sieved'
  BY DEF Sieved, InTransit

(* Relations do not disappear if each place's are found again. *)
LEMMA GrowsWhen ==
  ASSUME acc \subseteq Sieved', deferred \subseteq Sieved', lost \subseteq Sieved', Contents(channel) \subseteq Sieved',
         \A v \in Workers : Contents(ring[v]) \subseteq Sieved' /\ Batched(toC[v]) \subseteq Sieved'
  PROVE  Grows
<1> SUFFICES ASSUME NEW a \in Sieved PROVE a \in Sieved'
  BY DEF Grows
<1>1. \/ a \in acc \/ a \in deferred \/ a \in lost \/ a \in Contents(channel)
      \/ \E v \in Workers : a \in Contents(ring[v]) \/ a \in Batched(toC[v])
  BY DEF Sieved, InTransit
<1> QED BY <1>1

(* Nor if no place changes. *)
LEMMA GrowsStill == UNCHANGED <<acc, deferred, lost, channel, ring, toC>> => Grows
  BY DEF Grows, Sieved, InTransit

(* A frame is sent to the coordinator ... *)
Sends(w, m) ==
  /\ toC' \in [Workers -> Seq(Frame)] /\ toC'[w] = Append(toC[w], m)
  /\ \A v \in Workers : v # w => toC'[v] = toC[v]
  /\ \A v \in Workers : Batched(toC[v]) \subseteq Batched(toC'[v])
  /\ m.type = "batch" => m.data \subseteq Batched(toC'[w])
  /\ \A i \in DOMAIN toC'[w] : (i \in DOMAIN toC[w] /\ toC'[w][i] = toC[w][i]) \/ (i = Len(toC[w]) + 1 /\ toC'[w][i] = m)
  /\ AllBatches(toC[w]) /\ m.type = "batch" => AllBatches(toC'[w])
  /\ (AllBatches(toC[w]) \/ m.type # "complete") /\ BatchesFirst(toC[w]) => BatchesFirst(toC'[w])

(* What sending a frame does to the streams. *)
LEMMA FrameSent ==
  ASSUME TypeOK, NEW w \in Workers, NEW m \in Frame, toC' = [toC EXCEPT ![w] = Append(@, m)]
  PROVE  Sends(w, m)
<1>1. toC \in [Workers -> Seq(Frame)] /\ toC[w] \in Seq(Frame)
  BY DEF TypeOK
<1>2. /\ Append(toC[w], m) \in Seq(Frame) /\ DOMAIN toC[w] = 1 .. Len(toC[w]) /\ Len(toC[w]) \in Nat
      /\ DOMAIN Append(toC[w], m) = 1 .. Len(toC[w]) + 1
      /\ \A i \in DOMAIN toC[w] : Append(toC[w], m)[i] = toC[w][i]
      /\ Append(toC[w], m)[Len(toC[w]) + 1] = m
  BY <1>1, AppendAt
<1>3. toC'[w] = Append(toC[w], m) /\ toC' \in [Workers -> Seq(Frame)] /\ \A v \in Workers : v # w => toC'[v] = toC[v]
  BY <1>1, <1>2
<1>4. Batched(toC'[w]) = Batched(toC[w]) \cup (IF m.type = "batch" THEN m.data ELSE {})
  BY <1>1, <1>3, AppendBatched
<1>5. \A i \in DOMAIN toC'[w] : (i \in DOMAIN toC[w] /\ toC'[w][i] = toC[w][i]) \/ (i = Len(toC[w]) + 1 /\ toC'[w][i] = m)
  BY <1>2, <1>3
<1>6. /\ AllBatches(toC[w]) /\ m.type = "batch" => AllBatches(toC'[w])
      /\ (AllBatches(toC[w]) \/ m.type # "complete") /\ BatchesFirst(toC[w]) => BatchesFirst(toC'[w])
  BY <1>1, <1>3, ShapeAppend
<1> QED BY <1>3, <1>4, <1>5, <1>6 DEF Sends

(* ... and received by it. *)
Receives(w) ==
  /\ toC' \in [Workers -> Seq(Frame)] /\ Head(toC[w]) \in Frame
  /\ \A v \in Workers : v # w => toC'[v] = toC[v]
  /\ Batched(toC[w]) = (IF Head(toC[w]).type = "batch" THEN Head(toC[w]).data ELSE {}) \cup Batched(toC'[w])
  /\ \E j \in DOMAIN toC[w] : toC[w][j] = Head(toC[w])
  /\ \A i \in DOMAIN toC'[w] : i \in Nat /\ i + 1 \in DOMAIN toC[w] /\ toC'[w][i] = toC[w][i + 1]
  /\ 1 \in DOMAIN toC[w] /\ toC[w][1] = Head(toC[w])
  /\ AllBatches(toC[w]) => AllBatches(toC'[w])
  /\ BatchesFirst(toC[w]) => BatchesFirst(toC'[w])
  /\ BatchesFirst(toC[w]) /\ Head(toC[w]).type # "batch" => \A i \in DOMAIN toC'[w] : toC'[w][i].type # "complete"

(* What receiving one does to them. *)
LEMMA FrameReceived ==
  ASSUME TypeOK, NEW w \in Workers, toC[w] # <<>>, toC' = [toC EXCEPT ![w] = Tail(@)]
  PROVE  Receives(w)
<1>1. toC \in [Workers -> Seq(Frame)] /\ toC[w] \in Seq(Frame)
  BY DEF TypeOK
<1>2. /\ Tail(toC[w]) \in Seq(Frame) /\ Head(toC[w]) = toC[w][1] /\ toC[w][1] \in Frame
      /\ DOMAIN toC[w] = 1 .. Len(toC[w]) /\ Len(toC[w]) \in Nat \ {0}
      /\ DOMAIN Tail(toC[w]) = 1 .. Len(toC[w]) - 1
      /\ \A i \in 1 .. Len(toC[w]) - 1 : Tail(toC[w])[i] = toC[w][i + 1]
  BY <1>1, TailAt
<1>3. toC'[w] = Tail(toC[w]) /\ toC' \in [Workers -> Seq(Frame)] /\ \A v \in Workers : v # w => toC'[v] = toC[v]
  BY <1>1, <1>2
<1>4. Batched(toC[w]) = (IF Head(toC[w]).type = "batch" THEN Head(toC[w]).data ELSE {}) \cup Batched(toC'[w])
  BY <1>1, <1>3, TailBatched
<1>5. \A i \in 1 .. Len(toC[w]) - 1 : i \in Nat /\ i + 1 \in 1 .. Len(toC[w])
  BY <1>2
<1>6. 1 \in 1 .. Len(toC[w])
  BY <1>2
<1>7. /\ \E j \in DOMAIN toC[w] : toC[w][j] = Head(toC[w])
      /\ \A i \in DOMAIN toC'[w] : i \in Nat /\ i + 1 \in DOMAIN toC[w] /\ toC'[w][i] = toC[w][i + 1]
      /\ 1 \in DOMAIN toC[w] /\ toC[w][1] = Head(toC[w])
  BY <1>2, <1>3, <1>5, <1>6
<1>8. /\ AllBatches(toC[w]) => AllBatches(toC'[w])
      /\ BatchesFirst(toC[w]) => BatchesFirst(toC'[w])
      /\ BatchesFirst(toC[w]) /\ Head(toC[w]).type # "batch" => \A i \in DOMAIN toC'[w] : toC'[w][i].type # "complete"
  BY <1>1, <1>3, ShapeTail
<1> QED BY <1>2, <1>3, <1>4, <1>7, <1>8 DEF Receives

(* The same for the frames of the coordinator. *)
SendsControl(w, m) ==
  /\ toW' \in [Workers -> Seq(Control)]
  /\ \A v \in Workers : v # w => toW'[v] = toW[v]
  /\ \A i \in DOMAIN toW'[w] : (i \in DOMAIN toW[w] /\ toW'[w][i] = toW[w][i]) \/ (i = Len(toW[w]) + 1 /\ toW'[w][i] = m)

(* What sending a control frame does to the streams. *)
LEMMA ControlSent ==
  ASSUME TypeOK, NEW w \in Workers, NEW m \in Control, toW' = [toW EXCEPT ![w] = Append(@, m)]
  PROVE  SendsControl(w, m)
<1>1. toW \in [Workers -> Seq(Control)] /\ toW[w] \in Seq(Control)
  BY DEF TypeOK
<1>2. /\ Append(toW[w], m) \in Seq(Control) /\ DOMAIN toW[w] = 1 .. Len(toW[w]) /\ Len(toW[w]) \in Nat
      /\ DOMAIN Append(toW[w], m) = 1 .. Len(toW[w]) + 1
      /\ \A i \in DOMAIN toW[w] : Append(toW[w], m)[i] = toW[w][i]
      /\ Append(toW[w], m)[Len(toW[w]) + 1] = m
  BY <1>1, AppendAt
<1> QED BY <1>1, <1>2 DEF SendsControl

ReceivesControl(w) ==
  /\ toW' \in [Workers -> Seq(Control)] /\ Head(toW[w]) \in Control
  /\ \A v \in Workers : v # w => toW'[v] = toW[v]
  /\ 1 \in DOMAIN toW[w] /\ toW[w][1] = Head(toW[w])
  /\ \A i \in DOMAIN toW'[w] : i \in Nat \ {0} /\ i + 1 \in DOMAIN toW[w] /\ toW'[w][i] = toW[w][i + 1]

(* What receiving one does to them. *)
LEMMA ControlReceived ==
  ASSUME TypeOK, NEW w \in Workers, toW[w] # <<>>, toW' = [toW EXCEPT ![w] = Tail(@)]
  PROVE  ReceivesControl(w)
<1>1. toW \in [Workers -> Seq(Control)] /\ toW[w] \in Seq(Control)
  BY DEF TypeOK
<1>2. /\ Tail(toW[w]) \in Seq(Control) /\ Head(toW[w]) = toW[w][1] /\ toW[w][1] \in Control
      /\ DOMAIN toW[w] = 1 .. Len(toW[w]) /\ Len(toW[w]) \in Nat \ {0}
      /\ DOMAIN Tail(toW[w]) = 1 .. Len(toW[w]) - 1
      /\ \A i \in 1 .. Len(toW[w]) - 1 : Tail(toW[w])[i] = toW[w][i + 1]
  BY <1>1, TailAt
<1>3. /\ \A i \in 1 .. Len(toW[w]) - 1 : i \in Nat \ {0} /\ i + 1 \in 1 .. Len(toW[w])
      /\ 1 \in 1 .. Len(toW[w])
  BY <1>2
<1>4. toW'[w] = Tail(toW[w]) /\ toW' \in [Workers -> Seq(Control)] /\ \A v \in Workers : v # w => toW'[v] = toW[v]
  BY <1>1, <1>2
<1> QED BY <1>2, <1>3, <1>4 DEF ReceivesControl

-----------------------------------------------------------------------------
(* The worker's main thread.  It leaves the chunk loop. *)
LEMMA QuietInv ==
  ASSUME SieveInv, NEW w \in Workers, WorkerStopped(w) \/ WaitStopped(w) \/ HardCap(w)
  PROVE  SieveInv'
<1>1. /\ UNCHANGED <<pool, wchunk, consumed, pending, ring, toC, toW, threadA, threadB, lost>>
      /\ wpc' = [wpc EXCEPT ![w] = "shutdown"]
  BY DEF WorkerStopped, WaitStopped, HardCap
<1>2. budget' \in Budget
  BY Spends DEF WorkerStopped, WaitStopped, HardCap, SieveInv, TypeOK
<1>3. TypeOK'
  BY <1>1, <1>2 DEF SieveInv, TypeOK, threadA, threadB
<1>4. PP!IInv' /\ PoolKeeps /\ UNCHANGED <<done, saved>>
  BY <1>1, PoolStays DEF SieveInv
<1>5. Grows
  BY <1>1, GrowsStill DEF threadA, threadB
<1>6. AssignsIdle'
  BY <1>1 DEF SieveInv, AssignsIdle, threadA
<1>7. wpc \in [Workers -> {"sieve", "wait", "shutdown", "exited", "dead"}]
  BY DEF SieveInv, TypeOK
<1>8. NoNewAssign /\ NoNewReport /\ NoNewSieving /\ NoNewInitial
  BY <1>1, <1>7 DEF NoNewAssign, NoNewReport, NoNewSieving, NoNewInitial, threadA
<1> QED BY <1>1, <1>3, <1>4, <1>5, <1>6, <1>8, Kept DEF threadA, threadB

(* It sieves one a-value: its relations go to the ring, or are dropped. *)
LEMMA WorkerSieveGrows ==
  ASSUME SieveInv, NEW w \in Workers, WorkerSieve(w)
  PROVE  /\ Grows /\ wchunk[w].start + consumed[w] \in Sieved'
         /\ ring' \in [Workers -> Seq(Int)]
<1> DEFINE a == wchunk[w].start + consumed[w]
<1>1. /\ UNCHANGED <<acc, deferred, channel, toC>>
  BY DEF WorkerSieve, threadA, threadB
<1>2. ring \in [Workers -> Seq(Int)] /\ a \in Int
  BY ChunkTypes DEF SieveInv, TypeOK
<1>3. CASE ring' = [ring EXCEPT ![w] = Append(ring[w], a)] /\ lost' = lost
  <2>1. ring[w] \in Seq(Int) /\ ring'[w] = Append(ring[w], a) /\ \A v \in Workers \ {w} : ring'[v] = ring[v]
    BY <1>2, <1>3
  <2>2. Append(ring[w], a) \in Seq(Int) /\ Contents(Append(ring[w], a)) = Contents(ring[w]) \cup {a}
    BY <1>2, <2>1, AppendContents, AppendAt
  <2>3. \A v \in Workers : Contents(ring[v]) \subseteq Contents(ring'[v])
    BY <2>1, <2>2
  <2>4. ring' \in [Workers -> Seq(Int)]
    BY <1>2, <1>3, <2>2
  <2>5. a \in Sieved'
    <3>1. a \in Contents(ring'[w])
      BY <2>1, <2>2
    <3> QED BY <3>1, SievedHasNext
  <2>6. Grows
    BY <1>1, <1>3, <2>3, SievedHasNext, GrowsWhen
  <2> QED BY <2>4, <2>5, <2>6
<1>4. CASE ring' = ring /\ lost' = lost \cup {a}
  <2>1. a \in Sieved' /\ lost \subseteq Sieved'
    BY <1>4, SievedHasNext
  <2>2. Grows
    BY <1>1, <1>4, <2>1, SievedHasNext, GrowsWhen
  <2> QED BY <1>2, <1>4, <2>1, <2>2
<1> QED BY <1>3, <1>4 DEF WorkerSieve

(* The a-value counts as consumed, and its relations exist. *)
LEMMA WorkerSieveInv ==
  ASSUME SieveInv, NEW w \in Workers, WorkerSieve(w)
  PROVE  SieveInv'
<1>1. Grows /\ wchunk[w].start + consumed[w] \in Sieved' /\ ring' \in [Workers -> Seq(Int)]
  BY WorkerSieveGrows
<1>2. /\ UNCHANGED <<pool, wpc, wchunk, pending, toC, toW, threadA, threadB, budget>>
      /\ consumed' = [consumed EXCEPT ![w] = @ + 1] /\ wpc[w] = "sieve"
  BY DEF WorkerSieve
<1> USE DEF SieveInv
<1>3. consumed \in [Workers -> Nat] /\ wchunk[w].start \in Nat
  BY ChunkTypes DEF TypeOK
<1>4. TypeOK'
  BY <1>1, <1>2, <1>3 DEF TypeOK, threadA, threadB
<1>5. PP!IInv' /\ PoolKeeps /\ UNCHANGED <<done, saved, inFlight, nextChunkId>>
  BY <1>2, PoolStays
<1>6. AssignsIdle' /\ NoNewAssign /\ NoNewReport /\ NoNewInitial
  BY <1>2 DEF AssignsIdle, threadA, NoNewAssign, NoNewReport, NoNewInitial
<1>7. ProgressSieved'
  <2> SUFFICES ASSUME NEW v \in Workers, wpc[v] = "sieve"
               PROVE  /\ wchunk[v].start .. (wchunk[v].start + consumed'[v] - 1) \subseteq Sieved'
                      /\ current[v] # Initial => Known(wchunk[v])
    BY <1>2, <1>5 DEF ProgressSieved, SievedFrom, Known, threadA
  <2>1. /\ wchunk[v].start .. (wchunk[v].start + consumed[v] - 1) \subseteq Sieved'
        /\ current[v] # Initial => Known(wchunk[v])
    BY <1>1 DEF ProgressSieved, SievedFrom, Grows
  <2>2. CASE v = w
    <3>1. consumed'[v] = consumed[v] + 1 /\ consumed[v] \in Nat
      BY <1>2, <1>3, <2>2
    <3>2. \A x \in wchunk[v].start .. (wchunk[v].start + consumed'[v] - 1) :
            x \in wchunk[v].start .. (wchunk[v].start + consumed[v] - 1) \/ x = wchunk[v].start + consumed[v]
      BY <1>3, <2>2, <3>1
    <3> QED BY <1>1, <2>1, <2>2, <3>2
  <2>3. CASE v # w
    BY <1>2, <1>3, <2>1, <2>3
  <2> QED BY <2>2, <2>3
<1>8. AssignedKnown' /\ InitialFirst' /\ ReportsSieved'
  BY <1>1, <1>5, <1>6, KeepAssigned, KeepInitial, KeepReports
<1>9. LocalSieved' /\ BooksSieved'
  BY <1>1, <1>2, <1>5, KeepLocal, KeepBooks DEF threadA, threadB
<1> QED BY <1>4, <1>5, <1>6, <1>7, <1>8, <1>9

(* It reports the chunk: what it consumed is sieved. *)
LEMMA ChunkCompleteInv ==
  ASSUME SieveInv, NEW w \in Workers, ChunkComplete(w)
  PROVE  SieveInv'
<1> USE DEF SieveInv
<1> DEFINE m == [type |-> "complete", id |-> wchunk[w].id, consumed |-> consumed[w]]
<1>1. /\ UNCHANGED <<pool, wchunk, consumed, pending, stop, ring, toW, threadA, threadB, lost>>
      /\ wpc' = [wpc EXCEPT ![w] = "wait"] /\ wpc[w] = "sieve"
      /\ \/ toC' = [toC EXCEPT ![w] = Append(@, m)] /\ UNCHANGED budget
         \/ Spend("sendfail") /\ UNCHANGED toC
  BY DEF ChunkComplete
<1>2. budget' \in Budget
  BY <1>1, Spends DEF TypeOK
<1>3. m \in Frame /\ m.type = "complete" /\ m.id = wchunk[w].id /\ m.consumed = consumed[w] /\ wchunk[w].id \in Nat
  BY FrameMakes, ChunkTypes DEF TypeOK
<1> HIDE DEF m
<1>4. /\ toC' \in [Workers -> Seq(Frame)]
      /\ \A v \in Workers : v # w => toC'[v] = toC[v]
      /\ \A v \in Workers : Batched(toC[v]) \subseteq Batched(toC'[v])
      /\ \A i \in DOMAIN toC'[w] : (i \in DOMAIN toC[w] /\ toC'[w][i] = toC[w][i]) \/ toC'[w][i] = m
      /\ AllBatches(toC[w]) /\ BatchesFirst(toC[w]) => BatchesFirst(toC'[w])
  <2>1. CASE toC' = [toC EXCEPT ![w] = Append(@, m)]
    <3>1. Sends(w, m)
      BY <1>3, <2>1, FrameSent
    <3> QED BY <1>3, <3>1 DEF Sends
  <2>2. CASE UNCHANGED toC
    BY <2>2 DEF TypeOK
  <2> QED BY <1>1, <2>1, <2>2
<1>5. wpc \in [Workers -> {"sieve", "wait", "shutdown", "exited", "dead"}]
  BY DEF TypeOK
<1>6. TypeOK'
  BY <1>1, <1>2, <1>4, <1>5 DEF TypeOK, threadA, threadB
<1>7. PP!IInv' /\ PoolKeeps /\ UNCHANGED <<done, saved, inFlight, nextChunkId>>
  BY <1>1, PoolStays
<1>8. Grows
  BY <1>1, <1>4, SievedHasNext, GrowsWhen DEF threadA, threadB
<1>9. AssignsIdle' /\ NoNewAssign /\ NoNewSieving
  BY <1>1, <1>5 DEF AssignsIdle, NoNewAssign, NoNewSieving, threadA
<1>10. InitialFirst'
  <2>1. NoNewInitial
    <3> SUFFICES ASSUME NEW v \in Workers, current[v] = Initial, v = w
                 PROVE  BatchesFirst(toC[v]) => BatchesFirst(toC'[v])
      BY <1>1, <1>4, <1>5 DEF NoNewInitial, threadA
    <3> QED BY <1>1, <1>4 DEF InitialFirst
  <2> QED BY <2>1, KeepInitial
<1>11. ReportsSieved'
  <2> SUFFICES ASSUME NEW v \in Workers, NEW i \in DOMAIN toC'[v], toC'[v][i].type = "complete"
               PROVE  Report(v, toC[v][i])'
    BY DEF ReportsSieved
  <2>1. Report(v, toC'[v][i])
    <3>1. CASE v = w /\ toC'[v][i] = m
      <4>1. SievedFrom(wchunk[w].start, consumed[w]) /\ (current[w] # Initial => Known(wchunk[w]))
        BY <1>1 DEF ProgressSieved
      <4>2. CASE current[w] = Initial
        <5>1. wchunk[w].start = w * InitialCount
          BY <4>2, InitialChunk, WorkersAreNodes DEF InitialFirst
        <5> QED BY <1>3, <3>1, <4>1, <4>2, <5>1 DEF Report
      <4>3. CASE current[w] # Initial
        BY <1>3, <3>1, <4>1, <4>3 DEF Report, Known, Entry
      <4> QED BY <4>2, <4>3
    <3>2. CASE i \in DOMAIN toC[v] /\ toC'[v][i] = toC[v][i]
      BY <3>2 DEF ReportsSieved
    <3> QED BY <1>4, <3>1, <3>2
  <2>2. toC'[v][i].id \in Nat
    <3>1. toC'[v][i] \in Frame
      BY <1>4, ElementOfSeq, LenProperties
    <3> QED BY <3>1, FrameTypes
  <2>3. current' = current
    BY <1>1 DEF threadA
  <2> QED BY <1>7, <1>8, <2>1, <2>2, <2>3, ReportKeeps DEF Report, Entry, SievedFrom
<1>12. AssignedKnown' /\ ProgressSieved' /\ LocalSieved' /\ BooksSieved'
  BY <1>1, <1>7, <1>8, <1>9, KeepAssigned, KeepProgress, KeepLocal, KeepBooks DEF threadA, threadB
<1> QED BY <1>6, <1>7, <1>9, <1>10, <1>11, <1>12

(* It takes the chunk it has been assigned. *)
LEMMA TakeChunkAssignInv ==
  ASSUME SieveInv, NEW w \in Workers, TakeChunkAssign(w)
  PROVE  SieveInv'
<1> USE DEF SieveInv
<1> DEFINE k == CHOOSE c \in pending[w] : TRUE
<1>1. /\ UNCHANGED <<pool, ring, toC, toW, threadA, threadB, budget, lost>>
      /\ wchunk' = [wchunk EXCEPT ![w] = k] /\ pending' = [pending EXCEPT ![w] = {}]
      /\ consumed' = [consumed EXCEPT ![w] = 0] /\ wpc' = [wpc EXCEPT ![w] = "sieve"]
      /\ pending[w] # {}
  BY DEF TakeChunkAssign
<1>2. k \in pending[w]
  BY <1>1
<1> HIDE DEF k
<1>3. /\ wpc \in [Workers -> {"sieve", "wait", "shutdown", "exited", "dead"}]
      /\ wchunk \in [Workers -> Chunk] /\ consumed \in [Workers -> Nat]
      /\ pending \in [Workers -> SUBSET Chunk] /\ k \in Chunk /\ k.start \in Nat
  BY <1>2, ChunkTypes DEF TypeOK
<1>4. TypeOK'
  BY <1>1, <1>3 DEF TypeOK, threadA, threadB
<1>5. PP!IInv' /\ PoolKeeps /\ UNCHANGED <<done, saved, inFlight, nextChunkId>>
  BY <1>1, PoolStays
<1>6. Grows
  BY <1>1, GrowsStill DEF threadA, threadB
<1>7. current[w] # Initial
  BY <1>1 DEF InitialFirst
<1>8. AssignsIdle' /\ NoNewAssign /\ NoNewReport /\ NoNewInitial
  BY <1>1, <1>3, <1>7 DEF AssignsIdle, NoNewAssign, NoNewReport, NoNewInitial, threadA
<1>9. ProgressSieved'
  <2> SUFFICES ASSUME NEW v \in Workers, wpc'[v] = "sieve"
               PROVE  SievedFrom(wchunk[v].start, consumed[v])' /\ (current'[v] # Initial => Known(wchunk[v])')
    BY DEF ProgressSieved
  <2>1. CASE v = w
    <3>1. wchunk'[v] = k /\ consumed'[v] = 0
      BY <1>1, <1>3, <2>1
    <3>2. Known(k)
      BY <1>2 DEF AssignedKnown
    <3>3. k.start .. (k.start + 0 - 1) = {}
      BY <1>3
    <3> QED BY <1>5, <3>1, <3>2, <3>3 DEF SievedFrom, Known
  <2>2. CASE v # w
    <3>1. wpc[v] = "sieve" /\ wchunk'[v] = wchunk[v] /\ consumed'[v] = consumed[v] /\ current' = current
      BY <1>1, <1>3, <2>2 DEF threadA
    <3>2. SievedFrom(wchunk[v].start, consumed[v]) /\ (current[v] # Initial => Known(wchunk[v]))
      BY <3>1 DEF ProgressSieved
    <3> QED BY <1>5, <1>6, <3>1, <3>2 DEF SievedFrom, Known, Grows
  <2> QED BY <2>1, <2>2
<1>10. AssignedKnown' /\ InitialFirst' /\ ReportsSieved' /\ LocalSieved' /\ BooksSieved'
  BY <1>1, <1>5, <1>6, <1>8, KeepAssigned, KeepInitial, KeepReports, KeepLocal, KeepBooks DEF threadA, threadB
<1> QED BY <1>4, <1>5, <1>8, <1>9, <1>10

(* It asks for a chunk, or says goodbye. *)
LEMMA AskInv ==
  ASSUME SieveInv, NEW w \in Workers, ReRequest(w) \/ FlushAndExit(w)
  PROVE  SieveInv'
<1> USE DEF SieveInv
<1>1. PICK m \in Frame : toC' = [toC EXCEPT ![w] = Append(@, m)] /\ m.type \in {"request", "flush"}
  BY FrameMakes DEF ReRequest, FlushAndExit
<1>2. /\ UNCHANGED <<pool, wchunk, consumed, pending, ring, toW, threadA, threadB, lost>>
      /\ wpc' = [wpc EXCEPT ![w] = wpc'[w]] /\ wpc[w] # "sieve" /\ wpc'[w] \in {"wait", "exited"}
  BY DEF ReRequest, FlushAndExit, worker, TypeOK
<1>3. budget' \in Budget
  BY Spends DEF ReRequest, FlushAndExit, TypeOK
<1>4. Sends(w, m)
  BY <1>1, FrameSent
<1>5. wpc \in [Workers -> {"sieve", "wait", "shutdown", "exited", "dead"}]
  BY DEF TypeOK
<1>6. TypeOK'
  BY <1>2, <1>3, <1>4, <1>5 DEF TypeOK, threadA, threadB, Sends
<1>7. PP!IInv' /\ PoolKeeps /\ UNCHANGED <<done, saved, inFlight, nextChunkId>>
  BY <1>2, PoolStays
<1>8. Grows
  BY <1>2, <1>4, SievedHasNext, GrowsWhen DEF threadA, threadB, Sends
<1>9. AssignsIdle' /\ NoNewAssign /\ NoNewSieving
  BY <1>2, <1>5 DEF AssignsIdle, NoNewAssign, NoNewSieving, threadA
<1>10. NoNewReport
  BY <1>1, <1>2, <1>4 DEF NoNewReport, Sends, threadA
<1>11. NoNewInitial
  <2>1. BatchesFirst(toC[w]) => BatchesFirst(toC'[w])
    BY <1>1, <1>4 DEF Sends
  <2>2. \A v \in Workers : v # w => toC'[v] = toC[v] /\ wpc'[v] = wpc[v]
    BY <1>2, <1>4, <1>5 DEF Sends
  <2> QED BY <1>2, <2>1, <2>2 DEF NoNewInitial, threadA
<1> QED BY <1>2, <1>6, <1>7, <1>8, <1>9, <1>10, <1>11, Kept DEF threadA, threadB

(* It dies: what it held and what the kernel had not delivered is lost. *)
LEMMA CrashInv ==
  ASSUME SieveInv, NEW w \in Workers, Crash(w)
  PROVE  SieveInv'
<1> USE DEF SieveInv
<1>1. PICK k \in 0 .. Len(toC[w]) :
        /\ toC' = [toC EXCEPT ![w] = SubSeq(@, 1, k)]
        /\ lost' = lost \cup Contents(ring[w]) \cup Batched(SubSeq(toC[w], k + 1, Len(toC[w])))
  BY DEF Crash
<1>2. /\ UNCHANGED <<pool, wchunk, consumed, pending, threadA, threadB>>
      /\ wpc' = [wpc EXCEPT ![w] = "dead"] /\ ring' = [ring EXCEPT ![w] = <<>>] /\ toW' = [toW EXCEPT ![w] = <<>>]
  BY DEF Crash
<1>3. budget' \in Budget
  BY Spends DEF Crash, TypeOK
<1>4. /\ toC \in [Workers -> Seq(Frame)] /\ toC[w] \in Seq(Frame) /\ toW \in [Workers -> Seq(Control)]
      /\ ring \in [Workers -> Seq(Int)] /\ wpc \in [Workers -> {"sieve", "wait", "shutdown", "exited", "dead"}]
  BY DEF TypeOK
<1>5. /\ SubSeq(toC[w], 1, k) \in Seq(Frame) /\ DOMAIN SubSeq(toC[w], 1, k) \subseteq DOMAIN toC[w]
      /\ \A i \in DOMAIN SubSeq(toC[w], 1, k) : SubSeq(toC[w], 1, k)[i] = toC[w][i]
      /\ BatchesFirst(toC[w]) => BatchesFirst(SubSeq(toC[w], 1, k))
  BY <1>4, ShapeCut
<1>6. toC'[w] = SubSeq(toC[w], 1, k) /\ toC' \in [Workers -> Seq(Frame)] /\ \A v \in Workers : v # w => toC'[v] = toC[v]
  BY <1>1, <1>4, <1>5
<1>7. TypeOK'
  <2>1. toW' \in [Workers -> Seq(Control)] /\ ring' \in [Workers -> Seq(Int)]
    BY <1>2, <1>4
  <2> QED BY <1>2, <1>3, <1>4, <1>6, <2>1 DEF TypeOK, threadA, threadB
<1>8. PP!IInv' /\ PoolKeeps /\ UNCHANGED <<done, saved, inFlight, nextChunkId>>
  BY <1>2, PoolStays
<1>9. Grows
  <2>1. Batched(toC[w]) = Batched(toC'[w]) \cup Batched(SubSeq(toC[w], k + 1, Len(toC[w])))
    BY <1>4, <1>6, CutBatched
  <2>2. Batched(toC[w]) \subseteq Sieved' /\ Contents(ring[w]) \subseteq Sieved' /\ lost \subseteq Sieved'
    BY <1>1, <2>1, SievedHasNext
  <2>3. \A v \in Workers : v # w => Contents(ring'[v]) = Contents(ring[v]) /\ Batched(toC'[v]) = Batched(toC[v])
    BY <1>2, <1>4, <1>6
  <2>4. \A v \in Workers : Contents(ring[v]) \subseteq Sieved' /\ Batched(toC[v]) \subseteq Sieved'
    BY <2>2, <2>3, SievedHasNext
  <2>5. acc \subseteq Sieved' /\ deferred \subseteq Sieved' /\ Contents(channel) \subseteq Sieved'
    BY <1>2, SievedHasNext DEF threadA, threadB
  <2> QED BY <2>2, <2>4, <2>5, GrowsWhen
<1>10. AssignsIdle' /\ NoNewSieving
  BY <1>2, <1>4 DEF AssignsIdle, NoNewSieving, threadA
<1>11. NoNewAssign
  <2>1. \A v \in Workers : DOMAIN toW'[v] \subseteq DOMAIN toW[v] /\ \A i \in DOMAIN toW'[v] : toW'[v][i] = toW[v][i]
    BY <1>2, <1>4
  <2> QED BY <1>2, <2>1 DEF NoNewAssign
<1>12. NoNewReport
  <2>1. \A v \in Workers : DOMAIN toC'[v] \subseteq DOMAIN toC[v] /\ \A i \in DOMAIN toC'[v] : toC'[v][i] = toC[v][i]
    BY <1>5, <1>6
  <2> QED BY <1>2, <2>1 DEF NoNewReport, threadA
<1>13. NoNewInitial
  <2>1. \A v \in Workers : v # w => toC'[v] = toC[v] /\ wpc'[v] = wpc[v] /\ toW'[v] = toW[v]
    BY <1>2, <1>4, <1>6
  <2>2. wpc'[w] # "sieve" /\ DOMAIN toW'[w] = {}
    BY <1>2, <1>4
  <2> QED BY <1>2, <1>5, <1>6, <2>1, <2>2 DEF NoNewInitial, threadA
<1> QED BY <1>2, <1>7, <1>8, <1>9, <1>10, <1>11, <1>12, <1>13, Kept DEF threadA, threadB

-----------------------------------------------------------------------------
(* The worker's I/O thread: batches go from the ring to the stream, or are lost with a failed send. *)
LEMMA IoSendBatchInv ==
  ASSUME SieveInv, NEW w \in Workers, IoSendBatch(w)
  PROVE  SieveInv'
<1> USE DEF SieveInv
<1> DEFINE k == IF Len(ring[w]) < Coalesce THEN Len(ring[w]) ELSE Coalesce
           items == {ring[w][i] : i \in 1 .. k}
           m == [type |-> "batch", data |-> items]
<1>1. /\ UNCHANGED <<pool, wpc, wchunk, consumed, pending, toW, threadA, threadB>>
      /\ ring' = [ring EXCEPT ![w] = SubSeq(@, k + 1, Len(@))]
      /\ \/ toC' = [toC EXCEPT ![w] = Append(@, m)] /\ UNCHANGED <<budget, lost>>
         \/ Spend("sendfail") /\ lost' = lost \cup items /\ UNCHANGED toC
  BY DEF IoSendBatch
<1>2. ring \in [Workers -> Seq(Int)] /\ ring[w] \in Seq(Int) /\ Len(ring[w]) \in Nat
  BY DEF TypeOK
<1>3. k \in 0 .. Len(ring[w])
  BY <1>2, ClusterAssumption
<1>4. items \subseteq Int
  <2>1. \A i \in 1 .. Len(ring[w]) : ring[w][i] \in Int
    BY <1>2, ElementOfSeq
  <2> QED BY <1>2, <1>3, <2>1
<1> HIDE DEF k
<1>5. Contents(ring[w]) = items \cup Contents(SubSeq(ring[w], k + 1, Len(ring[w])))
  BY <1>2, <1>3, SuffixContents
<1>6. SubSeq(ring[w], k + 1, Len(ring[w])) \in Seq(Int)
  <2>1. k + 1 \in 1 .. Len(ring[w]) + 1 /\ Len(ring[w]) \in 0 .. Len(ring[w]) /\ k + 1 <= Len(ring[w]) + 1
    BY <1>2, <1>3
  <2> QED BY <1>2, <2>1, PartAt
<1>7. /\ ring' \in [Workers -> Seq(Int)] /\ ring'[w] = SubSeq(ring[w], k + 1, Len(ring[w]))
      /\ \A v \in Workers : v # w => ring'[v] = ring[v]
  BY <1>1, <1>2, <1>6
<1> HIDE DEF items
<1>8. m \in Frame /\ m.type = "batch" /\ m.data = items
  BY <1>4, FrameMakes
<1> HIDE DEF m
<1>9. budget' \in Budget
  BY <1>1, Spends DEF TypeOK
<1>10. /\ toC' \in [Workers -> Seq(Frame)] /\ items \subseteq Sieved' /\ lost \subseteq Sieved'
       /\ \A v \in Workers : v # w => toC'[v] = toC[v]
       /\ \A v \in Workers : Batched(toC[v]) \subseteq Batched(toC'[v])
       /\ \A i \in DOMAIN toC'[w] : (i \in DOMAIN toC[w] /\ toC'[w][i] = toC[w][i]) \/ toC'[w][i] = m
       /\ AllBatches(toC[w]) => AllBatches(toC'[w])
       /\ BatchesFirst(toC[w]) => BatchesFirst(toC'[w])
  <2>1. CASE toC' = [toC EXCEPT ![w] = Append(@, m)] /\ UNCHANGED lost
    <3>1. Sends(w, m)
      BY <1>8, <2>1, FrameSent
    <3> QED BY <1>8, <2>1, <3>1, SievedHasNext DEF Sends
  <2>2. CASE UNCHANGED toC /\ lost' = lost \cup items
    BY <2>2, SievedHasNext DEF TypeOK
  <2> QED BY <1>1, <2>1, <2>2
<1>11. TypeOK'
  BY <1>1, <1>7, <1>9, <1>10 DEF TypeOK, threadA, threadB
<1>12. PP!IInv' /\ PoolKeeps /\ UNCHANGED <<done, saved, inFlight, nextChunkId>>
  BY <1>1, PoolStays
<1>13. Grows
  <2>1. Contents(ring[w]) \subseteq Sieved'
    BY <1>5, <1>7, <1>10, SievedHasNext
  <2>2. \A v \in Workers : Contents(ring[v]) \subseteq Sieved' /\ Batched(toC[v]) \subseteq Sieved'
    BY <1>7, <1>10, <2>1, SievedHasNext
  <2>3. acc \subseteq Sieved' /\ deferred \subseteq Sieved' /\ Contents(channel) \subseteq Sieved'
    BY <1>1, SievedHasNext DEF threadA, threadB
  <2> QED BY <1>10, <2>2, <2>3, GrowsWhen
<1>14. AssignsIdle' /\ NoNewAssign /\ NoNewSieving
  BY <1>1 DEF AssignsIdle, NoNewAssign, NoNewSieving, threadA
<1>15. NoNewReport /\ NoNewInitial
  BY <1>1, <1>8, <1>10 DEF NoNewReport, NoNewInitial, threadA
<1> QED BY <1>1, <1>11, <1>12, <1>13, <1>14, <1>15, Kept DEF threadA, threadB

(* It takes a control frame: a CHUNK_ASSIGN overwrites the one that is waiting. *)
LEMMA IoRecvInv ==
  ASSUME SieveInv, NEW w \in Workers, IoRecv(w)
  PROVE  SieveInv'
<1> USE DEF SieveInv
<1> DEFINE m == Head(toW[w])
<1>1. /\ UNCHANGED <<pool, wpc, wchunk, consumed, ring, toC, threadA, threadB, budget, lost>>
      /\ \/ UNCHANGED pending
         \/ m.type = "assign" /\ pending' = [pending EXCEPT ![w] = {m.chunk}]
  BY DEF IoRecv
<1>2. ReceivesControl(w)
  BY ControlReceived DEF IoRecv
<1>3. /\ m \in Control /\ 1 \in DOMAIN toW[w] /\ toW[w][1] = m
      /\ m.type = "assign" => m.chunk \in Chunk
  BY <1>2, ControlTypes DEF ReceivesControl
<1> HIDE DEF m
<1>4. pending \in [Workers -> SUBSET Chunk]
  BY DEF TypeOK
<1>5. /\ pending' \in [Workers -> SUBSET Chunk]
      /\ \A v \in Workers : v # w => pending'[v] = pending[v]
      /\ pending'[w] = pending[w] \/ (m.type = "assign" /\ pending'[w] = {m.chunk})
  BY <1>1, <1>3, <1>4
<1>6. TypeOK'
  BY <1>1, <1>2, <1>5 DEF TypeOK, threadA, threadB, ReceivesControl
<1>7. PP!IInv' /\ PoolKeeps /\ UNCHANGED <<done, saved>>
  BY <1>1, PoolStays
<1>8. Grows
  BY <1>1, GrowsStill DEF threadA, threadB
<1>9. NoNewAssign
  <2> SUFFICES ASSUME NEW v \in Workers
               PROVE  /\ \A i \in DOMAIN toW'[v] : \E j \in DOMAIN toW[v] : toW[v][j] = toW'[v][i]
                      /\ \A k \in pending'[v] : \/ k \in pending[v]
                                                \/ \E j \in DOMAIN toW[v] : toW[v][j].type = "assign" /\ toW[v][j].chunk = k
    BY DEF NoNewAssign
  <2>1. CASE v = w
    BY <1>2, <1>3, <1>5, <2>1 DEF ReceivesControl
  <2>2. CASE v # w
    BY <1>2, <1>5, <2>2 DEF ReceivesControl
  <2> QED BY <2>1, <2>2
<1>10. AssignsIdle' /\ NoNewReport /\ NoNewSieving
  BY <1>1 DEF AssignsIdle, NoNewReport, NoNewSieving, threadA
<1>11. NoNewInitial
  <2> SUFFICES ASSUME NEW v \in Workers, current[v] = Initial
               PROVE  /\ pending'[v] \subseteq pending[v]
                      /\ \A i \in DOMAIN toW'[v] : toW'[v][i].type = "assign" => \E j \in DOMAIN toW[v] : toW[v][j].type = "assign"
    BY <1>1 DEF NoNewInitial, threadA
  <2>1. CASE v = w
    <3>1. m.type # "assign"
      BY <1>3, <2>1 DEF InitialFirst
    <3> QED BY <1>2, <1>5, <2>1, <3>1 DEF ReceivesControl
  <2>2. CASE v # w
    BY <1>2, <1>5, <2>2 DEF ReceivesControl
  <2> QED BY <2>1, <2>2
<1> QED BY <1>1, <1>6, <1>7, <1>8, <1>9, <1>10, <1>11, Kept DEF threadA, threadB

-----------------------------------------------------------------------------
(* Thread A.  Batches go from a stream or the channel to the deferred ones and into the accumulator. *)
LEMMA IngestInv ==
  ASSUME SieveInv, PollChannel \/ ProcessDeferred \/ AllSourcesDone
  PROVE  SieveInv'
<1> USE DEF SieveInv
<1>1. /\ UNCHANGED <<pool, worker, toC, toW, current, hw, bpc, bchunk, bconsumed, budget, lost>>
      /\ apc' = apc \/ apc'.at = "exit"
      /\ \/ acc' = acc \cup Contents(channel) /\ channel' = <<>> /\ deferred' = deferred
         \/ acc' = acc \cup deferred /\ channel' = channel
  BY DEF PollChannel, ProcessDeferred, AllSourcesDone, threadB
<1>2. channel' \in Seq(Int)
  <2>1. <<>> \in Seq(Int)
    OBVIOUS
  <2> QED BY <1>1, <2>1 DEF TypeOK
<1>3. apc'.at \in {"loop", "assign", "send", "straggler", "flush", "exit"}
      /\ (apc'.at \in {"assign", "send"} => apc' = apc)
  BY <1>1 DEF TypeOK
<1>4. TypeOK'
  BY <1>1, <1>2, <1>3 DEF TypeOK, worker
<1>5. PP!IInv' /\ PoolKeeps /\ UNCHANGED <<done, saved>>
  BY <1>1, PoolStays
<1>6. Grows
  <2>1. acc \subseteq Sieved' /\ Contents(channel) \subseteq Sieved' /\ deferred \subseteq Sieved'
    BY <1>1, SievedHasNext
  <2> QED BY <1>1, <2>1, SievedHasNext, GrowsWhen DEF worker
<1>7. AssignsIdle' /\ NoNewAssign /\ NoNewReport /\ NoNewSieving /\ NoNewInitial
  BY <1>1, <1>3 DEF AssignsIdle, NoNewAssign, NoNewReport, NoNewSieving, NoNewInitial, worker
<1> QED BY <1>1, <1>4, <1>5, <1>6, <1>7, Kept

(* A frame that Thread A books nothing for. *)
LEMMA RecvOtherInv ==
  ASSUME SieveInv, NEW w \in Workers, RecvIncrementalBatch(w) \/ RecvFlushAck(w) \/ FlushRecv(w)
  PROVE  SieveInv'
<1> USE DEF SieveInv
<1>1. /\ UNCHANGED <<pool, worker, toW, apc, current, hw, threadB, budget, lost>>
      /\ toC[w] # <<>> /\ toC' = [toC EXCEPT ![w] = Tail(@)]
      /\ acc \subseteq acc' /\ deferred \subseteq deferred'
      /\ Head(toC[w]).type = "batch" => Head(toC[w]).data \subseteq acc' \cup deferred'
  <2>1. CASE RecvIncrementalBatch(w)
    BY <2>1 DEF RecvIncrementalBatch, Receive
  <2>2. CASE RecvFlushAck(w)
    BY <2>2 DEF RecvFlushAck, Receive
  <2>3. CASE FlushRecv(w)
    BY <2>3 DEF FlushRecv, Receive
  <2> QED BY <2>1, <2>2, <2>3
<1>2. Receives(w)
  BY <1>1, FrameReceived
<1>3. TypeOK'
  BY <1>1, <1>2 DEF TypeOK, worker, threadB, Receives
<1>4. PP!IInv' /\ PoolKeeps /\ UNCHANGED <<done, saved>>
  BY <1>1, PoolStays
<1>5. Grows
  <2>1. Batched(toC[w]) \subseteq Sieved'
    BY <1>1, <1>2, SievedHasNext DEF Receives
  <2>2. \A v \in Workers : Contents(ring[v]) \subseteq Sieved' /\ Batched(toC[v]) \subseteq Sieved'
    BY <1>1, <1>2, <2>1, SievedHasNext DEF Receives, worker
  <2>3. acc \subseteq Sieved' /\ deferred \subseteq Sieved' /\ lost \subseteq Sieved' /\ Contents(channel) \subseteq Sieved'
    BY <1>1, SievedHasNext DEF threadB
  <2> QED BY <2>2, <2>3, GrowsWhen
<1>6. AssignsIdle' /\ NoNewAssign /\ NoNewSieving
  BY <1>1 DEF AssignsIdle, NoNewAssign, NoNewSieving, worker
<1>7. NoNewReport
  BY <1>1, <1>2 DEF NoNewReport, Receives
<1>8. NoNewInitial
  BY <1>1, <1>2 DEF NoNewInitial, Receives, worker
<1> QED BY <1>1, <1>3, <1>4, <1>5, <1>6, <1>7, <1>8, Kept DEF threadB

(* Thread A moves on, and may send frames that assign nothing. *)
LEMMA MoveOnInv ==
  ASSUME SieveInv,
         UNCHANGED <<pool, worker, toC, current, hw, acc, deferred, bpc, bchunk, bconsumed, channel, lost>>,
         budget' \in Budget, toW' \in [Workers -> Seq(Control)],
         apc'.at \in {"loop", "assign", "straggler", "flush", "exit"},
         apc'.at = "assign" => apc'.w \in Workers /\ apc'.then \in {"loop", "straggler"} /\ current[apc'.w] = Idle,
         \A v \in Workers : \A i \in DOMAIN toW'[v] :
           toW'[v][i].type = "assign" => \E j \in DOMAIN toW[v] : toW[v][j] = toW'[v][i]
  PROVE  SieveInv'
<1> USE DEF SieveInv
<1>1. TypeOK'
  BY DEF TypeOK, worker
<1>2. PP!IInv' /\ PoolKeeps /\ UNCHANGED <<done, saved>>
  BY PoolStays
<1>3. Grows
  BY GrowsStill DEF worker
<1>4. AssignsIdle' /\ NoNewAssign /\ NoNewReport /\ NoNewSieving /\ NoNewInitial
  BY DEF AssignsIdle, NoNewAssign, NoNewReport, NoNewSieving, NoNewInitial, worker
<1> QED BY <1>1, <1>2, <1>3, <1>4, Kept

(* The idle sweep turns to an idle worker. *)
LEMMA IdleSweepInv ==
  ASSUME SieveInv, NEW w \in Workers, IdleSweep(w)
  PROVE  SieveInv'
<1> USE DEF SieveInv
<1>1. /\ UNCHANGED <<pool, worker, toC, toW, current, hw, deferred, acc, threadB, budget, lost>>
      /\ apc' = [at |-> "assign", w |-> w, then |-> "loop"] /\ current[w] = Idle
  BY DEF IdleSweep
<1>2. apc'.at = "assign" /\ apc'.w = w /\ apc'.then = "loop"
  BY <1>1
<1>3. budget' \in Budget /\ toW' \in [Workers -> Seq(Control)]
  BY <1>1 DEF TypeOK
<1> QED BY <1>1, <1>2, <1>3, MoveOnInv DEF threadB

(* assignChunkTo returns without a chunk, the stragglers are checked, the flush ends. *)
LEMMA ThenInv ==
  ASSUME SieveInv, AssignNothing \/ StragglersChecked \/ FlushEnd
  PROVE  SieveInv'
<1> USE DEF SieveInv
<1>1. /\ UNCHANGED <<pool, worker, toC, toW, current, hw, deferred, acc, threadB, budget, lost>>
      /\ apc'.at \in {"loop", "straggler", "exit"}
  BY DEF AssignNothing, StragglersChecked, FlushEnd, Loop, TypeOK
<1>2. budget' \in Budget /\ toW' \in [Workers -> Seq(Control)]
  BY <1>1 DEF TypeOK
<1> QED BY <1>1, <1>2, MoveOnInv DEF threadB

(* A CHUNK_RECALL assigns nothing. *)
LEMMA RecallInv ==
  ASSUME SieveInv, RecallStraggler
  PROVE  SieveInv'
<1> USE DEF SieveInv
<1>1. PICK c \in inFlight :
        /\ c.worker_id \in Workers
        /\ toW' = IF Gone(c.worker_id) THEN toW
                  ELSE [toW EXCEPT ![c.worker_id] = Append(@, [type |-> "recall", id |-> c.chunk_id])]
  BY DEF RecallStraggler
<1>2. /\ UNCHANGED <<pool, worker, toC, threadA, threadB, lost>> /\ apc.at = "straggler"
  BY DEF RecallStraggler
<1>3. budget' \in Budget
  BY Spends DEF RecallStraggler, TypeOK
<1> DEFINE w == c.worker_id
           m == [type |-> "recall", id |-> c.chunk_id]
<1>4. m \in Control /\ m.type = "recall" /\ w \in Workers
  BY <1>1, PoolTypes, ControlMakes
<1>5. toW' = toW \/ toW' = [toW EXCEPT ![w] = Append(@, m)]
  BY <1>1
<1> HIDE DEF w, m
<1>6. /\ toW' \in [Workers -> Seq(Control)]
      /\ \A v \in Workers : \A i \in DOMAIN toW'[v] :
           toW'[v][i].type = "assign" => \E j \in DOMAIN toW[v] : toW[v][j] = toW'[v][i]
  <2>1. CASE toW' = toW
    BY <2>1 DEF TypeOK
  <2>2. CASE toW' = [toW EXCEPT ![w] = Append(@, m)]
    <3>1. SendsControl(w, m)
      BY <1>4, <2>2, ControlSent
    <3> QED BY <1>4, <3>1 DEF SendsControl
  <2> QED BY <1>5, <2>1, <2>2
<1>7. apc' = apc
  BY <1>2 DEF threadA
<1> QED BY <1>2, <1>3, <1>6, <1>7, MoveOnInv DEF threadA, threadB

(* A STOP assigns nothing. *)
LEMMA StopInv ==
  ASSUME SieveInv, StopEverybody
  PROVE  SieveInv'
<1> USE DEF SieveInv
<1> DEFINE m == [type |-> "stop"]
<1>1. /\ UNCHANGED <<pool, worker, toC, current, hw, deferred, acc, bpc, bchunk, bconsumed, channel, budget, lost>>
      /\ apc' = [at |-> IF allFlushed THEN "exit" ELSE "flush"]
      /\ toW' = [w \in Workers |-> IF alive[w] /\ ~Gone(w) THEN Append(toW[w], m) ELSE toW[w]]
  BY DEF StopEverybody
<1>2. m \in Control /\ m.type = "stop"
  BY ControlMakes
<1> HIDE DEF m
<1>3. apc'.at \in {"exit", "flush"}
  BY <1>1
<1>4. ASSUME NEW v \in Workers
      PROVE  /\ toW'[v] \in Seq(Control)
             /\ \A i \in DOMAIN toW'[v] : toW'[v][i].type = "assign" => \E j \in DOMAIN toW[v] : toW[v][j] = toW'[v][i]
  <2>1. toW[v] \in Seq(Control)
    BY DEF TypeOK
  <2>2. CASE toW'[v] = Append(toW[v], m)
    <3>1. /\ Append(toW[v], m) \in Seq(Control) /\ DOMAIN toW[v] = 1 .. Len(toW[v]) /\ Len(toW[v]) \in Nat
          /\ DOMAIN Append(toW[v], m) = 1 .. Len(toW[v]) + 1
          /\ \A i \in DOMAIN toW[v] : Append(toW[v], m)[i] = toW[v][i]
          /\ Append(toW[v], m)[Len(toW[v]) + 1] = m
      BY <1>2, <2>1, AppendAt
    <3>2. \A i \in DOMAIN toW'[v] : i \in DOMAIN toW[v] \/ i = Len(toW[v]) + 1
      BY <2>2, <3>1
    <3> QED BY <1>2, <2>2, <3>1, <3>2
  <2>3. CASE toW'[v] = toW[v]
    BY <2>1, <2>3
  <2>4. toW'[v] = Append(toW[v], m) \/ toW'[v] = toW[v]
    BY <1>1
  <2> QED BY <2>2, <2>3, <2>4
<1>5. toW' \in [Workers -> Seq(Control)]
  <2>1. toW' = [v \in Workers |-> toW'[v]]
    BY <1>1
  <2> QED BY <1>4, <2>1
<1>6. budget' \in Budget
  BY <1>1 DEF TypeOK
<1> QED BY <1>1, <1>3, <1>4, <1>5, <1>6, MoveOnInv

(* The checkpoint skips what is done, and what is done is sieved. *)
LEMMA WriteCheckpointInv ==
  ASSUME SieveInv, WriteCheckpoint
  PROVE  SieveInv'
<1> USE DEF SieveInv
<1>1. /\ UNCHANGED <<worker, toC, toW, threadA, threadB, lost>> /\ Pool!SaveCursor
  BY DEF WriteCheckpoint
<1>2. budget' \in Budget
  BY Spends DEF WriteCheckpoint, TypeOK
<1>3. /\ PP!IInv' /\ UNCHANGED <<nextChunkId, inFlight, done>>
      /\ PoolStart .. (saved'.cursor - 1) \subseteq done
  BY <1>1, PoolSave
<1>4. PoolKeeps
  BY <1>3, PoolTypes DEF PoolKeeps
<1>5. TypeOK'
  BY <1>1, <1>2 DEF TypeOK, worker, threadA, threadB
<1>6. Grows
  BY <1>1, GrowsStill DEF worker, threadA, threadB
<1>7. AssignsIdle' /\ NoNewAssign /\ NoNewReport /\ NoNewSieving /\ NoNewInitial
  BY <1>1 DEF AssignsIdle, NoNewAssign, NoNewReport, NoNewSieving, NoNewInitial, worker, threadA
<1>8. BooksSieved'
  BY <1>1, <1>3, <1>6 DEF BooksSieved, SievedFrom, Grows, threadA
<1> QED BY <1>1, <1>3, <1>4, <1>5, <1>6, <1>7, <1>8, KeepAssigned, KeepInitial, KeepProgress, KeepReports, KeepLocal
        DEF threadB

(* A tracker becomes idle.  If it said "initial", no report of that worker is left under way
   and the worker is not sieving, so nothing it reports or sieves is misread from now on. *)
LEMMA IdleKeeps ==
  ASSUME SieveInv, NEW w \in Workers, current' = [current EXCEPT ![w] = Idle], UNCHANGED <<worker, toW>>,
         PoolKeeps, Grows,
         \A v \in Workers : \A i \in DOMAIN toC'[v] : \E j \in DOMAIN toC[v] : toC[v][j] = toC'[v][i],
         \A v \in Workers \ {w} : toC'[v] = toC[v],
         current[w] = Initial => wpc[w] # "sieve" /\ \A i \in DOMAIN toC'[w] : toC'[w][i].type # "complete"
  PROVE  AssignedKnown' /\ InitialFirst' /\ ProgressSieved' /\ ReportsSieved' /\ current'[w] = Idle
<1> USE DEF SieveInv
<1>1. current \in [Workers -> {Idle, Initial} \cup Nat]
  BY DEF TypeOK
<1>2. Idle # Initial
  BY DEF Idle, Initial
<1>3. current'[w] = Idle /\ \A v \in Workers : v # w => current'[v] = current[v]
  BY <1>1
<1>4. AssignedKnown'
  <2>1. NoNewAssign
    BY DEF NoNewAssign, worker
  <2> QED BY <2>1, KeepAssigned
<1>5. InitialFirst'
  <2>1. NoNewInitial
    BY <1>2, <1>3 DEF NoNewInitial, worker
  <2> QED BY <2>1, KeepInitial
<1>6. ProgressSieved'
  <2>1. NoNewSieving
    BY <1>2, <1>3 DEF NoNewSieving, worker
  <2> QED BY <2>1, KeepProgress
<1>7. ReportsSieved'
  <2> SUFFICES ASSUME NEW v \in Workers, NEW i \in DOMAIN toC'[v], toC'[v][i].type = "complete"
               PROVE  Report(v, toC[v][i])'
    BY DEF ReportsSieved
  <2>1. current'[v] = Initial <=> current[v] = Initial
    BY <1>2, <1>3
  <2>2. PICK j \in DOMAIN toC[v] : toC[v][j] = toC'[v][i]
    OBVIOUS
  <2>3. toC[v][j] \in Frame
    BY ElementOfSeq, LenProperties DEF TypeOK
  <2>4. toC'[v][i].id \in Nat /\ Report(v, toC'[v][i])
    BY <2>2, <2>3, FrameTypes DEF ReportsSieved
  <2> QED BY <2>1, <2>4, ReportKeeps DEF Report, Entry, SievedFrom
<1> QED BY <1>3, <1>4, <1>5, <1>6, <1>7

(* Removing an entry issues no id. *)
LEMMA EntryGone ==
  ASSUME PP!IInv, NEW c, inFlight' = inFlight \ {c}, nextChunkId' = nextChunkId
  PROVE  PoolKeeps
  BY PoolTypes DEF PoolKeeps

(* A CHUNK_REQUEST: the tracked chunk, if any, is returned to the pool. *)
LEMMA RecvRequestInv ==
  ASSUME SieveInv, NEW w \in Workers, RecvChunkRequest(w)
  PROVE  SieveInv'
<1> USE DEF SieveInv
<1>1. /\ UNCHANGED <<worker, toW, hw, deferred, acc, threadB, budget, lost>>
      /\ toC[w] # <<>> /\ toC' = [toC EXCEPT ![w] = Tail(@)] /\ Head(toC[w]).type = "request"
      /\ current' = [current EXCEPT ![w] = Idle]
      /\ apc' = [at |-> "assign", w |-> w, then |-> "loop"]
  BY DEF RecvChunkRequest, Receive, ForgetTracked
<1>2. Receives(w)
  BY <1>1, FrameReceived
<1>3. PP!IInv' /\ PoolKeeps /\ UNCHANGED <<done, saved>>
  <2>1. CASE UNCHANGED pool
    BY <2>1, PoolStays
  <2>2. CASE \E c \in inFlight : Pool!returnChunk(c)
    BY <2>2, PoolReturn, EntryGone
  <2> QED BY <2>1, <2>2 DEF RecvChunkRequest, ForgetTracked, Entry
<1>4. apc'.at = "assign" /\ apc'.w = w /\ apc'.then = "loop"
  BY <1>1
<1>5. current \in [Workers -> {Idle, Initial} \cup Nat] /\ current' \in [Workers -> {Idle, Initial} \cup Nat]
  BY <1>1 DEF TypeOK
<1>6. TypeOK'
  BY <1>1, <1>2, <1>4, <1>5 DEF TypeOK, worker, threadB, Receives
<1>7. Grows
  <2>1. \A v \in Workers : Batched(toC[v]) = Batched(toC'[v])
    BY <1>1, <1>2 DEF Receives
  <2> QED BY <1>1, <2>1, SievedHasNext, GrowsWhen DEF worker, threadB
<1>8. current[w] = Initial => wpc[w] # "sieve" /\ \A i \in DOMAIN toC'[w] : toC'[w][i].type # "complete"
  BY <1>1, <1>2 DEF InitialFirst, Receives, AllBatches
<1>9. AssignedKnown' /\ InitialFirst' /\ ProgressSieved' /\ ReportsSieved' /\ current'[w] = Idle
  <2>1. \A v \in Workers : \A i \in DOMAIN toC'[v] : \E j \in DOMAIN toC[v] : toC[v][j] = toC'[v][i]
    BY <1>2 DEF Receives
  <2>2. \A v \in Workers \ {w} : toC'[v] = toC[v]
    BY <1>2 DEF Receives
  <2> QED BY <1>1, <1>3, <1>7, <1>8, <2>1, <2>2, IdleKeeps
<1>10. AssignsIdle'
  BY <1>4, <1>9 DEF AssignsIdle
<1>11. LocalSieved' /\ BooksSieved'
  BY <1>1, <1>3, <1>7, KeepLocal, KeepBooks DEF threadB
<1> QED BY <1>3, <1>6, <1>9, <1>10, <1>11

(* A CHUNK_COMPLETE: what it reports as consumed is booked, in the pool or as the high-water
   of the worker's initial range. *)
LEMMA RecvCompleteInv ==
  ASSUME SieveInv, NEW w \in Workers, RecvChunkComplete(w)
  PROVE  SieveInv'
<1> USE DEF SieveInv
<1> DEFINE m == Head(toC[w])
<1>1. /\ UNCHANGED <<worker, toW, deferred, acc, threadB, budget, lost>>
      /\ toC[w] # <<>> /\ toC' = [toC EXCEPT ![w] = Tail(@)] /\ m.type = "complete"
      /\ current' = [current EXCEPT ![w] = Idle]
      /\ apc' = [at |-> "assign", w |-> w, then |-> "straggler"]
      /\ \/ HoldsChunk(w, m.id) /\ \E c \in Entry(m.id) : Pool!reclaimPartial(c, m.consumed)
         \/ UNCHANGED pool
      /\ hw' = IF current[w] = Initial
               THEN [hw EXCEPT ![w] = IF m.consumed < InitialCount THEN m.consumed ELSE InitialCount]
               ELSE hw
  BY DEF RecvChunkComplete, Receive
<1>2. Receives(w)
  BY <1>1, FrameReceived
<1>3. m \in Frame /\ m.id \in Nat /\ m.consumed \in Nat /\ Report(w, m)
  BY <1>1, <1>2, FrameTypes DEF Receives, ReportsSieved
<1> HIDE DEF m
<1>4. Grows
  <2>1. \A v \in Workers : Batched(toC[v]) = Batched(toC'[v])
    BY <1>1, <1>2 DEF Receives, m
  <2> QED BY <1>1, <2>1, SievedHasNext, GrowsWhen DEF worker, threadB
<1>5. PP!IInv' /\ PoolKeeps /\ saved' = saved /\ done' \subseteq Sieved'
  <2>1. CASE UNCHANGED pool
    BY <1>4, <2>1, PoolStays DEF BooksSieved, Grows
  <2>2. CASE HoldsChunk(w, m.id) /\ \E c \in Entry(m.id) : Pool!reclaimPartial(c, m.consumed)
    <3>1. PICK c \in Entry(m.id) : Pool!reclaimPartial(c, m.consumed)
      BY <2>2
    <3>2. c \in inFlight
      BY DEF Entry
    <3>3. /\ PP!IInv' /\ inFlight' = inFlight \ {c} /\ UNCHANGED <<saved, nextChunkId>>
          /\ done' \subseteq done \cup c.unit.start .. (c.unit.start + m.consumed - 1)
      BY <1>3, <3>1, <3>2, PoolPartial
    <3>4. SievedFrom(c.unit.start, m.consumed)
      BY <1>3, <2>2 DEF Report, HoldsChunk, IsPoolChunk
    <3>5. done' \subseteq Sieved'
      BY <1>4, <3>3, <3>4 DEF BooksSieved, SievedFrom, Grows
    <3> QED BY <3>3, <3>5, EntryGone
  <2> QED BY <1>1, <2>1, <2>2
<1>6. apc'.at = "assign" /\ apc'.w = w /\ apc'.then = "straggler"
  BY <1>1
<1>7. current \in [Workers -> {Idle, Initial} \cup Nat] /\ current' \in [Workers -> {Idle, Initial} \cup Nat]
  BY <1>1 DEF TypeOK
<1>8. hw' \in [Nodes -> Nat] /\ \A n \in Nodes : n * InitialCount .. (n * InitialCount + hw'[n] - 1) \subseteq Sieved'
  <2>1. hw \in [Nodes -> Nat] /\ InitialCount \in Nat /\ w \in Nodes
    BY ClusterAssumption, WorkersAreNodes DEF TypeOK
  <2>2. \A n \in Nodes : n * InitialCount .. (n * InitialCount + hw[n] - 1) \subseteq Sieved'
    BY <1>4 DEF BooksSieved, SievedFrom, Grows
  <2>3. CASE current[w] = Initial
    <3> DEFINE h == IF m.consumed < InitialCount THEN m.consumed ELSE InitialCount
    <3>1. h \in Nat /\ h <= m.consumed
      BY <1>3, <2>1
    <3>2. hw' = [hw EXCEPT ![w] = h]
      BY <1>1, <2>3
    <3> HIDE DEF h
    <3>3. w * InitialCount .. (w * InitialCount + m.consumed - 1) \subseteq Sieved'
      BY <1>3, <1>4, <2>3 DEF Report, SievedFrom, Grows
    <3>4. w * InitialCount \in Nat
      BY <2>1, InitialChunk
    <3>5. w * InitialCount .. (w * InitialCount + h - 1) \subseteq w * InitialCount .. (w * InitialCount + m.consumed - 1)
      BY <1>3, <3>1, <3>4
    <3> QED BY <2>1, <2>2, <3>1, <3>2, <3>3, <3>5
  <2>4. CASE current[w] # Initial
    BY <1>1, <2>1, <2>2, <2>4
  <2> QED BY <2>3, <2>4
<1>9. TypeOK'
  BY <1>1, <1>2, <1>6, <1>7, <1>8 DEF TypeOK, worker, threadB, Receives
<1>10. current[w] = Initial => wpc[w] # "sieve" /\ \A i \in DOMAIN toC'[w] : toC'[w][i].type # "complete"
  BY <1>1, <1>2 DEF InitialFirst, Receives, AllBatches, m
<1>11. AssignedKnown' /\ InitialFirst' /\ ProgressSieved' /\ ReportsSieved' /\ current'[w] = Idle
  <2>1. \A v \in Workers : \A i \in DOMAIN toC'[v] : \E j \in DOMAIN toC[v] : toC[v][j] = toC'[v][i]
    BY <1>2 DEF Receives
  <2>2. \A v \in Workers \ {w} : toC'[v] = toC[v]
    BY <1>2 DEF Receives
  <2> QED BY <1>1, <1>4, <1>5, <1>10, <2>1, <2>2, IdleKeeps
<1>12. AssignsIdle'
  BY <1>6, <1>11 DEF AssignsIdle
<1>13. LocalSieved'
  BY <1>1, <1>4, <1>5, KeepLocal DEF threadB
<1>14. BooksSieved'
  BY <1>4, <1>5, <1>8 DEF BooksSieved, SievedFrom, Grows
<1> QED BY <1>5, <1>9, <1>11, <1>12, <1>13, <1>14

(* A worker is declared dead: all its chunks go back to the pool. *)
LEMMA TimeoutInv ==
  ASSUME SieveInv, NEW w \in Workers, HeartbeatTimeout(w)
  PROVE  SieveInv'
<1> USE DEF SieveInv
<1>1. /\ UNCHANGED <<worker, toC, toW, apc, hw, deferred, acc, threadB, budget, lost>>
      /\ apc = [at |-> "loop"] /\ Gone(w) /\ toC[w] = <<>> /\ current' = [current EXCEPT ![w] = Idle]
  BY DEF HeartbeatTimeout, Loop
<1>2. PP!IInv' /\ PoolKeeps /\ UNCHANGED <<done, saved>>
  <2>1. CASE UNCHANGED pool
    BY <2>1, PoolStays
  <2>2. CASE Pool!reclaimWork(w)
    BY <2>2, PoolReclaim, PoolTypes, WorkersAreNodes DEF PoolKeeps
  <2> QED BY <2>1, <2>2 DEF HeartbeatTimeout
<1>3. apc'.at = "loop"
  BY <1>1
<1>4. current \in [Workers -> {Idle, Initial} \cup Nat] /\ current' \in [Workers -> {Idle, Initial} \cup Nat]
  BY <1>1 DEF TypeOK
<1>5. TypeOK'
  BY <1>1, <1>3, <1>4 DEF TypeOK, worker, threadB
<1>6. Grows
  BY <1>1, GrowsStill DEF worker, threadB
<1>7. wpc[w] # "sieve" /\ \A i \in DOMAIN toC'[w] : toC'[w][i].type # "complete"
  BY <1>1 DEF Gone
<1>8. AssignedKnown' /\ InitialFirst' /\ ProgressSieved' /\ ReportsSieved' /\ current'[w] = Idle
  BY <1>1, <1>2, <1>6, <1>7, IdleKeeps
<1>9. AssignsIdle' /\ LocalSieved' /\ BooksSieved'
  BY <1>1, <1>2, <1>3, <1>6, KeepLocal, KeepBooks DEF AssignsIdle, threadB
<1> QED BY <1>2, <1>5, <1>8, <1>9

(* assignChunkTo.  A chunk is checked out under an id the pool has not issued before. *)
LEMMA FreshEntry ==
  ASSUME PP!IInv, NEW c, inFlight' = inFlight \cup {c}, c.chunk_id = nextChunkId, nextChunkId' = nextChunkId + 1
  PROVE  PoolKeeps
  BY PoolTypes DEF PoolKeeps

(* The checkout disturbs no chunk a worker knows. *)
LEMMA AssignCheckoutInv ==
  ASSUME SieveInv, AssignCheckout
  PROVE  SieveInv'
<1> USE DEF SieveInv
<1>1. /\ UNCHANGED <<worker, toC, toW, current, hw, deferred, acc, threadB, budget, lost>>
      /\ apc.at = "assign" /\ current[apc.w] = Idle
      /\ apc' = [at |-> "send", w |-> apc.w, id |-> nextChunkId, then |-> apc.then]
  BY DEF AssignCheckout
<1>2. PICK n \in ChunkSizes : Pool!checkoutWork(n, apc.w)
  BY DEF AssignCheckout
<1>3. apc.w \in Workers /\ apc.then \in {"loop", "straggler"} /\ apc.w \in Nodes
  BY <1>1, WorkersAreNodes DEF TypeOK
<1>4. PP!IInv' /\ PoolKeeps /\ UNCHANGED <<done, saved>>
  BY <1>2, <1>3, PoolCheckout, FreshEntry
<1>5. apc'.at = "send" /\ apc'.w = apc.w /\ apc'.then = apc.then
  BY <1>1
<1>6. TypeOK'
  BY <1>1, <1>3, <1>5 DEF TypeOK, worker, threadB
<1>7. Grows
  BY <1>1, GrowsStill DEF worker, threadB
<1>8. AssignsIdle' /\ NoNewAssign /\ NoNewReport /\ NoNewSieving /\ NoNewInitial
  BY <1>1, <1>5 DEF AssignsIdle, NoNewAssign, NoNewReport, NoNewSieving, NoNewInitial, worker
<1> QED BY <1>1, <1>4, <1>6, <1>7, <1>8, Kept DEF threadB

(* The chunk sent is the one in flight under that id. *)
LEMMA AssignSentInv ==
  ASSUME SieveInv, AssignSent
  PROVE  SieveInv'
<1> USE DEF SieveInv
<1>1. PICK c \in Entry(apc.id) :
        toW' = IF Gone(apc.w) THEN toW
               ELSE [toW EXCEPT ![apc.w] =
                       Append(@, [type |-> "assign",
                                  chunk |-> [id |-> c.chunk_id, start |-> c.unit.start, count |-> c.unit.count]])]
  BY DEF AssignSent
<1>2. /\ UNCHANGED <<pool, worker, toC, hw, deferred, acc, threadB, budget, lost>>
      /\ apc.at = "send" /\ current' = [current EXCEPT ![apc.w] = apc.id] /\ apc' = [at |-> apc.then]
  BY DEF AssignSent
<1> DEFINE k == [id |-> c.chunk_id, start |-> c.unit.start, count |-> c.unit.count]
           m == [type |-> "assign", chunk |-> k]
           w == apc.w
<1>3. /\ c \in inFlight /\ c.chunk_id = apc.id /\ apc.id \in Nat /\ c.unit.start \in Nat /\ c.unit.count \in Nat
      /\ c.chunk_id < nextChunkId /\ \A d \in inFlight : d.chunk_id = c.chunk_id => d = c
  BY PoolTypes DEF Entry
<1>4. k \in Chunk /\ k.id = c.chunk_id /\ k.start = c.unit.start
  BY <1>3, ChunkTypes
<1>5. toW' = toW \/ toW' = [toW EXCEPT ![w] = Append(@, m)]
  BY <1>1
<1> HIDE DEF k
<1>6. m \in Control /\ m.chunk = k
  BY <1>4, ControlMakes
<1>7. Known(k)
  BY <1>3, <1>4 DEF Known
<1>8. w \in Workers /\ apc'.at \in {"loop", "straggler"} /\ current[w] = Idle
  BY <1>2 DEF TypeOK, AssignsIdle
<1> HIDE DEF m, w
<1>9. Idle # Initial /\ apc.id # Initial
  BY <1>3 DEF Idle, Initial
<1>10. /\ current \in [Workers -> {Idle, Initial} \cup Nat] /\ current' \in [Workers -> {Idle, Initial} \cup Nat]
       /\ \A v \in Workers : current'[v] = Initial <=> current[v] = Initial
  <2>1. current \in [Workers -> {Idle, Initial} \cup Nat]
    BY DEF TypeOK
  <2>2. current' = [current EXCEPT ![w] = apc.id]
    BY <1>2 DEF w
  <2> QED BY <1>3, <1>8, <1>9, <2>1, <2>2
<1>11. /\ toW' \in [Workers -> Seq(Control)]
       /\ \A v \in Workers : v # w => toW'[v] = toW[v]
       /\ \A i \in DOMAIN toW'[w] : (i \in DOMAIN toW[w] /\ toW'[w][i] = toW[w][i]) \/ toW'[w][i] = m
  <2>1. CASE toW' = toW
    BY <2>1 DEF TypeOK
  <2>2. CASE toW' = [toW EXCEPT ![w] = Append(@, m)]
    <3>1. SendsControl(w, m)
      BY <1>6, <1>8, <2>2, ControlSent
    <3> QED BY <3>1 DEF SendsControl
  <2> QED BY <1>5, <2>1, <2>2
<1>12. TypeOK'
  BY <1>2, <1>8, <1>10, <1>11 DEF TypeOK, worker, threadB
<1>13. PP!IInv' /\ PoolKeeps /\ UNCHANGED <<done, saved, inFlight, nextChunkId>>
  BY <1>2, PoolStays
<1>14. Grows
  BY <1>2, GrowsStill DEF worker, threadB
<1>15. AssignedKnown'
  <2>1. \A v \in Workers : \A i \in DOMAIN toW'[v] : toW'[v][i].type = "assign" => Known(toW'[v][i].chunk)
    BY <1>6, <1>7, <1>11 DEF AssignedKnown
  <2> QED BY <1>2, <1>13, <2>1 DEF AssignedKnown, Known, worker
<1>16. AssignsIdle' /\ NoNewReport /\ NoNewSieving
  BY <1>2, <1>8, <1>10 DEF AssignsIdle, NoNewReport, NoNewSieving, worker
<1>17. NoNewInitial
  BY <1>2, <1>8, <1>9, <1>10, <1>11 DEF NoNewInitial, worker
<1>18. InitialFirst' /\ ProgressSieved' /\ ReportsSieved' /\ LocalSieved' /\ BooksSieved'
  BY <1>2, <1>13, <1>14, <1>16, <1>17, KeepInitial, KeepProgress, KeepReports, KeepLocal, KeepBooks DEF threadB
<1> QED BY <1>12, <1>13, <1>15, <1>16, <1>18

(* The send fails and the chunk goes back. *)
LEMMA AssignSendFailedInv ==
  ASSUME SieveInv, AssignSendFailed
  PROVE  SieveInv'
<1> USE DEF SieveInv
<1>1. /\ UNCHANGED <<worker, toC, toW, current, hw, deferred, acc, threadB, lost>>
      /\ apc.at = "send" /\ apc' = [at |-> apc.then]
      /\ \E c \in Entry(apc.id) : Pool!returnChunk(c)
  BY DEF AssignSendFailed, GiveBack
<1>2. budget' \in Budget
  BY Spends DEF AssignSendFailed, TypeOK
<1>3. PP!IInv' /\ PoolKeeps /\ UNCHANGED <<done, saved>>
  BY <1>1, PoolReturn, EntryGone DEF Entry
<1>4. apc'.at \in {"loop", "straggler"}
  BY <1>1 DEF TypeOK
<1>5. TypeOK'
  BY <1>1, <1>2, <1>4 DEF TypeOK, worker, threadB
<1>6. Grows
  BY <1>1, GrowsStill DEF worker, threadB
<1>7. AssignsIdle' /\ NoNewAssign /\ NoNewReport /\ NoNewSieving /\ NoNewInitial
  BY <1>1, <1>4 DEF AssignsIdle, NoNewAssign, NoNewReport, NoNewSieving, NoNewInitial, worker
<1> QED BY <1>1, <1>3, <1>5, <1>6, <1>7, Kept DEF threadB

-----------------------------------------------------------------------------
(* Thread B leaves the workers, their connections and trackers alone. *)
LEMMA LocalKeeps ==
  ASSUME SieveInv, UNCHANGED <<worker, toC, toW, apc, current>>, PoolKeeps, Grows
  PROVE  AssignsIdle' /\ AssignedKnown' /\ InitialFirst' /\ ProgressSieved' /\ ReportsSieved'
<1> USE DEF SieveInv
<1>1. AssignsIdle' /\ NoNewAssign /\ NoNewReport /\ NoNewSieving /\ NoNewInitial
  BY DEF AssignsIdle, NoNewAssign, NoNewReport, NoNewSieving, NoNewInitial, worker
<1> QED BY <1>1, KeepAssigned, KeepInitial, KeepProgress, KeepReports

(* One a-value: its relations go to the channel, and the oldest ones may be dropped. *)
LEMMA LocalSieveInv ==
  ASSUME SieveInv, LocalSieve
  PROVE  SieveInv'
<1> USE DEF SieveInv
<1> DEFINE a == bchunk.start + bconsumed
<1>1. /\ UNCHANGED <<pool, worker, toC, toW, threadA, bpc, bchunk, budget>>
      /\ bpc \in {"initial", "chunk"} /\ bconsumed' = bconsumed + 1
      /\ \/ channel' = Append(channel, a) /\ lost' = lost
         \/ /\ Len(channel) = ChannelCap
            /\ channel' = Append(Tail(channel), a) /\ lost' = lost \cup {Head(channel)}
  BY DEF LocalSieve, Sieving
<1>2. a \in Int /\ channel \in Seq(Int) /\ bconsumed \in Nat /\ bchunk.start \in Nat
  BY ChunkTypes DEF TypeOK
<1> HIDE DEF a
<1>3. /\ channel' \in Seq(Int) /\ a \in Contents(channel') /\ lost \subseteq lost'
      /\ Contents(channel) \subseteq Contents(channel') \cup lost'
  <2>1. CASE channel' = Append(channel, a) /\ lost' = lost
    BY <1>2, <2>1, AppendAt, AppendContents
  <2>2. CASE /\ Len(channel) = ChannelCap
             /\ channel' = Append(Tail(channel), a) /\ lost' = lost \cup {Head(channel)}
    <3>1. channel # <<>>
      BY <1>2, <2>2, ClusterAssumption
    <3>2. Tail(channel) \in Seq(Int) /\ Contents(channel) = {Head(channel)} \cup Contents(Tail(channel))
      BY <1>2, <3>1, TailAt, TailContents
    <3> DEFINE t == Tail(channel)
    <3> HIDE DEF t
    <3>3. Append(t, a) \in Seq(Int) /\ Contents(Append(t, a)) = Contents(t) \cup {a}
      <4>1. t \in Seq(Int)
        BY <3>2 DEF t
      <4>2. Append(t, a) \in Seq(Int)
        BY <1>2, <4>1, AppendAt
      <4> QED BY <1>2, <4>1, <4>2, AppendContents
    <3> QED BY <2>2, <3>2, <3>3 DEF t
  <2> QED BY <1>1, <2>1, <2>2
<1>4. Grows /\ a \in Sieved'
  <2>1. a \in Sieved' /\ lost \subseteq Sieved' /\ Contents(channel) \subseteq Sieved'
    BY <1>3, SievedHasNext
  <2> QED BY <1>1, <2>1, SievedHasNext, GrowsWhen DEF worker, threadA
<1>5. PP!IInv' /\ PoolKeeps /\ UNCHANGED <<done, saved, inFlight, nextChunkId>>
  BY <1>1, PoolStays
<1>6. TypeOK'
  BY <1>1, <1>2, <1>3 DEF TypeOK, worker, threadA
<1>7. AssignsIdle' /\ AssignedKnown' /\ InitialFirst' /\ ProgressSieved' /\ ReportsSieved'
  BY <1>1, <1>4, <1>5, LocalKeeps DEF threadA
<1>8. LocalSieved'
  <2>1. bchunk.start .. (bchunk.start + bconsumed - 1) \subseteq Sieved'
    BY <1>1, <1>4 DEF LocalSieved, SievedFrom, Grows
  <2>2. \A x \in bchunk.start .. (bchunk.start + bconsumed' - 1) :
          x \in bchunk.start .. (bchunk.start + bconsumed - 1) \/ x = a
    BY <1>1, <1>2 DEF a
  <2>3. SievedFrom(bchunk.start, bconsumed)'
    BY <1>1, <1>4, <2>1, <2>2 DEF SievedFrom
  <2> QED BY <1>1, <1>5, <2>3 DEF LocalSieved, Known, InitialRange
<1>9. BooksSieved'
  BY <1>1, <1>4, <1>5, KeepBooks DEF threadA
<1> QED BY <1>5, <1>6, <1>7, <1>8, <1>9

(* Thread B moves on. *)
LEMMA LocalMoveInv ==
  ASSUME SieveInv, LocalSieveEnd \/ LocalTest \/ LocalAwait
  PROVE  SieveInv'
<1> USE DEF SieveInv
<1>1. /\ UNCHANGED <<pool, worker, toC, toW, threadA, bchunk, bconsumed, channel, budget, lost>>
      /\ \/ bpc = "initial" /\ bpc' = "recordInitial"
         \/ bpc = "chunk" /\ bpc' = "recordChunk"
         \/ bpc' \in {"await", "checkout", "done"}
  BY DEF LocalSieveEnd, LocalTest, LocalAwait, Sieving
<1>2. PP!IInv' /\ PoolKeeps /\ UNCHANGED <<done, saved, inFlight, nextChunkId>>
  BY <1>1, PoolStays
<1>3. Grows
  BY <1>1, GrowsStill DEF worker, threadA
<1>4. TypeOK'
  BY <1>1 DEF TypeOK, worker, threadA
<1>5. AssignsIdle' /\ AssignedKnown' /\ InitialFirst' /\ ProgressSieved' /\ ReportsSieved'
  BY <1>1, <1>2, <1>3, LocalKeeps DEF threadA
<1>6. LocalSieved'
  <2>1. SievedFrom(bchunk.start, bconsumed) => SievedFrom(bchunk.start, bconsumed)'
    BY <1>1, <1>3 DEF SievedFrom, Grows
  <2>2. Known(bchunk) => Known(bchunk)'
    BY <1>1, <1>2 DEF Known
  <2> QED BY <1>1, <2>1, <2>2 DEF LocalSieved, InitialRange
<1>7. BooksSieved'
  BY <1>1, <1>2, <1>3, KeepBooks DEF threadA
<1> QED BY <1>2, <1>4, <1>5, <1>6, <1>7

(* It books its initial range, or its chunk of the pool. *)
LEMMA LocalBookInv ==
  ASSUME SieveInv, LocalInitialDone \/ LocalChunkDone
  PROVE  SieveInv'
<1> USE DEF SieveInv
<1>1. /\ UNCHANGED <<worker, toC, toW, apc, current, deferred, acc, bchunk, bconsumed, channel, budget, lost>>
      /\ bpc' = "test" /\ bpc \in {"recordInitial", "recordChunk"}
      /\ \/ bpc = "recordInitial" /\ hw' = [hw EXCEPT ![0] = bconsumed] /\ UNCHANGED pool
         \/ bpc = "recordChunk" /\ hw' = hw /\ \E c \in Entry(bchunk.id) : Pool!reclaimPartial(c, bconsumed)
  BY DEF LocalInitialDone, LocalChunkDone, threadA
<1>2. bconsumed \in Nat /\ hw \in [Nodes -> Nat] /\ SievedFrom(bchunk.start, bconsumed)
  BY <1>1 DEF TypeOK, LocalSieved
<1>3. Grows
  BY <1>1, GrowsStill DEF worker
<1>4. PP!IInv' /\ PoolKeeps /\ saved' = saved /\ done' \subseteq Sieved'
  <2>1. CASE UNCHANGED pool
    BY <1>3, <2>1, PoolStays DEF BooksSieved, Grows
  <2>2. CASE bpc = "recordChunk" /\ \E c \in Entry(bchunk.id) : Pool!reclaimPartial(c, bconsumed)
    <3>1. PICK c \in Entry(bchunk.id) : Pool!reclaimPartial(c, bconsumed)
      BY <2>2
    <3>2. c \in inFlight /\ c.unit.start = bchunk.start
      BY <2>2 DEF Entry, LocalSieved, Known
    <3>3. /\ PP!IInv' /\ inFlight' = inFlight \ {c} /\ UNCHANGED <<saved, nextChunkId>>
          /\ done' \subseteq done \cup c.unit.start .. (c.unit.start + bconsumed - 1)
      BY <1>2, <3>1, <3>2, PoolPartial
    <3>4. done' \subseteq Sieved'
      BY <1>2, <1>3, <3>2, <3>3 DEF BooksSieved, SievedFrom, Grows
    <3> QED BY <3>3, <3>4, EntryGone
  <2> QED BY <1>1, <2>1, <2>2
<1>5. hw' \in [Nodes -> Nat] /\ \A n \in Nodes : n * InitialCount .. (n * InitialCount + hw'[n] - 1) \subseteq Sieved'
  <2>1. \A n \in Nodes : n * InitialCount .. (n * InitialCount + hw[n] - 1) \subseteq Sieved'
    BY <1>3 DEF BooksSieved, SievedFrom, Grows
  <2>2. CASE bpc = "recordInitial" /\ hw' = [hw EXCEPT ![0] = bconsumed]
    <3>1. bchunk.start = 0 * InitialCount /\ 0 \in Nodes
      BY <2>2, InitialChunk, WorkersAreNodes DEF LocalSieved
    <3>2. 0 * InitialCount .. (0 * InitialCount + bconsumed - 1) \subseteq Sieved'
      BY <1>2, <1>3, <3>1 DEF SievedFrom, Grows
    <3> QED BY <1>2, <2>1, <2>2, <3>1, <3>2
  <2>3. CASE hw' = hw
    BY <1>2, <2>1, <2>3
  <2> QED BY <1>1, <2>2, <2>3
<1>6. TypeOK'
  BY <1>1, <1>5 DEF TypeOK, worker
<1>7. AssignsIdle' /\ AssignedKnown' /\ InitialFirst' /\ ProgressSieved' /\ ReportsSieved'
  BY <1>1, <1>3, <1>4, LocalKeeps
<1>8. LocalSieved'
  BY <1>1 DEF LocalSieved
<1>9. BooksSieved'
  BY <1>3, <1>4, <1>5 DEF BooksSieved, SievedFrom, Grows
<1> QED BY <1>4, <1>6, <1>7, <1>8, <1>9

(* It checks a chunk out for itself. *)
LEMMA LocalCheckoutInv ==
  ASSUME SieveInv, LocalCheckout
  PROVE  SieveInv'
<1> USE DEF SieveInv
<1>1. UNCHANGED <<worker, toC, toW, threadA, channel, budget, lost>>
  BY DEF LocalCheckout
<1>2. Grows
  BY <1>1, GrowsStill DEF worker, threadA
<1>3. CASE bpc' = "await" /\ UNCHANGED <<pool, bchunk, bconsumed>>
  <2>1. PP!IInv' /\ PoolKeeps /\ UNCHANGED <<done, saved, inFlight, nextChunkId>>
    BY <1>3, PoolStays
  <2>2. TypeOK'
    BY <1>1, <1>3 DEF TypeOK, worker, threadA
  <2>3. AssignsIdle' /\ AssignedKnown' /\ InitialFirst' /\ ProgressSieved' /\ ReportsSieved'
    BY <1>1, <1>2, <2>1, LocalKeeps DEF threadA
  <2>4. LocalSieved' /\ BooksSieved'
    BY <1>1, <1>2, <1>3, <2>1, KeepBooks DEF LocalSieved, threadA
  <2> QED BY <2>1, <2>2, <2>3, <2>4
<1>4. CASE \E n \in ChunkSizes :
             /\ Pool!checkoutWork(n, 0)
             /\ \E c \in inFlight' \ inFlight :
                  bchunk' = [id |-> c.chunk_id, start |-> c.unit.start, count |-> c.unit.count]
             /\ bconsumed' = 0
             /\ bpc' = "chunk"
  <2>1. PICK n \in ChunkSizes : Pool!checkoutWork(n, 0)
    BY <1>4
  <2>2. /\ PP!IInv' /\ UNCHANGED <<done, saved>> /\ nextChunkId' = nextChunkId + 1
        /\ \E c : inFlight' = inFlight \cup {c} /\ c.chunk_id = nextChunkId /\ c.worker_id = 0
    BY <2>1, PoolCheckout, WorkersAreNodes
  <2>3. PoolKeeps
    BY <2>2, FreshEntry
  <2>4. PICK c \in inFlight' : bchunk' = [id |-> c.chunk_id, start |-> c.unit.start, count |-> c.unit.count]
    BY <1>4
  <2>5. /\ c.chunk_id \in Nat /\ c.unit.start \in Nat /\ c.unit.count \in Nat /\ c.chunk_id < nextChunkId'
        /\ \A d \in inFlight' : c.chunk_id = d.chunk_id => c = d
    <3>1. /\ nextChunkId' \in Nat /\ saved'.cursor \in Int
          /\ \A d \in inFlight' : /\ d.chunk_id \in Nat /\ d.chunk_id < nextChunkId'
                                  /\ d.unit.start \in Nat /\ d.unit.count \in Nat /\ d.worker_id \in Nodes
          /\ \A d, e \in inFlight' : d.chunk_id = e.chunk_id => d = e
      BY <2>2, PoolTypesNext
    <3> QED BY <3>1
  <2>6. bchunk' \in Chunk /\ bchunk'.id = c.chunk_id /\ bchunk'.start = c.unit.start
    BY <2>4, <2>5, ChunkTypes
  <2>7. TypeOK'
    BY <1>1, <1>4, <2>6 DEF TypeOK, worker, threadA
  <2>8. AssignsIdle' /\ AssignedKnown' /\ InitialFirst' /\ ProgressSieved' /\ ReportsSieved'
    BY <1>1, <1>2, <2>3, LocalKeeps DEF threadA
  <2>9. LocalSieved'
    <3>1. Known(bchunk)'
      BY <2>5, <2>6 DEF Known
    <3>2. bchunk'.start .. (bchunk'.start + bconsumed' - 1) = {}
      BY <1>4, <2>5, <2>6
    <3> QED BY <1>4, <3>1, <3>2 DEF LocalSieved, SievedFrom
  <2>10. BooksSieved'
    BY <1>1, <1>2, <2>2, KeepBooks DEF threadA
  <2> QED BY <2>2, <2>7, <2>8, <2>9, <2>10
<1> QED BY <1>3, <1>4 DEF LocalCheckout

-----------------------------------------------------------------------------
(* The invariant holds initially. *)
LEMMA SieveInit == Init => SieveInv
<1> SUFFICES ASSUME Init PROVE SieveInv
  OBVIOUS
<1> USE DEF Init
<1>1. PP!IInv /\ inFlight = {} /\ done = {} /\ saved.cursor = PoolStart
  BY PoolInit
<1>2. \A w \in Workers : InitialRange(w) \in Chunk /\ InitialRange(w).start = w * InitialCount /\ w * InitialCount \in Nat
  BY InitialChunk, WorkersAreNodes
<1>3. InitialRange(0) \in Chunk /\ InitialRange(0).start = 0 * InitialCount /\ 0 * InitialCount \in Nat
  BY InitialChunk, WorkersAreNodes
<1>4. TypeOK
  <2>1. budget \in Budget
    BY BudgetsAssumption
  <2>2. ring \in [Workers -> Seq(Int)] /\ toC \in [Workers -> Seq(Frame)] /\ toW \in [Workers -> Seq(Control)] /\ channel \in Seq(Int)
    OBVIOUS
  <2>3. current \in [Workers -> {Idle, Initial} \cup Nat] /\ hw \in [Nodes -> Nat]
    BY DEF InitialTracker
  <2>4. apc.at = "loop"
    OBVIOUS
  <2> QED BY <1>2, <1>3, <2>1, <2>2, <2>3, <2>4 DEF TypeOK
<1>5. AssignsIdle /\ AssignedKnown /\ InitialFirst
  BY DEF AssignsIdle, AssignedKnown, InitialFirst, AllBatches, BatchesFirst
<1>6. \A s \in Nat : s .. (s + 0 - 1) = {}
  OBVIOUS
<1>7. ProgressSieved /\ ReportsSieved
  BY <1>2, <1>6 DEF ProgressSieved, ReportsSieved, SievedFrom, InitialTracker
<1>8. LocalSieved
  BY <1>3, <1>6 DEF LocalSieved, SievedFrom
<1>9. BooksSieved
  <2>1. \A n \in Nodes : n * InitialCount \in Nat /\ hw[n] = 0
    BY InitialChunk
  <2>2. PoolStart .. (saved.cursor - 1) = {}
    BY <1>1, PoolNumbers
  <2> QED BY <1>1, <1>6, <2>1, <2>2 DEF BooksSieved, SievedFrom
<1> QED BY <1>1, <1>4, <1>5, <1>7, <1>8, <1>9 DEF SieveInv

(* Stuttering keeps the invariant. *)
LEMMA SieveStutter ==
  ASSUME SieveInv, UNCHANGED vars
  PROVE  SieveInv'
<1> USE DEF SieveInv
<1>1. UNCHANGED <<pool, worker, toC, toW, threadA, threadB, budget, lost>>
  BY DEF vars
<1>2. budget' \in Budget /\ toW' \in [Workers -> Seq(Control)]
  BY <1>1 DEF TypeOK
<1>3. TypeOK'
  BY <1>1 DEF TypeOK, worker, threadA, threadB
<1>4. PP!IInv' /\ PoolKeeps /\ UNCHANGED <<done, saved>>
  BY <1>1, PoolStays
<1>5. Grows
  BY <1>1, GrowsStill DEF worker, threadA, threadB
<1>6. AssignsIdle' /\ NoNewAssign /\ NoNewReport /\ NoNewSieving /\ NoNewInitial
  BY <1>1 DEF AssignsIdle, NoNewAssign, NoNewReport, NoNewSieving, NoNewInitial, worker, threadA
<1> QED BY <1>1, <1>3, <1>4, <1>5, <1>6, Kept DEF threadA, threadB

(* Every step of every thread keeps it. *)
LEMMA SieveStep == SieveInv /\ [Next]_vars => SieveInv'
<1> SUFFICES ASSUME SieveInv, [Next]_vars PROVE SieveInv'
  OBVIOUS
<1>1. ASSUME NEW w \in Workers, MainThread(w) \/ ReRequest(w) \/ HardCap(w) \/ Crash(w) \/ IoThread(w)
      PROVE  SieveInv'
  BY <1>1, QuietInv, WorkerSieveInv, ChunkCompleteInv, TakeChunkAssignInv, AskInv, CrashInv, IoSendBatchInv, IoRecvInv
     DEF MainThread, IoThread
<1>2. ASSUME NEW w \in Workers, Receipt(w) \/ HeartbeatTimeout(w) \/ IdleSweep(w)
      PROVE  SieveInv'
  BY <1>2, RecvOtherInv, RecvCompleteInv, RecvRequestInv, TimeoutInv, IdleSweepInv DEF Receipt
<1>3. ASSUME PollChannel \/ ProcessDeferred \/ AllSourcesDone \/ AssignSendFailed \/ RecallStraggler
             \/ StopEverybody \/ FlushEnd \/ WriteCheckpoint
      PROVE  SieveInv'
  BY <1>3, IngestInv, AssignSendFailedInv, RecallInv, StopInv, ThenInv, WriteCheckpointInv
<1>4. ASSUME Assignment PROVE SieveInv'
  BY <1>4, ThenInv, AssignCheckoutInv, AssignSentInv DEF Assignment
<1>5. ASSUME LocalThread PROVE SieveInv'
  BY <1>5, LocalSieveInv, LocalMoveInv, LocalBookInv, LocalCheckoutInv DEF LocalThread
<1>6. ASSUME UNCHANGED vars PROVE SieveInv'
  BY <1>6, SieveStutter
<1> QED BY <1>1, <1>2, <1>3, <1>4, <1>5, <1>6 DEF Next, Finished

(* The invariant of the whole cluster, for any number of workers and of faults, prompt or late. *)
THEOREM ClusterInvariant == Spec => []SieveInv
  BY SieveInit, SieveStep, PTL DEF Spec

(* The threads' state and every frame on the wire stay of their types. *)
THEOREM ClusterTypeOK == Spec => []TypeOK
<1>1. SieveInv => TypeOK
  BY DEF SieveInv
<1> QED BY <1>1, ClusterInvariant, PTL

(* What the coordinator books as sieved, from CHUNK_COMPLETEs in whatever order they are answered,
   from Thread B and from the initial ranges, has been sieved. *)
THEOREM ClusterBookedIsSieved == Spec => []BookedIsSieved
<1>1. SieveInv => BookedIsSieved
  <2> SUFFICES ASSUME SieveInv, NEW a \in done \cup InitialSieved PROVE a \in Sieved
    BY DEF BookedIsSieved, Sieved
  <2>1. CASE a \in done
    BY <2>1 DEF SieveInv, BooksSieved
  <2>2. CASE a \in InitialSieved
    <3>1. PICK n \in Nodes : a \in {n * InitialCount + i : i \in 0 .. (hw[n] - 1)}
      BY <2>2 DEF InitialSieved
    <3>2. n * InitialCount \in Nat /\ hw[n] \in Nat
      BY InitialChunk DEF SieveInv, TypeOK
    <3>3. a \in n * InitialCount .. (n * InitialCount + hw[n] - 1)
      BY <3>1, <3>2
    <3> QED BY <3>3 DEF SieveInv, BooksSieved, SievedFrom
  <2> QED BY <2>1, <2>2
<1> QED BY <1>1, ClusterInvariant, PTL

(* A checkpoint of the coordinator skips no a-value that nobody has sieved. *)
THEOREM ClusterCheckpointSkipsOnlySieved == Spec => []CheckpointSkipsOnlySieved
<1>1. SieveInv => CheckpointSkipsOnlySieved
  BY DEF SieveInv, BooksSieved, CheckpointSkipsOnlySieved, Sieved
<1> QED BY <1>1, ClusterInvariant, PTL
-----------------------------------------------------------------------------
(* The cluster uses its pool as WorkPool describes: every step of every thread is an operation of
   the pool or leaves it alone. *)

(* A chunk in flight lies inside the pool. *)
LEMMA EntryInPool ==
  ASSUME PP!IInv, NEW c \in inFlight
  PROVE  c.unit.count \in 0 .. PoolTotal
<1>1. /\ PoolStart <= c.unit.start /\ c.unit.start + c.unit.count <= next
      /\ next \in PoolStart .. (PoolStart + PoolTotal)
  BY DEF PP!IInv, PP!TypeOK, PP!NoDoubleAssign, PP!BelowCursor, PP!End
<1> QED BY <1>1, PoolTypes, PoolNumbers

(* A CHUNK_COMPLETE may report more than the chunk holds; the pool counts the chunk at most. *)
LEMMA PartialIsStep ==
  ASSUME PP!IInv, NEW c \in inFlight, NEW k \in Nat, Pool!reclaimPartial(c, k)
  PROVE  Pool!Next
<1> DEFINE used == Pool!Smaller(k, c.unit.count)
<1>1. c.unit.count \in 0 .. PoolTotal
  BY EntryInPool
<1>2. used \in 0 .. PoolTotal /\ Pool!Smaller(used, c.unit.count) = used
  BY <1>1, PoolNumbers DEF Pool!Smaller
<1>3. Pool!reclaimPartial(c, used)
  BY <1>2 DEF Pool!reclaimPartial
<1> HIDE DEF used
<1> QED BY <1>2, <1>3 DEF Pool!Next

(* What Thread A does with a frame. *)
LEMMA ReceiptOnPool ==
  ASSUME SieveInv, NEW w \in Workers, Receipt(w)
  PROVE  Pool!Next \/ UNCHANGED pool
<1>1. ASSUME RecvChunkComplete(w) PROVE Pool!Next \/ UNCHANGED pool
  <2>1. CASE UNCHANGED pool
    BY <2>1
  <2>2. CASE ~ UNCHANGED pool
    <3>1. PICK c \in Entry(Head(toC[w]).id) : Pool!reclaimPartial(c, Head(toC[w]).consumed)
      BY <1>1, <2>2 DEF RecvChunkComplete
    <3>2. c \in inFlight
      BY <3>1 DEF Entry
    <3>3. toC[w] \in Seq(Frame) /\ toC[w] # <<>> /\ Head(toC[w]).type = "complete"
      BY <1>1 DEF SieveInv, TypeOK, RecvChunkComplete, Receive
    <3>4. Head(toC[w]) \in Frame
      BY <3>3, HeadTailProperties
    <3>5. Head(toC[w]).consumed \in Nat
      BY <3>3, <3>4, FrameTypes
    <3> QED BY <3>1, <3>2, <3>5, PartialIsStep DEF SieveInv
  <2> QED BY <2>1, <2>2
<1>2. ASSUME RecvChunkRequest(w) PROVE Pool!Next \/ UNCHANGED pool
  BY <1>2 DEF RecvChunkRequest, ForgetTracked, Entry, Pool!Next
<1>3. ASSUME RecvIncrementalBatch(w) \/ RecvFlushAck(w) \/ FlushRecv(w) PROVE UNCHANGED pool
  BY <1>3 DEF RecvIncrementalBatch, RecvFlushAck, FlushRecv
<1> QED BY <1>1, <1>2, <1>3 DEF Receipt

(* What Thread B does between two sieves. *)
LEMMA LocalOnPool ==
  ASSUME SieveInv, LocalThread
  PROVE  Pool!Next \/ UNCHANGED pool
<1>1. ASSUME LocalChunkDone PROVE Pool!Next
  <2>1. PICK c \in inFlight : Pool!reclaimPartial(c, bconsumed)
    BY <1>1 DEF LocalChunkDone, Entry
  <2> QED BY <2>1, PartialIsStep DEF SieveInv, TypeOK
<1>2. ASSUME LocalCheckout PROVE Pool!Next \/ UNCHANGED pool
  BY <1>2, WorkersAreNodes DEF LocalCheckout, Pool!Next
<1>3. ASSUME LocalSieve \/ LocalSieveEnd \/ LocalInitialDone \/ LocalTest \/ LocalAwait PROVE UNCHANGED pool
  BY <1>3 DEF LocalSieve, LocalSieveEnd, LocalInitialDone, LocalTest, LocalAwait
<1> QED BY <1>1, <1>2, <1>3 DEF LocalThread

(* Every step of the cluster. *)
LEMMA StepOnPool ==
  ASSUME SieveInv, [Next]_vars
  PROVE  Pool!Next \/ UNCHANGED pool
<1>1. ASSUME NEW w \in Workers, MainThread(w) \/ ReRequest(w) \/ HardCap(w) \/ Crash(w) \/ IoThread(w)
      PROVE  UNCHANGED pool
  BY <1>1 DEF MainThread, WorkerSieve, WorkerStopped, ChunkComplete, TakeChunkAssign, WaitStopped, FlushAndExit,
              ReRequest, HardCap, Crash, IoThread, IoSendBatch, IoRecv
<1>2. ASSUME NEW w \in Workers, HeartbeatTimeout(w) \/ IdleSweep(w)
      PROVE  Pool!Next \/ UNCHANGED pool
  BY <1>2, WorkersAreNodes DEF HeartbeatTimeout, IdleSweep, Pool!Next
<1>3. ASSUME PollChannel \/ ProcessDeferred \/ AllSourcesDone \/ RecallStraggler \/ StopEverybody \/ FlushEnd
      PROVE  UNCHANGED pool
  BY <1>3 DEF PollChannel, ProcessDeferred, AllSourcesDone, RecallStraggler, StopEverybody, FlushEnd
<1>4. ASSUME AssignSendFailed \/ WriteCheckpoint PROVE Pool!Next
  BY <1>4 DEF AssignSendFailed, GiveBack, Entry, WriteCheckpoint, Pool!Next
<1>5. ASSUME Assignment PROVE Pool!Next \/ UNCHANGED pool
  <2>1. CASE AssignCheckout
    <3>1. apc.w \in Nodes
      BY <2>1, WorkersAreNodes DEF AssignCheckout, SieveInv, TypeOK
    <3> QED BY <2>1, <3>1 DEF AssignCheckout, Pool!Next
  <2>2. CASE AssignNothing \/ AssignSent \/ StragglersChecked
    BY <2>2 DEF AssignNothing, AssignSent, StragglersChecked
  <2> QED BY <1>5, <2>1, <2>2 DEF Assignment
<1>6. ASSUME UNCHANGED vars PROVE UNCHANGED pool
  BY <1>6 DEF vars
<1> QED BY <1>1, <1>2, <1>3, <1>4, <1>5, <1>6, ReceiptOnPool, LocalOnPool DEF Next, Finished

(* Threads A and B, in any interleaving and with any faults, drive the pool only through its operations:
   the cluster implements the specification of the pool. *)
THEOREM ClusterUsesPool == Spec => Pool!Spec
<1>1. Init => Pool!Init
  BY DEF Init
<1>2. SieveInv /\ [Next]_vars => [Pool!Next]_(Pool!vars)
  BY StepOnPool DEF pool, Pool!vars
<1> QED BY <1>1, <1>2, ClusterInvariant, PTL DEF Spec, Pool!Spec

(* The operations of the pool, and of the pool its proofs speak of. *)
LEMMA OperationIs ==
  ASSUME Pool!Next
  PROVE  PP!Next
<1>1. ASSUME NEW n \in ChunkSizes, NEW w \in Nodes, Pool!checkoutWork(n, w) PROVE PP!checkoutWork(n, w)
  BY <1>1 DEF Pool!checkoutWork, PP!checkoutWork, Pool!CheckoutReturned, PP!CheckoutReturned, Pool!Record, PP!Record,
              Pool!CheckoutLinear, PP!CheckoutLinear, Pool!Smaller, PP!Smaller, Pool!End, PP!End
<1>2. ASSUME NEW c \in inFlight, Pool!completeChunk(c) PROVE PP!completeChunk(c)
  BY <1>2 DEF Pool!completeChunk, PP!completeChunk, Pool!Span, PP!Span
<1>3. ASSUME NEW c \in inFlight, Pool!returnChunk(c) PROVE PP!returnChunk(c)
  BY <1>3 DEF Pool!returnChunk, PP!returnChunk
<1>4. ASSUME NEW c \in inFlight, NEW k \in 0 .. PoolTotal, Pool!reclaimPartial(c, k) PROVE PP!reclaimPartial(c, k)
  BY <1>4 DEF Pool!reclaimPartial, PP!reclaimPartial, Pool!Smaller, PP!Smaller
<1>5. ASSUME Pool!SaveCursor PROVE PP!SaveCursor
  BY <1>5 DEF Pool!SaveCursor, PP!SaveCursor, Pool!completedPrefixCursor, PP!completedPrefixCursor,
              Pool!IsCompletedPrefix, PP!IsCompletedPrefix, Pool!End, PP!End
<1>6. ASSUME Pool!Restart PROVE PP!Restart
  BY <1>6 DEF Pool!Restart, PP!Restart
<1> QED BY <1>1, <1>2, <1>3, <1>4, <1>5, <1>6, ReclaimIs DEF Pool!Next, PP!Next

(* So whatever is proved of the pool holds of the coordinator's, and in particular its saved cursor
   skips nothing and is never ahead of the completed prefix. *)
THEOREM ClusterSavedSound == Spec => []Pool!SavedSound
<1>1. Pool!Init => PP!Init
  BY DEF Pool!Init, PP!Init
<1>2. [Pool!Next]_(Pool!vars) => [PP!Next]_(PP!vars)
  BY OperationIs DEF Pool!vars, PP!vars
<1>3. PP!Spec => []PP!SavedSound
  BY PoolNumbers, PP!PoolSavedSound DEF PP!PoolSavedSound
<1>4. PP!SavedSound => Pool!SavedSound
  BY DEF PP!SavedSound, Pool!SavedSound, Pool!completedPrefixCursor, PP!completedPrefixCursor,
         Pool!IsCompletedPrefix, PP!IsCompletedPrefix, Pool!End, PP!End
<1> QED BY <1>1, <1>2, <1>3, <1>4, ClusterUsesPool, PTL DEF Pool!Spec, PP!Spec

(* While a coordinator lives, a later checkpoint never resumes from an earlier index, whichever
   chunks were returned, reclaimed or given up in between. *)
THEOREM ClusterCheckpointMonotone == Spec => [][saved'.cursor >= saved.cursor]_vars
<1>1. SieveInv /\ Pool!SavedSound /\ [Next]_vars => [saved'.cursor >= saved.cursor]_vars
  <2> SUFFICES ASSUME SieveInv, Pool!SavedSound, [Next]_vars PROVE saved'.cursor >= saved.cursor
    OBVIOUS
  <2>1. saved.cursor \in Int
    BY PoolTypes DEF SieveInv
  <2>2. saved' = saved \/ Pool!SaveCursor \/ Pool!Restart
    <3>1. CASE UNCHANGED pool
      BY <3>1 DEF pool
    <3>2. CASE Pool!Next
      BY <3>2 DEF Pool!Next, Pool!checkoutWork, Pool!CheckoutReturned, Pool!CheckoutLinear, Pool!completeChunk,
                  Pool!returnChunk, Pool!reclaimPartial, Pool!reclaimWork
    <3> QED BY <3>1, <3>2, StepOnPool
  <2>3. CASE saved' = saved
    BY <2>1, <2>3
  <2>4. CASE Pool!Restart
    BY <2>1, <2>4 DEF Pool!Restart
  <2>5. CASE Pool!SaveCursor
    <3>1. saved'.cursor = Pool!completedPrefixCursor
      BY <2>5 DEF Pool!SaveCursor
    <3>2. saved.cursor <= Pool!completedPrefixCursor
      BY DEF Pool!SavedSound
    <3>3. Pool!completedPrefixCursor \in Int
      <4>1. PP!completedPrefixCursor \in PoolStart .. (PoolStart + PoolTotal)
        BY PoolNumbers, PP!PrefixRange DEF PP!PrefixRange, SieveInv, PP!PrefixInRange, PP!End
      <4>2. PP!completedPrefixCursor = Pool!completedPrefixCursor
        BY DEF Pool!completedPrefixCursor, PP!completedPrefixCursor, Pool!IsCompletedPrefix, PP!IsCompletedPrefix,
               Pool!End, PP!End
      <4> HIDE DEF Pool!completedPrefixCursor, PP!completedPrefixCursor
      <4> QED BY <4>1, <4>2, PoolNumbers
    <3> HIDE DEF Pool!completedPrefixCursor
    <3> QED BY <3>1, <3>2, <3>3, <2>1
  <2> QED BY <2>2, <2>3, <2>4, <2>5
<1> QED BY <1>1, ClusterInvariant, ClusterSavedSound, PTL DEF Spec
=============================================================================
