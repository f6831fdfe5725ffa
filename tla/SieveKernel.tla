---------------------------- MODULE SieveKernel ----------------------------
(***************************************************************************)
(* One step of the sieve on the GPU: the polynomials of one coefficient a  *)
(* over one interval (src/src/sieve/kernel.cu).  The largest primes are    *)
(* scattered into buckets, one per polynomial and block of the interval    *)
(* (globalMetaSieve); then each thread block walks its polynomials along a *)
(* Gray code, and for each block of the interval adds up the logarithms    *)
(* (mask, buckets, lanes, single threads), keeps the positions above the   *)
(* threshold and runs the primes backwards to record who divides them      *)
(* (sieveAndScan); the candidates of a step are packed into the buffer the *)
(* post-processing reads (compactCandidates).                              *)
(*                                                                         *)
(* An action is the code between two barriers.  Atomic adds commute, so    *)
(* threads appear only where their order shows: who finds room in a full   *)
(* bucket or a full candidate list, and, in the wide kernels, who reads an *)
(* offset that another thread of the block is about to overwrite.          *)
(***************************************************************************)
EXTENDS NumberTheory, FiniteSetsExt

CONSTANTS
    Jobs,          \* records [N, idx, start, variant]: a number, the a-factors, the first
                   \* position, and the kernel that sieves it: "narrow" (a byte each), "wide"
                   \* (16 bits each) or "u8sat" (a byte that saturates)
    FBBound,       \* bound of the factor base
    SmallUsed, MidStart, BigStart, \* first indices after the mask, the lanes, the single threads
    SB, NumBlocks, \* size of a block of the interval and their number
    NumPolys,      \* polynomials of a step, a power of two
    Grid,          \* thread blocks of sieveAndScan
    ParNum,        \* lanes that share a prime (32)
    BucketSize, MaxPerBlock, Threshold,
    SatMax,        \* where the accumulators of "u8sat" stop (255)
    FactorSlots,   \* slots for recorded factors (32)
    DenseSlots,    \* capacity of the packed buffer
    DenseFactors   \* factors a packed candidate can hold (48)

VARIABLES
    job, fb,
    pc,       \* the next piece of code
    pdata,    \* dev_primeData and dev_primeBValues
    bucket,   \* bucket[poly][block]: the entries stored
    head,     \* head[poly][block]: the entries that asked for a slot
    waiting,  \* big primes whose thread has not scattered yet
    tb, poly, block, \* thread block, its walk index, block of the interval
    offs,     \* offs[i]: the two offsets kept for prime i
    entries,  \* the accumulators of the current block
    cands,    \* candidates of this thread block
    fresh,    \* how many of them the current block added
    mid,      \* wide kernels: the prime all threads work on
    thread,   \* wide kernels: what each thread has read and where it is
    raced,    \* a thread has read an offset after another had stored the next one
    dense     \* the packed buffer

vars == <<job, fb, pc, pdata, bucket, head, waiting, tb, poly, block, offs, entries, cands,
          fresh, mid, thread, raced, dense>>

Size == Len(fb)
Indices == 0 .. Size - 1
P(i) == fb[i + 1].p
Polys == 0 .. NumPolys - 1
Blocks == 0 .. NumBlocks - 1
Kept == 0 .. BigStart - 1
Coeff == recalc_a(fb, job.idx)
Dim == Len(job.idx)
variant == job.variant

\* ---- modular helpers (kernel.cuh), residues of p ------------------------------
modAdd(a, b, p) == IF a + b >= p THEN a + b - p ELSE a + b
modSub(a, b, p) == IF a >= b THEN a - b ELSE p - (b - a)
modSub_shifted(a, b, p) == IF a > b THEN a - b ELSE a + p - b
modSum(a, b, p) == LET s == IF a + b < 0 THEN a + b + p ELSE a + b IN IF s >= p THEN s - p ELSE s

\* ---- initPrimeData, markInactivePrimes ------------------------------------------
initPrime(i) ==
    LET inv == pow_mod(Coeff.a, P(i) - 2, P(i)) IN
    [B |-> [k \in 1 .. Dim |-> ((Coeff.B[k] % P(i)) * inv) % P(i)],
     inv_aN |-> (inv * fb[i + 1].root) % P(i),
     reducedStart |-> job.start % P(i),
     inactive |-> \E k \in 1 .. Dim : job.idx[k] = i]

\* -b / a as the sum of the signed B values, then the two roots.
RECURSIVE minus_b_aInv(_, _, _)
minus_b_aInv(i, id, k) ==
    IF k > Dim THEN 0
    ELSE modAdd(minus_b_aInv(i, id \div 2, k + 1),
                IF id % 2 = 0 THEN pdata[i].B[k] ELSE P(i) - pdata[i].B[k], P(i))
rootsFromPolyId(i, id) ==
    LET m == minus_b_aInv(i, id, 1)
    IN  <<modAdd(m, pdata[i].inv_aN, P(i)), modAdd(m, P(i) - pdata[i].inv_aN, P(i))>>
flipped(id1, id2) == ctz(xor(id1, id2))
\* The roots moved by B once.
advanceRoots_Once(i, id1, id2, roots) ==
    LET k == flipped(id1, id2)
        delta == (1 - 2 * ((id2 \div 2 ^ k) % 2)) * pdata[i].B[k + 1]
    IN  [r \in 1 .. 2 |-> modSum(roots[r], delta, P(i))]
\* One Gray step: the bit that flips, and both roots moved by it twice.
advanceRoots(i, id1, id2, roots) ==
    IF id1 = id2 THEN roots
    ELSE LET k == flipped(id1, id2)
             delta == (1 - 2 * ((id2 \div 2 ^ k) % 2)) * pdata[i].B[k + 1]
         IN  [r \in 1 .. 2 |-> modSum(modSum(roots[r], delta, P(i)), delta, P(i))]
\* The first position at or after the start of the interval that a root hits.
offsetOf(i, root) == job.start - modSub_shifted(job.start % P(i), root, P(i)) + P(i)

\* ---- globalMetaSieve -------------------------------------------------------------
\* A prime's hits, relative to the start; the count is bounded with the block's first prime.
maxOffsetCount == (NumBlocks * SB) \div P(BigStart) + 1
\* The roots relative to the start, walked along the cyclic Gray code of a block of polynomials.
advanceRelRootsScatter(i, flip, rel) ==
    LET d == LET b2 == 2 * pdata[i].B[flip.bit + 1] IN IF b2 >= P(i) THEN b2 - P(i) ELSE b2
        delta == IF flip.nowSet THEN P(i) - d ELSE d
    IN  [r \in 1 .. 2 |-> modAdd(rel[r], delta, P(i))]
RECURSIVE scatterWalk(_, _, _, _, _)
scatterWalk(i, step, left, id, rel) ==
    IF left = 0 THEN {}
    ELSE LET flip == advanceGrayCyclic(step, NumPolys, id)
         IN  {<<id, r, rel[r] + c * P(i)>> : r \in 1 .. 2, c \in 0 .. maxOffsetCount - 1}
             \cup scatterWalk(i, step + 1, left - 1, flip.code, advanceRelRootsScatter(i, flip, rel))
\* The warp of a prime decides where its walk begins.
walkStart(i) == i % NumPolys
hits(i) ==
    LET roots == rootsFromPolyId(i, gray(walkStart(i)))
        rel == [r \in 1 .. 2 |-> modSub(roots[r], pdata[i].reducedStart, P(i))]
    IN  scatterWalk(i, walkStart(i) + 1, NumPolys, gray(walkStart(i)), rel)
entryOf(i, pos) == [off |-> pos % SB, log |-> IF pdata[i].inactive THEN 0 ELSE log2(P(i)), prime |-> i]
\* The hits of one thread on one bucket, in the order of its loops.
mine(i, id, blk) ==
    LET there == {h \in hits(i) : h[1] = id /\ h[3] \div SB = blk}
        before(g, h) == g[3] \div P(i) < h[3] \div P(i) \/ (g[3] \div P(i) = h[3] \div P(i) /\ g[2] < h[2])
    IN  [n \in 1 .. Cardinality(there) |->
            entryOf(i, (CHOOSE h \in there : Cardinality({g \in there : before(g, h)}) = n - 1)[3])]
\* One entry too many.
takeRoom_OneMore(s, room) == SubSeq(s, 1, IF room < 0 THEN 0 ELSE IF room < Len(s) THEN room + 1 ELSE Len(s))
takeRoom(s, room) == SubSeq(s, 1, IF room < 0 THEN 0 ELSE IF room < Len(s) THEN room ELSE Len(s))

\* ---- sieveAndScan ----------------------------------------------------------------
polyIdPrefix == tb * (NumPolys \div Grid)
polyId == polyIdPrefix + gray(poly)
prevPolyId == polyIdPrefix + gray(poly - 1)
b == bFromPolyId(Coeff.B, polyId)
blockStart == job.start + block * SB
blockEnd == blockStart + SB
RECURSIVE firstFrom(_, _, _)
firstFrom(x, bound, p) == IF x >= bound THEN x ELSE firstFrom(x + p, bound, p)
\* The positions of this block that the class of offset o hits.
walked(o, p) == {x \in blockStart .. blockEnd - 1 : x >= o /\ (x - o) % p = 0}
smallPrimes == [k \in 1 .. SmallUsed |-> P(k - 1)]
maskLog(x) ==
    LET mask == generateMask(smallPrimes)
        word(r) == findMaskOffset(mask, smallPrimes, [k \in 1 .. SmallUsed |-> offs[k - 1][r]], job.start)
        step == (block * (SB \div 4)) % mask.period
    IN  maskByte(mask, word(1) + step, x - blockStart) + maskByte(mask, word(2) + step, x - blockStart)
marks(i, x) == (IF x \in walked(offs[i][1], P(i)) THEN 1 ELSE 0) + (IF x \in walked(offs[i][2], P(i)) THEN 1 ELSE 0)
logOf(i) == IF pdata[i].inactive THEN 0 ELSE log2(P(i))
\* Additions to an accumulator; saturating ones commute as well, so a sum is cut once at its end.
atomicByteAddSat(e, d) == IF e + d > SatMax THEN SatMax ELSE e + d
added(e, d) == IF variant = "u8sat" THEN atomicByteAddSat(e, d) ELSE e + d
sumOver(S, f(_)) == FoldSet(LAMBDA i, acc : f(i) + acc, 0, S)

\* Lane l of a prime adds at offset + l p, + (l + ParNum) p, ...: together every hit once, and
\* exactly one lane ends on the first hit after the block.
laneEnd(o, p) ==
    LET last(l) == firstFrom(o + l * p, blockEnd, ParNum * p)
        writers == {l \in 0 .. ParNum - 1 : last(l) - p < blockEnd}
    IN  last(CHOOSE l \in writers : TRUE)

\* ---- excludeNonRelations ---------------------------------------------------------
\* M 10000 / 14142, where the interval is -M .. M - 1: the roots of the parabola are near M / sqrt 2.
M == -job.start
approxPolyRoot == (M * 10000) \div 14142
Abs(v) == IF v < 0 THEN -v ELSE v
approxPolyVal(x) == log2(Coeff.a) + log2(Abs(x + approxPolyRoot)) + log2(Abs(x - approxPolyRoot))
\* The byte kernels evaluate the size once for four positions, the 16-bit one for each.
target(k) == approxPolyVal(IF variant = "wide" THEN blockStart + k ELSE blockStart + 4 * (k \div 4)) - Threshold
isCandidate(k) == entries[k] > target(k)
\* The host samples the size at both ends and in the middle and leaves a margin of two: the sum of
\* two rounded logarithms can be larger in between.
u8satGate == variant = "u8sat" => \A x \in {-M, 0, M - 1} : approxPolyVal(x) - Threshold <= SatMax - 3


(***************************************************************************)
(* Recording a factor: the running count of the candidate picks the slot,  *)
(* modulo the number of slots; the count itself goes on.                   *)
(***************************************************************************)
\* The count held at the slots: a candidate with more factors looks complete.
record_Capped(c, i) ==
    [c EXCEPT !.factors = [@ EXCEPT ![c.num % FactorSlots] = i], !.num = IF @ < FactorSlots THEN @ + 1 ELSE @]
record(c, i) == [c EXCEPT !.factors = [@ EXCEPT ![c.num % FactorSlots] = i], !.num = @ + 1]
RECURSIVE recordAll(_, _)
recordAll(c, is) == IF is = <<>> THEN c ELSE recordAll(record(c, Head(is)), Tail(is))
RECURSIVE times(_, _)
times(i, n) == IF n = 0 THEN <<>> ELSE <<i>> \o times(i, n - 1)
\* After the forward pass an offset lies beyond the block; x is hit when it is congruent to it.
backHits(i, x) == IF pdata[i].inactive THEN 0
                  ELSE (IF (offs[i][1] - x) % P(i) = 0 THEN 1 ELSE 0) + (IF (offs[i][2] - x) % P(i) = 0 THEN 1 ELSE 0)
RECURSIVE backFrom(_, _)
backFrom(i, x) == IF i = BigStart THEN <<>> ELSE times(i, backHits(i, x)) \o backFrom(i + 1, x)
bucketHits(x) == LET s == SelectSeq(bucket[polyId][block], LAMBDA e : e.off = x - blockStart)
                 IN  [n \in 1 .. Len(s) |-> s[n].prime]

\* ---- compactCandidates -----------------------------------------------------------
\* The recorded factors sorted and merged with those of a, at most DenseFactors of them.
RECURSIVE sorted(_)
sorted(s) == IF s = <<>> THEN <<>>
             ELSE LET m == CHOOSE n \in DOMAIN s : \A k \in DOMAIN s : s[n] <= s[k]
                  IN  <<s[m]>> \o sorted([n \in 1 .. Len(s) - 1 |-> IF n < m THEN s[n] ELSE s[n + 1]])
ascending(S) == [n \in 1 .. Cardinality(S) |-> CHOOSE x \in S : Cardinality({y \in S : y < x}) = n - 1]
\* The factors of a appended, not merged in.
merged(c) == takeRoom(sorted(job.idx \o [n \in 1 .. c.num |-> c.factors[n - 1]]), DenseFactors)
\* A candidate with more factors than slots has taken its place in the buffer and leaves it as it was.
packed(c) == IF c.num > FactorSlots THEN [written |-> FALSE]
             ELSE [written |-> TRUE, x |-> c.x, id |-> c.id, factors |-> merged(c)]

\* ---- behaviours --------------------------------------------------------------------
Init ==
    /\ job \in Jobs
    /\ fb = generateFactorBase(job.N, FBBound)
    /\ u8satGate
    /\ pc = "init" /\ pdata = <<>>
    /\ bucket = [p \in Polys |-> [k \in Blocks |-> <<>>]]
    /\ head = [p \in Polys |-> [k \in Blocks |-> 0]]
    /\ waiting = BigStart .. Len(fb) - 1
    /\ tb = 0 /\ poly = 0 /\ block = 0
    /\ offs = <<>> /\ entries = <<>> /\ cands = <<>> /\ fresh = 0
    /\ mid = 0 /\ thread = <<>> /\ raced = FALSE /\ dense = <<>>

InitPrimeData ==
    /\ pc = "init" /\ pc' = IF waiting = {} THEN "setup" ELSE "scatter"
    /\ pdata' = [i \in Indices |-> initPrime(i)]
    /\ UNCHANGED <<job, fb, bucket, head, waiting, tb, poly, block, offs, entries, cands, fresh, mid, thread, raced, dense>>

\* The thread of one big prime; each asks for its slots in every bucket it hits.
Scatter(i) ==
    /\ pc = "scatter" /\ i \in waiting
    /\ waiting' = waiting \ {i}
    /\ bucket' = [p \in Polys |-> [k \in Blocks |->
                    bucket[p][k] \o takeRoom(mine(i, p, k), BucketSize - head[p][k])]]
    /\ head' = [p \in Polys |-> [k \in Blocks |-> head[p][k] + Len(mine(i, p, k))]]
    /\ pc' = IF waiting' = {} THEN "setup" ELSE pc
    /\ UNCHANGED <<job, fb, pdata, tb, poly, block, offs, entries, cands, fresh, mid, thread, raced, dense>>

\* The offsets of a thread block's first polynomial.
SetupOffsets ==
    /\ pc = "setup" /\ pc' = "fill"
    /\ offs' = [i \in Kept |-> [r \in 1 .. 2 |-> offsetOf(i, rootsFromPolyId(i, polyId)[r])]]
    /\ UNCHANGED <<job, fb, pdata, bucket, head, waiting, tb, poly, block, entries, cands, fresh, mid, thread, raced, dense>>

\* The next polynomial: roots read back from the offsets, moved, and turned into offsets again.
AdvancePoly ==
    /\ pc = "advance" /\ pc' = "fill"
    /\ offs' = [i \in Kept |->
                  LET roots == advanceRoots(i, prevPolyId, polyId, [r \in 1 .. 2 |-> offs[i][r] % P(i)])
                  IN  [r \in 1 .. 2 |-> offsetOf(i, roots[r])]]
    /\ UNCHANGED <<job, fb, pdata, bucket, head, waiting, tb, poly, block, entries, cands, fresh, mid, thread, raced, dense>>

bucketLog(k) == LET s == SelectSeq(bucket[polyId][block], LAMBDA e : e.off = k)
                IN  sumOver(DOMAIN s, LAMBDA n : s[n].log)
\* Mask (or zero), small offsets moved past the block, buckets dumped.
FillBlock ==
    /\ pc = "fill"
    /\ entries' = [k \in 0 .. SB - 1 |->
                     added(IF variant = "narrow" THEN maskLog(blockStart + k) ELSE 0, bucketLog(k))]
    /\ offs' = IF variant # "narrow" THEN offs
               ELSE [i \in Kept |-> IF i < SmallUsed
                                    THEN [r \in 1 .. 2 |-> firstFrom(offs[i][r], blockEnd, P(i))]
                                    ELSE offs[i]]
    /\ pc' = IF variant = "narrow" THEN "lanes" ELSE "threads"
    /\ mid' = 0
    /\ thread' = [t \in 0 .. ParNum - 1 |-> [at |-> "read", o |-> <<>>]]
    /\ UNCHANGED <<job, fb, pdata, bucket, head, waiting, tb, poly, block, cands, fresh, raced, dense>>

\* Narrow: one warp per prime; its lanes load the offsets together.
SieveLanes ==
    /\ pc = "lanes" /\ pc' = "single"
    /\ LET on == {i \in SmallUsed .. MidStart - 1 : ~pdata[i].inactive} IN
       /\ entries' = [k \in DOMAIN entries |->
                        entries[k] + sumOver(on, LAMBDA i : marks(i, blockStart + k) * log2(P(i)))]
       /\ offs' = [i \in Kept |-> IF i \in on THEN [r \in 1 .. 2 |-> laneEnd(offs[i][r], P(i))] ELSE offs[i]]
    /\ UNCHANGED <<job, fb, pdata, bucket, head, waiting, tb, poly, block, cands, fresh, mid, thread, raced, dense>>

\* Wide: every thread of the block works on the same prime, with a barrier after it and none
\* between the loads of the offsets and the store of the thread that ends on the next one.
ThreadRead(t) ==
    /\ pc = "threads" /\ mid < MidStart /\ ~pdata[mid].inactive /\ thread[t].at = "read"
    /\ thread' = [thread EXCEPT ![t] = [at |-> "first", o |-> offs[mid]]]
    /\ raced' = (raced \/ \E u \in DOMAIN thread : thread[u].at # "read" /\ thread[u].o # offs[mid])
    /\ UNCHANGED <<job, fb, pc, pdata, bucket, head, waiting, tb, poly, block, offs, entries, cands, fresh, mid, dense>>
ThreadMark(t, r) ==
    /\ pc = "threads" /\ thread[t].at = (IF r = 1 THEN "first" ELSE "second")
    /\ LET p == P(mid)
           from == thread[t].o[r] + t * p
           stop == firstFrom(from, blockEnd, ParNum * p)
       IN  /\ entries' = [k \in DOMAIN entries |->
                            added(entries[k], IF blockStart + k >= from /\ (blockStart + k - from) % (ParNum * p) = 0
                                              THEN log2(p) ELSE 0)]
           /\ offs' = IF stop - p < blockEnd THEN [offs EXCEPT ![mid][r] = stop] ELSE offs
    /\ thread' = [thread EXCEPT ![t].at = IF r = 1 THEN "second" ELSE "barrier"]
    /\ UNCHANGED <<job, fb, pc, pdata, bucket, head, waiting, tb, poly, block, cands, fresh, mid, raced, dense>>
NextPrime ==
    /\ pc = "threads" /\ mid < MidStart
    /\ pdata[mid].inactive \/ \A t \in DOMAIN thread : thread[t].at = "barrier"
    /\ mid' = mid + 1
    /\ pc' = IF mid + 1 = MidStart THEN "single" ELSE pc
    /\ thread' = [t \in DOMAIN thread |-> [at |-> "read", o |-> <<>>]]
    /\ UNCHANGED <<job, fb, pdata, bucket, head, waiting, tb, poly, block, offs, entries, cands, fresh, raced, dense>>

\* One thread per prime; an inactive prime adds zero and moves on.
SieveSingle ==
    /\ pc = "single" /\ pc' = "scan"
    /\ entries' = [k \in DOMAIN entries |->
                     added(entries[k], sumOver(MidStart .. BigStart - 1, LAMBDA i : marks(i, blockStart + k) * logOf(i)))]
    /\ offs' = [i \in Kept |-> IF i >= MidStart
                               THEN [r \in 1 .. 2 |-> firstFrom(offs[i][r], blockEnd, P(i))] ELSE offs[i]]
    /\ UNCHANGED <<job, fb, pdata, bucket, head, waiting, tb, poly, block, cands, fresh, mid, thread, raced, dense>>

\* The room of a thread block forgotten: every block of the interval starts with all the slots.
freeSlots == MaxPerBlock - Len(cands)
\* The candidates race for the slots that are left; the others are dropped.
Scan ==
    /\ pc = "scan" /\ pc' = "back"
    /\ LET found == {k \in DOMAIN entries : isCandidate(k)}
           room == freeSlots
       IN  \E S \in kSubset(IF Cardinality(found) < room THEN Cardinality(found) ELSE room, found) :
              LET at == ascending(S)
              IN  /\ cands' = cands \o [n \in 1 .. Len(at) |->
                                [x |-> blockStart + at[n], id |-> polyId, b |-> b, num |-> 0,
                                 factors |-> [m \in 0 .. FactorSlots - 1 |-> -1]]]
                  /\ fresh' = Len(at)
    /\ UNCHANGED <<job, fb, pdata, bucket, head, waiting, tb, poly, block, offs, entries, mid, thread, raced, dense>>

\* The backward pass over the fresh candidates, then the next block, polynomial or thread block.
Backward ==
    /\ pc = "back"
    /\ cands' = [n \in DOMAIN cands |->
                   IF n <= Len(cands) - fresh THEN cands[n]
                   ELSE recordAll(cands[n], backFrom(0, cands[n].x) \o bucketHits(cands[n].x))]
    /\ fresh' = 0
    /\ block' = IF block + 1 < NumBlocks THEN block + 1 ELSE 0
    /\ poly' = IF block + 1 < NumBlocks THEN poly ELSE poly + 1
    /\ pc' = IF block + 1 < NumBlocks THEN "fill" ELSE IF poly + 1 < NumPolys \div Grid THEN "advance" ELSE "compact"
    /\ UNCHANGED <<job, fb, pdata, bucket, head, waiting, tb, offs, entries, mid, thread, raced, dense>>

\* The candidates of a thread block enter the buffer while it has room.
Compact ==
    /\ pc = "compact"
    /\ dense' = dense \o takeRoom([n \in DOMAIN cands |-> packed(cands[n])], DenseSlots - Len(dense))
    /\ tb' = tb + 1 /\ poly' = 0 /\ block' = 0 /\ cands' = <<>>
    /\ pc' = IF tb + 1 < Grid THEN "setup" ELSE "done"
    /\ UNCHANGED <<job, fb, pdata, bucket, head, waiting, offs, entries, fresh, mid, thread, raced>>

Next ==
    \/ InitPrimeData
    \/ \E i \in waiting : Scatter(i)
    \/ SetupOffsets \/ AdvancePoly \/ FillBlock \/ SieveLanes
    \/ \E t \in DOMAIN thread : ThreadRead(t) \/ ThreadMark(t, 1) \/ ThreadMark(t, 2)
    \/ NextPrime \/ SieveSingle \/ Scan \/ Backward \/ Compact

Spec == Init /\ [][Next]_vars

\* ---- properties --------------------------------------------------------------------
\* Does prime i divide (ax + b)^2 - N, by the definition and not by the roots?
Divides(i, x, id) ==
    LET p == P(i)
        v == ((Coeff.a % p) * (x % p) + (bFromPolyId(Coeff.B, id) % p)) % p
    IN  (v * v - job.N) % p = 0
Active(i) == \A k \in 1 .. Dim : job.idx[k] # i
Overflowed(id, k) == head[id][k] > BucketSize

\* What the accumulators of a scanned block must hold.
Accumulated ==
    pc = "scan" =>
        \A k \in 0 .. SB - 1 :
            LET truth == sumOver({i \in Indices : Active(i) /\ Divides(i, blockStart + k, polyId)}, LAMBDA i : log2(P(i)))
            IN  IF Overflowed(polyId, block) THEN entries[k] <= truth
                ELSE /\ entries[k] = added(0, truth)
                     /\ isCandidate(k) <=> truth > target(k)

\* When a block is scanned, the accumulator of every position is the sum of the logarithms of the
\* primes that divide the polynomial's value there: the mask, the lanes, the single threads and
\* the buckets together hit each once, for every polynomial of the Gray walk and every block; a sum
\* that saturates is a candidate if and only if the full sum is.  Only a bucket that ran full may miss
\* some, and nothing is said of a block in which a thread of a wide kernel has read an offset already
\* replaced.
EntriesExact == raced \/ Accumulated

\* The factors recorded for a candidate are exactly the primes that divide its value, each once,
\* unless it has more than the slots hold or its bucket ran full: what post-processing divides out.
CandidatesExact ==
    \A n \in 1 .. Len(cands) - fresh :
        LET c == cands[n]
            blk == (c.x - job.start) \div SB
            listed == {c.factors[m] : m \in 0 .. c.num - 1}
            truth == {i \in Indices : Active(i) /\ Divides(i, c.x, c.id)}
        IN  (c.num <= FactorSlots /\ ~Overflowed(c.id, blk) /\ ~raced) =>
                listed = truth /\ Cardinality(truth) = c.num

\* A bucket never holds more than its size, nor an entry of another block, and what it lost is
\* what its counter says it was asked for beyond its size.
BucketsBounded ==
    \A id \in Polys, k \in Blocks :
        /\ Len(bucket[id][k]) = IF head[id][k] < BucketSize THEN head[id][k] ELSE BucketSize
        /\ \A n \in DOMAIN bucket[id][k] :
              LET e == bucket[id][k][n] IN Active(e.prime) => Divides(e.prime, job.start + k * SB + e.off, id)

\* The packed candidates of a step: in the buffer each comes from one polynomial and position, with
\* the factors of a and its own in increasing order.  A candidate with too many factors is the
\* exception: it has taken a place that nobody writes.
DenseExact ==
    /\ \A m, n \in DOMAIN dense :
          (m # n /\ dense[m].written /\ dense[n].written) =>
              dense[m].x # dense[n].x \/ dense[m].id # dense[n].id
    /\ \A n \in DOMAIN dense :
          dense[n].written =>
              LET f == dense[n].factors IN
              /\ \A k \in 1 .. Len(f) - 1 : f[k] <= f[k + 1]
              /\ Len(f) < DenseFactors => \A k \in 1 .. Dim : \E m \in DOMAIN f : f[m] = job.idx[k]

\* From the bucket to the packed buffer a candidate keeps its factors: those recorded for it, and
\* those of the relation it becomes.
FactorsExact == CandidatesExact /\ DenseExact
=============================================================================
