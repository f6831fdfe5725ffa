-------------------------- MODULE PolynomialWalk --------------------------
(***************************************************************************)
(* The enumeration of the leading coefficients a and its division among    *)
(* the nodes of a cluster.  A coefficient is a set of factor-base indices; *)
(* 2^dim of them (a hypercube) come from moving each index inside its pair *)
(* {2k, 2k+1} along a Gray code, then the window of pairs slides: its      *)
(* upper half up, its lower half down (src/src/sieve/prime_algorithms.cu). *)
(* A node reaches the start of its range by resetAndAdvanceTo              *)
(* (device_sieving_controller.cpp), never by walking there; the ranges are *)
(* those of ChunkScheduler (cluster/chunk_scheduler.cpp).                  *)
(*                                                                         *)
(* Sequences count from 1 here, indices of the factor base from 0 as in    *)
(* the code.                                                               *)
(***************************************************************************)
EXTENDS NumberTheory

LOCAL Least(S) == CHOOSE x \in S : \A y \in S : x <= y
LOCAL Greatest(S) == CHOOSE x \in S : \A y \in S : x >= y
ceilDiv(x, y) == (x + y - 1) \div y

(***************************************************************************)
(* The first window and its pivots.                                        *)
(***************************************************************************)
Evenly(start, dim) == [i \in 1 .. dim |-> start + 2 * (i - 1)]

\* As init_a_factors and the forced dimension set them.
windowPivots(idx) ==
    LET k == Len(idx) IN
    [a_factors |-> idx, lower |-> idx[1] + k - 2, upper |-> idx[1] + (IF k % 2 = 0 THEN k ELSE k + 2)]

\* As the small-N and Jetson overrides of TuningStage set them.
overridePivots(idx, fbSize) ==
    LET hi == idx[Len(idx)]
        up == hi + (IF Len(idx) % 2 = 0 THEN 2 ELSE 4)
    IN  [a_factors |-> idx, lower |-> hi, upper |-> IF up >= fbSize THEN fbSize - 1 ELSE up]

(***************************************************************************)
(* advance: the first index of the half that can move by one stride        *)
(* without meeting its neighbour does, and the ones it passed go back to   *)
(* the pivot; when none can, the outermost index moves.                    *)
(***************************************************************************)
startUp(n) == IF n % 2 = 0 THEN n \div 2 ELSE (n + 1) \div 2
startDown(n) == IF n % 2 = 0 THEN (n - 2) \div 2 ELSE (n - 3) \div 2

advanceUp(idx, pivot) ==
    LET n == Len(idx)
        s == startUp(n)
        free == {i \in s .. n - 2 : idx[i + 1] + 2 < idx[i + 2]}
        m == Least(free)
    IN  IF free = {} THEN SubSeq(idx, 1, n - 1) \o <<idx[n] + 2>>
        ELSE SubSeq(idx, 1, s) \o Evenly(pivot, m - s) \o <<idx[m + 1] + 2>> \o SubSeq(idx, m + 2, n)

advanceDown(idx, pivot) ==
    LET n == Len(idx)
        s == startDown(n)
        free == {i \in 1 .. s : idx[i + 1] - 2 > idx[i]}
        m == Greatest(free)
    IN  IF free = {} THEN <<IF idx[1] < 2 THEN idx[1] ELSE idx[1] - 2>> \o Tail(idx)
        ELSE SubSeq(idx, 1, m) \o <<idx[m + 1] - 2>> \o Evenly(pivot - 2 * (s - m - 1), s - m)
                 \o SubSeq(idx, s + 2, n)

\* The end of a hypercube: every index back to the even one of its pair, then both halves move.
even(idx) == [i \in DOMAIN idx |-> idx[i] - (idx[i] % 2)]
nextWindow(f) ==
    [f EXCEPT !.a_factors = advanceDown(advanceUp(even(@), f.upper), f.lower), !.cur = 0]

toggle(idx, b) == [idx EXCEPT ![b + 1] = IF @ % 2 = 0 THEN @ + 1 ELSE @ - 1]

RECURSIVE graySteps(_, _, _)
graySteps(idx, cur, n) ==
    IF n = 0 THEN idx ELSE graySteps(toggle(idx, advanceGray(cur)), cur + 1, n - 1)

advance_a_factors(f, steps) ==
    IF f.cur + steps < 2 ^ Len(f.a_factors)
    THEN [f EXCEPT !.a_factors = graySteps(@, f.cur, steps), !.cur = @ + steps]
    ELSE nextWindow(f)

\* Records the coefficient, then moves on by one, batch times.
RECURSIVE prepareNextBatchIndices(_, _)
prepareNextBatchIndices(f, batch) ==
    IF batch = 0 THEN [f |-> f, indices |-> <<>>]
    ELSE LET rest == prepareNextBatchIndices(
                         IF f.cur + 1 < 2 ^ Len(f.a_factors)
                         THEN [f EXCEPT !.a_factors = toggle(@, advanceGray(f.cur)), !.cur = @ + 1]
                         ELSE nextWindow(f), batch - 1)
         IN  [indices |-> <<f.a_factors>> \o rest.indices, f |-> rest.f]

\* A number of batches from state f, the first half of them and then the others.
RECURSIVE sieveBatches(_, _, _)
sieveBatches(f, batches, batch) ==
    IF batches = 0 THEN [f |-> f, indices |-> <<>>]
    ELSE IF batches = 1 THEN prepareNextBatchIndices(f, batch)
    ELSE LET one == sieveBatches(f, batches \div 2, batch)
             two == sieveBatches(one.f, batches - (batches \div 2), batch)
         IN  [indices |-> one.indices \o two.indices, f |-> two.f]

\* A range is sieved in whole batches.
sieveRange(f, count, batch) == sieveBatches(f, ceilDiv(count, batch), batch)

fromSnapshot(snap) == [a_factors |-> snap.a_factors, lower |-> snap.lower, upper |-> snap.upper, cur |-> 0]

RECURSIVE windowsOn(_, _)
windowsOn(f, n) == IF n = 0 THEN f ELSE windowsOn(advance_a_factors(f, 2 ^ Len(f.a_factors)), n - 1)

\* The remainder of the position dropped: the node starts at its hypercube.
resetAndAdvanceTo_NoRest(snap, g) == windowsOn(fromSnapshot(snap), g \div (2 ^ Len(snap.a_factors)))

\* Whole hypercubes by steps of H, then the rest in one call.
resetAndAdvanceTo(snap, g) ==
    LET h == 2 ^ Len(snap.a_factors)
        f == windowsOn(fromSnapshot(snap), g \div h)
    IN  IF g % h > 0 THEN advance_a_factors(f, g % h) ELSE f

(***************************************************************************)
(* The ranges of the nodes and the overflow pool behind them.  Weights and *)
(* the headroom (per cent) are natural numbers.                            *)
(***************************************************************************)
w_est(nodes, target, H) == Greatest({4 * nodes, ceilDiv(target, 5 * H) * 2})
SumTo(s, i) == LET RECURSIVE sum(_)
                   sum(k) == IF k = 0 THEN 0 ELSE s[k] + sum(k - 1)
               IN  sum(i)

\* The headroom, rounded up to H and to Q, and capped; or rounded to Q alone.
rangeCount(windows, H, Q, headroom, max_count) ==
    LET quantum(x) == IF Q > 1 THEN ceilDiv(x, Q) * Q ELSE x
        extended   == quantum(ceilDiv(ceilDiv(windows * H * (100 + headroom), 100), H) * H)
    IN  IF headroom = 0 THEN quantum(windows * H)
        ELSE IF extended <= max_count THEN extended
        ELSE IF Q > 1 THEN (max_count \div Q) * Q ELSE max_count

\* The start of every range computed from the nodes, not from the counts before it.
computeContiguousRanges_ByWindows(weights, target, H, Q, headroom) ==
    LET n      == Len(weights)
        w      == w_est(n, target, H)
        used   == IF SumTo(weights, n) = 0 THEN [i \in 1 .. n |-> 1] ELSE weights
        windows(i) == Greatest({1, ceilDiv(w * used[i], SumTo(used, n))})
    IN  [i \in 1 .. n |-> [start |-> SumTo([k \in 1 .. n |-> windows(k) * H], i - 1),
                           count |-> rangeCount(windows(i), H, Q, headroom, 2 * w * H)]]

computeContiguousRanges(weights, target, H, Q, headroom) ==
    LET n      == Len(weights)
        w      == w_est(n, target, H)
        used   == IF SumTo(weights, n) = 0 THEN [i \in 1 .. n |-> 1] ELSE weights
        windows(i) == Greatest({1, ceilDiv(w * used[i], SumTo(used, n))})
        counts == [i \in 1 .. n |-> rangeCount(windows(i), H, Q, headroom, 2 * w * H)]
    IN  [i \in 1 .. n |-> [start |-> SumTo(counts, i - 1), count |-> counts[i]]]

\* The pool behind the ranges: the windows of the target at 0.04 relations per coefficient,
\* within what the walk can reach before its upper half leaves the factor base.
walkCapacity(fbSize, first) == IF fbSize > first THEN Greatest({1, (fbSize - first) \div 2}) ELSE 1
overflowPool(ranges, target, H, oversize, capacity) ==
    LET start      == SumTo([i \in DOMAIN ranges |-> ranges[i].count], Len(ranges))
        contiguous == start \div H
        total      == Least({Greatest({contiguous, ceilDiv(25 * target, H)}) * oversize, capacity})
    IN  [start |-> start, size |-> IF total > contiguous THEN (total - contiguous) * H ELSE 0]

(***************************************************************************)
(* The size of the next chunk: the base chunk until a node has completed   *)
(* two, then in proportion to its rate aps among the calibrated nodes.     *)
(* tp maps a node to [done, aps].                                          *)
(***************************************************************************)
minChunk(H, Q) == Greatest({H, 4 * Q, 16})
maxChunk(total, workers, H, Q) == Greatest({minChunk(H, Q), total \div (2 * (workers + 1))})
baseChunk(total, workers, H, Q) ==
    Greatest({minChunk(H, Q), Least({total \div (10 * (workers + 1)), maxChunk(total, workers, H, Q)})})
alignToHypercube(x, H) == ceilDiv(x, H) * H
roundToQuantum(x, Q) == IF Q <= 1 THEN x ELSE ceilDiv(x, Q) * Q

\* Clamped before it is rounded up.
nextChunkSize(tp, w, total, workers, H, Q) ==
    LET calibrated == {v \in DOMAIN tp : tp[v].done >= 2}
        sum   == SumTo([v \in DOMAIN tp |-> IF v \in calibrated THEN tp[v].aps ELSE 0], Len(tp))
        size  == IF sum = 0 THEN (baseChunk(total, workers, H, Q) * Least({4, tp[w].done})) \div 4
                 ELSE (baseChunk(total, workers, H, Q) * tp[w].aps * Cardinality(calibrated)
                         * Least({4, tp[w].done})) \div (4 * sum)
        aligned == roundToQuantum(alignToHypercube(size, H), Q)
    IN  IF w \notin calibrated THEN baseChunk(total, workers, H, Q)
        ELSE Least({Greatest({aligned, minChunk(H, Q)}), maxChunk(total, workers, H, Q)})

(***************************************************************************)
(* Resuming: a node's initial range without the part its high-water says   *)
(* is sieved.  A limit of zero means no limit to setRange, so a range that *)
(* is complete keeps its last hypercube.                                   *)
(***************************************************************************)
computeResumeTrim(range, loaded, H) ==
    LET hw  == Least({loaded, range.count})
        eff == IF hw = range.count /\ range.count >= H /\ H > 0 THEN range.count - H ELSE hw
    IN  [start |-> range.start + eff, count |-> range.count - eff, eff_hw |-> eff]

\* One leg: the node sieves in batches of Q until its limit is reached, or is killed after some
\* batches; only the end of the range records a new high-water, relative to the trimmed start.
Never == -1
Leg(range, st, H, Q, kill) ==
    LET trim == computeResumeTrim(range, st.hw, H)
        consumed == IF kill = Never THEN ceilDiv(trim.count, Q) * Q ELSE Least({kill, ceilDiv(trim.count, Q)}) * Q
        ended == kill = Never \/ (trim.count > 0 /\ consumed >= trim.count)
    IN  [hw |-> IF ended THEN Least({trim.eff_hw + consumed, range.count}) ELSE trim.eff_hw,
         limit |-> trim.count, ended |-> ended,
         sieved |-> st.sieved \union (trim.start .. trim.start + consumed - 1)]
Legs(range, H, Q, kills) ==
    LET leg[k \in 0 .. Len(kills)] ==
            IF k = 0 THEN [hw |-> 0, limit |-> range.count, ended |-> FALSE, sieved |-> {}]
            ELSE Leg(range, leg[k - 1], H, Q, kills[k])
    IN  leg
===========================================================================
