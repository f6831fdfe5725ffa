-------------------------------- MODULE Solve --------------------------------
(***************************************************************************)
(* From relations to factors: the second half of MPQSOrchestrator::Run.    *)
(* The matrix is built and reduced on one of three paths (legacy, expanded *)
(* on the host, packed on the GPU), the linear algebra returns vectors of  *)
(* its left null space, they are lifted back to relations and the square   *)
(* root step tries to split N with them.  On the packed path the threads   *)
(* of the singleton and merge kernels are interleaved.                     *)
(***************************************************************************)
EXTENDS SquareRoot

CONSTANTS
    Inputs,       \* what the sieve leaves: records [smooths, partials] of sequences of relations
    Configs,      \* configurations, see Config
    KMax,         \* largest column weight that is merged
    MaxWeight,    \* merge_max_weight
    MaxPasses,    \* kMaxIter: passes of the singleton kernel
    MaxRounds,    \* kMaxMergeRounds
    MaxSolutions, \* bw_max_solutions
    Excess,       \* matrix_truncation_excess
    MinRows       \* truncation_min_rows

\* The options that steer the control flow.  lpShare: preprocess_lp_materialize_max, in percent;
\* truncate, floor: truncation_factor and matrix_gf2_floor_factor, in percent; post: the run has a
\* postprocessor, whose persistent batch holds the smooth relations on the device.
Config == [mode : {"LEGACY", "PREPROCESS"}, force : BOOLEAN, backend : {"CPU", "GPU"}, solo : BOOLEAN,
           post : BOOLEAN, maxRows : Nat, lpShare : 0 .. 100, truncate : Nat, cycles : Nat, floor : Nat,
           chars : {"NONE", "NORM", "BRANCH"}, sqrtLegacy : BOOLEAN]

VARIABLES
    phase,     \* the stage the run is in
    cfg,       \* its configuration
    smooths,   \* host_relations_soa_
    partials,  \* host_partials_soa_
    raw,       \* raw_smooths_soa_
    expanded,  \* used_expanded_matrix_
    persistent,\* persistent batch of the postprocessor
    rows,      \* packed rows, Dead once removed or merged away
    weight,    \* column weights on the device
    colMap,    \* expanded column of every packed column
    thread,    \* state of every thread of the running kernel
    plan,      \* merge candidates of the round
    lock,      \* row_locks: 0 or the thread that holds the row
    job,       \* progress of the singleton passes and of gpuBatchMerge
    m,         \* reduced matrix [rows, nCols, map, tree, leaves]
    kernel,    \* kernel_solutions_
    lpY,       \* precomputed_lp_y_
    result     \* result_factors_

gpu == <<rows, weight, colMap, thread, plan, lock, job>>
vars == <<phase, cfg, smooths, partials, raw, expanded, persistent, gpu, m, kernel, lpY, result>>

NoMatrix == [rows |-> <<>>, nCols |-> 0, map |-> <<>>, tree |-> <<>>, leaves |-> 0]
NoJob == [pass |-> 0, removed |-> 0, stage |-> "pairs", rounds |-> 0, won |-> 0, merges |-> 0, budget |-> 0,
          cap |-> 0, nnz |-> 0, slots |-> 0, used |-> 0, cycle |-> 0, floor |-> 0]

Init ==
    /\ phase = "start" /\ cfg \in Configs
    /\ \E input \in Inputs : smooths = input.smooths /\ partials = input.partials
    /\ raw = <<>> /\ expanded = FALSE
    /\ persistent = IF cfg.post THEN smooths ELSE <<>>
    /\ rows = <<>> /\ weight = <<>> /\ colMap = <<>> /\ thread = <<>> /\ plan = <<>> /\ lock = <<>> /\ job = NoJob
    /\ m = NoMatrix /\ kernel = <<>> /\ lpY = <<>> /\ result = <<>>

-----------------------------------------------------------------------------
(* Which matrix. *)

capped == IF cfg.maxRows > 0 THEN SubSeq(smooths, 1, Min({cfg.maxRows, Len(smooths)})) ELSE smooths
expandedWanted == (cfg.mode = "PREPROCESS" /\ partials # <<>>) \/ cfg.force
ChooseMatrix ==
    /\ phase = "start"
    /\ smooths' = capped
    /\ phase' = IF cfg.mode # "PREPROCESS" /\ Len(capped) < FbSize THEN "done"
                ELSE IF expandedWanted THEN "filter" ELSE "legacy"
    /\ expanded' = expandedWanted
    /\ UNCHANGED <<cfg, partials, raw, persistent, gpu, m, kernel, lpY, result>>

\* A partial whose large prime no other partial has is dropped, and the bits of character columns
\* with it; too many combined relations drop all partials; a cluster run drops the combined ones.
isCombined(r) == r.lp > 1
pairedPartials(ps) ==
    LET kept == SelectSeq(ps, LAMBDA r : Cardinality({i \in DOMAIN ps : ps[i].lp = r.lp}) >= 2)
    IN  [i \in DOMAIN kept |-> [kept[i] EXCEPT !.chars = {}]]
lpShare == Cardinality({i \in DOMAIN smooths : isCombined(smooths[i])}) * 100
packedWanted == cfg.solo /\ cfg.backend = "GPU" /\ cfg.post
FilterPartials ==
    /\ phase = "filter"
    /\ partials' = IF lpShare > cfg.lpShare * Len(smooths) THEN <<>> ELSE pairedPartials(partials)
    /\ raw' = IF ~cfg.solo /\ partials' # <<>>
              THEN LET plain == SelectSeq(smooths, LAMBDA r : ~isCombined(r))
                   IN  [i \in DOMAIN plain |-> [plain[i] EXCEPT !.chars = {}]]
              ELSE smooths
    /\ phase' = IF packedWanted THEN "packed" ELSE "expanded"
    /\ UNCHANGED <<cfg, smooths, expanded, persistent, gpu, m, kernel, lpY, result>>

-----------------------------------------------------------------------------
(* The legacy and the expanded matrix. *)

charBits(batch) == [i \in DOMAIN batch |-> IF cfg.chars = "BRANCH" THEN batch[i].chars ELSE normBits(batch[i].sq, CharCols)]
MatrixStage ==
    /\ phase = "legacy"
    /\ LET batch == IF cfg.post THEN persistent ELSE smooths
           plain == constructFromSoA(batch)
           nCols == FbSize + 2
           host == IF cfg.chars = "NORM" /\ cfg.post /\ cfg.backend = "GPU" THEN batch ELSE smooths
       IN  m' = IF batch = <<>> THEN NoMatrix
                ELSE IF cfg.chars = "NONE" THEN [NoMatrix EXCEPT !.rows = plain, !.nCols = nCols]
                ELSE [NoMatrix EXCEPT !.rows = AppendCharacterColumns(plain, nCols, charBits(host)),
                                      !.nCols = nCols + CharCols]
    /\ persistent' = <<>>
    /\ phase' = "linalg"
    /\ UNCHANGED <<cfg, smooths, partials, raw, expanded, gpu, kernel, lpY, result>>

\* Truncation and character columns of a reduced matrix r with the bits of its rows.
columnsOf(rs) == Cardinality(usedColumns(rs))
truncated(r, least) == IF cfg.truncate = 0 \/ Len(r.rows) <= least THEN r
                ELSE LET t == truncateMatrix(r.rows, r.map, columnsOf(r.rows), Excess)
                     IN  [r EXCEPT !.rows = t.rows, !.map = t.map]
withCharacters(r, bits) ==
    LET n == columnsOf(r.rows)
    IN  IF cfg.chars = "NONE" THEN [r EXCEPT !.nCols = n]
        ELSE [r EXCEPT !.rows = AppendCharacterColumns(r.rows, n, bits), !.nCols = n + CharCols]
ExpandedMatrix ==
    /\ phase = "expanded"
    /\ LET p == preprocessMatrix(expandedMatrix(raw, partials), cfg.backend, KMax, MaxWeight)
           r == truncated([rows |-> p.rows, map |-> p.map, tree |-> p.tree, leaves |-> p.leaves, nCols |-> 0], MinRows)
       IN  m' = withCharacters(r, computeProductCharacterColumns(cfg.chars, raw \o partials, r, CharCols))
    /\ phase' = "linalg"
    /\ UNCHANGED <<cfg, smooths, partials, raw, expanded, persistent, gpu, kernel, lpY, result>>

-----------------------------------------------------------------------------
(* The packed matrix: singletons. *)

\* Launches a kernel with one thread for every element of S.
Launch(S, state) == thread' = [t \in S |-> state]
Settled(states) == \A t \in DOMAIN thread : thread[t] \in states
entryWeights(rs, nCols) == [c \in 0 .. nCols - 1 |-> Cardinality({r \in live(rs) : c \in DOMAIN rs[r].e})]

BuildPacked ==
    /\ phase = "packed"
    /\ ~readsMissingOffsets(persistent, partials)
    /\ LET built == gpuBuildPackedMatrix(persistent, partials)
           nCols == FbSize + 2 + Len(sortedLps(persistent, partials))
       IN  /\ rows' = built
           /\ weight' = entryWeights(built, nCols)
           /\ colMap' = [c \in 1 .. nCols |-> c - 1]
           /\ Launch(DOMAIN built, "scan")
           /\ job' = [NoJob EXCEPT !.pass = 1]
           /\ phase' = "singletons"
    /\ UNCHANGED <<cfg, smooths, partials, raw, expanded, persistent, plan, lock, m, kernel, lpY, result>>
\* Without partials the kernel reads the offsets of large primes through a null pointer.
BuildFaults ==
    /\ phase = "packed"
    /\ readsMissingOffsets(persistent, partials)
    /\ phase' = "fault"
    /\ UNCHANGED <<cfg, smooths, partials, raw, expanded, persistent, gpu, m, kernel, lpY, result>>

SingletonScan(r) ==
    /\ phase = "singletons" /\ r \in DOMAIN thread /\ thread[r] = "scan"
    /\ thread' = [thread EXCEPT ![r] = IF \E c \in DOMAIN rows[r].e : weight[c] = 1 THEN "remove" ELSE "done"]
    /\ UNCHANGED <<phase, cfg, smooths, partials, raw, expanded, persistent, rows, weight, colMap, plan, lock, job, m, kernel, lpY, result>>
\* The weights of the removed row are left as they were.
lighter(w, row) == [c \in DOMAIN w |-> IF c \in DOMAIN row.e THEN w[c] - 1 ELSE w[c]]
SingletonRemove(r) ==
    /\ phase = "singletons" /\ r \in DOMAIN thread /\ thread[r] = "remove"
    /\ rows' = [rows EXCEPT ![r] = Dead]
    /\ weight' = lighter(weight, rows[r])
    /\ job' = [job EXCEPT !.removed = @ + 1]
    /\ thread' = [thread EXCEPT ![r] = "done"]
    /\ UNCHANGED <<phase, cfg, smooths, partials, raw, expanded, persistent, colMap, plan, lock, m, kernel, lpY, result>>

\* gpuBatchMerge starts on rows rs, in a compaction cycle, with a budget of merges (0: no limit).
nonzeros(rs) == FoldLeft(LAMBDA n, r : n + size(r), 0, rs)
cycleBudget(rs) == LET target == (cfg.truncate * Cardinality(packedColumns(rs)) + 99) \div 100
                   IN  IF cfg.cycles = 0 \/ cfg.truncate = 0 \/ Len(rs) <= target THEN 0 ELSE Len(rs) - target
BeginMerge(rs, cycle, floor) ==
    LET now == renamed(rs)
        nCols == Cardinality(packedColumns(rs))
    IN  /\ rows' = now
        /\ weight' = gf2Weights(now, nCols)
        /\ colMap' = [c \in 1 .. nCols |-> colMap[Sorted(packedColumns(rs))[c] + 1]]
        /\ thread' = <<>>
        /\ lock' = [r \in DOMAIN now |-> 0]
        /\ job' = [NoJob EXCEPT !.cycle = cycle, !.floor = floor, !.nnz = nonzeros(now), !.budget = cycleBudget(now)]
liveRows == picked(rows, Sorted(live(rows)))
aliveColumns(rs) == Cardinality(UNION {oddColumns(rs[i]) : i \in DOMAIN rs})
SingletonPass ==
    /\ phase = "singletons" /\ Settled({"done"})
    /\ IF job.removed > 0 /\ job.pass < MaxPasses
       THEN /\ Launch(live(rows), "scan")
            /\ job' = [job EXCEPT !.pass = @ + 1, !.removed = 0]
            /\ UNCHANGED <<phase, rows, weight, colMap, lock>>
       ELSE /\ BeginMerge(liveRows, 0, (cfg.floor * aliveColumns(liveRows)) \div 100)
            /\ phase' = "merge"
    /\ UNCHANGED <<cfg, smooths, partials, raw, expanded, persistent, plan, m, kernel, lpY, result>>

-----------------------------------------------------------------------------
(* The packed matrix: merges.  The host plans a round, its threads lock both rows or give up. *)

roundPlan == IF job.stage = "pairs" THEN planWeight2Merges(rows, weight)
             ELSE planHigherWeightMerges(rows, weight, KMax, job.cap)
roundsOver == \/ job.budget > 0 /\ job.merges >= job.budget
              \/ job.rounds >= MaxRounds
              \/ roundPlan = <<>>
PlanRound ==
    /\ phase = "merge" /\ plan = <<>>
    /\ IF ~roundsOver
       THEN /\ plan' = roundPlan
            /\ Launch(DOMAIN plan', "start")
            /\ UNCHANGED <<phase, job>>
       ELSE /\ job' = IF job.stage = "pairs"
                      THEN [job EXCEPT !.stage = "higher", !.rounds = 0,
                                       !.cap = fillCap(job.nnz, Cardinality(live(rows)), MaxWeight)]
                      ELSE job
            /\ phase' = IF job.stage = "pairs" THEN "merge" ELSE "merged"
            /\ UNCHANGED <<plan, thread>>
    /\ UNCHANGED <<cfg, smooths, partials, raw, expanded, persistent, rows, weight, colMap, lock, m, kernel, lpY, result>>

Step(t, from) == phase = "merge" /\ t \in DOMAIN thread /\ thread[t] = from
HostUnchanged == UNCHANGED <<phase, cfg, smooths, partials, raw, expanded, persistent, colMap, m, kernel, lpY, result>>
LockFirst(t) ==
    /\ Step(t, "start")
    /\ LET r == plan[t][1] IN
       IF lock[r] = 0 THEN lock' = [lock EXCEPT ![r] = t] /\ thread' = [thread EXCEPT ![t] = "first"]
       ELSE lock' = lock /\ thread' = [thread EXCEPT ![t] = "done"]
    /\ HostUnchanged /\ UNCHANGED <<rows, weight, plan, job>>
LockSecond(t) ==
    /\ Step(t, "first")
    /\ LET r == plan[t][2] IN
       IF lock[r] = 0 THEN lock' = [lock EXCEPT ![r] = t] /\ thread' = [thread EXCEPT ![t] = "locked"]
       ELSE lock' = [lock EXCEPT ![plan[t][1]] = 0] /\ thread' = [thread EXCEPT ![t] = "done"]
    /\ HostUnchanged /\ UNCHANGED <<rows, weight, plan, job>>
\* The workspace holds as many merged rows as there are rows, of three times their mean weight.
slotsMax == Max({Len(rows), MinMerges})
entriesMax == Max({1, slotsMax * (IF Len(rows) = 0 THEN 32 ELSE job.nnz \div Len(rows)) * 3})
reserved(row) == job.slots < slotsMax /\ job.used + size(row) <= entriesMax
\* Both rows must be live, at the time of the merge and not only in the plan.
bothLive(a, b) == rows[a] # Dead /\ rows[b] # Dead
parity(row, c) == IF Odd(exponent(row, c)) THEN 1 ELSE 0
\* The weights of the second row, which is dropped, stay counted.
mergedWeights(w, a, b, row) == [c \in DOMAIN w |-> w[c] + parity(row, c) - parity(a, c) - parity(b, c)]
MergeRows(t) ==
    /\ Step(t, "locked")
    /\ LET r1 == plan[t][1]
           r2 == plan[t][2]
           row == mergedRow(rows[r1], rows[r2])
       IN  IF bothLive(r1, r2) /\ fitsLocal(row) /\ reserved(row)
           THEN /\ rows' = [rows EXCEPT ![r1] = row, ![r2] = Dead]
                /\ weight' = mergedWeights(weight, rows[r1], rows[r2], row)
                /\ job' = [job EXCEPT !.won = @ + 1, !.slots = @ + 1, !.used = @ + size(row)]
           ELSE UNCHANGED <<rows, weight, job>>
    /\ thread' = [thread EXCEPT ![t] = "release"]
    /\ HostUnchanged /\ UNCHANGED <<plan, lock>>
ReleaseFirst(t) ==
    /\ Step(t, "release")
    /\ lock' = [lock EXCEPT ![plan[t][1]] = 0]
    /\ thread' = [thread EXCEPT ![t] = "half"]
    /\ HostUnchanged /\ UNCHANGED <<rows, weight, plan, job>>
ReleaseSecond(t) ==
    /\ Step(t, "half")
    /\ lock' = [lock EXCEPT ![plan[t][2]] = 0]
    /\ thread' = [thread EXCEPT ![t] = "done"]
    /\ HostUnchanged /\ UNCHANGED <<rows, weight, plan, job>>
EndRound ==
    /\ phase = "merge" /\ plan # <<>> /\ Settled({"done"})
    /\ lock' = [r \in DOMAIN lock |-> 0]
    /\ job' = [job EXCEPT !.merges = @ + job.won, !.won = 0, !.rounds = @ + 1]
    /\ plan' = <<>> /\ thread' = <<>>
    /\ HostUnchanged /\ UNCHANGED <<rows, weight>>

\* Another cycle on compacted rows, unless merging has slowed down or too few columns are left.
cyclesOver == \/ job.cycle >= cfg.cycles
              \/ job.merges < (Cardinality(live(rows)) * 2) \div 100
              \/ aliveColumns(liveRows) < job.floor
CompactMergeCycle ==
    /\ phase = "merged" /\ ~cyclesOver
    /\ BeginMerge(liveRows, job.cycle + 1, job.floor)
    /\ phase' = "merge"
    /\ UNCHANGED <<cfg, smooths, partials, raw, expanded, persistent, plan, m, kernel, lpY, result>>
\* The parities of the merged rows, without singletons, truncated, with character columns.
gpuExtractGF2 ==
    /\ phase = "merged" /\ cyclesOver
    /\ LET gf2 == renumbered([i \in DOMAIN liveRows |-> oddColumns(liveRows[i])])
           singles == removeSingletons(gf2)
           r == truncated([NoMatrix EXCEPT !.rows = singles.rows, !.map = singles.map], 0)
           kept == picked(liveRows, r.map)
       IN  /\ m' = withCharacters(r, charBits(kept))
           /\ rows' = kept
    /\ phase' = "linalg"
    /\ UNCHANGED <<cfg, smooths, partials, raw, expanded, persistent, weight, colMap, thread, plan, lock, job, kernel, lpY, result>>

-----------------------------------------------------------------------------
(* Linear algebra, lifting and square root. *)

\* pad_to_square adds zero rows when there are more columns than rows.
padded(a) == a.rows \o [i \in 1 .. a.nCols - Len(a.rows) |-> {}]
NullSpace(rs) == {v \in SUBSET DOMAIN rs : v # {} /\ XorAll(rs, v) = {}}
LinearAlgebraStage ==
    /\ phase = "linalg"
    /\ IF m.rows = <<>> THEN kernel' = <<>>
       ELSE \E k \in 0 .. MaxSolutions : kernel' \in {s \in [1 .. k -> NullSpace(padded(m))] : IsInjective(s)}
    /\ phase' = IF kernel' = <<>> THEN "done" ELSE "lift"
    /\ UNCHANGED <<cfg, smooths, partials, raw, expanded, persistent, gpu, m, lpY, result>>

isPacked == expanded /\ packedWanted
\* Product of the large primes to half the power the dependency holds them in.
halfPowers(count) == FoldSet(LAMBDA p, y : (y * Power(p, count[p] \div 2)) % N, 1, DOMAIN count)
expandedColumn(c) == colMap[c + 1]
packedRelation(row) ==
    LET cols == {c \in DOMAIN row.e : expandedColumn(c) \in 2 .. FbSize + 1}
    IN  [sq |-> row.sq, neg |-> row.neg, v2 |-> row.v2, lp |-> 1, chars |-> {},
         f |-> [j \in {expandedColumn(c) - 1 : c \in cols} |-> row.e[CHOOSE c \in cols : expandedColumn(c) - 1 = j]]]
lpPower(v, k) == FoldSet(LAMBDA i, n : n + FoldSet(LAMBDA c, s : s + (IF expandedColumn(c) = FbSize + 1 + k THEN rows[i].e[c] ELSE 0),
                                                   0, DOMAIN rows[i].e), 0, v \cap DOMAIN rows)
LiftPacked ==
    /\ phase = "lift" /\ isPacked
    /\ LET lps == sortedLps(smooths, partials)
           place(p) == CHOOSE k \in DOMAIN lps : lps[k] = p
       IN  lpY' = [i \in DOMAIN kernel |-> halfPowers([p \in Range(lps) |-> lpPower(kernel[i], place(p))])]
    /\ smooths' = [i \in DOMAIN rows |-> packedRelation(rows[i])]
    /\ phase' = "sqrt"
    /\ UNCHANGED <<cfg, partials, raw, expanded, persistent, gpu, m, kernel, result>>

\* A combined relation holds its large prime twice, a partial once.
lpTimes_Once(i, ns) == 1
lpTimes(i, ns) == IF i <= ns THEN 2 ELSE 1
LiftExpanded ==
    /\ phase = "lift" /\ expanded /\ ~isPacked
    /\ LET all == raw \o partials
           lifted == [k \in DOMAIN kernel |-> expandKernelVector(kernel[k] \cap DOMAIN m.map, m)]
           count(k, p) == FoldSet(LAMBDA i, n : IF all[i].lp = p THEN n + lpTimes(i, Len(raw)) ELSE n, 0, lifted[k])
       IN  /\ kernel' = lifted
           /\ lpY' = [k \in DOMAIN kernel |-> halfPowers([p \in {all[i].lp : i \in DOMAIN all} \ {1} |-> count(k, p)])]
           /\ smooths' = [i \in DOMAIN all |-> [all[i] EXCEPT !.lp = 1]]
    /\ phase' = "sqrt"
    /\ UNCHANGED <<cfg, partials, raw, expanded, persistent, gpu, m, result>>
LiftLegacy ==
    /\ phase = "lift" /\ ~expanded
    /\ lpY' = [i \in DOMAIN kernel |-> 1]
    /\ phase' = "sqrt"
    /\ UNCHANGED <<cfg, smooths, partials, raw, expanded, persistent, gpu, m, kernel, result>>

SquareRootStage ==
    /\ phase = "sqrt"
    /\ result' = IF cfg.sqrtLegacy THEN performAll(smooths, kernel, lpY) ELSE batchedThenHost(smooths, kernel, lpY)
    /\ phase' = "done"
    /\ UNCHANGED <<cfg, smooths, partials, raw, expanded, persistent, gpu, m, kernel, lpY>>

Finished == phase \in {"done", "fault"} /\ UNCHANGED vars

Next ==
    \/ ChooseMatrix \/ FilterPartials \/ MatrixStage \/ ExpandedMatrix \/ BuildPacked \/ BuildFaults
    \/ \E r \in DOMAIN rows : SingletonScan(r) \/ SingletonRemove(r)
    \/ SingletonPass \/ PlanRound
    \/ \E t \in DOMAIN plan : LockFirst(t) \/ LockSecond(t) \/ MergeRows(t) \/ ReleaseFirst(t) \/ ReleaseSecond(t)
    \/ EndRound \/ CompactMergeCycle \/ gpuExtractGF2
    \/ LinearAlgebraStage \/ LiftPacked \/ LiftExpanded \/ LiftLegacy \/ SquareRootStage \/ Finished
Spec == Init /\ [][Next]_vars
-----------------------------------------------------------------------------
(* Properties. *)

\* The value a packed row stands for: signed product of its primes, large primes included, mod N.
columnPrime(k) == IF k = 1 THEN 2 ELSE IF k <= FbSize + 1 THEN FactorBase[k - 1]
                  ELSE sortedLps(persistent, partials)[k - FbSize - 1]
rowValue(row) ==
    LET p == FoldSet(LAMBDA c, y : (y * Power(columnPrime(expandedColumn(c)), row.e[c])) % N, 1,
                     {c \in DOMAIN row.e : expandedColumn(c) # 0})
    IN  IF row.neg THEN (N - p) % N ELSE p
\* Whatever the threads of execute_merges_kernel do, a live packed row is a relation: the square of
\* its root is the product of its primes, and no two live rows share a relation of the sieve
\* (gpu_batch_merge.cu 223-404, gpu_compact_packed.cu 309-530).
LiveRowsHold ==
    phase \in {"singletons", "merge", "merged"} =>
        /\ \A r \in live(rows) : /\ (rows[r].sq * rows[r].sq) % N = rowValue(rows[r])
                                 /\ rows[r].of # {}
        /\ \A r, q \in live(rows) : r # q => rows[r].of \cap rows[q].of = {}

\* Between rounds the column weights the host plans with are those of the rows: the atomic updates
\* of the merge threads add up (gpu_batch_merge.cu 381-398), and no lock is left behind.
WeightsExact ==
    phase = "merge" /\ plan = <<>> => /\ weight = gf2Weights(rows, Len(colMap))
                                      /\ \A r \in DOMAIN lock : lock[r] = 0

\* What the merge threads share, rows and weights, is right when they are done.
RowsHold == LiveRowsHold /\ WeightsExact

\* The singleton kernel races on the column weights, yet every schedule ends with the same rows: the
\* largest set of relations in which no column occurs once (gpu_singleton_packed.cu 179-209).
noSingleton(S, built) == \A i \in S : \A c \in DOMAIN built[i].e : \E j \in S \ {i} : c \in DOMAIN built[j].e
CoreReached ==
    phase = "merge" /\ plan = <<>> /\ job.stage = "pairs" /\ job.rounds = 0 /\ job.cycle = 0 =>
        LET built == gpuBuildPackedMatrix(persistent, partials)
            core == UNION {rows[r].of : r \in DOMAIN rows}
        IN  /\ noSingleton(core, built)
            /\ \A S \in SUBSET DOMAIN built : noSingleton(S, built) => S \subseteq core

\* Reduction on the host loses no dependency: the null space of the reduced matrix lifts one to one
\* onto that of the expanded one (merge_filter.cpp, merge_tree.cpp 13-66), when neither truncation
\* nor character columns shrink it on purpose.
NullSpaceKept ==
    phase = "linalg" /\ expanded /\ ~isPacked /\ cfg.truncate = 0 /\ cfg.chars = "NONE" =>
        {expandKernelVector(v, m) : v \in NullSpace(m.rows)} = NullSpace(expandedMatrix(raw, partials))
        /\ \A v, w \in NullSpace(m.rows) : expandKernelVector(v, m) = expandKernelVector(w, m) => v = w

\* Filtering drops only relations that are in no dependency.
ReductionExact == CoreReached /\ NullSpaceKept

\* On every path a vector of the null space of the (reduced, padded) matrix selects relations whose
\* product is a square, large primes included: X^2 = Y^2 (mod N) (orchestrator.cpp 2066-2374).
SquaresAgree ==
    phase = "sqrt" =>
        \A i \in DOMAIN kernel :
            LET x == ComputeX(smooths, kernel[i])
                y == ApplyLPCorrection(BatchedExponentiateY(smooths, kernel[i]), lpY[i])
            IN  (x * x) % N = (y * y) % N

\* The run reports factors exactly when one of its dependencies splits N, and then their product is
\* N (orchestrator.cpp 7017-7306, sqrt_step.cu 1430-1641, 1662-1827).
splitsN(i) == LET x == ComputeX(smooths, kernel[i])
                  y == ApplyLPCorrection(ComputeY(smooths, kernel[i]), lpY[i])
              IN  \E f \in 2 .. N - 1 : f = gcd((x - y) % N, N) \/ f = gcd((x + y) % N, N)
FactorsRight ==
    phase = "done" => /\ result # <<>> <=> \E i \in DOMAIN kernel : splitsN(i)
                      /\ result # <<>> => result[1] * result[2] = N /\ result[1] \in 2 .. N - 1

=============================================================================
