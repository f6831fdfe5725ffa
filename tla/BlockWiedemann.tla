--------------------------- MODULE BlockWiedemann ---------------------------
(***************************************************************************)
(* A run of the block Wiedemann solver (src/linalg/src/lingen/bw_solver.cu)*)
(* in a checkpoint directory: Solve with its three stages, the files each  *)
(* of them leaves (io/bw_io.h), a kill of the process at any point and the *)
(* launch of another one, with --bw_resume or without.                     *)
(*                                                                         *)
(* Stage 1 is the pipeline of the host and the two streams of              *)
(* KrylovSequenceGenerator::generate, batch by batch; stage 2 the steps of *)
(* BasecaseSolver::solve, run on the device with the host as its oracle;   *)
(* stage 3 the reconstruction, batch by batch or candidate by candidate.   *)
(* The matrices are real ones over GF(2), of a few rows; the block sizes,  *)
(* multiples of 64 in the code, are small here.                            *)
(*                                                                         *)
(* A directory serves one matrix.  The operator is the transpose, as       *)
(* LinearAlgebraStage asks.                                                *)
(***************************************************************************)
EXTENDS Lingen

LOCAL INSTANCE FiniteSetsExt
LOCAL INSTANCE SequencesExt

CONSTANTS
    Matrices,              \* the square matrices tried
    Blocks,                \* the pairs <<m, n>> of block sizes
    Seeds,                 \* the seeds a launch may be given
    RandomVector(_, _, _), \* MatrixGenerator: seed, rows, width
    BatchSize,             \* terms of the sequence in one batch
    HistoryDepth, CheckInterval, StripLimit,
    MaxSolutions,
    MaxLaunches,
    Fills                  \* what fresh device memory may hold, column by column

ASSUME SizesAssumption ==
    /\ BatchSize \in Nat \ {0} /\ HistoryDepth \in Nat \ {0}
    /\ CheckInterval \in Nat \ {0} /\ CheckInterval < HistoryDepth
    /\ StripLimit \in Nat /\ MaxSolutions \in Nat \ {0} /\ MaxLaunches \in Nat

\* The block sizes of the code are multiples of 64, so that the sequence has a term.
ASSUME JobsAssumption ==
    /\ \A a \in Matrices : IsFiniteSet(DOMAIN a)
    /\ Blocks \subseteq (Nat \ {0}) \X (Nat \ {0})
    /\ \A a \in Matrices, b \in Blocks : seq_len(Cardinality(DOMAIN a), b[1], b[2]) > 0
    /\ Seeds \subseteq Nat

VARIABLES
    job,      \* the matrix and the flags of the directory's runs
    seed,     \* the seed of the process that runs, or ran last
    pc,       \* where Solve is
    load,     \* load_checkpoints, after the test of the tag
    vectors_only,
    kry,      \* the pipeline of stage 1
    hS,       \* the sequence on the host
    dS,       \* d_S_sequence_, the sequence on the device
    F, gamma, t,  \* the generator
    queue, basis, buffer, solutions, history,  \* the reconstruction
    disk,     \* the files
    launches,
    foreign,  \* the process met a file that no run of its seed wrote whole
    results   \* per seed, what finished processes returned

memory == <<vectors_only, kry, hS, dS, F, gamma, t, queue, basis, buffer, solutions, history>>
vars == <<job, seed, pc, load, memory, disk, launches, foreign, results>>

A == job.A
nrows == Cardinality(DOMAIN job.A)
m == job.m
n == job.n
X == RandomVector(seed, nrows, m)
Z == RandomVector((2 * seed) + 7, nrows, n)
SeqLen == seq_len(nrows, m, n)
dim == m + n

(***************************************************************************)
(* Files.  A file that is whole carries its content and the seed of the    *)
(* process that wrote it, or -1 when that process had met foreign files or *)
(* unwritten memory; only the properties read it.  Every solution has a    *)
(* file of its own, and those beyond the last one written stay.            *)
(***************************************************************************)
NoFile == [st |-> "none"]
Tainted == foreign \/ \E i \in DOMAIN solutions : solutions[i].old
Writer == IF Tainted THEN -1 ELSE seed
Torn(v) == [st |-> "torn", v |-> v, from |-> -1]
Whole(v) == [st |-> "whole", v |-> v, from |-> Writer]
exists(f) == disk[f].st # "none"
Foreign(f) == exists(f) /\ disk[f].from # seed
ForeignSolutions ==
    exists("meta") /\ (Foreign("meta") \/ \E i \in DOMAIN disk.sol : i <= disk.meta.v /\ disk.sol[i].from # seed)

\* The tag mixes the dimensions and the seed, and not the matrix.
compute_ckpt_tag == <<nrows, m, n, seed>>
checkpoint_tag_matches == disk.tag = compute_ckpt_tag

\* A kill may cut a write short.
Write(f, v, next) ==
    \/ disk' = [disk EXCEPT ![f] = Whole(v)] /\ pc' = next
    \/ disk' = [disk EXCEPT ![f] = Torn(v)] /\ pc' = "down"

\* load_sequence does not look whether the read succeeded: what is missing is zero.
load_sequence ==
    IF disk.S.st = "whole" THEN disk.S.v
    ELSE [i \in DOMAIN disk.S.v |-> IF i = 1 THEN disk.S.v[i] ELSE ZeroMatrix(m)]

(***************************************************************************)
(* Launch: AutoTune has nothing to say here; the tag is tested once, all   *)
(* loads are off when it differs, and the tag of this run is stamped.      *)
(***************************************************************************)
Pipeline0 == [issued |-> 0, computed |-> 0, copied |-> 0, collected |-> 0,
              dbuf |-> <<-1, -1>>, hbuf |-> <<-1, -1>>, out |-> <<>>, target |-> <<>>]

Blank ==
    /\ kry' = Pipeline0 /\ hS' = <<>> /\ dS' = <<>> /\ F' = <<>> /\ gamma' = <<>> /\ t' = 0
    /\ queue' = <<>> /\ basis' = <<>> /\ buffer' = <<>> /\ solutions' = <<>> /\ history' = <<>>

Solve(resume, sd) ==
    /\ pc \in {"down", "done", "failed"}
    /\ launches < MaxLaunches
    /\ launches' = launches + 1
    /\ seed' = sd
    /\ LET tag      == <<nrows, m, n, sd>>
           tag_ok   == disk.tag = tag
           load_sol == resume /\ tag_ok /\ exists("meta")
           load_pi  == resume /\ tag_ok /\ ~load_sol /\ exists("pi")
       IN  /\ load' = (resume /\ tag_ok)
           /\ disk' = [disk EXCEPT !.tag = tag]
           /\ vectors_only' = load_pi
           /\ pc' = IF load_sol THEN "stage3" ELSE "stage1"
    /\ foreign' = FALSE
    /\ Blank
    /\ UNCHANGED <<job, results>>

\* The process is killed; what it wrote stays.
Kill ==
    /\ pc \notin {"down", "done", "failed"}
    /\ pc' = "down"
    /\ Blank
    /\ UNCHANGED <<job, seed, load, vectors_only, disk, launches, foreign, results>>

(***************************************************************************)
(* Stage 1.                                                                *)
(***************************************************************************)
RunStage1 ==
    /\ pc = "stage1"
    /\ IF vectors_only THEN pc' = "stage2" /\ UNCHANGED <<hS, foreign>>
       ELSE IF load /\ exists("S")
            THEN /\ hS' = load_sequence
                 /\ foreign' = (foreign \/ Foreign("S"))
                 /\ pc' = "stage2"
            ELSE pc' = "krylov" /\ UNCHANGED <<hS, foreign>>
    /\ UNCHANGED <<job, seed, load, vectors_only, kry, dS, F, gamma, t, queue, basis, buffer,
                   solutions, history, disk, launches, results>>

\* The terms X^T B^(i+1) Z.  The other operator, when it is the faster one, is
\* applied to X and projected on Z, and the terms are transposed.
Term(i) ==
    IF job.alt
    THEN k_transpose(KrylovTerm(Z, X, [w \in SUBSET DOMAIN A |-> BwOperatorA_mul(A, w)], i, n, m), m)
    ELSE KrylovTerm(X, Z, [w \in SUBSET DOMAIN A |-> BwOperatorAT_mul(A, w)], i, m, n)

Terms == [i \in 1 .. SeqLen |-> Term(i)]

TotalBatches == (SeqLen + BatchSize - 1) \div BatchSize

\* The sequence whose i-th batch is what a buffer held of batch held[i].
Assemble(held) ==
    [i \in 1 .. SeqLen |->
        LET b == (i - 1) \div BatchSize
            j == (held[b + 1] * BatchSize) + ((i - 1) % BatchSize)
        IN  IF held[b + 1] >= 0 /\ j < SeqLen THEN Term(j + 1) ELSE ZeroMatrix(m)]

Slot(b) == (b % 2) + 1

\* The host enqueues a batch: the wait for the copy two batches ago, the
\* projections, the two events and the copy.
Issue ==
    /\ pc = "krylov"
    /\ kry.issued < TotalBatches /\ kry.collected + 1 >= kry.issued
    /\ kry' = [kry EXCEPT !.issued = @ + 1]

\* compute_stream_: the batch is computed into its buffer and copied to d_S_target.
Compute ==
    /\ pc = "krylov"
    /\ kry.computed < kry.issued
    /\ kry.computed >= 2 => kry.copied >= kry.computed - 1
    /\ kry' = [kry EXCEPT !.computed = @ + 1, !.dbuf[Slot(kry.computed)] = kry.computed,
                          !.target = Append(@, kry.computed)]

Copy_NoEvent ==
    /\ pc = "krylov"
    /\ kry.copied < kry.issued
    /\ kry' = [kry EXCEPT !.copied = @ + 1, !.hbuf[Slot(kry.copied)] = kry.dbuf[Slot(kry.copied)]]

\* copy_stream_: after compute_done_, to the host buffer of the batch.
Copy ==
    /\ pc = "krylov"
    /\ kry.copied < kry.computed
    /\ kry' = [kry EXCEPT !.copied = @ + 1, !.hbuf[Slot(kry.copied)] = kry.dbuf[Slot(kry.copied)]]

\* The host, one batch behind and after copy_done_, moves the buffer to out_seq.
Collect ==
    /\ pc = "krylov"
    /\ kry.collected + 1 < kry.issued \/ kry.issued = TotalBatches
    /\ kry.collected < TotalBatches /\ kry.copied > kry.collected
    /\ kry' = [kry EXCEPT !.collected = @ + 1, !.out = Append(@, kry.hbuf[Slot(kry.collected)])]

generate == Issue \/ Compute \/ Copy \/ Collect

Stage1Done ==
    /\ pc = "krylov"
    /\ kry.collected = TotalBatches /\ kry.computed = TotalBatches
    /\ hS' = Assemble(kry.out)
    /\ dS' = IF job.keep THEN Assemble(kry.target) ELSE <<>>
    /\ pc' = "saveS"
    /\ kry' = Pipeline0

save_sequence == pc = "saveS" /\ Write("S", hS, "stage2")

(***************************************************************************)
(* Stage 2.                                                                *)
(***************************************************************************)
\* S on the device, as stage 2 finds it.
Sequence == IF dS # <<>> THEN dS ELSE hS

\* A generator that loads ends the stage; without a sequence the stage throws.
RunStage2 ==
    /\ pc = "stage2"
    /\ IF load /\ exists("pi") /\ checkpoint_tag_matches /\ disk.pi.st = "whole"
       THEN /\ F' = disk.pi.v /\ pc' = "stage3"
            /\ foreign' = (foreign \/ Foreign("pi"))
            /\ UNCHANGED <<gamma, t>>
       ELSE IF Sequence = <<>>
       THEN pc' = "failed" /\ foreign' = (foreign \/ Foreign("pi")) /\ UNCHANGED <<F, gamma, t>>
       ELSE LET init == k_find_init_basis(Sequence, m, n)
            IN  /\ F' = build_f_init(init, m, n)
                /\ gamma' = [r \in Upto(dim) |-> init.t0]
                /\ t' = init.t0
                /\ pc' = IF init = find_init_basis_cpu(Sequence, m, n) THEN "lingen" ELSE "mismatch"
                /\ UNCHANGED foreign
    /\ UNCHANGED <<job, seed, load, vectors_only, kry, hS, dS, queue, basis, buffer, solutions,
                   history, disk, launches, results>>

\* One step on the device, compared with the host's.
LingenStep ==
    /\ pc = "lingen" /\ t < SeqLen
    /\ LET delta  == k_compute_discrepancy(F, Sequence, t, m)
           elim   == k_elimination(delta, gamma, m)
           shifts == k_compute_shifts(elim.delta, gamma, m)
           ref    == compute_elimination_step(compute_discrepancy(F, Sequence, t, m), gamma, m)
           rshift == compute_shift_vector(ref.delta, gamma, m)
           next   == k_scatter_update(F, elim.tau, shifts)
           agree  == /\ delta = compute_discrepancy(F, Sequence, t, m)
                     /\ elim.tau = ref.tau /\ elim.delta = ref.delta
                     /\ shifts = rshift
                     /\ Trim(next) = apply_update(F, ref.tau, rshift)
       IN  /\ F' = next
           /\ gamma' = k_update_gamma(gamma, shifts)
           /\ pc' = IF agree THEN "lingen" ELSE "mismatch"
    /\ t' = t + 1

\* The generator is downloaded and trimmed; the device sequence is freed.
LingenDone ==
    /\ pc = "lingen" /\ t = SeqLen
    /\ F' = Trim(F)
    /\ dS' = <<>>
    /\ pc' = "savePi"

save_polynomial == pc = "savePi" /\ Write("pi", F, "stage3")

(***************************************************************************)
(* Stage 3.                                                                *)
(***************************************************************************)
\* Every solution file the metadata counts is there and whole.
load_solutions_ok ==
    /\ disk.meta.st = "whole"
    /\ \A i \in 1 .. disk.meta.v : i \in DOMAIN disk.sol /\ disk.sol[i].st = "whole"

\* hPi_ empty: the stage returns without a solution.  The reconstructor
\* allocates its history and does not clear it.
RunStage3 ==
    /\ pc = "stage3"
    /\ IF load /\ exists("meta") /\ checkpoint_tag_matches /\ load_solutions_ok
       THEN /\ solutions' = [i \in 1 .. disk.meta.v |-> disk.sol[i].v]
            /\ foreign' = (foreign \/ ForeignSolutions)
            /\ pc' = "return" /\ UNCHANGED <<queue, history>>
       ELSE IF F = <<>>
       THEN /\ pc' = "return" /\ foreign' = (foreign \/ ForeignSolutions)
            /\ UNCHANGED <<solutions, queue, history>>
       ELSE /\ queue' = IF job.batch THEN BatchQueue(CandidateQueue(F, n), n) ELSE CandidateQueue(F, n)
            /\ \E fill \in IF job.batch THEN Fills ELSE {{}} :
                   history' = [s \in Upto(HistoryDepth) |-> [c \in Upto(n) |-> fill]]
            /\ pc' = "recon" /\ UNCHANGED <<solutions, foreign>>
    /\ UNCHANGED <<job, seed, load, vectors_only, kry, hS, dS, F, gamma, t, basis, buffer,
                   disk, launches, results>>

\* A vector of weight zero, or one that depends on the basis, is dropped.  old
\* marks a vector from a snapshot of an earlier batch, or reduced by such a one.
insert_into_basis(bs, v, old) ==
    LET r == ReduceByPivot([i \in DOMAIN bs |-> bs[i].vec], v)
    IN  IF r = {} THEN bs
        ELSE Append(bs, [vec |-> r, old |-> old \/ \E i \in DOMAIN bs : bs[i].old])

StripStep_Oldest(M, st, step, width) ==
    LET cursor == (st.cursor + 1) % HistoryDepth
        W      == [c \in DOMAIN st.W |-> BwOperatorAT_mul(M, st.W[c])]
        hist   == [st.hist EXCEPT ![cursor] = W]
        back(c) == {b \in 1 .. HistoryDepth - 1 :
                        hist[(cursor - b + HistoryDepth) % HistoryDepth][c] # {}}
        slot(c) == (cursor - Max(back(c)) + HistoryDepth) % HistoryDepth
        Look(s, c) ==
            IF c \notin s.active \/ W[c] # {} THEN s
            ELSE IF back(c) = {} THEN [s EXCEPT !.active = @ \ {c}]
            ELSE LET bs == insert_into_basis(s.basis, hist[slot(c)][c], slot(c) > step)
                 IN  [s EXCEPT !.active = @ \ {c}, !.basis = bs,
                               !.found = IF bs = s.basis THEN @ ELSE Append(@, Last(bs))]
        moved == [st EXCEPT !.cursor = cursor, !.W = W, !.hist = hist]
    IN  IF st.active = {} THEN st
        ELSE IF step % CheckInterval # 0 THEN moved
        ELSE FoldLeft(Look, moved, [i \in 1 .. width |-> width - i])

(* One step of RunBatchStripping.  The block is multiplied and stored in   *)
(* the ring of snapshots; every CheckInterval steps the columns that have  *)
(* become zero are traced back to the last snapshot that is not zero.      *)
StripStep(M, st, step, width) ==
    LET cursor == (st.cursor + 1) % HistoryDepth
        W      == [c \in DOMAIN st.W |-> BwOperatorAT_mul(M, st.W[c])]
        hist   == [st.hist EXCEPT ![cursor] = W]
        back(c) == {b \in 1 .. HistoryDepth - 1 :
                        hist[(cursor - b + HistoryDepth) % HistoryDepth][c] # {}}
        slot(c) == (cursor - Min(back(c)) + HistoryDepth) % HistoryDepth
        Look(s, c) ==
            IF c \notin s.active \/ W[c] # {} THEN s
            ELSE IF back(c) = {} THEN [s EXCEPT !.active = @ \ {c}]
            ELSE LET bs == insert_into_basis(s.basis, hist[slot(c)][c], slot(c) > step)
                 IN  [s EXCEPT !.active = @ \ {c}, !.basis = bs,
                               !.found = IF bs = s.basis THEN @
                                         ELSE Append(@, Last(bs))]
        moved == [st EXCEPT !.cursor = cursor, !.W = W, !.hist = hist]
    IN  IF st.active = {} THEN st
        ELSE IF step % CheckInterval # 0 THEN moved
        ELSE FoldLeft(Look, moved, [i \in 1 .. width |-> width - i])

RunBatchStripping(M, W, bs, hist, width) ==
    FoldLeft(LAMBDA st, step : StripStep(M, st, step, width),
             [cursor |-> 0, W |-> W, hist |-> [hist EXCEPT ![0] = W],
              active |-> Upto(width), basis |-> bs, found |-> <<>>],
             [i \in 1 .. StripLimit |-> i])

\* The batch runs to its highest degree; columns without a candidate are zero.
BatchColumns(M, z, f, width, batch) ==
    LET top == Max({batch[i].deg : i \in DOMAIN batch})
    IN  [c \in Upto(width) |->
            IF c < Len(batch) THEN Horner(M, z, f, width, batch[c + 1], top) ELSE {}]

FindNextBatch ==
    /\ pc = "recon" /\ job.batch
    /\ Len(solutions) < MaxSolutions /\ buffer = <<>> /\ queue # <<>>
    /\ LET batch == Head(queue)
           st    == RunBatchStripping(A, BatchColumns(A, Z, F, n, batch), basis, history, Len(batch))
       IN  basis' = st.basis /\ buffer' = st.found /\ history' = st.hist
    /\ queue' = Tail(queue)
    /\ UNCHANGED solutions

\* The first vector of w, A w, A^2 w, ... whose product with A is zero, or {}.
strip_valuation(M, w) ==
    FoldLeft(LAMBDA v, i : IF BwOperatorAT_mul(M, v) = {} THEN v ELSE BwOperatorAT_mul(M, v),
             w, [i \in 1 .. StripLimit |-> i])

\* The basis with the candidate of column c in it, if it leads to a new null vector.
with_candidate(M, z, f, width, c, bs) ==
    LET w == Horner(M, z, f, width, c, c.deg)
        v == strip_valuation(M, w)
    IN  IF w # {} /\ BwOperatorAT_mul(M, v) = {} THEN insert_into_basis(bs, v, FALSE) ELSE bs

ProcessCandidate ==
    /\ pc = "recon" /\ ~job.batch
    /\ Len(solutions) < MaxSolutions /\ buffer = <<>> /\ queue # <<>>
    /\ LET bs == with_candidate(A, Z, F, n, Head(queue), basis)
       IN  /\ basis' = bs
           /\ buffer' = IF bs = basis THEN <<>> ELSE <<bs[Len(bs)]>>
    /\ queue' = Tail(queue)
    /\ UNCHANGED <<solutions, history>>

TakeSolution ==
    /\ pc = "recon" /\ Len(solutions) < MaxSolutions /\ buffer # <<>>
    /\ solutions' = Append(solutions, Head(buffer))
    /\ buffer' = Tail(buffer)
    /\ UNCHANGED <<queue, basis, history>>

FindNext ==
    /\ FindNextBatch \/ ProcessCandidate \/ TakeSolution
    /\ UNCHANGED <<job, seed, pc, load, vectors_only, kry, hS, dS, F, gamma, t, disk, launches,
                   foreign, results>>

ReconDone ==
    /\ pc = "recon"
    /\ Len(solutions) = MaxSolutions \/ (buffer = <<>> /\ queue = <<>>)
    /\ pc' = "saveSol"

\* The files of the first k solutions written, the others as they were.
Saved(k) ==
    [i \in DOMAIN disk.sol \union 1 .. k |-> IF i <= k THEN Whole(solutions[i]) ELSE disk.sol[i]]

\* No solution: no solution file.  A kill may come between two files or cut one short.
save_solutions ==
    /\ pc = "saveSol"
    /\ \/ disk' = [disk EXCEPT !.sol = Saved(Len(solutions))] /\ pc' = "saveMeta"
       \/ \E k \in DOMAIN solutions :
              /\ \/ disk' = [disk EXCEPT !.sol = Saved(k - 1)]
                 \/ disk' = [disk EXCEPT !.sol = [Saved(k) EXCEPT ![k] = Torn(solutions[k])]]
              /\ pc' = "down"

save_solutions_meta_LastIndex == pc = "saveMeta" /\ Write("meta", Max({0, Len(solutions) - 1}), "return")
save_solutions_meta == pc = "saveMeta" /\ Write("meta", Len(solutions), "return")

Return ==
    /\ pc = "return"
    /\ pc' = "done"
    /\ results' = [results EXCEPT ![seed] =
                   IF Tainted THEN @
                   ELSE @ \union {solutions}]

(***************************************************************************)
(* The specification.                                                      *)
(***************************************************************************)
Init ==
    /\ job \in {[A |-> a, m |-> b[1], n |-> b[2], alt |-> l, keep |-> l, batch |-> k] :
                    a \in Matrices, b \in Blocks, l \in BOOLEAN, k \in BOOLEAN}
    /\ seed \in Seeds
    /\ pc = "down" /\ load = FALSE /\ vectors_only = FALSE
    /\ kry = Pipeline0 /\ hS = <<>> /\ dS = <<>> /\ F = <<>> /\ gamma = <<>> /\ t = 0
    /\ queue = <<>> /\ basis = <<>> /\ buffer = <<>> /\ solutions = <<>> /\ history = <<>>
    /\ disk = [tag |-> <<>>, S |-> NoFile, pi |-> NoFile, sol |-> <<>>, meta |-> NoFile]
    /\ launches = 0 /\ foreign = FALSE
    /\ results = [s \in Seeds |-> {}]

Stage1Step ==
    /\ \/ generate /\ UNCHANGED <<pc, hS, dS>>
       \/ Stage1Done
    /\ UNCHANGED <<job, seed, load, vectors_only, F, gamma, t, queue, basis, buffer, solutions,
                   history, disk, launches, foreign, results>>

Stage2Step ==
    /\ \/ LingenStep /\ UNCHANGED dS
       \/ LingenDone /\ UNCHANGED <<gamma, t>>
    /\ UNCHANGED <<job, seed, load, vectors_only, kry, hS, queue, basis, buffer, solutions,
                   history, disk, launches, foreign, results>>

SaveStep ==
    /\ save_sequence \/ save_polynomial \/ save_solutions \/ save_solutions_meta
    /\ UNCHANGED <<job, seed, load, memory, launches, foreign, results>>

ReturnStep ==
    \/ ReconDone /\ UNCHANGED <<job, seed, load, memory, disk, launches, foreign, results>>
    \/ Return /\ UNCHANGED <<job, seed, load, memory, disk, launches, foreign>>

Finished == pc \in {"down", "done", "failed"} /\ launches = MaxLaunches /\ UNCHANGED vars

Next ==
    \/ \E resume \in BOOLEAN, sd \in Seeds : Solve(resume, sd)
    \/ Kill
    \/ RunStage1 \/ Stage1Step
    \/ RunStage2 \/ Stage2Step
    \/ RunStage3 \/ FindNext
    \/ SaveStep \/ ReturnStep
    \/ Finished

Spec == Init /\ [][Next]_vars

(***************************************************************************)
(* Properties.                                                             *)
(***************************************************************************)
\* Whatever the order in which the two streams and the host get on, the
\* sequence a stage is given is the Krylov sequence of the run's matrix and vectors.
SequenceRight ==
    ~foreign /\ pc \in {"saveS", "stage2", "lingen"} =>
        /\ hS # <<>> => hS = Terms
        /\ dS # <<>> => dS = Terms

\* From a basis of full rank on, every row of F annihilates the terms from the
\* highest of the degree bounds on, up to the step reached: what the check of
\* the generator relies on, and what lets stage 3 reach the null space.  The
\* device and the host agree on the initial basis and on every step.
Annihilates ==
    /\ pc # "mismatch"
    /\ pc = "lingen" /\ find_init_basis_cpu(Sequence, m, n).pairs # <<>> =>
        \A s \in Max({gamma[r] : r \in Upto(dim)}) .. t - 1 : \A r \in Upto(dim) :
            compute_discrepancy(F, Sequence, s, m)[r] = {}

\* The vectors handed out are independent, and each is in the null space of the
\* matrix unless it goes back to a snapshot that this batch did not take.
NullVectors ==
    /\ \A i \in DOMAIN solutions :
           ~solutions[i].old => BwOperatorAT_mul(A, solutions[i].vec) = {}
    /\ \A I \in SUBSET DOMAIN solutions \ {{}} :
           XorRows(I, [i \in DOMAIN solutions |-> solutions[i].vec]) # {}

\* A directory's finished runs of one seed return the same solutions, whether
\* they were killed and resumed or not, and none gives up, unless it meets a
\* file of another seed, one that a kill has cut short, or one that unwritten
\* memory has reached.
ResumeAgrees ==
    /\ \A s \in Seeds : Cardinality(results[s]) <= 1
    /\ pc = "failed" => foreign
=============================================================================
