------------------------ MODULE BlockWiedemannProofs ------------------------
(***************************************************************************)
(* Proofs about BlockWiedemann, for any matrices, block sizes, batch size  *)
(* and number of launches and kills.                                       *)
(***************************************************************************)
EXTENDS BlockWiedemann, SequenceTheorems, FiniteSetTheorems, TLAPS

(* The sequence of the directory's matrix for the vectors of seed s. *)
XOf(s) == RandomVector(s, nrows, m)
ZOf(s) == RandomVector((2 * s) + 7, nrows, n)
TermOf(s, i) ==
    IF job.alt
    THEN k_transpose(KrylovTerm(ZOf(s), XOf(s), [w \in SUBSET DOMAIN A |-> BwOperatorA_mul(A, w)], i, n, m), m)
    ELSE KrylovTerm(XOf(s), ZOf(s), [w \in SUBSET DOMAIN A |-> BwOperatorAT_mul(A, w)], i, m, n)
TermsOf(s) == [i \in 1 .. SeqLen |-> TermOf(s, i)]

(* The job is one of those assumed, and never changes. *)
JobOK ==
    /\ nrows \in Nat /\ m \in Nat \ {0} /\ n \in Nat \ {0} /\ SeqLen \in Nat \ {0}
    /\ seed \in Seeds
    /\ DOMAIN disk = {"tag", "S", "pi", "sol", "meta"}

(* The two streams and the host, between the buffers: what is in flight is where it is expected. *)
Pipeline ==
    [issued : Nat, computed : Nat, copied : Nat, collected : Nat,
     dbuf : [1 .. 2 -> Int], hbuf : [1 .. 2 -> Int], out : Seq(Int), target : Seq(Int)]
Counters ==
    /\ kry.collected <= kry.copied /\ kry.copied <= kry.computed /\ kry.computed <= kry.issued
    /\ kry.issued <= kry.collected + 2 /\ kry.computed <= kry.copied + 2
Buffers ==
    /\ \A b \in kry.copied .. (kry.computed - 1) : kry.dbuf[Slot(b)] = b
    /\ \A b \in kry.collected .. (kry.copied - 1) : kry.hbuf[Slot(b)] = b
    /\ Len(kry.out) = kry.collected /\ \A i \in 1 .. kry.collected : kry.out[i] = i - 1
    /\ Len(kry.target) = kry.computed /\ \A i \in 1 .. kry.computed : kry.target[i] = i - 1
PipelineOK == kry \in Pipeline /\ Counters /\ Buffers

(* A file cut short is nobody's, and a whole sequence is that of the seed it carries. *)
Files ==
    /\ \A f \in {"S", "pi", "meta"} : disk[f].st \in {"none", "torn", "whole"} /\ (disk[f].st = "torn" => disk[f].from = -1)
    /\ disk.S.st = "whole" /\ disk.S.from \in Seeds => disk.S.v = TermsOf(disk.S.from)

(* What stage 2 will find: a sequence, or the generator that let stage 1 skip it. *)
Provided ==
    /\ pc \in {"stage1", "krylov"} => hS = <<>> /\ dS = <<>>
    /\ pc \in {"stage1", "stage2"} /\ vectors_only => load /\ exists("pi") /\ checkpoint_tag_matches
    /\ pc \in {"krylov", "saveS"} => ~vectors_only
    /\ pc \in {"saveS", "stage2"} /\ ~vectors_only /\ ~foreign => hS = Terms
    /\ pc = "failed" => foreign

BWInv == JobOK /\ PipelineOK /\ Files /\ Provided /\ SequenceRight

(***************************************************************************)
(* Facts about the parameters and the sequence.                            *)
(***************************************************************************)
LEMMA TermsAre == Terms = TermsOf(seed)
  BY DEF Terms, TermsOf, Term, TermOf, X, Z, XOf, ZOf

LEMMA TermsStay ==
  ASSUME UNCHANGED job, NEW s
  PROVE  TermsOf(s)' = TermsOf(s)
  BY DEF TermsOf, TermOf, XOf, ZOf, SeqLen, nrows, m, n, A

LEMMA SizesStay ==
  ASSUME UNCHANGED job
  PROVE  nrows' = nrows /\ m' = m /\ n' = n /\ SeqLen' = SeqLen /\ TotalBatches' = TotalBatches
  BY DEF nrows, m, n, SeqLen, TotalBatches

LEMMA TermsKept ==
  ASSUME UNCHANGED <<job, seed>>
  PROVE  Terms' = Terms
  BY DEF Terms, Term, X, Z, SeqLen, nrows, m, n, A

LEMMA SeedsAreNat == Seeds \subseteq Nat /\ -1 \notin Seeds
  BY JobsAssumption

LEMMA TermsNotEmpty ==
  ASSUME JobOK
  PROVE  Terms # <<>>
<1>1. DOMAIN Terms = 1 .. SeqLen
  BY DEF Terms
<1>2. 1 \in 1 .. SeqLen
  BY DEF JobOK
<1>3. DOMAIN <<>> = {}
  OBVIOUS
<1> QED
  BY <1>1, <1>2, <1>3

(* Every position of the sequence is in one batch. *)
LEMMA BatchOf ==
  ASSUME JobOK, NEW i \in 1 .. SeqLen
  PROVE  LET b == (i - 1) \div BatchSize IN
         /\ b \in 0 .. (TotalBatches - 1)
         /\ (b * BatchSize) + ((i - 1) % BatchSize) = i - 1
<1> DEFINE b == (i - 1) \div BatchSize
<1>0. BatchSize \in Nat \ {0} /\ i - 1 \in Nat /\ SeqLen \in Nat
  BY SizesAssumption DEF JobOK
<1>1. b \in Nat /\ (i - 1) % BatchSize \in 0 .. (BatchSize - 1)
  BY <1>0
<1>2. i - 1 = (BatchSize * b) + ((i - 1) % BatchSize)
  BY <1>0, <1>1, SMT
<1>3. b < TotalBatches
  <2> DEFINE q == (SeqLen + BatchSize - 1) \div BatchSize
             r == (SeqLen + BatchSize - 1) % BatchSize
  <2>1. q \in Nat /\ r \in 0 .. (BatchSize - 1)
    BY <1>0
  <2>2. SeqLen + BatchSize - 1 = (BatchSize * q) + r
    BY <1>0, <2>1, SMT
  <2>3. BatchSize * b <= i - 1
    BY <1>0, <1>1, <1>2
  <2>4. BatchSize * b < BatchSize * q
    <3> HIDE DEF b, q, r
    <3>1. BatchSize * b \in Int /\ BatchSize * q \in Int
      BY <1>0, <1>1, <2>1
    <3> QED
      BY <3>1, <1>0, <2>1, <2>2, <2>3
  <2>5. b < q
    <3> HIDE DEF b, q, r
    <3> QED
      BY <2>4, <1>0, <1>1, <2>1, SMT
  <2> QED
    BY <2>5 DEF TotalBatches
<1> QED
  BY <1>0, <1>1, <1>2, <1>3 DEF TotalBatches

(* Batches collected in their order are the sequence. *)
LEMMA AssembledInOrder ==
  ASSUME JobOK, NEW held, TotalBatches \in Nat, \A i \in 1 .. TotalBatches : held[i] = i - 1
  PROVE  Assemble(held) = Terms
<1>1. SUFFICES ASSUME NEW i \in 1 .. SeqLen
               PROVE  Assemble(held)[i] = Terms[i]
  BY DEF Assemble, Terms
<1> DEFINE b == (i - 1) \div BatchSize
           j == (held[b + 1] * BatchSize) + ((i - 1) % BatchSize)
<1>2. b \in 0 .. (TotalBatches - 1) /\ (b * BatchSize) + ((i - 1) % BatchSize) = i - 1
  BY BatchOf
<1>3. held[b + 1] = b
  <2> HIDE DEF b
  <2>1. b + 1 \in 1 .. TotalBatches /\ (b + 1) - 1 = b
    BY <1>2
  <2> QED
    BY <2>1
<1>4. j = i - 1 /\ j < SeqLen /\ held[b + 1] >= 0
  BY <1>2, <1>3 DEF JobOK
<1>5. Assemble(held)[i] = IF held[b + 1] >= 0 /\ j < SeqLen THEN Term(j + 1) ELSE ZeroMatrix(m)
  BY DEF Assemble
<1>6. j + 1 = i
  BY <1>4
<1> HIDE DEF b, j
<1> QED
  BY <1>4, <1>5, <1>6 DEF Terms

LEMMA TotalBatchesNat ==
  ASSUME JobOK
  PROVE  TotalBatches \in Nat
  BY SizesAssumption DEF TotalBatches, JobOK

(***************************************************************************)
(* Init and the steps.                                                     *)
(***************************************************************************)
LEMMA JobSizes == Init => JobOK
<1> SUFFICES ASSUME Init PROVE JobOK
  OBVIOUS
<1>1. PICK a \in Matrices, b \in Blocks, l \in BOOLEAN, k \in BOOLEAN :
         job = [A |-> a, m |-> b[1], n |-> b[2], alt |-> l, keep |-> l, batch |-> k]
  BY DEF Init
<1>2. job.A = a /\ job.m = b[1] /\ job.n = b[2]
  BY <1>1
<1>3. nrows \in Nat
  BY <1>2, JobsAssumption, FS_CardinalityType DEF nrows
<1>4. b[1] \in Nat \ {0} /\ b[2] \in Nat \ {0}
  BY JobsAssumption
<1>5. SeqLen > 0 /\ nrows = Cardinality(DOMAIN a) /\ m = b[1] /\ n = b[2]
  BY <1>2, JobsAssumption DEF SeqLen, nrows, m, n
<1>6. SeqLen \in Int
  BY <1>3, <1>4, <1>5 DEF SeqLen, seq_len
<1> QED
  BY <1>3, <1>4, <1>5, <1>6 DEF JobOK, Init

LEMMA Pipeline0OK == (kry = Pipeline0) => PipelineOK
<1> SUFFICES ASSUME kry = Pipeline0 PROVE PipelineOK
  OBVIOUS
<1>1. <<-1, -1>> \in [1 .. 2 -> Int] /\ <<>> \in Seq(Int)
  OBVIOUS
<1>2. kry \in Pipeline
  BY <1>1 DEF Pipeline0, Pipeline
<1> QED
  BY <1>2 DEF Pipeline0, PipelineOK, Counters, Buffers

LEMMA InitOK == Init => BWInv
<1> SUFFICES ASSUME Init PROVE BWInv
  OBVIOUS
<1>1. JobOK
  BY JobSizes
<1>2. PipelineOK
  BY Pipeline0OK DEF Init
<1>3. Files
  BY DEF Init, Files, NoFile
<1>4. Provided /\ SequenceRight
  BY DEF Init, Provided, SequenceRight
<1> QED
  BY <1>1, <1>2, <1>3, <1>4 DEF BWInv

(* What a step that leaves the job alone keeps. *)
LEMMA JobKept ==
  ASSUME BWInv, UNCHANGED job, seed' \in Seeds, DOMAIN disk' = DOMAIN disk
  PROVE  JobOK'
  BY SizesStay DEF BWInv, JobOK

LEMMA PipelineKept ==
  ASSUME BWInv, UNCHANGED kry
  PROVE  PipelineOK'
  BY DEF BWInv, PipelineOK, Pipeline, Counters, Buffers, Slot

LEMMA FilesKept ==
  ASSUME BWInv, UNCHANGED <<job, disk>>
  PROVE  Files'
<1>1. \A s : TermsOf(s)' = TermsOf(s)
  BY TermsStay
<1>2. UNCHANGED disk
  OBVIOUS
<1> QED
  BY <1>1, <1>2 DEF BWInv, Files

(* All but the tag of the directory stays. *)
LEMMA FilesKeptTag ==
  ASSUME BWInv, UNCHANGED job, NEW tag, disk' = [disk EXCEPT !.tag = tag]
  PROVE  Files' /\ DOMAIN disk' = DOMAIN disk /\ disk'.tag = tag /\ disk'.pi = disk.pi
<1>1. \A s : TermsOf(s)' = TermsOf(s)
  BY TermsStay
<1>2. disk'.S = disk.S /\ disk'.pi = disk.pi /\ disk'.meta = disk.meta /\ disk'.tag = tag
      /\ DOMAIN disk' = DOMAIN disk
  BY DEF BWInv, JobOK
<1>3. \A f \in {"S", "pi", "meta"} : disk'[f] = disk[f]
  BY <1>2
<1>4. Files
  BY DEF BWInv
<1> QED
  BY <1>1, <1>2, <1>3, <1>4 DEF Files

LEMMA SolveOK ==
  ASSUME BWInv, NEW resume \in BOOLEAN, NEW sd \in Seeds, Solve(resume, sd)
  PROVE  BWInv'
<1> DEFINE tag == <<nrows, m, n, sd>>
<1>1. UNCHANGED job /\ seed' = sd /\ disk' = [disk EXCEPT !.tag = tag]
      /\ load' = (resume /\ disk.tag = tag) /\ foreign' = FALSE /\ Blank
  BY DEF Solve
<1>2. Files' /\ DOMAIN disk' = DOMAIN disk /\ disk'.tag = tag /\ disk'.pi = disk.pi
  BY <1>1, FilesKeptTag
<1>3. JobOK'
  BY <1>1, <1>2, JobKept
<1>4. PipelineOK'
  <2>1. (kry = Pipeline0)'
    BY <1>1 DEF Blank, Pipeline0
  <2> QED
    BY <2>1, Pipeline0OK, PTL
<1>5. pc' \in {"stage1", "stage3"}
  BY DEF Solve
<1>6. hS' = <<>> /\ dS' = <<>>
  BY <1>1 DEF Blank
<1>7. vectors_only' => load' /\ exists("pi")' /\ checkpoint_tag_matches'
  <2>1. vectors_only' => load' /\ exists("pi")
    BY <1>1 DEF Solve
  <2>2. exists("pi")' <=> exists("pi")
    BY <1>2 DEF exists
  <2>3. checkpoint_tag_matches'
    BY <1>1, <1>2, SizesStay DEF checkpoint_tag_matches, compute_ckpt_tag
  <2> QED
    BY <2>1, <2>2, <2>3
<1>8. Provided'
  BY <1>5, <1>6, <1>7 DEF Provided
<1>9. SequenceRight'
  BY <1>5 DEF SequenceRight
<1> QED
  BY <1>2, <1>3, <1>4, <1>8, <1>9 DEF BWInv

LEMMA KillOK ==
  ASSUME BWInv, Kill
  PROVE  BWInv'
<1>1. UNCHANGED <<job, seed, disk>> /\ Blank /\ pc' = "down"
  BY DEF Kill
<1>2. JobOK'
  BY <1>1, JobKept DEF BWInv, JobOK
<1>3. Files'
  BY <1>1, FilesKept
<1>4. PipelineOK'
  <2>1. (kry = Pipeline0)'
    BY <1>1 DEF Blank, Pipeline0
  <2> QED
    BY <2>1, Pipeline0OK, PTL
<1>5. Provided' /\ SequenceRight'
  BY <1>1 DEF Provided, SequenceRight
<1> QED
  BY <1>2, <1>3, <1>4, <1>5 DEF BWInv

(* A step of no concern to the files and the pipeline. *)
LEMMA MostKept ==
  ASSUME BWInv, UNCHANGED <<job, seed, disk>>
  PROVE  JobOK' /\ Files' /\ Terms' = Terms
  BY JobKept, FilesKept, TermsKept DEF BWInv, JobOK

LEMMA RunStage1OK ==
  ASSUME BWInv, RunStage1
  PROVE  BWInv'
<1>1. UNCHANGED <<job, seed, load, vectors_only, kry, dS, disk>> /\ pc = "stage1"
  BY DEF RunStage1
<1>2. JobOK' /\ Files' /\ Terms' = Terms /\ PipelineOK'
  BY <1>1, MostKept, PipelineKept
<1>3. hS = <<>> /\ dS = <<>> /\ dS' = <<>>
  BY <1>1 DEF BWInv, Provided
<1>4. exists("pi")' = exists("pi") /\ checkpoint_tag_matches' = checkpoint_tag_matches
  BY <1>1, SizesStay DEF exists, checkpoint_tag_matches, compute_ckpt_tag
<1>5. CASE vectors_only
  <2>1. pc' = "stage2" /\ hS' = <<>> /\ vectors_only'
    BY <1>1, <1>3, <1>5 DEF RunStage1
  <2>2. Provided'
    BY <1>1, <1>4, <1>5, <2>1 DEF Provided, BWInv
  <2>3. SequenceRight'
    BY <1>3, <2>1 DEF SequenceRight
  <2> QED
    BY <1>2, <2>2, <2>3 DEF BWInv
<1>6. CASE ~vectors_only /\ load /\ exists("S")
  <2>1. pc' = "stage2" /\ hS' = load_sequence /\ foreign' = (foreign \/ Foreign("S")) /\ ~vectors_only'
    BY <1>1, <1>6 DEF RunStage1
  <2>2. ~foreign' => hS' = Terms
    <3> SUFFICES ASSUME ~foreign' PROVE hS' = Terms
      OBVIOUS
    <3>1. disk.S.from = seed /\ seed \in Seeds
      BY <2>1, <1>6 DEF Foreign, BWInv, JobOK
    <3>2. disk.S.st = "whole"
      BY <3>1, <1>6, SeedsAreNat DEF BWInv, Files, exists
    <3>3. disk.S.v = TermsOf(seed)
      BY <3>1, <3>2 DEF BWInv, Files
    <3> QED
      BY <2>1, <3>2, <3>3, TermsAre DEF load_sequence
  <2>3. Provided'
    BY <1>2, <2>1, <2>2 DEF Provided
  <2>4. SequenceRight'
    BY <1>2, <1>3, <2>1, <2>2 DEF SequenceRight
  <2> QED
    BY <1>2, <2>3, <2>4 DEF BWInv
<1>7. CASE ~vectors_only /\ ~(load /\ exists("S"))
  <2>0. pc' = "krylov" /\ UNCHANGED <<hS, foreign>>
    BY <1>7, Zenon DEF RunStage1
  <2>1. pc' = "krylov" /\ hS' = <<>> /\ ~vectors_only'
    BY <1>1, <1>3, <1>7, <2>0
  <2>2. Provided' /\ SequenceRight'
    BY <1>3, <2>1 DEF Provided, SequenceRight
  <2> QED
    BY <1>2, <2>2 DEF BWInv
<1> QED
  BY <1>5, <1>6, <1>7

(***************************************************************************)
(* The pipeline.                                                           *)
(***************************************************************************)
LEMMA Slots ==
  ASSUME NEW b \in Nat
  PROVE  Slot(b) \in 1 .. 2 /\ Slot(b) # Slot(b + 1)
  BY DEF Slot

(* The pipeline, field by field. *)
State(i, c, p, o, d, h, u, g) ==
    [issued |-> i, computed |-> c, copied |-> p, collected |-> o, dbuf |-> d, hbuf |-> h,
     out |-> u, target |-> g]

LEMMA StateIs ==
  ASSUME kry \in Pipeline
  PROVE  kry = State(kry.issued, kry.computed, kry.copied, kry.collected, kry.dbuf, kry.hbuf,
                     kry.out, kry.target)
  BY DEF Pipeline, State

LEMMA FieldsTyped ==
  ASSUME kry \in Pipeline
  PROVE  /\ kry.issued \in Nat /\ kry.computed \in Nat /\ kry.copied \in Nat /\ kry.collected \in Nat
         /\ kry.dbuf \in [1 .. 2 -> Int] /\ kry.hbuf \in [1 .. 2 -> Int]
         /\ kry.out \in Seq(Int) /\ kry.target \in Seq(Int)
  BY DEF Pipeline

LEMMA StateTyped ==
  ASSUME NEW i \in Nat, NEW c \in Nat, NEW p \in Nat, NEW o \in Nat,
         NEW d \in [1 .. 2 -> Int], NEW h \in [1 .. 2 -> Int], NEW u \in Seq(Int), NEW g \in Seq(Int)
  PROVE  State(i, c, p, o, d, h, u, g) \in Pipeline
  BY DEF State, Pipeline

LEMMA IssueOK ==
  ASSUME BWInv, Issue
  PROVE  PipelineOK'
<1>1. kry' = [kry EXCEPT !.issued = @ + 1] /\ kry.collected + 1 >= kry.issued
  BY DEF Issue
<1>2. kry \in Pipeline /\ Counters /\ Buffers
  BY DEF BWInv, PipelineOK
<1>3. kry' = State(kry.issued + 1, kry.computed, kry.copied, kry.collected, kry.dbuf, kry.hbuf,
                   kry.out, kry.target)
  BY <1>1, <1>2, StateIs DEF State
<1>4. /\ kry'.issued = kry.issued + 1 /\ kry'.computed = kry.computed /\ kry'.copied = kry.copied
      /\ kry'.collected = kry.collected /\ kry'.dbuf = kry.dbuf /\ kry'.hbuf = kry.hbuf
      /\ kry'.out = kry.out /\ kry'.target = kry.target
  BY <1>3 DEF State
<1>5. kry.issued \in Nat /\ kry.computed \in Nat /\ kry.copied \in Nat /\ kry.collected \in Nat
  BY <1>2 DEF Pipeline
<1>6. kry' \in Pipeline
  <2>1. kry.issued + 1 \in Nat
    BY <1>5
  <2> QED
    BY <1>2, <1>3, <2>1, FieldsTyped, StateTyped
<1>7. Counters'
  BY <1>1, <1>2, <1>4, <1>5 DEF Counters
<1>8. Buffers'
  BY <1>2, <1>4 DEF Buffers
<1> QED
  BY <1>6, <1>7, <1>8 DEF PipelineOK

LEMMA ComputeOK ==
  ASSUME BWInv, Compute
  PROVE  PipelineOK'
<1> DEFINE c == kry.computed
<1>1. /\ kry' = [kry EXCEPT !.computed = @ + 1, !.dbuf[Slot(c)] = c, !.target = Append(@, c)]
      /\ c < kry.issued /\ (c >= 2 => kry.copied >= c - 1)
  BY DEF Compute
<1>2. kry \in Pipeline /\ Counters /\ Buffers
  BY DEF BWInv, PipelineOK
<1>3. kry.issued \in Nat /\ c \in Nat /\ kry.copied \in Nat /\ kry.collected \in Nat
      /\ kry.dbuf \in [1 .. 2 -> Int] /\ kry.target \in Seq(Int)
  BY <1>2 DEF Pipeline
<1>4. /\ kry'.issued = kry.issued /\ kry'.computed = c + 1 /\ kry'.copied = kry.copied
      /\ kry'.collected = kry.collected /\ kry'.dbuf = [kry.dbuf EXCEPT ![Slot(c)] = c]
      /\ kry'.hbuf = kry.hbuf /\ kry'.out = kry.out /\ kry'.target = Append(kry.target, c)
  BY <1>1, <1>2 DEF Pipeline
<1>5. Slot(c) \in 1 .. 2
  BY <1>3, Slots
<1>6. kry' \in Pipeline
  <2>1. [kry.dbuf EXCEPT ![Slot(c)] = c] \in [1 .. 2 -> Int] /\ Append(kry.target, c) \in Seq(Int)
    BY <1>3, <1>5
  <2>2. kry' = State(kry.issued, c + 1, kry.copied, kry.collected, [kry.dbuf EXCEPT ![Slot(c)] = c],
                     kry.hbuf, kry.out, Append(kry.target, c))
    BY <1>1, <1>2, StateIs DEF State
  <2>3. c + 1 \in Nat
    BY <1>3
  <2> HIDE DEF c
  <2> QED
    BY <1>2, <1>3, <2>1, <2>2, <2>3, FieldsTyped, StateTyped
<1>7. Counters'
  BY <1>1, <1>2, <1>3, <1>4 DEF Counters
<1>8. ASSUME NEW b \in kry.copied .. c PROVE kry'.dbuf[Slot(b)] = b
  <2>1. CASE b = c
    BY <1>3, <1>4, <1>5, <2>1
  <2>2. CASE b # c
    <3>1. b = c - 1
      BY <1>1, <1>2, <1>3, <2>2 DEF Counters
    <3>2. Slot(b) # Slot(c) /\ Slot(b) \in 1 .. 2
      <4>1. b \in Nat /\ c = b + 1
        BY <1>1, <1>3, <3>1
      <4> QED
        BY <4>1, Slots
    <3>3. kry.dbuf[Slot(b)] = b
      BY <1>2, <1>3, <3>1 DEF Buffers
    <3> QED
      BY <1>3, <1>4, <3>2, <3>3
  <2> QED
    BY <2>1, <2>2
<1>9. Len(kry'.target) = c + 1 /\ \A i \in 1 .. (c + 1) : kry'.target[i] = i - 1
  BY <1>2, <1>3, <1>4 DEF Buffers
<1>10. Buffers'
  <2>1. \A b \in kry.copied .. ((c + 1) - 1) : kry'.dbuf[Slot(b)] = b
    BY <1>3, <1>8
  <2> QED
    BY <1>2, <1>4, <1>9, <2>1 DEF Buffers
<1> QED
  BY <1>6, <1>7, <1>10 DEF PipelineOK

LEMMA CopyOK ==
  ASSUME BWInv, Copy
  PROVE  PipelineOK'
<1> DEFINE c == kry.copied
<1>1. /\ kry' = [kry EXCEPT !.copied = @ + 1, !.hbuf[Slot(c)] = kry.dbuf[Slot(c)]]
      /\ c < kry.computed
  BY DEF Copy
<1>2. kry \in Pipeline /\ Counters /\ Buffers
  BY DEF BWInv, PipelineOK
<1>3. kry.issued \in Nat /\ c \in Nat /\ kry.computed \in Nat /\ kry.collected \in Nat
      /\ kry.hbuf \in [1 .. 2 -> Int] /\ kry.dbuf \in [1 .. 2 -> Int]
  BY <1>2 DEF Pipeline
<1>4. /\ kry'.issued = kry.issued /\ kry'.computed = kry.computed /\ kry'.copied = c + 1
      /\ kry'.collected = kry.collected /\ kry'.dbuf = kry.dbuf
      /\ kry'.hbuf = [kry.hbuf EXCEPT ![Slot(c)] = kry.dbuf[Slot(c)]]
      /\ kry'.out = kry.out /\ kry'.target = kry.target
  BY <1>1, <1>2 DEF Pipeline
<1>5. Slot(c) \in 1 .. 2 /\ kry.dbuf[Slot(c)] = c
  <2>1. Slot(c) \in 1 .. 2
    BY <1>3, Slots
  <2>2. c \in c .. (kry.computed - 1)
    BY <1>1, <1>3
  <2> QED
    BY <1>2, <2>1, <2>2 DEF Buffers
<1>6. kry' \in Pipeline
  <2>1. [kry.hbuf EXCEPT ![Slot(c)] = kry.dbuf[Slot(c)]] \in [1 .. 2 -> Int]
    BY <1>3, <1>5
  <2>2. kry' = State(kry.issued, kry.computed, c + 1, kry.collected, kry.dbuf,
                     [kry.hbuf EXCEPT ![Slot(c)] = kry.dbuf[Slot(c)]], kry.out, kry.target)
    BY <1>1, <1>2, StateIs DEF State
  <2>3. c + 1 \in Nat
    BY <1>3
  <2> HIDE DEF c
  <2> QED
    BY <1>2, <1>3, <2>1, <2>2, <2>3, FieldsTyped, StateTyped
<1>7. Counters'
  BY <1>1, <1>2, <1>3, <1>4 DEF Counters
<1>8. ASSUME NEW b \in kry.collected .. c PROVE kry'.hbuf[Slot(b)] = b
  <2>1. CASE b = c
    BY <1>3, <1>4, <1>5, <2>1
  <2>2. CASE b # c
    <3>1. b = c - 1
      BY <1>1, <1>2, <1>3, <2>2 DEF Counters
    <3>2. Slot(b) # Slot(c) /\ Slot(b) \in 1 .. 2
      <4>1. b \in Nat /\ c = b + 1
        BY <1>1, <1>3, <3>1
      <4> QED
        BY <4>1, Slots
    <3>3. kry.hbuf[Slot(b)] = b
      BY <1>2, <1>3, <3>1 DEF Buffers
    <3> QED
      BY <1>3, <1>4, <3>2, <3>3
  <2> QED
    BY <2>1, <2>2
<1>9. ASSUME NEW b \in (c + 1) .. (kry.computed - 1) PROVE kry.dbuf[Slot(b)] = b
  BY <1>2, <1>3 DEF Buffers
<1>10. Buffers'
  BY <1>2, <1>3, <1>4, <1>8, <1>9 DEF Buffers
<1> QED
  BY <1>6, <1>7, <1>10 DEF PipelineOK

LEMMA CollectOK ==
  ASSUME BWInv, Collect
  PROVE  PipelineOK'
<1> DEFINE c == kry.collected
<1>1. /\ kry' = [kry EXCEPT !.collected = @ + 1, !.out = Append(@, kry.hbuf[Slot(c)])]
      /\ c < kry.copied
  <2>1. kry.copied > c /\ kry \in Pipeline
    BY DEF Collect, BWInv, PipelineOK
  <2> QED
    BY <2>1 DEF Collect, Pipeline
<1>2. kry \in Pipeline /\ Counters /\ Buffers
  BY DEF BWInv, PipelineOK
<1>3. kry.issued \in Nat /\ c \in Nat /\ kry.computed \in Nat /\ kry.copied \in Nat
      /\ kry.hbuf \in [1 .. 2 -> Int] /\ kry.out \in Seq(Int)
  BY <1>2 DEF Pipeline
<1>4. Slot(c) \in 1 .. 2 /\ kry.hbuf[Slot(c)] = c
  <2>1. Slot(c) \in 1 .. 2
    BY <1>3, Slots
  <2>2. c \in c .. (kry.copied - 1)
    BY <1>1, <1>3
  <2> QED
    BY <1>2, <2>1, <2>2 DEF Buffers
<1>5. /\ kry'.issued = kry.issued /\ kry'.computed = kry.computed /\ kry'.copied = kry.copied
      /\ kry'.collected = c + 1 /\ kry'.dbuf = kry.dbuf /\ kry'.hbuf = kry.hbuf
      /\ kry'.out = Append(kry.out, c) /\ kry'.target = kry.target
  BY <1>1, <1>2, <1>4 DEF Pipeline
<1>6. kry' \in Pipeline
  <2>1. Append(kry.out, c) \in Seq(Int)
    BY <1>3
  <2>2. kry' = State(kry.issued, kry.computed, kry.copied, c + 1, kry.dbuf, kry.hbuf,
                     Append(kry.out, c), kry.target)
    BY <1>1, <1>2, <1>4, StateIs DEF State
  <2>3. c + 1 \in Nat
    BY <1>3
  <2> HIDE DEF c
  <2> QED
    BY <1>2, <1>3, <2>1, <2>2, <2>3, FieldsTyped, StateTyped
<1>7. Counters'
  BY <1>1, <1>2, <1>3, <1>5 DEF Counters
<1>8. Len(kry'.out) = c + 1 /\ \A i \in 1 .. (c + 1) : kry'.out[i] = i - 1
  BY <1>2, <1>3, <1>5 DEF Buffers
<1>9. ASSUME NEW b \in (c + 1) .. (kry.copied - 1) PROVE kry.hbuf[Slot(b)] = b
  BY <1>2, <1>3 DEF Buffers
<1>10. Buffers'
  BY <1>2, <1>3, <1>5, <1>8, <1>9 DEF Buffers
<1> QED
  BY <1>6, <1>7, <1>10 DEF PipelineOK

LEMMA Stage1StepOK ==
  ASSUME BWInv, Stage1Step
  PROVE  BWInv'
<1>1. UNCHANGED <<job, seed, load, vectors_only, disk, foreign>>
  BY DEF Stage1Step
<1>2. JobOK' /\ Files' /\ Terms' = Terms
  BY <1>1, MostKept
<1>3. CASE generate /\ UNCHANGED <<pc, hS, dS>>
  <2>1. PipelineOK' /\ pc = "krylov"
    BY <1>3, IssueOK, ComputeOK, CopyOK, CollectOK DEF generate, Issue, Compute, Copy, Collect
  <2>2. Provided' /\ SequenceRight'
    BY <1>1, <1>3, <2>1 DEF BWInv, Provided, SequenceRight
  <2> QED
    BY <1>2, <2>1, <2>2 DEF BWInv
<1>4. CASE Stage1Done
  <2>1. /\ kry.collected = TotalBatches /\ kry.computed = TotalBatches /\ pc = "krylov"
        /\ hS' = Assemble(kry.out) /\ dS' = (IF job.keep THEN Assemble(kry.target) ELSE <<>>)
        /\ pc' = "saveS" /\ kry' = Pipeline0
    BY <1>4 DEF Stage1Done
  <2>2. JobOK /\ TotalBatches \in Nat
    BY TotalBatchesNat DEF BWInv
  <2>3. Assemble(kry.out) = Terms /\ Assemble(kry.target) = Terms
    BY <2>1, <2>2, AssembledInOrder DEF BWInv, PipelineOK, Buffers
  <2>4. PipelineOK'
    <3>1. (kry = Pipeline0)'
      BY <2>1 DEF Pipeline0
    <3> QED
      BY <3>1, Pipeline0OK, PTL
  <2>5. Provided'
    BY <1>1, <1>2, <2>1, <2>3 DEF BWInv, Provided
  <2>6. SequenceRight'
    BY <1>2, <2>1, <2>3 DEF SequenceRight
  <2> QED
    BY <1>2, <2>4, <2>5, <2>6 DEF BWInv
<1> QED
  BY <1>3, <1>4 DEF Stage1Step

(***************************************************************************)
(* The generator and the reconstruction.                                   *)
(***************************************************************************)
LEMMA RunStage2OK ==
  ASSUME BWInv, RunStage2
  PROVE  BWInv'
<1>1. UNCHANGED <<job, seed, kry, hS, dS, disk>> /\ pc = "stage2"
  BY DEF RunStage2
<1>2. JobOK' /\ Files' /\ Terms' = Terms /\ PipelineOK'
  BY <1>1, MostKept, PipelineKept
<1> DEFINE Loads == load /\ exists("pi") /\ checkpoint_tag_matches /\ disk.pi.st = "whole"
<1>3. CASE Loads
  <2>1. pc' = "stage3"
    BY <1>3 DEF RunStage2
  <2> QED
    BY <1>2, <2>1 DEF BWInv, Provided, SequenceRight
<1>4. CASE ~Loads /\ Sequence = <<>>
  <2>1. pc' = "failed" /\ foreign' = (foreign \/ Foreign("pi"))
    BY <1>4, Zenon DEF RunStage2
  <2>2. ASSUME ~foreign PROVE Foreign("pi")
    <3>1. vectors_only
      BY <1>1, <1>4, <2>2, TermsNotEmpty DEF BWInv, Provided, Sequence
    <3>2. load /\ exists("pi") /\ checkpoint_tag_matches
      BY <1>1, <3>1 DEF BWInv, Provided
    <3>3. disk.pi.st # "whole" /\ disk.pi.st # "none"
      BY <1>4, <3>2 DEF exists
    <3>4. disk.pi.from = -1
      BY <3>3 DEF BWInv, Files
    <3> QED
      BY <3>2, <3>4, SeedsAreNat DEF Foreign, BWInv, JobOK
  <2>3. foreign'
    BY <2>1, <2>2
  <2> QED
    BY <1>2, <2>1, <2>3 DEF BWInv, Provided, SequenceRight
<1>5. CASE ~Loads /\ Sequence # <<>>
  <2>1. pc' \in {"lingen", "mismatch"} /\ UNCHANGED foreign
    BY <1>5, Zenon DEF RunStage2
  <2>2. Provided'
    BY <2>1 DEF Provided
  <2>3. SequenceRight'
    BY <1>1, <1>2, <2>1 DEF BWInv, SequenceRight
  <2> QED
    BY <1>2, <2>2, <2>3 DEF BWInv
<1> QED
  BY <1>3, <1>4, <1>5

LEMMA Stage2StepOK ==
  ASSUME BWInv, Stage2Step
  PROVE  BWInv'
<1>1. UNCHANGED <<job, seed, kry, hS, disk, foreign>>
  BY DEF Stage2Step
<1>2. JobOK' /\ Files' /\ Terms' = Terms /\ PipelineOK'
  BY <1>1, MostKept, PipelineKept
<1>3. CASE LingenStep /\ UNCHANGED dS
  <2>1. pc = "lingen" /\ pc' \in {"lingen", "mismatch"}
    BY <1>3 DEF LingenStep
  <2>2. SequenceRight'
    BY <1>1, <1>2, <1>3, <2>1 DEF BWInv, SequenceRight
  <2> QED
    BY <1>2, <2>1, <2>2 DEF BWInv, Provided
<1>4. CASE LingenDone
  <2>1. pc' = "savePi"
    BY <1>4 DEF LingenDone
  <2> QED
    BY <1>2, <2>1 DEF BWInv, Provided, SequenceRight
<1> QED
  BY <1>3, <1>4 DEF Stage2Step

LEMMA Stage3OK ==
  ASSUME BWInv, RunStage3 \/ FindNext \/ ReturnStep
  PROVE  BWInv'
<1>1. UNCHANGED <<job, seed, kry, disk>>
  BY DEF RunStage3, FindNext, ReturnStep, memory
<1>2. JobOK' /\ Files' /\ Terms' = Terms /\ PipelineOK'
  BY <1>1, MostKept, PipelineKept
<1>3. pc' \in {"return", "recon", "saveSol", "done"}
  BY DEF RunStage3, FindNext, FindNextBatch, ProcessCandidate, TakeSolution, ReturnStep, ReconDone,
         Return
<1> QED
  BY <1>2, <1>3 DEF BWInv, Provided, SequenceRight

(***************************************************************************)
(* The files.                                                              *)
(***************************************************************************)
LEMMA WriterIs ==
  ASSUME BWInv, Writer \in Seeds
  PROVE  ~foreign /\ Writer = seed
  BY SeedsAreNat DEF Writer, Tainted

LEMMA WriteOK ==
  ASSUME BWInv, UNCHANGED job, NEW f \in {"S", "pi", "meta"}, NEW v, NEW next,
         Write(f, v, next), (f = "S" /\ ~foreign) => v = Terms
  PROVE  Files' /\ DOMAIN disk' = DOMAIN disk /\ disk'.tag = disk.tag /\ pc' \in {next, "down"}
<1>1. \A s : TermsOf(s)' = TermsOf(s)
  BY TermsStay
<1>2. Files /\ DOMAIN disk = {"tag", "S", "pi", "sol", "meta"}
  BY DEF BWInv, JobOK
<1>3. PICK file \in {Whole(v), Torn(v)} : disk' = [disk EXCEPT ![f] = file] /\ pc' \in {next, "down"}
  BY DEF Write
<1>4. DOMAIN disk' = DOMAIN disk /\ disk'.tag = disk.tag /\ disk'[f] = file
      /\ \A g \in {"S", "pi", "meta"} \ {f} : disk'[g] = disk[g]
  BY <1>2, <1>3
<1>5. file.st \in {"torn", "whole"} /\ (file.st = "torn" => file.from = -1)
  BY <1>3 DEF Whole, Torn
<1>6. ASSUME f = "S", file.st = "whole", file.from \in Seeds PROVE file.v = TermsOf(file.from)
  <2>1. file = Whole(v)
    BY <1>3, <1>6 DEF Torn
  <2>2. file.v = v /\ file.from = Writer
    BY <2>1 DEF Whole
  <2> QED
    BY <1>6, <2>2, WriterIs, TermsAre
<1>7. \A g \in {"S", "pi", "meta"} :
         disk'[g].st \in {"none", "torn", "whole"} /\ (disk'[g].st = "torn" => disk'[g].from = -1)
  BY <1>2, <1>4, <1>5 DEF Files
<1>8. disk'.S.st = "whole" /\ disk'.S.from \in Seeds => disk'.S.v = TermsOf(disk'.S.from)
  <2>1. CASE f = "S"
    BY <1>4, <1>6, <2>1
  <2>2. CASE f # "S"
    BY <1>2, <1>4, <2>2 DEF Files
  <2> QED
    BY <2>1, <2>2
<1>9. Files'
  BY <1>1, <1>7, <1>8 DEF Files
<1> QED
  BY <1>3, <1>4, <1>9

LEMMA SaveStepOK ==
  ASSUME BWInv, SaveStep
  PROVE  BWInv'
<1>1. UNCHANGED <<job, seed, load, vectors_only, kry, hS, dS, foreign>>
  BY DEF SaveStep, memory
<1>2. PipelineOK' /\ Terms' = Terms
  BY <1>1, PipelineKept, TermsKept
<1>3. CASE save_sequence
  <2>1. pc = "saveS" /\ Write("S", hS, "stage2")
    BY <1>3 DEF save_sequence
  <2>2. ~foreign => hS = Terms
    BY <2>1 DEF BWInv, Provided
  <2>3. Files' /\ DOMAIN disk' = DOMAIN disk /\ pc' \in {"stage2", "down"}
    BY <1>1, <2>1, <2>2, WriteOK
  <2>4. JobOK'
    BY <1>1, <2>3, JobKept DEF BWInv, JobOK
  <2>5. Provided'
    BY <1>1, <1>2, <2>1, <2>3 DEF BWInv, Provided
  <2>6. SequenceRight'
    BY <1>1, <1>2, <2>1, <2>3 DEF BWInv, SequenceRight
  <2> QED
    BY <1>2, <2>3, <2>4, <2>5, <2>6 DEF BWInv
<1>4. CASE save_polynomial \/ save_solutions_meta
  <2>1. Write("pi", F, "stage3") \/ Write("meta", Len(solutions), "return")
    BY <1>4 DEF save_polynomial, save_solutions_meta
  <2>2. Files' /\ DOMAIN disk' = DOMAIN disk /\ pc' \in {"stage3", "return", "down"}
    BY <1>1, <2>1, WriteOK
  <2>3. JobOK'
    BY <1>1, <2>2, JobKept DEF BWInv, JobOK
  <2>4. Provided' /\ SequenceRight'
    BY <2>2 DEF Provided, SequenceRight
  <2> QED
    BY <1>2, <2>2, <2>3, <2>4 DEF BWInv
<1>5. CASE save_solutions
  <2>1. PICK files : disk' = [disk EXCEPT !.sol = files]
    BY <1>5 DEF save_solutions
  <2>2. pc' \in {"saveMeta", "down"}
    BY <1>5 DEF save_solutions
  <2>3. DOMAIN disk' = DOMAIN disk /\ \A f \in {"S", "pi", "meta"} : disk'[f] = disk[f]
    BY <2>1 DEF BWInv, JobOK
  <2>4. JobOK'
    BY <1>1, <2>3, JobKept DEF BWInv, JobOK
  <2>5. Files'
    <3>1. \A s : TermsOf(s)' = TermsOf(s)
      BY <1>1, TermsStay
    <3>2. Files
      BY DEF BWInv
    <3> QED
      BY <3>1, <3>2, <2>3 DEF Files
  <2>6. Provided' /\ SequenceRight'
    BY <2>2 DEF Provided, SequenceRight
  <2> QED
    BY <1>2, <2>4, <2>5, <2>6 DEF BWInv
<1> QED
  BY <1>3, <1>4, <1>5 DEF SaveStep

LEMMA StutterOK ==
  ASSUME BWInv, UNCHANGED vars
  PROVE  BWInv'
<1>1. UNCHANGED <<job, seed, pc, load, vectors_only, kry, hS, dS, disk, foreign>>
  BY DEF vars, memory
<1>2. JobOK' /\ Files' /\ Terms' = Terms /\ PipelineOK'
  BY <1>1, MostKept, PipelineKept
<1>3. exists("pi")' = exists("pi") /\ checkpoint_tag_matches' = checkpoint_tag_matches
  BY <1>1, SizesStay DEF exists, checkpoint_tag_matches, compute_ckpt_tag
<1>4. Provided' /\ SequenceRight'
  BY <1>1, <1>2, <1>3 DEF BWInv, Provided, SequenceRight
<1> QED
  BY <1>2, <1>4 DEF BWInv

(***************************************************************************)
(* The theorems.                                                           *)
(***************************************************************************)
(* The inductive invariant. *)
THEOREM BWInvariant == Spec => []BWInv
<1>1. Init => BWInv
  BY InitOK
<1>2. BWInv /\ [Next]_vars => BWInv'
  <2> SUFFICES ASSUME BWInv, [Next]_vars PROVE BWInv'
    OBVIOUS
  <2>1. CASE \E resume \in BOOLEAN, sd \in Seeds : Solve(resume, sd)
    BY <2>1, SolveOK
  <2>2. CASE Kill
    BY <2>2, KillOK
  <2>3. CASE RunStage1 \/ Stage1Step
    BY <2>3, RunStage1OK, Stage1StepOK
  <2>4. CASE RunStage2 \/ Stage2Step
    BY <2>4, RunStage2OK, Stage2StepOK
  <2>5. CASE RunStage3 \/ FindNext \/ ReturnStep
    BY <2>5, Stage3OK
  <2>6. CASE SaveStep
    BY <2>6, SaveStepOK
  <2>7. CASE Finished \/ UNCHANGED vars
    BY <2>7, StutterOK DEF Finished
  <2> QED
    BY <2>1, <2>2, <2>3, <2>4, <2>5, <2>6, <2>7 DEF Next
<1> QED
  BY <1>1, <1>2, PTL DEF Spec

(* The sequence of stage 2 is the Krylov sequence of the run's matrix and  *)
(* vectors, in whatever order the host and the two streams of generate got *)
(* on, and whether it was computed or read back from a file.               *)
THEOREM SequenceAlwaysRight == Spec => []SequenceRight
<1>1. BWInv => SequenceRight
  BY DEF BWInv
<1> QED
  BY <1>1, BWInvariant, PTL

(***************************************************************************)
(* Runs of one seed agree.  Stage 2 and stage 3 are machines: from a state *)
(* that is not an end they have one step.  GLeads(s, x, y) says that the   *)
(* end y is in every set that holds x and is closed under the steps, which *)
(* is what every step keeps, backwards too, and what makes the end unique  *)
(* without an induction over the steps.                                    *)
(***************************************************************************)
(* Stage 2 of seed s, on states <<F, gamma, t>>. *)
GStep(s, x) ==
    LET elim   == k_elimination(k_compute_discrepancy(x[1], TermsOf(s), x[3], m), x[2], m)
        shifts == k_compute_shifts(elim.delta, x[2], m)
    IN  <<k_scatter_update(x[1], elim.tau, shifts), k_update_gamma(x[2], shifts), x[3] + 1>>
GStart(s) ==
    LET init == k_find_init_basis(TermsOf(s), m, n)
    IN  <<build_f_init(init, m, n), [r \in Upto(dim) |-> init.t0], init.t0>>
GClosed(s, R) == \A x \in R : x[3] # SeqLen => GStep(s, x) \in R
GLeads(s, x, y) == y[3] = SeqLen /\ \A R : x \in R /\ GClosed(s, R) => y \in R
GSame(s, x) == \A y : GLeads(s, x, y) <=> GLeads(s, GStart(s), y)

(* f is the generator of seed s. *)
Generator(s, f) == \E y : f = Trim(y[1]) /\ \A z : GLeads(s, GStart(s), z) <=> z = y

(* Stage 3 of seed s with the generator f, on states <<queue, basis, buffer, solutions, history>>. *)
RStep(s, f, x) ==
    LET batch == Head(x[1])
        st    == RunBatchStripping(A, BatchColumns(A, ZOf(s), f, n, batch), x[2], x[5], Len(batch))
        bs    == with_candidate(A, ZOf(s), f, n, batch, x[2])
    IN  IF x[3] # <<>> THEN <<x[1], x[2], Tail(x[3]), Append(x[4], Head(x[3])), x[5]>>
        ELSE IF job.batch THEN <<Tail(x[1]), st.basis, st.found, x[4], st.hist>>
        ELSE <<Tail(x[1]), bs, IF bs = x[2] THEN <<>> ELSE <<bs[Len(bs)]>>, x[4], x[5]>>
REnd(x) == Len(x[4]) = MaxSolutions \/ (x[3] = <<>> /\ x[1] = <<>>)
RStart(f, fill) ==
    <<IF job.batch THEN BatchQueue(CandidateQueue(f, n), n) ELSE CandidateQueue(f, n),
      <<>>, <<>>, <<>>, [k \in Upto(HistoryDepth) |-> [c \in Upto(n) |-> fill]]>>
RClosed(s, f, R) == \A x \in R : ~REnd(x) => RStep(s, f, x) \in R
RLeads(s, f, x, y) == REnd(y) /\ \A R : x \in R /\ RClosed(s, f, R) => y \in R
FillSet == IF job.batch THEN Fills ELSE {{}}
RSame(s, f, x) == \E fill \in FillSet : \A y : RLeads(s, f, x, y) <=> RLeads(s, f, RStart(f, fill), y)

IsSequence(q) == \E S : q \in Seq(S)

(* What stage 3 makes of the generator f. *)
Reconstructed(s, f, q) ==
    IF f = <<>> THEN q = <<>>
    ELSE \E y : \E fill \in FillSet : q = y[4] /\ \A z : RLeads(s, f, RStart(f, fill), z) <=> z = y

(* q is what the runs of seed s return. *)
Solution(s, q) == IsSequence(q) /\ \E f : Generator(s, f) /\ Reconstructed(s, f, q)

(* Fresh device memory, where stage 3 looks at it, always holds the same. *)
OneFill == \A a, b \in FillSet : a = b

FilesAgree ==
    /\ DOMAIN disk.sol \subseteq Nat \ {0} /\ (disk.meta.st = "whole" => disk.meta.v \in Nat)
    /\ disk.pi.st = "whole" /\ disk.pi.from \in Seeds => Generator(disk.pi.from, disk.pi.v)
    /\ \A i \in DOMAIN disk.sol :
           /\ disk.sol[i].st \in {"torn", "whole"}
           /\ disk.sol[i].st = "torn" => disk.sol[i].from = -1
           /\ disk.sol[i].st = "whole" /\ disk.sol[i].from \in Seeds =>
                  \E q : Solution(disk.sol[i].from, q) /\ i \in DOMAIN q /\ disk.sol[i].v = q[i]
    /\ disk.meta.st = "whole" /\ disk.meta.from \in Seeds =>
           \E q : /\ Solution(disk.meta.from, q) /\ disk.meta.v = Len(q)
                  /\ DOMAIN q \subseteq DOMAIN disk.sol

(* Where nothing has been reconstructed yet. *)
Before == {"stage1", "krylov", "saveS", "stage2", "lingen", "savePi", "stage3"}

MemoryAgrees ==
    /\ IsSequence(solutions)
    /\ pc \in Before => solutions = <<>> /\ basis = <<>> /\ buffer = <<>>
    /\ pc = "lingen" => Sequence # <<>>
    /\ pc = "saveMeta" => DOMAIN solutions \subseteq DOMAIN disk.sol
    /\ ~foreign =>
        /\ pc = "lingen" => GSame(seed, <<F, gamma, t>>)
        /\ pc = "savePi" => Generator(seed, F)
        /\ pc = "stage3" => \/ Generator(seed, F)
                            \/ F = <<>> /\ load /\ exists("meta") /\ checkpoint_tag_matches
        /\ pc = "recon" => /\ Generator(seed, F) /\ F # <<>>
                           /\ RSame(seed, F, <<queue, basis, buffer, solutions, history>>)
        /\ pc \in {"saveSol", "saveMeta", "return"} => Solution(seed, solutions)

ResultsAgree ==
    /\ DOMAIN results = Seeds
    /\ \A s \in Seeds : \A q \in results[s] : Solution(s, q)

AgreeInv == FilesAgree /\ MemoryAgrees /\ ResultsAgree

(***************************************************************************)
(* The machines depend on the job alone.                                   *)
(***************************************************************************)
LEMMA GeneratorStays ==
  ASSUME UNCHANGED job, NEW s
  PROVE  /\ \A x, y : GLeads(s, x, y)' <=> GLeads(s, x, y)
         /\ GStart(s)' = GStart(s)
         /\ \A x : GSame(s, x)' <=> GSame(s, x)
         /\ \A f : Generator(s, f)' <=> Generator(s, f)
<1>1. TermsOf(s)' = TermsOf(s) /\ m' = m /\ n' = n /\ SeqLen' = SeqLen
  BY TermsStay, SizesStay
<1>2. \A x : GStep(s, x)' = GStep(s, x)
  BY <1>1 DEF GStep
<1>3. GStart(s)' = GStart(s)
  BY <1>1 DEF GStart, dim
<1>4. \A R : GClosed(s, R)' <=> GClosed(s, R)
  BY <1>1, <1>2 DEF GClosed
<1>5. \A x, y : GLeads(s, x, y)' <=> GLeads(s, x, y)
  BY <1>1, <1>4 DEF GLeads
<1>6. \A x : GSame(s, x)' <=> GSame(s, x)
  BY <1>3, <1>5 DEF GSame
<1>7. \A f : Generator(s, f)' <=> Generator(s, f)
  BY <1>3, <1>5 DEF Generator
<1> QED
  BY <1>3, <1>5, <1>6, <1>7

LEMMA SolutionStays ==
  ASSUME UNCHANGED job, NEW s
  PROVE  /\ \A f, x : RSame(s, f, x)' <=> RSame(s, f, x)
         /\ \A q : Solution(s, q)' <=> Solution(s, q)
<1>1. m' = m /\ n' = n /\ nrows' = nrows /\ A' = A /\ job'.batch = job.batch
  BY SizesStay DEF A
<1>2. ZOf(s)' = ZOf(s) /\ FillSet' = FillSet
  BY <1>1 DEF ZOf, FillSet
<1>3. \A f, x : RStep(s, f, x)' = RStep(s, f, x)
  BY <1>1, <1>2 DEF RStep
<1>4. \A f, fill : RStart(f, fill)' = RStart(f, fill)
  BY <1>1 DEF RStart
<1>5. \A f, R : RClosed(s, f, R)' <=> RClosed(s, f, R)
  BY <1>3 DEF RClosed, REnd
<1>6. \A f, x, y : RLeads(s, f, x, y)' <=> RLeads(s, f, x, y)
  BY <1>5 DEF RLeads, REnd
<1>7. \A f, x : RSame(s, f, x)' <=> RSame(s, f, x)
  BY <1>2, <1>4, <1>6 DEF RSame
<1>8. \A f, q : Reconstructed(s, f, q)' <=> Reconstructed(s, f, q)
  BY <1>2, <1>4, <1>6 DEF Reconstructed
<1>9. \A q : Solution(s, q)' <=> Solution(s, q)
  BY <1>8, GeneratorStays DEF Solution, IsSequence
<1> QED
  BY <1>7, <1>9

(***************************************************************************)
(* Steps keep the end, and an end leads to itself alone.                   *)
(***************************************************************************)
LEMMA GeneratorBack ==
  ASSUME NEW s, NEW x, x[3] # SeqLen, NEW y
  PROVE  GLeads(s, GStep(s, x), y) <=> GLeads(s, x, y)
<1>1. ASSUME GLeads(s, x, y), NEW R, GStep(s, x) \in R, GClosed(s, R) PROVE y \in R
  <2>1. GClosed(s, R \union {x}) /\ x \in R \union {x}
    BY <1>1 DEF GClosed
  <2>2. y \in R \union {x}
    BY <1>1, <2>1 DEF GLeads
  <2>3. y # x
    BY <1>1 DEF GLeads
  <2> QED
    BY <2>2, <2>3
<1>2. ASSUME GLeads(s, GStep(s, x), y), NEW R, x \in R, GClosed(s, R) PROVE y \in R
  <2>1. GStep(s, x) \in R
    BY <1>2 DEF GClosed
  <2> QED
    BY <1>2, <2>1 DEF GLeads
<1> QED
  BY <1>1, <1>2 DEF GLeads

LEMMA GeneratorEnd ==
  ASSUME NEW s, NEW x, x[3] = SeqLen, NEW y
  PROVE  GLeads(s, x, y) <=> y = x
<1>1. GClosed(s, {x})
  BY DEF GClosed
<1>2. GLeads(s, x, y) => y \in {x}
  BY <1>1 DEF GLeads
<1>3. GLeads(s, x, x)
  BY DEF GLeads
<1> QED
  BY <1>2, <1>3

LEMMA SolutionBack ==
  ASSUME NEW s, NEW f, NEW x, ~REnd(x), NEW y
  PROVE  RLeads(s, f, RStep(s, f, x), y) <=> RLeads(s, f, x, y)
<1>1. ASSUME RLeads(s, f, x, y), NEW R, RStep(s, f, x) \in R, RClosed(s, f, R) PROVE y \in R
  <2>1. RClosed(s, f, R \union {x}) /\ x \in R \union {x}
    BY <1>1 DEF RClosed
  <2>2. y \in R \union {x}
    BY <1>1, <2>1 DEF RLeads
  <2>3. y # x
    BY <1>1 DEF RLeads
  <2> QED
    BY <2>2, <2>3
<1>2. ASSUME RLeads(s, f, RStep(s, f, x), y), NEW R, x \in R, RClosed(s, f, R) PROVE y \in R
  <2>1. RStep(s, f, x) \in R
    BY <1>2 DEF RClosed
  <2> QED
    BY <1>2, <2>1 DEF RLeads
<1> QED
  BY <1>1, <1>2 DEF RLeads

LEMMA SolutionEnd ==
  ASSUME NEW s, NEW f, NEW x, REnd(x), NEW y
  PROVE  RLeads(s, f, x, y) <=> y = x
<1>1. RClosed(s, f, {x})
  BY DEF RClosed
<1>2. RLeads(s, f, x, y) => y \in {x}
  BY <1>1 DEF RLeads
<1>3. RLeads(s, f, x, x)
  BY DEF RLeads
<1> QED
  BY <1>2, <1>3

LEMMA GeneratorUnique ==
  ASSUME NEW s, NEW f, NEW g, Generator(s, f), Generator(s, g)
  PROVE  f = g
  BY DEF Generator

LEMMA SolutionUnique ==
  ASSUME OneFill, NEW s, NEW p, NEW q, Solution(s, p), Solution(s, q)
  PROVE  p = q
<1>1. PICK f : Generator(s, f) /\ Reconstructed(s, f, p)
  BY DEF Solution
<1>2. PICK g : Generator(s, g) /\ Reconstructed(s, g, q)
  BY DEF Solution
<1>3. f = g
  BY <1>1, <1>2, GeneratorUnique
<1>4. CASE f = <<>>
  BY <1>1, <1>2, <1>3, <1>4 DEF Reconstructed
<1>5. CASE f # <<>>
  <2>1. PICK y, a : a \in FillSet /\ p = y[4] /\ \A z : RLeads(s, f, RStart(f, a), z) <=> z = y
    BY <1>1, <1>5 DEF Reconstructed
  <2>2. PICK v, b : b \in FillSet /\ q = v[4] /\ \A z : RLeads(s, f, RStart(f, b), z) <=> z = v
    BY <1>2, <1>3, <1>5 DEF Reconstructed
  <2>3. a = b
    BY <2>1, <2>2 DEF OneFill
  <2>4. y = v
    BY <2>1, <2>2, <2>3
  <2> QED
    BY <2>1, <2>2, <2>4
<1> QED
  BY <1>4, <1>5

(***************************************************************************)
(* What the steps that do not concern them keep.                           *)
(***************************************************************************)
LEMMA FilesAgreeKept ==
  ASSUME FilesAgree, UNCHANGED job, disk'.pi = disk.pi, disk'.sol = disk.sol, disk'.meta = disk.meta
  PROVE  FilesAgree'
<1>1. \A s : \A f : Generator(s, f)' <=> Generator(s, f)
  BY GeneratorStays
<1>2. \A s : \A q : Solution(s, q)' <=> Solution(s, q)
  BY SolutionStays
<1>3. /\ DOMAIN disk'.sol \subseteq Nat \ {0} /\ (disk'.meta.st = "whole" => disk'.meta.v \in Nat)
      /\ disk'.pi.st = "whole" /\ disk'.pi.from \in Seeds => Generator(disk'.pi.from, disk'.pi.v)
      /\ \A i \in DOMAIN disk'.sol :
           /\ disk'.sol[i].st \in {"torn", "whole"}
           /\ disk'.sol[i].st = "torn" => disk'.sol[i].from = -1
           /\ disk'.sol[i].st = "whole" /\ disk'.sol[i].from \in Seeds =>
                  \E q : Solution(disk'.sol[i].from, q) /\ i \in DOMAIN q /\ disk'.sol[i].v = q[i]
      /\ disk'.meta.st = "whole" /\ disk'.meta.from \in Seeds =>
           \E q : /\ Solution(disk'.meta.from, q) /\ disk'.meta.v = Len(q)
                  /\ DOMAIN q \subseteq DOMAIN disk'.sol
  BY DEF FilesAgree
<1> QED
  BY <1>1, <1>2, <1>3 DEF FilesAgree

LEMMA ResultsKept ==
  ASSUME ResultsAgree, UNCHANGED <<job, results>>
  PROVE  ResultsAgree'
<1>1. \A s : \A q : Solution(s, q)' <=> Solution(s, q)
  BY SolutionStays
<1> QED
  BY <1>1 DEF ResultsAgree

LEMMA EmptySequence == IsSequence(<<>>)
<1>1. <<>> \in Seq({})
  OBVIOUS
<1> QED
  BY <1>1 DEF IsSequence

LEMMA SequenceDomain ==
  ASSUME NEW q, IsSequence(q)
  PROVE  Len(q) \in Nat /\ DOMAIN q = 1 .. Len(q) /\ q = [i \in 1 .. Len(q) |-> q[i]]
<1>1. PICK S : q \in Seq(S)
  BY DEF IsSequence
<1> QED
  BY <1>1

LEMMA SequenceAppend ==
  ASSUME NEW q, IsSequence(q), NEW e
  PROVE  IsSequence(Append(q, e))
<1>1. PICK S : q \in Seq(S)
  BY DEF IsSequence
<1>2. q \in Seq(S \union {e})
  BY <1>1
<1>3. Append(q, e) \in Seq(S \union {e})
  BY <1>2
<1> QED
  BY <1>3 DEF IsSequence

LEMMA InitAgrees == Init => AgreeInv
<1> SUFFICES ASSUME Init PROVE AgreeInv
  OBVIOUS
<1>1. disk = [tag |-> <<>>, S |-> NoFile, pi |-> NoFile, sol |-> <<>>, meta |-> NoFile]
  BY DEF Init
<1>2. DOMAIN disk.sol = {} /\ disk.pi.st = "none" /\ disk.meta.st = "none"
  BY <1>1 DEF NoFile
<1>3. FilesAgree
  BY <1>2 DEF FilesAgree
<1>4. MemoryAgrees
  BY EmptySequence DEF Init, MemoryAgrees, Before
<1>5. ResultsAgree
  BY DEF Init, ResultsAgree
<1> QED
  BY <1>3, <1>4, <1>5 DEF AgreeInv

LEMMA SolveAgrees ==
  ASSUME BWInv, AgreeInv, NEW resume \in BOOLEAN, NEW sd \in Seeds, Solve(resume, sd)
  PROVE  AgreeInv'
<1> DEFINE tag == <<nrows, m, n, sd>>
<1>1. UNCHANGED <<job, results>> /\ seed' = sd /\ disk' = [disk EXCEPT !.tag = tag]
      /\ load' = (resume /\ disk.tag = tag) /\ foreign' = FALSE /\ Blank
  BY DEF Solve
<1>2. disk'.tag = tag /\ disk'.pi = disk.pi /\ disk'.sol = disk.sol /\ disk'.meta = disk.meta
  BY <1>1 DEF BWInv, JobOK
<1>3. FilesAgree' /\ ResultsAgree'
  BY <1>1, <1>2, FilesAgreeKept, ResultsKept DEF AgreeInv
<1>4. solutions' = <<>> /\ basis' = <<>> /\ buffer' = <<>> /\ F' = <<>>
  BY <1>1 DEF Blank
<1>5. pc' \in {"stage1", "stage3"} /\ (pc' = "stage3" => load' /\ exists("meta"))
  BY <1>1 DEF Solve
<1>6. exists("meta")' <=> exists("meta")
  BY <1>2 DEF exists
<1>7. checkpoint_tag_matches'
  BY <1>1, <1>2, SizesStay DEF checkpoint_tag_matches, compute_ckpt_tag
<1>8. MemoryAgrees'
  BY <1>4, <1>5, <1>6, <1>7, EmptySequence DEF MemoryAgrees
<1> QED
  BY <1>3, <1>8 DEF AgreeInv

(* The steps that keep the files and the results. *)
LEMMA OthersKept ==
  ASSUME AgreeInv, UNCHANGED <<job, disk, results>>
  PROVE  FilesAgree' /\ ResultsAgree'
  BY FilesAgreeKept, ResultsKept DEF AgreeInv

LEMMA KillAgrees ==
  ASSUME AgreeInv, Kill
  PROVE  AgreeInv'
<1>1. UNCHANGED <<job, disk, results>> /\ Blank /\ pc' = "down"
  BY DEF Kill
<1>2. MemoryAgrees'
  BY <1>1, EmptySequence DEF MemoryAgrees, Blank, Before
<1> QED
  BY <1>1, <1>2, OthersKept DEF AgreeInv

LEMMA Stage1Agrees ==
  ASSUME AgreeInv, RunStage1 \/ Stage1Step
  PROVE  AgreeInv'
<1>1. UNCHANGED <<job, disk, results, solutions, basis, buffer>> /\ pc \in Before
  BY DEF RunStage1, Stage1Step, generate, Issue, Compute, Copy, Collect, Stage1Done, Before
<1>2. pc' \in {"stage2", "krylov", "saveS"}
  BY DEF RunStage1, Stage1Step, generate, Issue, Compute, Copy, Collect, Stage1Done
<1>3. MemoryAgrees'
  BY <1>1, <1>2, EmptySequence DEF AgreeInv, MemoryAgrees
<1> QED
  BY <1>1, <1>3, OthersKept DEF AgreeInv

LEMMA RunStage2Agrees ==
  ASSUME BWInv, AgreeInv, RunStage2
  PROVE  AgreeInv'
<1>1. UNCHANGED <<job, seed, disk, results, hS, dS, solutions, basis, buffer>> /\ pc = "stage2"
  BY DEF RunStage2
<1>2. solutions' = <<>> /\ basis' = <<>> /\ buffer' = <<>>
  BY <1>1 DEF AgreeInv, MemoryAgrees, Before
<1>3. /\ \A f : Generator(seed, f)' <=> Generator(seed, f)
      /\ \A x : GSame(seed, x)' <=> GSame(seed, x)
  <2>1. \A s : \A f : Generator(s, f)' <=> Generator(s, f)
    BY <1>1, GeneratorStays
  <2>2. \A s : \A x : GSame(s, x)' <=> GSame(s, x)
    BY <1>1, GeneratorStays
  <2> QED
    BY <1>1, <2>1, <2>2
<1> DEFINE Loads == load /\ exists("pi") /\ checkpoint_tag_matches /\ disk.pi.st = "whole"
<1>4. CASE Loads
  <2>1. pc' = "stage3" /\ F' = disk.pi.v /\ foreign' = (foreign \/ Foreign("pi"))
    BY <1>4 DEF RunStage2
  <2>2. ASSUME ~foreign' PROVE Generator(seed, F)'
    <3>1. disk.pi.from = seed
      BY <1>4, <2>1, <2>2 DEF Foreign
    <3>2. Generator(seed, disk.pi.v)
      BY <1>4, <3>1 DEF AgreeInv, FilesAgree, BWInv, JobOK
    <3> QED
      BY <1>1, <1>3, <2>1, <3>2
  <2>3. MemoryAgrees'
    BY <1>2, <2>1, <2>2, EmptySequence DEF MemoryAgrees
  <2> QED
    BY <1>1, <2>3, OthersKept DEF AgreeInv
<1>5. CASE ~Loads /\ Sequence = <<>>
  <2>1. pc' = "failed"
    BY <1>5, Zenon DEF RunStage2
  <2>2. MemoryAgrees'
    BY <1>2, <2>1, EmptySequence DEF MemoryAgrees, Before
  <2> QED
    BY <1>1, <2>2, OthersKept DEF AgreeInv
<1>6. CASE ~Loads /\ Sequence # <<>>
  <2> DEFINE init == k_find_init_basis(Sequence, m, n)
  <2>1. /\ pc' \in {"lingen", "mismatch"} /\ foreign' = foreign
        /\ F' = build_f_init(init, m, n) /\ gamma' = [r \in Upto(dim) |-> init.t0] /\ t' = init.t0
    BY <1>6, Zenon DEF RunStage2
  <2>2. ASSUME ~foreign PROVE GSame(seed, <<F, gamma, t>>)'
    <3>1. Sequence = TermsOf(seed)
      BY <1>1, <1>6, <2>2, TermsAre DEF BWInv, SequenceRight, Sequence
    <3>2. <<F', gamma', t'>> = GStart(seed)
      BY <2>1, <3>1 DEF GStart
    <3>3. GSame(seed, GStart(seed))
      BY DEF GSame
    <3> QED
      BY <1>1, <1>3, <3>2, <3>3
  <2>3. Sequence' = Sequence
    BY <1>1 DEF Sequence
  <2>4. MemoryAgrees'
    BY <1>2, <1>6, <2>1, <2>2, <2>3, EmptySequence DEF MemoryAgrees
  <2> QED
    BY <1>1, <2>4, OthersKept DEF AgreeInv
<1> QED
  BY <1>4, <1>5, <1>6

LEMMA Stage2Agrees ==
  ASSUME BWInv, AgreeInv, Stage2Step
  PROVE  AgreeInv'
<1>1. UNCHANGED <<job, seed, disk, results, foreign, hS, solutions, basis, buffer>> /\ pc = "lingen"
  BY DEF Stage2Step, LingenStep, LingenDone
<1>2. solutions' = <<>> /\ basis' = <<>> /\ buffer' = <<>> /\ Sequence # <<>>
  BY <1>1 DEF AgreeInv, MemoryAgrees, Before
<1>3. ~foreign => GSame(seed, <<F, gamma, t>>)
  BY <1>1 DEF AgreeInv, MemoryAgrees
<1>4. /\ \A f : Generator(seed, f)' <=> Generator(seed, f)
      /\ \A x : GSame(seed, x)' <=> GSame(seed, x)
  <2>1. \A s : \A f : Generator(s, f)' <=> Generator(s, f)
    BY <1>1, GeneratorStays
  <2>2. \A s : \A x : GSame(s, x)' <=> GSame(s, x)
    BY <1>1, GeneratorStays
  <2> QED
    BY <1>1, <2>1, <2>2
<1>5. CASE LingenStep /\ UNCHANGED dS
  <2>1. pc' \in {"lingen", "mismatch"} /\ t < SeqLen
    BY <1>5 DEF LingenStep
  <2>2. Sequence' = Sequence
    BY <1>1, <1>5 DEF Sequence
  <2>3. ASSUME ~foreign PROVE GSame(seed, <<F, gamma, t>>)'
    <3> DEFINE x == <<F, gamma, t>>
    <3>1. Sequence = TermsOf(seed)
      BY <1>1, <1>2, <2>3, TermsAre DEF BWInv, SequenceRight, Sequence
    <3>2. <<F', gamma', t'>> = GStep(seed, x)
      BY <1>5, <3>1 DEF LingenStep, GStep
    <3>3. x[3] # SeqLen
      BY <2>1 DEF BWInv, JobOK
    <3>4. GSame(seed, GStep(seed, x))
      BY <1>3, <2>3, <3>3, GeneratorBack DEF GSame
    <3> QED
      BY <1>1, <1>4, <3>2, <3>4
  <2>4. MemoryAgrees'
    BY <1>1, <1>2, <2>1, <2>2, <2>3, EmptySequence DEF MemoryAgrees
  <2> QED
    BY <1>1, <2>4, OthersKept DEF AgreeInv
<1>6. CASE LingenDone
  <2>1. pc' = "savePi" /\ t = SeqLen /\ F' = Trim(F)
    BY <1>6 DEF LingenDone
  <2>2. ASSUME ~foreign PROVE Generator(seed, F)'
    <3> DEFINE x == <<F, gamma, t>>
    <3>1. \A z : GLeads(seed, x, z) <=> z = x
      BY <2>1, GeneratorEnd
    <3>2. \A z : GLeads(seed, GStart(seed), z) <=> z = x
      BY <1>3, <2>2, <3>1 DEF GSame
    <3>3. Generator(seed, Trim(F))
      <4>1. Trim(F) = Trim(x[1])
        OBVIOUS
      <4> HIDE DEF x
      <4> QED
        BY <3>2, <4>1 DEF Generator
    <3> QED
      BY <1>1, <1>4, <2>1, <3>3
  <2>3. MemoryAgrees'
    BY <1>1, <1>2, <2>1, <2>2, EmptySequence DEF MemoryAgrees
  <2> QED
    BY <1>1, <2>3, OthersKept DEF AgreeInv
<1> QED
  BY <1>5, <1>6 DEF Stage2Step

(***************************************************************************)
(* The reconstruction.                                                     *)
(***************************************************************************)
(* What the files of the solutions hold, when all that count are of the seed. *)
LEMMA LoadedAre ==
  ASSUME BWInv, AgreeInv, OneFill, exists("meta"), load_solutions_ok, ~ForeignSolutions
  PROVE  Solution(seed, [i \in 1 .. disk.meta.v |-> disk.sol[i].v])
<1>1. disk.meta.st = "whole" /\ disk.meta.from = seed /\ seed \in Seeds
  BY DEF load_solutions_ok, ForeignSolutions, Foreign, BWInv, JobOK
<1>2. PICK q : Solution(seed, q) /\ disk.meta.v = Len(q) /\ DOMAIN q \subseteq DOMAIN disk.sol
  BY <1>1 DEF AgreeInv, FilesAgree
<1>3. IsSequence(q)
  BY <1>2 DEF Solution
<1>4. Len(q) \in Nat /\ DOMAIN q = 1 .. Len(q) /\ q = [i \in 1 .. Len(q) |-> q[i]]
  BY <1>3, SequenceDomain
<1>5. ASSUME NEW i \in 1 .. Len(q) PROVE disk.sol[i].v = q[i]
  <2>1. i \in DOMAIN disk.sol /\ i <= disk.meta.v /\ disk.sol[i].st = "whole"
    BY <1>2, <1>4 DEF load_solutions_ok
  <2>2. disk.sol[i].from = seed
    BY <2>1 DEF ForeignSolutions
  <2>3. PICK p : Solution(seed, p) /\ disk.sol[i].v = p[i]
    BY <1>1, <2>1, <2>2 DEF AgreeInv, FilesAgree
  <2>4. p = q
    BY <1>2, <2>3, SolutionUnique
  <2> QED
    BY <2>3, <2>4
<1>6. [i \in 1 .. disk.meta.v |-> disk.sol[i].v] = q
  BY <1>2, <1>4, <1>5
<1> QED
  BY <1>2, <1>6

(* Metadata of the seed counts files that are there. *)
LEMMA UnreadableIsForeign ==
  ASSUME BWInv, AgreeInv, exists("meta"), ~load_solutions_ok
  PROVE  ForeignSolutions
<1> SUFFICES ASSUME ~ForeignSolutions PROVE FALSE
  OBVIOUS
<1>1. disk.meta.from = seed /\ seed \in Seeds
  BY DEF ForeignSolutions, Foreign, BWInv, JobOK
<1>2. disk.meta.st = "whole"
  BY <1>1, SeedsAreNat DEF exists, BWInv, Files
<1>3. PICK q : Solution(seed, q) /\ disk.meta.v = Len(q) /\ DOMAIN q \subseteq DOMAIN disk.sol
  BY <1>1, <1>2 DEF AgreeInv, FilesAgree
<1>4. DOMAIN q = 1 .. Len(q) /\ Len(q) \in Nat
  BY <1>3, SequenceDomain DEF Solution
<1>5. PICK i \in 1 .. disk.meta.v : ~(i \in DOMAIN disk.sol /\ disk.sol[i].st = "whole")
  BY <1>2 DEF load_solutions_ok
<1>6. i \in DOMAIN disk.sol /\ i <= disk.meta.v
  BY <1>3, <1>4, <1>5
<1>7. disk.sol[i].from = -1
  BY <1>5, <1>6 DEF AgreeInv, FilesAgree
<1> QED
  BY <1>1, <1>6, <1>7, SeedsAreNat DEF ForeignSolutions

LEMMA IndexedIsSequence ==
  ASSUME NEW k \in Nat, NEW f
  PROVE  IsSequence([i \in 1 .. k |-> f[i].v])
<1> DEFINE q == [i \in 1 .. k |-> f[i].v]
           S == {f[i].v : i \in 1 .. k}
<1>1. q \in [1 .. k -> S]
  OBVIOUS
<1>2. q \in Seq(S)
  BY <1>1
<1> HIDE DEF S
<1> QED
  BY <1>2 DEF IsSequence

LEMMA RunStage3Agrees ==
  ASSUME BWInv, AgreeInv, OneFill, RunStage3
  PROVE  AgreeInv'
<1>1. UNCHANGED <<job, seed, disk, results, F, basis, buffer>> /\ pc = "stage3"
  BY DEF RunStage3
<1>2. solutions = <<>> /\ basis = <<>> /\ buffer = <<>>
  BY <1>1 DEF AgreeInv, MemoryAgrees, Before
<1>3. /\ \A f : Generator(seed, f)' <=> Generator(seed, f)
      /\ \A q : Solution(seed, q)' <=> Solution(seed, q)
      /\ \A f, x : RSame(seed, f, x)' <=> RSame(seed, f, x)
  <2>1. \A s : \A f : Generator(s, f)' <=> Generator(s, f)
    BY <1>1, GeneratorStays
  <2>2. \A s : \A q : Solution(s, q)' <=> Solution(s, q)
    BY <1>1, SolutionStays
  <2>3. \A s : \A f, x : RSame(s, f, x)' <=> RSame(s, f, x)
    BY <1>1, SolutionStays
  <2> QED
    BY <1>1, <2>1, <2>2, <2>3
<1>4. ~foreign => \/ Generator(seed, F)
                  \/ F = <<>> /\ load /\ exists("meta") /\ checkpoint_tag_matches
  BY <1>1 DEF AgreeInv, MemoryAgrees
<1> DEFINE Loads == load /\ exists("meta") /\ checkpoint_tag_matches /\ load_solutions_ok
<1>5. CASE Loads
  <2>1. /\ solutions' = [i \in 1 .. disk.meta.v |-> disk.sol[i].v]
        /\ foreign' = (foreign \/ ForeignSolutions) /\ pc' = "return"
    BY <1>5, Zenon DEF RunStage3
  <2>2. disk.meta.v \in Nat
    BY <1>5 DEF load_solutions_ok, AgreeInv, FilesAgree
  <2>3. IsSequence(solutions')
    BY <2>1, <2>2, IndexedIsSequence
  <2>4. ASSUME ~foreign' PROVE Solution(seed, solutions)'
    <3>1. Solution(seed, solutions')
      BY <1>5, <2>1, <2>4, LoadedAre
    <3> QED
      BY <1>1, <1>3, <3>1
  <2>5. MemoryAgrees'
    BY <2>1, <2>3, <2>4 DEF MemoryAgrees, Before, IsSequence
  <2> QED
    BY <1>1, <2>5, OthersKept DEF AgreeInv
<1>6. CASE ~Loads /\ F = <<>>
  <2>1. /\ solutions' = <<>> /\ foreign' = (foreign \/ ForeignSolutions) /\ pc' = "return"
    BY <1>2, <1>6, Zenon DEF RunStage3
  <2>2. ASSUME ~foreign' PROVE Solution(seed, solutions)'
    <3>1. Generator(seed, F)
      BY <1>4, <1>6, <2>1, <2>2, UnreadableIsForeign
    <3>2. Solution(seed, <<>>)
      BY <1>6, <3>1, EmptySequence DEF Solution, Reconstructed
    <3> QED
      BY <1>1, <1>3, <2>1, <3>2
  <2>3. MemoryAgrees'
    BY <2>1, <2>2, EmptySequence DEF MemoryAgrees, Before
  <2> QED
    BY <1>1, <2>3, OthersKept DEF AgreeInv
<1>7. CASE ~Loads /\ F # <<>>
  <2>1. /\ queue' = (IF job.batch THEN BatchQueue(CandidateQueue(F, n), n) ELSE CandidateQueue(F, n))
        /\ \E fill \in FillSet : history' = [k \in Upto(HistoryDepth) |-> [c \in Upto(n) |-> fill]]
        /\ pc' = "recon" /\ UNCHANGED <<solutions, foreign>>
    BY <1>7, Zenon DEF RunStage3, FillSet
  <2>2. PICK fill \in FillSet : history' = [k \in Upto(HistoryDepth) |-> [c \in Upto(n) |-> fill]]
    BY <2>1
  <2>3. ASSUME ~foreign PROVE Generator(seed, F)' /\ RSame(seed, F, <<queue, basis, buffer, solutions, history>>)'
    <3>1. Generator(seed, F)
      BY <1>4, <1>7, <2>3
    <3>2. <<queue', basis', buffer', solutions', history'>> = RStart(F, fill)
      BY <1>1, <1>2, <2>1, <2>2 DEF RStart
    <3>3. RSame(seed, F, RStart(F, fill))
      BY DEF RSame
    <3>4. RSame(seed, F, <<queue', basis', buffer', solutions', history'>>)
      BY <3>2, <3>3
    <3> QED
      BY <1>1, <1>3, <3>1, <3>4
  <2>4. MemoryAgrees'
    BY <1>1, <1>2, <1>7, <2>1, <2>3, EmptySequence DEF MemoryAgrees, Before
  <2> QED
    BY <1>1, <2>4, OthersKept DEF AgreeInv
<1> QED
  BY <1>5, <1>6, <1>7

LEMMA FindNextAgrees ==
  ASSUME BWInv, AgreeInv, FindNext
  PROVE  AgreeInv'
<1>1. UNCHANGED <<job, seed, pc, disk, results, F, foreign>> /\ pc = "recon"
  BY DEF FindNext, FindNextBatch, ProcessCandidate, TakeSolution
<1> DEFINE x == <<queue, basis, buffer, solutions, history>>
<1>2. IsSequence(solutions)
  BY DEF AgreeInv, MemoryAgrees
<1>3. IsSequence(solutions')
  <2>1. solutions' = solutions \/ solutions' = Append(solutions, Head(buffer))
    BY DEF FindNext, FindNextBatch, ProcessCandidate, TakeSolution
  <2> QED
    BY <1>2, <2>1, SequenceAppend
<1>4. Len(solutions) < MaxSolutions /\ (buffer # <<>> \/ queue # <<>>)
  BY DEF FindNext, FindNextBatch, ProcessCandidate, TakeSolution
<1>5. ~REnd(x)
  BY <1>4, SizesAssumption DEF REnd
<1>6. Z = ZOf(seed)
  BY DEF Z, ZOf
<1>7. <<queue', basis', buffer', solutions', history'>> = RStep(seed, F, x)
  <2>1. CASE FindNextBatch
    <3>1. buffer = <<>> /\ job.batch
      BY <2>1 DEF FindNextBatch
    <3> QED
      BY <1>6, <2>1, <3>1 DEF FindNextBatch, RStep
  <2>2. CASE ProcessCandidate
    <3>1. buffer = <<>> /\ ~job.batch
      BY <2>2 DEF ProcessCandidate
    <3> QED
      BY <1>6, <2>2, <3>1 DEF ProcessCandidate, RStep
  <2>3. CASE TakeSolution
    BY <2>3 DEF TakeSolution, RStep
  <2> QED
    BY <2>1, <2>2, <2>3 DEF FindNext
<1>8. ASSUME ~foreign PROVE Generator(seed, F)' /\ F' # <<>>
                            /\ RSame(seed, F, <<queue, basis, buffer, solutions, history>>)'
  <2>1. Generator(seed, F) /\ F # <<>> /\ RSame(seed, F, x)
    BY <1>1, <1>8 DEF AgreeInv, MemoryAgrees
  <2>2. RSame(seed, F, RStep(seed, F, x))
    BY <1>5, <2>1, SolutionBack DEF RSame
  <2>3. RSame(seed, F, <<queue', basis', buffer', solutions', history'>>)
    BY <1>7, <2>2
  <2>4. \A s : \A f : Generator(s, f)' <=> Generator(s, f)
    BY <1>1, GeneratorStays
  <2>5. \A s : \A f, z : RSame(s, f, z)' <=> RSame(s, f, z)
    BY <1>1, SolutionStays
  <2> QED
    BY <1>1, <2>1, <2>3, <2>4, <2>5
<1>9. MemoryAgrees'
  BY <1>1, <1>3, <1>8 DEF MemoryAgrees, Before, IsSequence
<1> QED
  BY <1>1, <1>9, OthersKept DEF AgreeInv

LEMMA ReconDoneAgrees ==
  ASSUME BWInv, AgreeInv, ReconDone, UNCHANGED <<job, seed, load, memory, disk, launches, foreign, results>>
  PROVE  AgreeInv'
<1>1. UNCHANGED <<job, seed, disk, results, solutions, foreign>> /\ pc = "recon" /\ pc' = "saveSol"
  BY DEF ReconDone, memory
<1> DEFINE x == <<queue, basis, buffer, solutions, history>>
<1>2. REnd(x)
  BY DEF ReconDone, REnd
<1>3. ASSUME ~foreign PROVE Solution(seed, solutions)'
  <2>1. Generator(seed, F) /\ F # <<>> /\ RSame(seed, F, x) /\ IsSequence(solutions)
    BY <1>1, <1>3 DEF AgreeInv, MemoryAgrees
  <2>2. PICK fill \in FillSet : \A y : RLeads(seed, F, x, y) <=> RLeads(seed, F, RStart(F, fill), y)
    BY <2>1 DEF RSame
  <2>3. \A z : RLeads(seed, F, RStart(F, fill), z) <=> z = x
    BY <1>2, <2>2, SolutionEnd
  <2>4. x[4] = solutions
    OBVIOUS
  <2>5. Reconstructed(seed, F, solutions)
    <3> HIDE DEF x
    <3> QED
      BY <2>1, <2>3, <2>4 DEF Reconstructed
  <2>6. Solution(seed, solutions)
    BY <2>1, <2>5 DEF Solution
  <2>7. \A s : \A q : Solution(s, q)' <=> Solution(s, q)
    BY <1>1, SolutionStays
  <2> QED
    BY <1>1, <2>6, <2>7
<1>4. MemoryAgrees'
  BY <1>1, <1>3 DEF AgreeInv, MemoryAgrees, Before, IsSequence
<1> QED
  BY <1>1, <1>4, OthersKept DEF AgreeInv

LEMMA ReturnAgrees ==
  ASSUME BWInv, AgreeInv, Return, UNCHANGED <<job, seed, load, memory, disk, launches, foreign>>
  PROVE  AgreeInv'
<1>1. UNCHANGED <<job, seed, disk, solutions>> /\ pc = "return" /\ pc' = "done"
      /\ results' = [results EXCEPT ![seed] = IF Tainted THEN @ ELSE @ \union {solutions}]
  BY DEF Return, memory
<1>2. FilesAgree'
  BY <1>1, FilesAgreeKept DEF AgreeInv
<1>3. MemoryAgrees'
  BY <1>1 DEF AgreeInv, MemoryAgrees, Before, IsSequence
<1>4. ~Tainted => Solution(seed, solutions)
  BY <1>1 DEF Tainted, AgreeInv, MemoryAgrees
<1>5. DOMAIN results = Seeds /\ seed \in Seeds /\ \A s \in Seeds : \A q \in results[s] : Solution(s, q)
  BY DEF AgreeInv, ResultsAgree, BWInv, JobOK
<1>6. DOMAIN results' = Seeds /\ \A s \in Seeds : \A q \in results'[s] : Solution(s, q)
  BY <1>1, <1>4, <1>5
<1>7. \A s : \A q : Solution(s, q)' <=> Solution(s, q)
  BY <1>1, SolutionStays
<1>8. ResultsAgree'
  BY <1>6, <1>7 DEF ResultsAgree
<1> QED
  BY <1>2, <1>3, <1>8 DEF AgreeInv

(***************************************************************************)
(* The files of the generator, the solutions and the metadata.             *)
(***************************************************************************)
SolFilesOK(sol) ==
    /\ DOMAIN sol \subseteq Nat \ {0}
    /\ \A i \in DOMAIN sol :
           /\ sol[i].st \in {"torn", "whole"}
           /\ sol[i].st = "torn" => sol[i].from = -1
           /\ sol[i].st = "whole" /\ sol[i].from \in Seeds =>
                  \E q : Solution(sol[i].from, q) /\ i \in DOMAIN q /\ sol[i].v = q[i]

MetaOK(meta, files) ==
    /\ meta.st = "whole" => meta.v \in Nat
    /\ meta.st = "whole" /\ meta.from \in Seeds =>
           \E q : Solution(meta.from, q) /\ meta.v = Len(q) /\ DOMAIN q \subseteq files

LEMMA FilesAgreeParts ==
    FilesAgree <=> /\ disk.pi.st = "whole" /\ disk.pi.from \in Seeds => Generator(disk.pi.from, disk.pi.v)
                   /\ SolFilesOK(disk.sol) /\ MetaOK(disk.meta, DOMAIN disk.sol)
  BY DEF FilesAgree, SolFilesOK, MetaOK

LEMMA SavedAre ==
  ASSUME BWInv, AgreeInv, pc = "saveSol", NEW k \in 0 .. Len(solutions)
  PROVE  /\ SolFilesOK(Saved(k)) /\ DOMAIN Saved(k) = DOMAIN disk.sol \union 1 .. k
         /\ k > 0 => SolFilesOK([Saved(k) EXCEPT ![k] = Torn(solutions[k])])
<1>1. SolFilesOK(disk.sol)
  BY FilesAgreeParts DEF AgreeInv
<1>2. Len(solutions) \in Nat /\ DOMAIN solutions = 1 .. Len(solutions)
  BY SequenceDomain DEF AgreeInv, MemoryAgrees
<1>3. k \in Nat /\ 1 .. k \subseteq Nat \ {0}
  BY <1>2
<1>4. DOMAIN Saved(k) = DOMAIN disk.sol \union 1 .. k /\ DOMAIN Saved(k) \subseteq Nat \ {0}
  BY <1>1, <1>3 DEF Saved, SolFilesOK
<1>5. ASSUME NEW i \in DOMAIN Saved(k)
      PROVE  /\ Saved(k)[i].st \in {"torn", "whole"}
             /\ Saved(k)[i].st = "torn" => Saved(k)[i].from = -1
             /\ Saved(k)[i].st = "whole" /\ Saved(k)[i].from \in Seeds =>
                    \E q : Solution(Saved(k)[i].from, q) /\ i \in DOMAIN q /\ Saved(k)[i].v = q[i]
  <2>1. CASE i <= k
    <3>1. i \in 1 .. k /\ i \in DOMAIN solutions
      BY <1>2, <1>3, <1>4, <2>1
    <3>2. Saved(k)[i] = Whole(solutions[i])
      BY <1>4, <2>1 DEF Saved
    <3>3. Saved(k)[i].st = "whole" /\ Saved(k)[i].v = solutions[i] /\ Saved(k)[i].from = Writer
      BY <3>2 DEF Whole
    <3>4. Writer \in Seeds => Solution(Writer, solutions)
      BY WriterIs DEF AgreeInv, MemoryAgrees
    <3> QED
      BY <3>1, <3>3, <3>4
  <2>2. CASE ~(i <= k)
    <3>1. i \in DOMAIN disk.sol
      BY <1>3, <1>4, <2>2
    <3>2. Saved(k)[i] = disk.sol[i]
      BY <1>4, <2>2 DEF Saved
    <3> QED
      BY <1>1, <3>1, <3>2 DEF SolFilesOK
  <2> QED
    BY <2>1, <2>2
<1>6. SolFilesOK(Saved(k))
  BY <1>4, <1>5 DEF SolFilesOK
<1>7. ASSUME k > 0 PROVE SolFilesOK([Saved(k) EXCEPT ![k] = Torn(solutions[k])])
  <2> DEFINE cut == [Saved(k) EXCEPT ![k] = Torn(solutions[k])]
  <2>1. k \in DOMAIN Saved(k)
    BY <1>3, <1>4, <1>7
  <2>2. DOMAIN cut = DOMAIN Saved(k) /\ cut[k].st = "torn" /\ cut[k].from = -1
        /\ \A i \in DOMAIN Saved(k) \ {k} : cut[i] = Saved(k)[i]
    BY <2>1 DEF Torn
  <2> HIDE DEF cut
  <2>3. SolFilesOK(cut)
    BY <1>6, <2>2 DEF SolFilesOK
  <2> QED
    BY <2>3 DEF cut
<1> QED
  BY <1>4, <1>6, <1>7

LEMMA SaveAgrees ==
  ASSUME BWInv, AgreeInv, SaveStep
  PROVE  AgreeInv'
<1>1. UNCHANGED <<job, seed, foreign, results, solutions, basis, buffer, F>>
  BY DEF SaveStep, memory
<1>2. ResultsAgree'
  BY <1>1, ResultsKept DEF AgreeInv
<1>3. DOMAIN disk = {"tag", "S", "pi", "sol", "meta"} /\ IsSequence(solutions)
  BY DEF BWInv, JobOK, AgreeInv, MemoryAgrees
<1>4. /\ \A s : \A f : Generator(s, f)' <=> Generator(s, f)
      /\ \A s : \A q : Solution(s, q)' <=> Solution(s, q)
  BY <1>1, GeneratorStays, SolutionStays
<1>5. FilesAgree
  BY DEF AgreeInv
<1>6. \A sol : SolFilesOK(sol)' <=> SolFilesOK(sol)
  BY <1>4 DEF SolFilesOK
<1>7. \A meta, files : MetaOK(meta, files)' <=> MetaOK(meta, files)
  BY <1>4 DEF MetaOK
<1>8. FilesAgree' <=> /\ disk'.pi.st = "whole" /\ disk'.pi.from \in Seeds => Generator(disk'.pi.from, disk'.pi.v)
                      /\ SolFilesOK(disk'.sol) /\ MetaOK(disk'.meta, DOMAIN disk'.sol)
  <2>1. FilesAgree' <=> /\ disk'.pi.st = "whole" /\ disk'.pi.from \in Seeds => Generator(disk.pi.from, disk.pi.v)'
                        /\ SolFilesOK(disk.sol)' /\ MetaOK(disk.meta, DOMAIN disk.sol)'
    BY DEF FilesAgree, SolFilesOK, MetaOK
  <2> QED
    BY <1>4, <1>6, <1>7, <2>1
<1>9. CASE save_sequence
  <2>1. pc = "saveS" /\ Write("S", hS, "stage2")
    BY <1>9 DEF save_sequence
  <2>2. disk'.pi = disk.pi /\ disk'.sol = disk.sol /\ disk'.meta = disk.meta /\ pc' \in {"stage2", "down"}
    BY <1>3, <2>1 DEF Write
  <2>3. FilesAgree'
    BY <1>1, <1>5, <2>2, FilesAgreeKept
  <2>4. MemoryAgrees'
    BY <1>1, <1>3, <2>1, <2>2 DEF AgreeInv, MemoryAgrees, Before, IsSequence
  <2> QED
    BY <1>2, <2>3, <2>4 DEF AgreeInv
<1>10. CASE save_polynomial
  <2>1. pc = "savePi" /\ Write("pi", F, "stage3")
    BY <1>10 DEF save_polynomial
  <2>2. disk'.sol = disk.sol /\ disk'.meta = disk.meta /\ disk'.pi \in {Whole(F), Torn(F)}
        /\ pc' \in {"stage3", "down"}
    BY <1>3, <2>1 DEF Write
  <2>3. ~foreign => Generator(seed, F)
    BY <2>1 DEF AgreeInv, MemoryAgrees
  <2>4. disk'.pi.st = "whole" /\ disk'.pi.from \in Seeds => Generator(disk'.pi.from, disk'.pi.v)
    BY <2>2, <2>3, WriterIs DEF Whole, Torn
  <2>5. FilesAgree'
    BY <1>5, <1>8, <2>2, <2>4, FilesAgreeParts
  <2>6. ~foreign' => Generator(seed, F)'
    BY <1>1, <1>4, <2>3
  <2>7. MemoryAgrees'
    BY <1>1, <1>3, <2>1, <2>2, <2>6 DEF AgreeInv, MemoryAgrees, Before, IsSequence
  <2> QED
    BY <1>2, <2>5, <2>7 DEF AgreeInv
<1>11. CASE save_solutions
  <2>1. pc = "saveSol" /\ pc' \in {"saveMeta", "down"}
    BY <1>11 DEF save_solutions
  <2>2. Len(solutions) \in Nat /\ DOMAIN solutions = 1 .. Len(solutions)
    BY <1>3, SequenceDomain
  <2>3. PICK sol : /\ disk' = [disk EXCEPT !.sol = sol] /\ SolFilesOK(sol)
                   /\ DOMAIN disk.sol \subseteq DOMAIN sol
                   /\ pc' = "saveMeta" => DOMAIN solutions \subseteq DOMAIN sol
    <3>1. CASE disk' = [disk EXCEPT !.sol = Saved(Len(solutions))] /\ pc' = "saveMeta"
      <4>1. SolFilesOK(Saved(Len(solutions)))
            /\ DOMAIN Saved(Len(solutions)) = DOMAIN disk.sol \union 1 .. Len(solutions)
        <5>1. Len(solutions) \in 0 .. Len(solutions)
          BY <2>2
        <5> QED
          BY <2>1, <5>1, SavedAre
      <4> QED
        BY <2>2, <3>1, <4>1
    <3>2. CASE \E k \in DOMAIN solutions : disk' = [disk EXCEPT !.sol = Saved(k - 1)] /\ pc' = "down"
      <4>1. PICK k \in DOMAIN solutions : disk' = [disk EXCEPT !.sol = Saved(k - 1)]
        BY <3>2
      <4>2. k - 1 \in 0 .. Len(solutions)
        BY <2>2
      <4>3. SolFilesOK(Saved(k - 1)) /\ DOMAIN disk.sol \subseteq DOMAIN Saved(k - 1)
        BY <2>1, <4>2, SavedAre
      <4> QED
        BY <3>2, <4>1, <4>3
    <3>3. CASE \E k \in DOMAIN solutions :
                 disk' = [disk EXCEPT !.sol = [Saved(k) EXCEPT ![k] = Torn(solutions[k])]] /\ pc' = "down"
      <4>1. PICK k \in DOMAIN solutions : disk' = [disk EXCEPT !.sol = [Saved(k) EXCEPT ![k] = Torn(solutions[k])]]
        BY <3>3
      <4>2. k \in 0 .. Len(solutions) /\ k > 0
        BY <2>2
      <4>3. SolFilesOK([Saved(k) EXCEPT ![k] = Torn(solutions[k])]) /\ DOMAIN disk.sol \subseteq DOMAIN Saved(k)
        BY <2>1, <4>2, SavedAre
      <4>4. DOMAIN [Saved(k) EXCEPT ![k] = Torn(solutions[k])] = DOMAIN Saved(k)
        OBVIOUS
      <4> QED
        BY <3>3, <4>1, <4>3, <4>4
    <3> QED
      BY <1>11, <3>1, <3>2, <3>3 DEF save_solutions
  <2>4. disk'.pi = disk.pi /\ disk'.meta = disk.meta /\ disk'.sol = sol
    BY <1>3, <2>3
  <2>5. MetaOK(disk.meta, DOMAIN sol)
    BY <1>5, <2>3, FilesAgreeParts DEF MetaOK
  <2>6. FilesAgree'
    BY <1>5, <1>8, <2>3, <2>4, <2>5, FilesAgreeParts
  <2>7. ~foreign' => Solution(seed, solutions)'
    BY <1>1, <1>4, <2>1 DEF AgreeInv, MemoryAgrees
  <2>8. MemoryAgrees'
    BY <1>1, <1>3, <2>1, <2>3, <2>4, <2>7 DEF MemoryAgrees, Before, IsSequence
  <2> QED
    BY <1>2, <2>6, <2>8 DEF AgreeInv
<1>12. CASE save_solutions_meta
  <2>1. pc = "saveMeta" /\ Write("meta", Len(solutions), "return")
    BY <1>12 DEF save_solutions_meta
  <2>2. disk'.sol = disk.sol /\ disk'.pi = disk.pi /\ disk'.meta \in {Whole(Len(solutions)), Torn(Len(solutions))}
        /\ pc' \in {"return", "down"}
    BY <1>3, <2>1 DEF Write
  <2>3. (~foreign => Solution(seed, solutions)) /\ DOMAIN solutions \subseteq DOMAIN disk.sol
    BY <2>1 DEF AgreeInv, MemoryAgrees
  <2>4. Len(solutions) \in Nat
    BY <1>3, SequenceDomain
  <2>5. MetaOK(disk'.meta, DOMAIN disk.sol)
    <3>1. disk'.meta.st = "whole" => disk'.meta.v = Len(solutions) /\ disk'.meta.from = Writer
      BY <2>2 DEF Whole, Torn
    <3>2. Writer \in Seeds => Solution(Writer, solutions)
      BY <2>3, WriterIs
    <3> QED
      BY <2>3, <2>4, <3>1, <3>2 DEF MetaOK
  <2>6. FilesAgree'
    BY <1>5, <1>8, <2>2, <2>5, FilesAgreeParts
  <2>7. ~foreign' => Solution(seed, solutions)'
    BY <1>1, <1>4, <2>3
  <2>8. MemoryAgrees'
    BY <1>1, <1>3, <2>2, <2>7 DEF MemoryAgrees, Before, IsSequence
  <2> QED
    BY <1>2, <2>6, <2>8 DEF AgreeInv
<1> QED
  BY <1>9, <1>10, <1>11, <1>12 DEF SaveStep

LEMMA StutterAgrees ==
  ASSUME AgreeInv, UNCHANGED vars
  PROVE  AgreeInv'
<1>1. UNCHANGED <<job, seed, pc, load, hS, dS, F, gamma, t, queue, basis, buffer, solutions, history,
                  disk, foreign, results>>
  BY DEF vars, memory
<1>2. /\ \A s : \A f : Generator(s, f)' <=> Generator(s, f)
      /\ \A s : \A q : Solution(s, q)' <=> Solution(s, q)
      /\ \A s : \A x : GSame(s, x)' <=> GSame(s, x)
      /\ \A s : \A f, x : RSame(s, f, x)' <=> RSame(s, f, x)
  BY <1>1, GeneratorStays, SolutionStays
<1>3. exists("meta")' = exists("meta") /\ checkpoint_tag_matches' = checkpoint_tag_matches
      /\ Sequence' = Sequence
  BY <1>1, SizesStay DEF exists, checkpoint_tag_matches, compute_ckpt_tag, Sequence
<1>4. MemoryAgrees'
  BY <1>1, <1>2, <1>3 DEF AgreeInv, MemoryAgrees, IsSequence
<1> QED
  BY <1>1, <1>4, OthersKept DEF AgreeInv

LEMMA OneFillStays ==
  ASSUME [Next]_vars
  PROVE  OneFill' <=> OneFill
<1>1. UNCHANGED job
  BY DEF Next, vars, Solve, Kill, RunStage1, Stage1Step, RunStage2, Stage2Step, RunStage3, FindNext,
         SaveStep, ReturnStep, Finished
<1> QED
  BY <1>1 DEF OneFill, FillSet

(* Runs of one seed in a directory return the same solutions, however      *)
(* often they were killed and resumed, and a run gives up only over a file *)
(* that no run of its seed wrote whole, when fresh device memory holds the *)
(* same each time or is not looked at.                                     *)
THEOREM ResumeAlwaysAgrees == Spec => [](OneFill => ResumeAgrees)
<1>1. Init => (OneFill => AgreeInv)
  BY InitAgrees
<1>2. BWInv /\ (OneFill => AgreeInv) /\ [Next]_vars => (OneFill => AgreeInv)'
  <2> SUFFICES ASSUME BWInv, OneFill, AgreeInv, [Next]_vars PROVE AgreeInv'
    BY OneFillStays
  <2>1. CASE \E resume \in BOOLEAN, sd \in Seeds : Solve(resume, sd)
    BY <2>1, SolveAgrees
  <2>2. CASE Kill
    BY <2>2, KillAgrees
  <2>3. CASE RunStage1 \/ Stage1Step
    BY <2>3, Stage1Agrees
  <2>4. CASE RunStage2 \/ Stage2Step
    BY <2>4, RunStage2Agrees, Stage2Agrees
  <2>5. CASE RunStage3 \/ FindNext
    BY <2>5, RunStage3Agrees, FindNextAgrees
  <2>6. CASE SaveStep
    BY <2>6, SaveAgrees
  <2>7. CASE ReturnStep
    BY <2>7, ReconDoneAgrees, ReturnAgrees DEF ReturnStep
  <2>8. CASE Finished \/ UNCHANGED vars
    BY <2>8, StutterAgrees DEF Finished
  <2> QED
    BY <2>1, <2>2, <2>3, <2>4, <2>5, <2>6, <2>7, <2>8 DEF Next
<1>3. BWInv /\ (OneFill => AgreeInv) => (OneFill => ResumeAgrees)
  <2> SUFFICES ASSUME BWInv, OneFill, AgreeInv PROVE ResumeAgrees
    OBVIOUS
  <2>1. ASSUME NEW s \in Seeds PROVE Cardinality(results[s]) <= 1
    <3>1. \A p, q \in results[s] : p = q
      BY SolutionUnique DEF AgreeInv, ResultsAgree
    <3>2. CASE results[s] = {}
      BY <3>2, FS_EmptySet
    <3>3. CASE results[s] # {}
      <4>1. PICK q : q \in results[s]
        BY <3>3
      <4>2. results[s] = {q}
        BY <3>1, <4>1
      <4>3. Cardinality({q}) = 1
        BY FS_Singleton
      <4> QED
        BY <4>2, <4>3
    <3> QED
      BY <3>2, <3>3
  <2>2. pc = "failed" => foreign
    BY DEF BWInv, Provided
  <2> QED
    BY <2>1, <2>2 DEF ResumeAgrees
<1> QED
  BY <1>1, <1>2, <1>3, BWInvariant, PTL DEF Spec
=============================================================================
