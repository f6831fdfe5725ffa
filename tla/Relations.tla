----------------------------- MODULE Relations -----------------------------
(***************************************************************************)
(* From sieve candidates to relations: trial division and the concurrent   *)
(* append of full relations and partials to structures of arrays           *)
(* (postprocessing.cu), the large-prime table on the GPU whose kernels     *)
(* probe, combine and insert with one thread per partial (largeprime.cu),  *)
(* the table and the accumulator a cluster coordinator keeps on the CPU    *)
(* instead (cpu_lp.cu, accumulator.h), and the final deduplication.        *)
(*                                                                         *)
(* The kernels of one pass follow each other on one stream; the threads of *)
(* a kernel interleave.  A batch holds the arrays, the committed counts n  *)
(* and nf, and the packed counter `dual' its appends go through.           *)
(***************************************************************************)
EXTENDS Integers, Sequences, SequencesExt, FiniteSets, FiniteSetsExt

CONSTANTS
    N,          \* the number to be factored
    FactorBase, \* its factor base, index -> prime
    Scenarios   \* runs explored: candidates, capacities and switches, see MCRelations

\* The table of a scenario has buckets, and rows of some width.
ASSUME ScenariosAssumption ==
    \A s \in Scenarios :
        /\ 2 ^ s.hashBits \in Nat \ {0} /\ s.slabRows \in Nat /\ s.rowWidth \in Nat
        /\ s.purge \in BOOLEAN /\ s.cpu \in BOOLEAN

VARIABLES
    sc,       \* the scenario
    round,    \* passes over the candidates so far
    phase,    \* the kernel that is running
    thr,      \* thread (or warp) -> its state inside the kernel
    full,     \* d_persistent_batch
    part,     \* d_partial_batch
    wit,      \* d_global_witnesses
    out,      \* d_output_batch
    dir,      \* d_directory: hash -> [count, row, locked]
    slab,     \* d_payload_slabs: row -> slot -> [tag, idx]
    rows,     \* d_global_row_allocator
    over,     \* overflow counters: refused, slab, witness, output
    cpu,      \* CPULargePrimeTable: large prime -> stored partial
    acc,      \* RelationAccumulator: relations in order of arrival
    given,    \* history: the relations that trial division produced
    used      \* history: the pairs combined, [a, b: their u, w: index of the witness]

vars == <<sc, round, phase, thr, full, part, wit, out, dir, slab, rows, over, cpu, acc, given, used>>

-----------------------------------------------------------------------------
(* Relations and batches. *)

\* processCandidate: u is |ax+b|; what the listed primes leave of |u^2 - N| is the large prime.
Exponent(q, p) == CHOOSE e \in 0 .. 12 : q % (p ^ e) = 0 /\ q % (p ^ (e + 1)) # 0
Distance(u) == IF u * u > N THEN u * u - N ELSE N - u * u
processCandidate(c) ==
    LET v2 == Exponent(Distance(c.u), 2)
        q == Distance(c.u) \div 2 ^ v2
        found == SelectSeq(c.idx, LAMBDA k : q % FactorBase[k] = 0)
        f == [i \in DOMAIN found |-> <<found[i], Exponent(q, FactorBase[found[i]])>>]
    IN  [u |-> c.u, neg |-> c.u * c.u < N, v2 |-> v2, f |-> f,
         lp |-> FoldLeft(LAMBDA r, k : r \div FactorBase[k[1]] ^ k[2], q, f)]
isFull(r) == r.lp = 1
isPartial(r) == r.lp # 1 /\ r.lp < sc.lpBound

Null == [u |-> 0, neg |-> FALSE, v2 |-> 0, lp |-> 0]
Meta(r) == [u |-> r.u, neg |-> r.neg, v2 |-> r.v2, lp |-> r.lp]
Batch(rels, facts) ==
    [meta |-> [i \in 0 .. rels - 1 |-> Null], off |-> [i \in 0 .. rels |-> 0],
     facts |-> [i \in 0 .. facts - 1 |-> <<0, 0>>], n |-> 0, nf |-> 0, dual |-> <<0, 0>>,
     maxRels |-> rels, maxFacts |-> facts]

\* Relation i as a reader of the arrays sees it.
Rel(b, i) ==
    [u |-> b.meta[i].u, neg |-> b.meta[i].neg, v2 |-> b.meta[i].v2, lp |-> b.meta[i].lp,
     f |-> [k \in 1 .. (b.off[i + 1] - b.off[i]) |-> b.facts[b.off[i] + k - 1]]]
Rels(b) == [i \in 1 .. b.n |-> Rel(b, i - 1)]

\* One relation written at a reserved place.
Stored(b, i, fpos, r) ==
    [b EXCEPT !.meta[i] = Meta(r), !.off[i] = fpos, !.off[i + 1] = fpos + Len(r.f),
              !.facts = [k \in DOMAIN @ |-> IF k >= fpos /\ k < fpos + Len(r.f) THEN r.f[k - fpos + 1] ELSE @[k]]]
FactorSum(rs) == FoldLeft(LAMBDA a, r : a + Len(r.f), 0, rs)
\* Consecutive relations written from a reserved base; one whose factors do not fit stays unwritten.
WriteAll(b, base, rs) ==
    FoldLeft(LAMBDA st, r :
                [b |-> IF st.f + Len(r.f) > b.maxFacts THEN st.b ELSE Stored(st.b, st.i, st.f, r),
                 i |-> st.i + 1, f |-> st.f + Len(r.f)],
             [b |-> b, i |-> base[1], f |-> base[2]], rs).b
\* commit_dual_counter_kernel and sync_dual_counter_kernel.
Committed(b) == [b EXCEPT !.n = b.dual[1], !.nf = b.dual[2]]
Resynced(b) == [b EXCEPT !.dual = <<b.n, b.nf>>]
Emptied(b) == [b EXCEPT !.n = 0, !.nf = 0, !.dual = <<0, 0>>]

-----------------------------------------------------------------------------
(* Initially nothing is stored; slab slots hold the marker that is no tag. *)

Free == [tag |-> -1, idx |-> -1]
Purged == [tag |-> 0, idx |-> 0]
Buckets == 0 .. 2 ^ sc.hashBits - 1

Init ==
    /\ sc \in Scenarios
    /\ round = 0 /\ phase = "idle" /\ thr = <<>>
    /\ full = Batch(sc.rels, sc.facts)
    /\ part = Batch(sc.partRels, sc.facts)
    /\ wit = Batch(sc.witRels, sc.facts)
    /\ out = Batch(sc.outRels, sc.facts)
    /\ dir = [h \in Buckets |-> [count |-> 0, row |-> 0, locked |-> FALSE]]
    /\ slab = [r \in 0 .. sc.slabRows - 1 |-> [s \in 0 .. sc.rowWidth - 1 |-> Free]]
    /\ rows = 0
    /\ over = [refused |-> 0, slab |-> 0, witness |-> 0, output |-> 0]
    /\ cpu = <<>> /\ acc = <<>> /\ given = {} /\ used = <<>>

Thread(pc) == [pc |-> pc, old |-> <<0, 0>>, base |-> <<0, 0>>, slot |-> 0]
KernelOver(kernel) == phase = kernel /\ \A i \in DOMAIN thr : thr[i].pc = "done"
Step(i, pc) == thr' = [thr EXCEPT ![i].pc = pc]

-----------------------------------------------------------------------------
(* Trial division: a warp reserves room for its full relations with one    *)
(* compare-and-swap, writes them, then does the same for its partials.     *)

\* A warp keeps what its lanes found in registers.
Divided(cands) == [k \in DOMAIN cands |-> processCandidate(cands[k])]
Chosen(w, what) == IF what = "full" THEN thr[w].fulls ELSE thr[w].parts

\* The next buffer of candidates.
Begin ==
    /\ phase = "idle" /\ round < Len(sc.batches)
    /\ LET found == [w \in DOMAIN sc.batches[round + 1] |-> Divided(sc.batches[round + 1][w])] IN
       /\ thr' = [w \in DOMAIN found |-> [pc |-> "full", old |-> <<0, 0>>, base |-> <<0, 0>>,
                                         fulls |-> SelectSeq(found[w], isFull), parts |-> SelectSeq(found[w], isPartial)]]
       /\ given' = given \cup UNION {ToSet(found[w]) : w \in DOMAIN found}
    /\ round' = round + 1
    /\ phase' = "divide"
    /\ UNCHANGED <<sc, full, part, wit, out, dir, slab, rows, over, cpu, acc, used>>

Other(what) == IF what = "full" THEN "part" ELSE "done"
Target(what) == IF what = "full" THEN full ELSE part
SetTarget(what, b) == IF what = "full" THEN full' = b /\ UNCHANGED part ELSE part' = b /\ UNCHANGED full

WarpLoad(w, what) ==
    /\ phase = "divide" /\ thr[w].pc = what
    /\ IF Chosen(w, what) = <<>> THEN Step(w, Other(what))
       ELSE thr' = [thr EXCEPT ![w].pc = what \o "Cas", ![w].old = Target(what).dual]
    /\ UNCHANGED <<sc, round, phase, full, part, wit, out, dir, slab, rows, over, cpu, acc, given, used>>

\* The leader's compare-and-swap: refused at the target cap or when the warp does not fit.
hasRoom(what, r, dr) ==
    /\ what = "full" => r < sc.targetCap
    /\ r + dr <= Target(what).maxRels
WarpCas(w, what) ==
    /\ phase = "divide" /\ thr[w].pc = what \o "Cas"
    /\ LET rs == Chosen(w, what)
           b == Target(what)
           old == thr[w].old
       IN  IF ~hasRoom(what, old[1], Len(rs))
           THEN /\ Step(w, Other(what))
                /\ over' = [over EXCEPT !.refused = @ + Len(rs)]
                /\ UNCHANGED <<full, part>>
           ELSE IF b.dual = old
           THEN /\ SetTarget(what, [b EXCEPT !.dual = <<old[1] + Len(rs), old[2] + FactorSum(rs)>>])
                /\ thr' = [thr EXCEPT ![w].pc = what \o "Write", ![w].base = old]
                /\ UNCHANGED over
           ELSE /\ thr' = [thr EXCEPT ![w].old = b.dual]
                /\ UNCHANGED <<full, part, over>>
    /\ UNCHANGED <<sc, round, phase, wit, out, dir, slab, rows, cpu, acc, given, used>>

WarpWrite(w, what) ==
    /\ phase = "divide" /\ thr[w].pc = what \o "Write"
    /\ SetTarget(what, WriteAll(Target(what), thr[w].base, Chosen(w, what)))
    /\ Step(w, Other(what))
    /\ UNCHANGED <<sc, round, phase, wit, out, dir, slab, rows, over, cpu, acc, given, used>>

-----------------------------------------------------------------------------
(* The large-prime table on the GPU, one thread per partial. *)

hashOf(p) == (p \div 2) % 2 ^ sc.hashBits
tagOf(p) == (p \div 2) \div 2 ^ sc.hashBits
Input(i) == Rel(part, i)

\* directory_fetch_kernel: a partial whose bucket is empty is inserted, the others probe.
FactorizationEnds ==
    /\ KernelOver("divide")
    /\ full' = Committed(full) /\ part' = Committed(part)
    /\ IF sc.cpu THEN phase' = "cpu" /\ thr' = <<>>
       ELSE /\ phase' = "probe"
            /\ thr' = [i \in 0 .. part'.n - 1 |->
                          Thread(IF dir[hashOf(part'.meta[i].lp)].count = 0 THEN "insert" ELSE "read")]
    /\ UNCHANGED <<sc, round, wit, out, dir, slab, rows, over, cpu, acc, given, used>>

\* probe_hash_table_kernel: the first slot of the row with the tag; with purging the slot is taken
\* by a compare-and-swap, and who loses it inserts.
Probe(i) ==
    /\ phase = "probe" /\ thr[i].pc = "read"
    /\ LET p == part.meta[i].lp
           row == slab[dir[hashOf(p)].row]
           hits == {s \in DOMAIN row : row[s].tag = tagOf(p)}
       IN  IF hits = {} THEN Step(i, "insert")
           ELSE thr' = [thr EXCEPT ![i].pc = IF sc.purge THEN "take" ELSE "match",
                                   ![i].slot = Min(hits), ![i].base = <<row[Min(hits)].idx, 0>>]
    /\ UNCHANGED <<sc, round, phase, full, part, wit, out, dir, slab, rows, over, cpu, acc, given, used>>
takeSlot_Blind(row, s, expected) == [won |-> TRUE, row |-> [row EXCEPT ![s] = Purged]]
takeSlot(row, s, expected) ==
    IF row[s] = expected THEN [won |-> TRUE, row |-> [row EXCEPT ![s] = Purged]] ELSE [won |-> FALSE, row |-> row]
Take(i) ==
    /\ phase = "probe" /\ thr[i].pc = "take"
    /\ LET p == part.meta[i].lp
           r == dir[hashOf(p)].row
           t == takeSlot(slab[r], thr[i].slot, [tag |-> tagOf(p), idx |-> thr[i].base[1]])
       IN  slab' = [slab EXCEPT ![r] = t.row] /\ Step(i, IF t.won THEN "match" ELSE "insert")
    /\ UNCHANGED <<sc, round, phase, full, part, wit, out, dir, rows, over, cpu, acc, given, used>>

\* Factor lists, ascending, merged with the exponents added in eight bits.
merged(f, g) ==
    LET at(h, k) == LET hit == {i \in DOMAIN h : h[i][1] = k} IN IF hit = {} THEN 0 ELSE h[Min(hit)][2]
        keys == {f[i][1] : i \in DOMAIN f} \cup {g[i][1] : i \in DOMAIN g}
        order == SetToSortSeq(keys, <)
    IN  [i \in DOMAIN order |-> <<order[i], (at(f, order[i]) + at(g, order[i])) % 256>>]
combined_SignOr(a, b) ==
    [u |-> (a.u * b.u) % N, neg |-> a.neg \/ b.neg, v2 |-> a.v2 + b.v2, lp |-> a.lp, f |-> merged(a.f, b.f)]
combined(a, b) ==
    [u |-> (a.u * b.u) % N, neg |-> a.neg # b.neg, v2 |-> a.v2 + b.v2, lp |-> a.lp, f |-> merged(a.f, b.f)]
\* The guards of the combine: the same large prime, and not the same relation.
combinable(a, b) == a.lp = b.lp /\ a.u # b.u

ProbeEnds ==
    /\ phase = "probe" /\ \A i \in DOMAIN thr : thr[i].pc \in {"match", "insert"}
    /\ out' = Resynced(out) /\ wit' = Resynced(wit)
    /\ phase' = "combine"
    /\ thr' = [i \in DOMAIN thr |->
                 [thr[i] EXCEPT !.pc = IF @ = "insert" THEN "insert"
                                       ELSE IF combinable(Input(i), Rel(wit, thr[i].base[1])) THEN "load"
                                       ELSE "done"]]
    /\ UNCHANGED <<sc, round, full, part, dir, slab, rows, over, cpu, acc, given, used>>

\* atomic_reserve_dual: both counters in one word.
reserved(b, old, f) == IF b.dual = old THEN <<old[1] + 1, old[2] + f>> ELSE <<>>
fits(b, old, f) == old[1] < b.maxRels /\ old[2] + f <= b.maxFacts

CombineLoad(i) ==
    /\ phase = "combine" /\ thr[i].pc = "load"
    /\ thr' = [thr EXCEPT ![i].pc = "cas", ![i].old = out.dual]
    /\ UNCHANGED <<sc, round, phase, full, part, wit, out, dir, slab, rows, over, cpu, acc, given, used>>
CombineCas(i) ==
    /\ phase = "combine" /\ thr[i].pc = "cas"
    /\ LET r == combined(Input(i), Rel(wit, thr[i].base[1]))
           old == thr[i].old
           new == reserved(out, old, Len(r.f))
       IN  IF ~fits(out, old, Len(r.f))
           THEN Step(i, "done") /\ over' = [over EXCEPT !.output = @ + 1] /\ UNCHANGED <<out, used>>
           ELSE IF new = <<>> THEN thr' = [thr EXCEPT ![i].old = out.dual] /\ UNCHANGED <<over, out, used>>
           ELSE /\ out' = Stored([out EXCEPT !.dual = new], old[1], old[2], r)
                /\ used' = Append(used, [a |-> Input(i).u, b |-> wit.meta[thr[i].base[1]].u, w |-> thr[i].base[1]])
                /\ Step(i, "done") /\ UNCHANGED over
    /\ UNCHANGED <<sc, round, phase, full, part, wit, dir, slab, rows, cpu, acc, given>>
CombineEnds ==
    /\ phase = "combine" /\ \A i \in DOMAIN thr : thr[i].pc \in {"insert", "done"}
    /\ phase' = "append"
    /\ UNCHANGED <<sc, round, thr, full, part, wit, out, dir, slab, rows, over, cpu, acc, given, used>>

\* global_append_kernel: store the witness, then enter it in its bucket under the bucket's lock.
AppendLoad(i) ==
    /\ phase = "append" /\ thr[i].pc = "insert"
    /\ thr' = [thr EXCEPT ![i].pc = "cas", ![i].old = wit.dual]
    /\ UNCHANGED <<sc, round, phase, full, part, wit, out, dir, slab, rows, over, cpu, acc, given, used>>
AppendCas(i) ==
    /\ phase = "append" /\ thr[i].pc = "cas"
    /\ LET r == Input(i)
           old == thr[i].old
           new == reserved(wit, old, Len(r.f))
       IN  IF ~fits(wit, old, Len(r.f))
           THEN Step(i, "done") /\ over' = [over EXCEPT !.witness = @ + 1] /\ UNCHANGED wit
           ELSE IF new = <<>> THEN thr' = [thr EXCEPT ![i].old = wit.dual] /\ UNCHANGED <<over, wit>>
           ELSE /\ wit' = Stored([wit EXCEPT !.dual = new], old[1], old[2], r)
                /\ thr' = [thr EXCEPT ![i].pc = "lock", ![i].base = old]
                /\ UNCHANGED over
    /\ UNCHANGED <<sc, round, phase, full, part, out, dir, slab, rows, cpu, acc, given, used>>

unlocked(h) == ~dir[h].locked
Lock(i) ==
    /\ phase = "append" /\ thr[i].pc = "lock" /\ unlocked(hashOf(part.meta[i].lp))
    /\ LET h == hashOf(part.meta[i].lp) IN
       /\ dir' = [dir EXCEPT ![h].locked = TRUE]
       /\ thr' = [thr EXCEPT ![i].pc = "enter", ![i].old = <<dir[h].count, dir[h].row>>]
    /\ UNCHANGED <<sc, round, phase, full, part, wit, out, slab, rows, over, cpu, acc, given, used>>
Enter(i) ==
    /\ phase = "append" /\ thr[i].pc = "enter"
    /\ LET p == part.meta[i].lp
           count == thr[i].old[1]
           row == IF count = 0 THEN rows ELSE thr[i].old[2]
       IN  /\ rows' = IF count = 0 THEN rows + 1 ELSE rows
           /\ IF row >= sc.slabRows
              THEN /\ over' = [over EXCEPT !.slab = @ + 1]
                   /\ thr' = [thr EXCEPT ![i].pc = "release"]
                   /\ UNCHANGED slab
              ELSE IF count < sc.rowWidth
              THEN /\ slab' = [slab EXCEPT ![row][count] = [tag |-> tagOf(p), idx |-> thr[i].base[1]]]
                   /\ thr' = [thr EXCEPT ![i].pc = "release", ![i].old = <<count + 1, row>>]
                   /\ UNCHANGED over
              ELSE /\ over' = [over EXCEPT !.slab = @ + 1]
                   /\ thr' = [thr EXCEPT ![i].pc = "release", ![i].old = <<count, row>>]
                   /\ UNCHANGED slab
    /\ UNCHANGED <<sc, round, phase, full, part, wit, out, dir, cpu, acc, given, used>>
released(count, row) == [count |-> count, row |-> row, locked |-> FALSE]
Release(i) ==
    /\ phase = "append" /\ thr[i].pc = "release"
    /\ dir' = [dir EXCEPT ![hashOf(part.meta[i].lp)] = released(thr[i].old[1], thr[i].old[2])]
    /\ Step(i, "done")
    /\ UNCHANGED <<sc, round, phase, full, part, wit, out, slab, rows, over, cpu, acc, given, used>>

-----------------------------------------------------------------------------
(* The combined relations join the persistent batch. *)

\* RelationBatch::append takes as many as fit; offsets are rebased one past the start.
takes(b, src) == Max({k \in 0 .. src.n : b.n + k <= b.maxRels /\ b.nf + src.off[k] <= b.maxFacts})
append(b, src, k) ==
    [b EXCEPT !.meta = [i \in DOMAIN @ |-> IF i >= b.n /\ i < b.n + k THEN src.meta[i - b.n] ELSE @[i]],
              !.off = [i \in DOMAIN @ |-> IF i > b.n /\ i <= b.n + k THEN src.off[i - b.n] + b.nf ELSE @[i]],
              !.facts = [i \in DOMAIN @ |-> IF i >= b.nf /\ i < b.nf + src.off[k] THEN src.facts[i - b.nf] ELSE @[i]],
              !.n = b.n + k, !.nf = b.nf + src.off[k]]
\* device_append_kernel: all or nothing.
takesAll(b, src) == IF b.n + src.n <= b.maxRels /\ b.nf + src.nf <= b.maxFacts THEN src.n ELSE 0

resync_Skipped(b) == b
resync(b) == Resynced(b)
PassEnds ==
    /\ KernelOver("append")
    /\ LET o == Committed(out)
           k == IF sc.async THEN takesAll(full, o) ELSE takes(full, o)
       IN  /\ full' = resync(append(full, o, k))
           /\ over' = [over EXCEPT !.refused = @ + o.n - k]
    /\ out' = Emptied(out)
    /\ wit' = Committed(wit)
    /\ part' = Emptied(part)
    /\ phase' = "idle" /\ thr' = <<>>
    /\ UNCHANGED <<sc, round, dir, slab, rows, cpu, acc, given, used>>

-----------------------------------------------------------------------------
(* A coordinator's CPU: one stored partial per large prime. *)

\* computeRelationHash.  The indices of a relation are distinct, so their set stands for the XOR of
\* their multiples of MAGIC.
XorBits(f) == {b \in 0 .. 7 : Cardinality({i \in DOMAIN f : (f[i][2] \div 2 ^ b) % 2 = 1}) % 2 = 1}
computeRelationHash(r) ==
    <<Len(r.f), XorBits(r.f), {r.f[i][1] : i \in DOMAIN r.f}, r.neg, r.v2 % 32>>
seen(s) == {computeRelationHash(s[i]) : i \in DOMAIN s}
addRelations(s, rs) ==
    FoldLeft(LAMBDA a, r : IF computeRelationHash(r) \in seen(a) THEN a ELSE Append(a, r), s, rs)

Paired(a, b) == [a |-> a.u, b |-> b.u, w |-> -1]
Without(t, p) == [x \in DOMAIN t \ {p} |-> t[x]]
insertOne(st, r) ==
    IF r.lp \in {0, 1} THEN st
    ELSE IF r.lp \notin DOMAIN st.t THEN [st EXCEPT !.t = [p \in DOMAIN @ \cup {r.lp} |-> IF p = r.lp THEN r ELSE @[p]]]
    ELSE IF st.t[r.lp].u = r.u THEN [st EXCEPT !.t = Without(@, r.lp)]
    ELSE [t |-> Without(st.t, r.lp), o |-> Append(st.o, combined(st.t[r.lp], r)),
          u |-> Append(st.u, Paired(r, st.t[r.lp]))]

\* The node's batch reaches the coordinator: full relations first, then insertAndMatch.
Ingest ==
    /\ phase = "cpu"
    /\ LET st == FoldLeft(insertOne, [t |-> cpu, o |-> <<>>, u |-> used], Rels(part)) IN
       /\ cpu' = st.t /\ used' = st.u
       /\ acc' = addRelations(addRelations(acc, Rels(full)), st.o)
    /\ full' = Emptied(full)
    /\ part' = Emptied(part)
    /\ phase' = "idle"
    /\ UNCHANGED <<sc, round, thr, wit, out, dir, slab, rows, over, given>>

\* deduplicatePersistentBatch: one relation per hash, gathered into a batch of exactly that size.
deduplicated(b) ==
    LET s == addRelations(<<>>, Rels(b))
    IN  Committed([WriteAll(Batch(Len(s), FactorSum(s)), <<0, 0>>, s) EXCEPT !.dual = <<Len(s), FactorSum(s)>>])
Finish ==
    /\ phase = "idle" /\ round = Len(sc.batches)
    /\ full' = IF sc.cpu THEN full ELSE deduplicated(full)
    /\ phase' = "done"
    /\ UNCHANGED <<sc, round, thr, part, wit, out, dir, slab, rows, over, cpu, acc, given, used>>

ThreadStep == \E i \in DOMAIN thr :
    \/ \E what \in {"full", "part"} : WarpLoad(i, what) \/ WarpCas(i, what) \/ WarpWrite(i, what)
    \/ Probe(i) \/ Take(i) \/ CombineLoad(i) \/ CombineCas(i)
    \/ AppendLoad(i) \/ AppendCas(i) \/ Lock(i) \/ Enter(i) \/ Release(i)
Launch == Begin \/ FactorizationEnds \/ ProbeEnds \/ CombineEnds \/ PassEnds \/ Ingest \/ Finish
Done == phase = "done" /\ UNCHANGED vars
Next == ThreadStep \/ Launch \/ Done

Spec == Init /\ [][Next]_vars

-----------------------------------------------------------------------------
(* Properties. *)

\* Every stored relation is what linear algebra takes it for: sign, powers of two and of the factor
\* base, and the large prime (squared once combined), multiply to u^2 modulo N; and none joins a
\* partial with itself, whose row would be a square that can only split N trivially.
Value(r, isCombined) ==
    LET times(x, y) == (x * y) % N
        big == IF r.lp = 1 THEN 1 ELSE IF isCombined THEN times(r.lp, r.lp) ELSE r.lp
        odd == FoldLeft(LAMBDA x, k : times(x, (FactorBase[k[1]] ^ k[2]) % N), big, r.f)
        abs == times(odd, (2 ^ r.v2) % N)
    IN  IF r.neg THEN (N - abs) % N ELSE abs
Holds(r, isCombined) == r.u # 0 /\ Value(r, isCombined) = (r.u * r.u) % N
RelationsHold ==
    /\ \A i \in DOMAIN used : used[i].a # used[i].b
    /\ \A i \in 1 .. full.n : Holds(Rel(full, i - 1), TRUE)
    /\ \A i \in 1 .. wit.n : Holds(Rel(wit, i - 1), FALSE)
    /\ \A i \in DOMAIN acc : Holds(acc[i], TRUE)

\* Where witnesses are purged after their first match, and on the coordinator, none is used twice.
SpentOnce ==
    \A i, j \in DOMAIN used : i # j =>
        /\ sc.cpu => used[i].b # used[j].b
        /\ sc.purge /\ ~sc.cpu => used[i].w # used[j].w

\* Between passes nothing has vanished: short of a counted overflow, a full relation is stored (or one
\* with its hash is), a partial is combined or will be found by the next partial with its prime, and
\* what two partials were combined to is stored.
Findable(r) ==
    IF sc.cpu THEN r.lp \in DOMAIN cpu /\ cpu[r.lp].u = r.u
    ELSE /\ dir[hashOf(r.lp)].count > 0
         /\ \E s \in DOMAIN slab[dir[hashOf(r.lp)].row] :
              LET e == slab[dir[hashOf(r.lp)].row][s]
              IN  e.tag = tagOf(r.lp) /\ e.idx \in 0 .. wit.n - 1 /\ wit.meta[e.idx].u = r.u
GivenAs(u) == CHOOSE r \in given : r.u = u
NothingVanishes ==
    phase \in {"idle", "done"} /\ (\A k \in DOMAIN over : over[k] = 0) =>
        LET kept == seen(IF sc.cpu THEN acc ELSE Rels(full)) IN
        /\ \A r \in given : isFull(r) => computeRelationHash(r) \in kept
        /\ \A r \in given : isPartial(r) => Findable(r) \/ \E i \in DOMAIN used : r.u \in {used[i].a, used[i].b}
        /\ \A i \in DOMAIN used : computeRelationHash(combined(GivenAs(used[i].a), GivenAs(used[i].b))) \in kept

=============================================================================
