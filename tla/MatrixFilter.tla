---------------------------- MODULE MatrixFilter ----------------------------
(***************************************************************************)
(* Construction and reduction of the GF(2) matrix.                         *)
(*                                                                         *)
(* A relation is [sq, neg, v2, lp, f, chars]: sq^2 = (-1)^neg 2^v2         *)
(* prod p^f[p] lp (mod N), with lp^2 in place of lp for a relation that    *)
(* was combined from two partials.  Columns are numbered from 0: the sign, *)
(* the prime two, the factor base, the large primes.  A host matrix        *)
(* (HostMatrixCSR) is a sequence of rows, each a set of columns; a packed  *)
(* row keeps exponents, metadata and, as a history, the relations it is    *)
(* the product of.                                                         *)
(***************************************************************************)
EXTENDS Integers, Sequences, SequencesExt, FiniteSets, FiniteSetsExt

CONSTANTS
    N,          \* the number to be factored
    FactorBase, \* sequence of its primes, FactorBase[i] in column i + 1
    LocalBuf,   \* kMaxLocalBufEntries: entries a merge thread can hold
    MinMerges,  \* least number of merges the workspace is sized for
    CharCols    \* kCharColCount: rows truncation keeps for character columns

Odd(n) == n % 2 = 1
Xor(A, B) == (A \ B) \cup (B \ A)
XorAll(rows, S) == FoldSet(LAMBDA i, acc : Xor(rows[i], acc), {}, S)
Sorted(S) == [i \in 1 .. Cardinality(S) |-> CHOOSE x \in S : Cardinality({y \in S : y < x}) = i - 1]
Power(b, e) == FoldLeft(LAMBDA acc, i : (acc * b) % N, 1, [i \in 1 .. e |-> i])
FbSize == Len(FactorBase)
Symbol(a, q) == IF a % q = 0 THEN 0 ELSE IF \E y \in 1 .. q - 1 : (y * y) % q = a % q THEN 1 ELSE -1

-----------------------------------------------------------------------------
(* Construction. *)

\* Parity columns of one relation, without its large prime.
relationColumns(r) == {c \in {0} : r.neg} \cup {c \in {1} : Odd(r.v2)}
                      \cup {i + 1 : i \in {j \in DOMAIN r.f : Odd(r.f[j])}}
constructFromSoA(rels) == [i \in DOMAIN rels |-> relationColumns(rels[i])]

\* The expanded matrix: a column per large prime of the partials, in order of appearance.
firstSeen(partials) == SelectSeq([i \in DOMAIN partials |-> i],
                                 LAMBDA i : \A j \in 1 .. i - 1 : partials[j].lp # partials[i].lp)
lpColumn(partials, lp) == FbSize + 1 + (CHOOSE k \in DOMAIN firstSeen(partials) : partials[firstSeen(partials)[k]].lp = lp)
expandedMatrix(smooths, partials) ==
    constructFromSoA(smooths) \o
    [i \in DOMAIN partials |-> relationColumns(partials[i]) \cup {lpColumn(partials, partials[i].lp)}]

\* The packed matrix keeps every non-zero exponent, in eight bits; large primes are sorted, and a
\* combined relation holds its large prime squared.  Without partials no large prime has a column.
sortedLps(smooths, partials) == Sorted({partials[i].lp : i \in DOMAIN partials}
                                       \cup {smooths[i].lp : i \in {j \in DOMAIN smooths : smooths[j].lp > 1}})
packedRow(r, id, lps, e) ==
    LET entry(c) == IF c = 0 THEN 1 ELSE IF c = 1 THEN r.v2 % 256
                    ELSE IF c > FbSize + 1 THEN e ELSE r.f[c - 1]
        cols == {c \in {0} : r.neg} \cup {c \in {1} : r.v2 # 0} \cup {i + 1 : i \in {j \in DOMAIN r.f : r.f[j] # 0}}
                \cup {FbSize + 1 + k : k \in {j \in DOMAIN lps : r.lp > 1 /\ lps[j] = r.lp}}
    IN  [e |-> [c \in cols |-> entry(c)], sq |-> r.sq, neg |-> r.neg, v2 |-> r.v2, chars |-> r.chars,
         ws |-> FALSE, of |-> {id}]
readsMissingOffsets(smooths, partials) == partials = <<>> /\ \E i \in DOMAIN smooths : smooths[i].lp > 1
gpuBuildPackedMatrix(smooths, partials) ==
    LET lps == sortedLps(smooths, partials)
    IN  [i \in DOMAIN smooths |-> packedRow(smooths[i], i, lps, 2)] \o
        [i \in DOMAIN partials |-> packedRow(partials[i], Len(smooths) + i, lps, 1)]

-----------------------------------------------------------------------------
(* Filtering on the host. *)

\* Columns in use are renumbered in order; map[c + 1] is the old number of column c.
usedColumns(rows) == UNION {rows[i] : i \in DOMAIN rows}
renumbered(rows) == [i \in DOMAIN rows |-> {Cardinality({d \in usedColumns(rows) : d < c}) : c \in rows[i]}]
picked(s, idx) == [i \in DOMAIN idx |-> s[idx[i]]]

hasSingleton(rows, alive, r) == \E c \in rows[r] : \A o \in alive \ {r} : c \notin rows[o]
singletonPass(rows, alive) ==
    FoldLeft(LAMBDA a, r : IF r \in a /\ hasSingleton(rows, a, r) THEN a \ {r} ELSE a,
             alive, [r \in DOMAIN rows |-> r])
RECURSIVE withoutSingletons(_, _)
withoutSingletons(rows, alive) ==
    IF singletonPass(rows, alive) = alive THEN alive ELSE withoutSingletons(rows, singletonPass(rows, alive))
removeSingletons(rows) ==
    LET map == Sorted(withoutSingletons(rows, DOMAIN rows))
    IN  [rows |-> renumbered(picked(rows, map)), map |-> map]
\* On the device a pass removes its rows concurrently; every schedule ends with the same rows (Solve,
\* CoreReached), so the passes are those in which all threads look before one of them removes.
RECURSIVE gpuSingletonPasses(_, _)
gpuSingletonPasses(rows, alive) ==
    LET next == {r \in alive : ~hasSingleton(rows, alive, r)}
    IN  IF next = alive THEN alive ELSE gpuSingletonPasses(rows, next)
gpuRemoveSingletons(rows) ==
    LET map == Sorted(gpuSingletonPasses(rows, DOMAIN rows))
    IN  [rows |-> renumbered(picked(rows, map)), map |-> map]

\* Merging: rows, the alive ones, for each column its rows in the order the index lists them, the
\* merge-tree node of every row and the tree.  Nodes up to `leaves' are rows of the expanded matrix.
mergeState(rows, map, leaves, tree) ==
    [rows |-> rows, alive |-> DOMAIN rows, node |-> map, leaves |-> leaves, tree |-> tree,
     col |-> [c \in usedColumns(rows) |-> SelectSeq([r \in DOMAIN rows |-> r], LAMBDA r : c \in rows[r])]]

\* Adds the pivot to the other rows and drops it.
eliminate(s, pivot, others, nodes) ==
    LET cand == [r \in Range(others) |-> Xor(s.rows[r], s.rows[pivot])]
        at(r) == CHOOSE i \in DOMAIN others : others[i] = r
    IN  [s EXCEPT !.rows = [r \in DOMAIN s.rows |-> IF r \in Range(others) THEN cand[r]
                                                    ELSE IF r = pivot THEN {} ELSE s.rows[r]],
                  !.alive = @ \ {pivot},
                  !.tree = @ \o nodes,
                  !.node = [r \in DOMAIN s.node |-> IF r \in Range(others) THEN s.leaves + Len(s.tree) + at(r)
                                                    ELSE s.node[r]],
                  !.col = [c \in DOMAIN s.col |->
                      SelectSeq(s.col[c], LAMBDA r : r # pivot /\ (r \in Range(others) => c \in cand[r]))
                      \o SelectSeq(others, LAMBDA r : c \in cand[r] /\ c \notin s.rows[r])]]

RECURSIVE mergePairs(_, _)
mergePairs(s, todo) ==
    IF todo = {} THEN s
    ELSE LET c == Min(todo) IN
         IF Len(s.col[c]) # 2 THEN mergePairs(s, todo \ {c})
         ELSE LET r1 == s.col[c][1]
                  r2 == s.col[c][2]
                  t == eliminate(s, r2, <<r1>>, <<<<s.node[r1], s.node[r2]>>>>)
              IN  mergePairs(t, (todo \ {c}) \cup {d \in s.rows[r1] \cup s.rows[r2] : Len(t.col[d]) = 2})
mergeWeight2(rows, map) ==
    LET s == mergeState(rows, map, IF map = <<>> THEN 0 ELSE Max(Range(map)), <<>>)
    IN  mergePairs(s, {c \in DOMAIN s.col : Len(s.col[c]) = 2})

\* A column of weight up to k_max is eliminated with its lightest row, or not at all when one of the
\* sums grows past the cap.
lightest(s, rs) == CHOOSE i \in DOMAIN rs : /\ \A j \in DOMAIN rs : Cardinality(s.rows[rs[i]]) <= Cardinality(s.rows[rs[j]])
                                            /\ \A j \in 1 .. i - 1 : Cardinality(s.rows[rs[i]]) < Cardinality(s.rows[rs[j]])
feasible(s, pivot, others, cap) == \A i \in DOMAIN others : Cardinality(Xor(s.rows[pivot], s.rows[others[i]])) <= cap
mergeColumn(s, c, kMax, cap) ==
    LET rs == s.col[c]
        k == lightest(s, rs)
        others == RemoveAt(rs, k)
    IN  IF Len(rs) < 2 \/ Len(rs) > kMax \/ ~feasible(s, rs[k], others, cap) THEN s
        ELSE eliminate(s, rs[k], others, [i \in DOMAIN others |-> <<s.node[rs[k]], s.node[others[i]]>>])
entries(rows) == FoldLeft(LAMBDA n, r : n + Cardinality(r), 0, rows)
fillCap(total, n, maxWeight) == Max({maxWeight, IF n = 0 THEN 0 ELSE (2 * total) \div n})
mergeHigherWeight(s, kMax, maxWeight) ==
    LET idx == Sorted(s.alive)
        rows == renumbered(picked(s.rows, idx))
        t == mergeState(rows, picked(s.node, idx), s.leaves, s.tree)
        cap == fillCap(entries(rows), Len(rows), maxWeight)
        weightClass(u, w) == FoldLeft(LAMBDA v, c : mergeColumn(v, c, kMax, cap), u,
                                      Sorted({c \in DOMAIN u.col : Len(u.col[c]) = w}))
    IN  FoldLeft(weightClass, t, [i \in 1 .. kMax - 2 |-> i + 2])

preprocessMatrix(expanded, backend, kMax, maxWeight) ==
    LET singles == IF backend = "GPU" THEN gpuRemoveSingletons(expanded) ELSE removeSingletons(expanded)
        s == mergeHigherWeight(mergeWeight2(singles.rows, singles.map), kMax, maxWeight)
        idx == Sorted(s.alive)
    IN  [rows |-> renumbered(picked(s.rows, idx)), map |-> picked(s.node, idx), tree |-> s.tree, leaves |-> s.leaves]

\* MergeTree::expand and expandKernelVector: relations that occur an odd number of times.
RECURSIVE expand(_, _, _)
expand(node, tree, leaves) ==
    IF node <= leaves THEN <<node>>
    ELSE expand(tree[node - leaves][1], tree, leaves) \o expand(tree[node - leaves][2], tree, leaves)
occurrences(s, x) == Cardinality({i \in DOMAIN s : s[i] = x})
\* Relations that occur in two of the rows are not cancelled.
expandKernelVector_Once(v, m) ==
    Range(FoldSet(LAMBDA i, acc : expand(m.map[i], m.tree, m.leaves) \o acc, <<>>, v))
expandKernelVector(v, m) ==
    LET all == FoldSet(LAMBDA i, acc : expand(m.map[i], m.tree, m.leaves) \o acc, <<>>, v)
    IN  {x \in Range(all) : Odd(occurrences(all, x))}

-----------------------------------------------------------------------------
(* Truncation and character columns. *)

useful(rows, adm, r) == \E c \in rows[r] : \A a \in adm : c \notin rows[a]
lightFirst(rows) ==
    LET before(a, b) == \/ Cardinality(rows[a]) < Cardinality(rows[b])
                        \/ Cardinality(rows[a]) = Cardinality(rows[b]) /\ a < b
    IN  [i \in DOMAIN rows |-> CHOOSE r \in DOMAIN rows : Cardinality({q \in DOMAIN rows : before(q, r)}) = i - 1]
admit(rows, order, adm, target) ==
    LET first == FoldLeft(LAMBDA a, r : IF Cardinality(a) < target /\ r \notin a /\ useful(rows, a, r) THEN a \cup {r} ELSE a, adm, order)
    IN  FoldLeft(LAMBDA a, r : IF Cardinality(a) < target THEN a \cup {r} ELSE a, first, order)
covers(rows, adm) == UNION {rows[r] : r \in adm} = usedColumns(rows)
RECURSIVE relax(_, _, _, _)
relax(rows, order, adm, target) ==
    IF covers(rows, adm) \/ target >= Len(rows) THEN adm
    ELSE LET next == Min({Len(rows), Max({target + 1, (target * 11 + 9) \div 10})})
         IN  relax(rows, order, admit(rows, order, adm, next), next)
truncateMatrix(rows, map, nCols, excess) ==
    LET target == Min({nCols + CharCols + excess, Len(rows)})
        order == lightFirst(rows)
        adm == relax(rows, order, admit(rows, order, {}, target), target)
        kept == Sorted(IF Len(rows) <= target \/ ~covers(rows, adm) THEN DOMAIN rows ELSE adm)
    IN  [rows |-> renumbered(picked(rows, kept)), map |-> picked(map, kept)]

\* selectAuxPrimes: k primes outside the factor base modulo which N is a square; the NORM bit of a
\* row is whether S^2 - N is a non-residue.
RECURSIVE selectAuxPrimes(_, _)
selectAuxPrimes(q, k) ==
    IF k = 0 THEN <<>>
    ELSE IF (\A d \in 2 .. q - 1 : q % d # 0) /\ q \notin Range(FactorBase) /\ Symbol(N, q) = 1
         THEN <<q>> \o selectAuxPrimes(q + 2, k - 1)
         ELSE selectAuxPrimes(q + 2, k)
normBits(s, k) == LET aux == selectAuxPrimes(3, k) IN {j \in 1 .. k : Symbol(s * s - N, aux[j]) = -1}
AppendCharacterColumns(rows, nCols, bits) ==
    [i \in DOMAIN rows |-> rows[i] \cup {nCols + j - 1 : j \in bits[i]}]
\* The bits of a merged row: those of the product of its relations (NORM) or the sum of theirs (BRANCH).
product(rels, s) == FoldLeft(LAMBDA acc, i : (acc * rels[i].sq) % N, 1, s)
computeProductCharacterColumns(mode, rels, m, k) ==
    [i \in DOMAIN m.map |->
        LET leaves == expand(m.map[i], m.tree, m.leaves) IN
        IF mode = "NORM" THEN normBits(product(rels, leaves), k)
        ELSE FoldLeft(LAMBDA acc, l : Xor(acc, rels[l].chars), {}, leaves)]

-----------------------------------------------------------------------------
(* The packed rows of the GPU. *)

oddColumns(row) == {c \in DOMAIN row.e : Odd(row.e[c])}
exponent(row, c) == IF c \in DOMAIN row.e THEN row.e[c] ELSE 0
mergedRow_SignKept(a, b) ==
    [e |-> [c \in DOMAIN a.e \cup DOMAIN b.e |-> (exponent(a, c) + exponent(b, c)) % 256],
     sq |-> (a.sq * b.sq) % N, neg |-> a.neg, v2 |-> a.v2 + b.v2, chars |-> Xor(a.chars, b.chars),
     ws |-> TRUE, of |-> Xor(a.of, b.of)]
mergedRow(a, b) ==
    [e |-> [c \in DOMAIN a.e \cup DOMAIN b.e |-> (exponent(a, c) + exponent(b, c)) % 256],
     sq |-> (a.sq * b.sq) % N, neg |-> a.neg # b.neg, v2 |-> a.v2 + b.v2, chars |-> Xor(a.chars, b.chars),
     ws |-> TRUE, of |-> Xor(a.of, b.of)]
fitsLocal(row) == Cardinality(DOMAIN row.e) <= LocalBuf

\* Column renumbering of packed rows: renamed columns and the map back.
packedColumns(rows) == UNION {DOMAIN rows[i].e : i \in DOMAIN rows}
renamed(rows) ==
    LET map == Sorted(packedColumns(rows))
    IN  [i \in DOMAIN rows |-> [rows[i] EXCEPT !.ws = FALSE, !.e = [k \in {j \in 0 .. Len(map) - 1 : map[j + 1] \in DOMAIN rows[i].e} |->
                                                      rows[i].e[map[k + 1]]]]]

\* Host planners.  rows[r] = <<>> is a dead row; index(c) lists the rows with an odd exponent.
Dead == <<>>
live(rows) == {r \in DOMAIN rows : rows[r] # Dead}
gf2Weights(rows, nCols) == [c \in 0 .. nCols - 1 |-> Cardinality({r \in live(rows) : c \in oddColumns(rows[r])})]
buildInvertedIndex(rows, c) == Sorted({r \in live(rows) : ~rows[r].ws /\ c \in oddColumns(rows[r])})
buildInvertedIndexFull(rows, c) == Sorted({r \in live(rows) : c \in oddColumns(rows[r])})
planWeight2Merges(rows, weight) ==
    LET step(p, c) == LET rs == buildInvertedIndex(rows, c) IN
            IF weight[c] # 2 \/ Len(rs) < 2 \/ rs[1] \in p.used \/ rs[2] \in p.used THEN p
            ELSE [plan |-> Append(p.plan, <<rs[1], rs[2]>>), used |-> p.used \cup {rs[1], rs[2]}]
    IN  FoldLeft(step, [plan |-> <<>>, used |-> {}], Sorted(DOMAIN weight)).plan
size(row) == Cardinality(DOMAIN row.e)
planHigherWeightMerges(rows, weight, kMax, cap) ==
    LET eligible == Sorted({weight[c] * 1000 + c : c \in {d \in DOMAIN weight : weight[d] \in 3 .. kMax}})
        step(p, wc) ==
            LET rs == buildInvertedIndexFull(rows, wc % 1000)
                k == CHOOSE i \in DOMAIN rs : \A j \in DOMAIN rs : \/ size(rows[rs[i]]) < size(rows[rs[j]])
                                                                   \/ size(rows[rs[i]]) = size(rows[rs[j]]) /\ i <= j
                others == SelectSeq(RemoveAt(rs, k), LAMBDA r : r \notin p.used /\ size(rows[r]) + size(rows[rs[k]]) <= cap)
            IN  IF Len(rs) < 2 \/ rs[k] \in p.used \/ others = <<>> THEN p
                ELSE [plan |-> p.plan \o [i \in DOMAIN others |-> <<others[i], rs[k]>>],
                      used |-> p.used \cup Range(others) \cup {rs[k]}]
    IN  FoldLeft(step, [plan |-> <<>>, used |-> {}], eligible).plan
=============================================================================
