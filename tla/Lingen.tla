------------------------------- MODULE Lingen -------------------------------
(***************************************************************************)
(* The algebra of the block Wiedemann solver (src/linalg/src/lingen) over  *)
(* GF(2): the operator, the projections of the Krylov sequence, the        *)
(* initial basis and the steps of the linear generator, each of these in   *)
(* its host and its device form, and the candidates of the reconstruction. *)
(*                                                                         *)
(* A bit vector is the set of the positions of its ones and a matrix the   *)
(* function from its rows to such sets, so that exclusive-or is the        *)
(* symmetric difference.  The words the code packs 64 bits into, the       *)
(* tiling and the padding of a kernel leave no trace here.                 *)
(***************************************************************************)
EXTENDS Naturals, Integers, Sequences, FiniteSets

LOCAL INSTANCE FiniteSetsExt
LOCAL INSTANCE SequencesExt

Upto(k) == 0 .. k - 1
Xor(a, b) == (a \ b) \union (b \ a)

\* The sum of the rows of v that I names.
XorRows(I, v) ==
    {b \in UNION {v[i] : i \in I} : Cardinality({i \in I : b \in v[i]}) % 2 = 1}

Odd(a, b) == Cardinality(a \cap b) % 2 = 1

(***************************************************************************)
(* The operator and the sequence.                                          *)
(***************************************************************************)
pad_to_square(rows, nrows, ncols) ==
    LET D == Max({nrows, ncols})
    IN  [r \in Upto(D) |-> IF r < nrows THEN rows[r] ELSE {}]

\* The operators on one column of a block, the set of its rows.
BwOperatorA_mul(A, w) == {r \in DOMAIN A : Odd(A[r], w)}
BwOperatorAT_mul(A, w) == {c \in DOMAIN A : Odd({r \in DOMAIN A : c \in A[r]}, w)}

ColumnOf(v, c) == {r \in DOMAIN v : c \in v[r]}

\* The projection x^T v of the columns V[0], V[1], ... on the columns of x.
k_proj(x, V, m, n) == [i \in Upto(m) |-> {j \in Upto(n) : Odd(ColumnOf(x, i), V[j])}]

k_transpose(s, n) == [j \in Upto(n) |-> {i \in DOMAIN s : j \in s[i]}]

\* generate: the i-th term projects the operator's i-th power of the start block.
KrylovTerm(x, z, mul, i, m, n) ==
    k_proj(x, [j \in Upto(n) |-> FoldLeft(LAMBDA w, k : mul[w], ColumnOf(z, j), [k \in 1 .. i |-> k])], m, n)

seq_len(nrows, m, n) == (nrows \div n) + (nrows \div m) + ((m + n) \div 4)

(***************************************************************************)
(* The initial basis: the first columns of S_0, S_1, ... that span the     *)
(* m-dimensional space.  A candidate is a pair of a term and a column.     *)
(***************************************************************************)
Column(S, i, j) == {r \in DOMAIN S[i + 1] : j \in S[i + 1][r]}

Candidates(len, n) == [k \in 1 .. len * n |-> <<(k - 1) \div n, (k - 1) % n>>]

\* The host reduces by the basis vectors in ascending order of their pivots.
ReduceAscending(v, basis) ==
    FoldLeft(LAMBDA w, p : IF p \in w /\ p \in DOMAIN basis THEN Xor(w, basis[p]) ELSE w,
             v, [k \in 1 .. 8 |-> k - 1])

\* The device keeps its basis fully reduced and reduces in one step.
ReduceAtOnce(v, basis) == Xor(v, XorRows(DOMAIN basis \cap v, basis))

NoBasis == [p \in {} |-> {}]
InitResult(t0, pairs, pivots) == [t0 |-> t0, pairs |-> pairs, pivots |-> pivots]

find_init_basis_cpu(S, m, n) ==
    LET Take(st, c) ==
            LET v == ReduceAscending(Column(S, c[1], c[2]), st.basis)
                q == Min(v)
            IN  IF Len(st.pairs) = m \/ v = {} THEN st
                ELSE [basis |-> [p \in DOMAIN st.basis \union {q} |->
                                     IF p = q THEN v ELSE st.basis[p]],
                      pairs |-> Append(st.pairs, c)]
        end == FoldLeft(Take, [basis |-> NoBasis, pairs |-> <<>>], Candidates(Len(S), n))
    IN  IF Len(end.pairs) = m
        THEN InitResult(Last(end.pairs)[1] + 1, end.pairs, {})
        ELSE InitResult(0, <<>>, DOMAIN end.basis)

k_find_init_basis(S, m, n) ==
    LET Take(st, c) ==
            LET v == ReduceAtOnce(Column(S, c[1], c[2]), st.basis)
                q == Min(v)
            IN  IF Len(st.pairs) = m \/ v = {} THEN st
                ELSE [basis |-> [p \in DOMAIN st.basis \union {q} |->
                                     IF p = q THEN v
                                     ELSE IF q \in st.basis[p] THEN Xor(st.basis[p], v)
                                     ELSE st.basis[p]],
                      pairs |-> Append(st.pairs, c)]
        end == FoldLeft(Take, [basis |-> NoBasis, pairs |-> <<>>], Candidates(Len(S), n))
    IN  IF Len(end.pairs) = m
        THEN InitResult(Last(end.pairs)[1] + 1, end.pairs, {})
        ELSE InitResult(0, <<>>, DOMAIN end.basis)

\* F is the sequence of its coefficients, F[k + 1] the one of X^k.
build_f_init(init, m, n) ==
    LET t0 == init.t0
        Entry(k, r) == IF r < n THEN (IF k = 0 THEN {r} ELSE {})
                       ELSE IF r - n < Len(init.pairs) /\ t0 - init.pairs[r - n + 1][1] = k
                            THEN {init.pairs[r - n + 1][2]} ELSE {}
    IN  [k \in 1 .. t0 + 1 |-> [r \in Upto(m + n) |-> Entry(k - 1, r)]]

(***************************************************************************)
(* One step of the generator.                                              *)
(***************************************************************************)
\* The coefficient of X^t in F S^T, row by row.
compute_discrepancy(F, S, t, m) ==
    [r \in DOMAIN F[1] |->
        {c \in Upto(m) : Cardinality({k \in DOMAIN F : /\ t - k + 1 >= 0
                                                       /\ Odd(F[k][r], S[t - k + 2][c])}) % 2 = 1}]

k_compute_discrepancy(F, S, t, m) ==
    LET limit == Min({Len(F) - 1, t})
    IN  [r \in DOMAIN F[1] |->
            {c \in Upto(m) :
                Cardinality({k \in 0 .. limit : Odd(F[k + 1][r], S[t - k + 1][c])}) % 2 = 1}]

\* Rows in ascending order of gamma, equal ones by their number.
ByGamma(rows, gamma) ==
    LET Before(a, b) == gamma[a] < gamma[b] \/ (gamma[a] = gamma[b] /\ a < b)
    IN  [i \in 1 .. Cardinality(rows) |->
            CHOOSE r \in rows : Cardinality({q \in rows : Before(q, r)}) = i - 1]

Identity(dim) == [r \in Upto(dim) |-> {r}]

\* Clear column col with the pivot row p in every other row.
Clear(st, p, col) ==
    LET hit == {r \in DOMAIN st.delta : r # p /\ col \in st.delta[r]}
    IN  [st EXCEPT !.delta = [r \in DOMAIN st.delta |->
                                 IF r \in hit THEN Xor(st.delta[r], st.delta[p]) ELSE st.delta[r]],
                   !.tau = [r \in DOMAIN st.tau |->
                                 IF r \in hit THEN Xor(st.tau[r], st.tau[p]) ELSE st.tau[r]]]

\* The host takes the first row of what is left of the order that has the bit.
compute_elimination_step(delta, gamma, m) ==
    LET Step(st, col) ==
            LET left == SelectSeq(st.ord, LAMBDA r : col \in st.delta[r])
            IN  IF left = <<>> THEN st
                ELSE [Clear(st, left[1], col) EXCEPT !.ord = SelectSeq(st.ord, LAMBDA r : r # left[1])]
    IN  FoldLeft(Step, [delta |-> delta, tau |-> Identity(Cardinality(DOMAIN delta)),
                        ord |-> ByGamma(DOMAIN delta, gamma)],
                 [c \in 1 .. m |-> c - 1])

\* The device reduces over the positions in the order that are not used.
k_elimination(delta, gamma, m) ==
    LET ord == ByGamma(DOMAIN delta, gamma)
        Step(st, col) ==
            LET free == {i \in DOMAIN ord \ st.used : col \in st.delta[ord[i]]}
            IN  IF free = {} THEN st
                ELSE [Clear(st, ord[Min(free)], col) EXCEPT !.used = @ \union {Min(free)}]
    IN  FoldLeft(Step, [delta |-> delta, tau |-> Identity(Cardinality(DOMAIN delta)), used |-> {}],
                 [c \in 1 .. m |-> c - 1])

\* The rows multiplied by X: those with a discrepancy, then the others.
compute_shift_vector(delta, gamma, m) ==
    LET nonzero == {r \in DOMAIN delta : delta[r] # {}}
        first   == ByGamma(nonzero, [r \in DOMAIN gamma |-> 0])
        zeros   == ByGamma(DOMAIN delta \ nonzero, gamma)
        ranked  == first \o zeros
    IN  {ranked[i] : i \in 1 .. Min({m, Len(ranked)})}

k_compute_shifts(delta, gamma, m) ==
    LET nonzero == {r \in DOMAIN delta : delta[r] # {}}
        zeros   == ByGamma(DOMAIN delta \ nonzero, gamma)
        nth(r)  == Cardinality({q \in nonzero : q <= r})
    IN  IF Cardinality(nonzero) <= m
        THEN nonzero \union {zeros[i] : i \in 1 .. Min({m - Cardinality(nonzero), Len(zeros)})}
        ELSE {r \in nonzero : nth(r) <= m}

ZeroMatrix(dim) == [r \in Upto(dim) |-> {}]

\* tau F with the shifted rows one coefficient higher.
ShiftedProduct(F, tau, shifts) ==
    [k \in 1 .. Len(F) + 1 |->
        [r \in DOMAIN tau |->
            IF r \in shifts THEN (IF k = 1 THEN {} ELSE XorRows(tau[r], F[k - 1]))
            ELSE (IF k = Len(F) + 1 THEN {} ELSE XorRows(tau[r], F[k]))]]

\* Leading coefficients that are zero are dropped, one at least is kept.
Trim(F) ==
    LET top == Max({1} \union {k \in DOMAIN F : \E r \in DOMAIN F[k] : F[k][r] # {}})
    IN  SubSeq(F, 1, top)

apply_update(F, tau, shifts) == Trim(ShiftedProduct(F, tau, shifts))

\* The device multiplies every coefficient and scatters the rows.
k_scatter_update(F, tau, shifts) ==
    LET G == [k \in DOMAIN F |-> [r \in DOMAIN tau |-> XorRows(tau[r], F[k])]]
        s(r) == IF r \in shifts THEN 1 ELSE 0
    IN  [k \in 1 .. Len(F) + 1 |->
            [r \in DOMAIN tau |-> IF k - s(r) \in DOMAIN G THEN G[k - s(r)][r] ELSE {}]]

k_update_gamma_None(gamma, shifts) == gamma

k_update_gamma(gamma, shifts) ==
    [r \in DOMAIN gamma |-> IF r \in shifts THEN gamma[r] + 1 ELSE gamma[r]]

(***************************************************************************)
(* The candidates of stage 3.                                              *)
(***************************************************************************)
\* extract_coeff_vector keeps the first n columns.
extract_coeff_vector(F, n, k, r) == F[k + 1][r] \cap Upto(n)

CandidateQueue(F, n) ==
    LET Deg(r) == {k \in Upto(Len(F)) : extract_coeff_vector(F, n, k, r) # {}}
        live   == {r \in DOMAIN F[1] : Deg(r) # {}}
        deg    == [r \in live |-> Max(Deg(r))]
        ord    == ByGamma(live, deg)
    IN  [i \in DOMAIN ord |-> [row |-> ord[i], deg |-> deg[ord[i]]]]

\* The queue in batches of n.
BatchQueue(queue, n) ==
    [b \in 1 .. (Len(queue) + n - 1) \div n |->
        SubSeq(queue, (b - 1) * n + 1, Min({b * n, Len(queue)}))]

\* Z u, as a column.
MulZ(Z, u) == {r \in DOMAIN Z : Odd(Z[r], u)}

\* Horner's rule: w <- A w + Z u_k for k = 0 .. top; u_k is left out above deg.
Horner(A, Z, F, n, cand, top) ==
    FoldLeft(LAMBDA w, k :
                 Xor(BwOperatorAT_mul(A, w),
                     IF k > cand.deg THEN {}
                     ELSE MulZ(Z, extract_coeff_vector(F, n, k, cand.row))),
             {}, [k \in 1 .. top + 1 |-> k - 1])

\* insert_into_basis: the vector reduced by the basis, {} when it depends on it.
ReduceByPivot(basis, v) ==
    LET support == v \union UNION {basis[i] : i \in DOMAIN basis}
        reduce[w \in SUBSET support] ==
            LET hit == {i \in DOMAIN basis : w # {} /\ Min(basis[i]) = Min(w)}
            IN  IF hit = {} THEN w ELSE reduce[Xor(w, basis[Min(hit)])]
    IN  reduce[v]
=============================================================================
