----------------------------- MODULE SquareRoot -----------------------------
(***************************************************************************)
(* The square root step (src/src/sqrt/sqrt_step.cu).  A dependency v is a  *)
(* set of indices into a batch of relations; indices past its end (bits of *)
(* padding rows) select nothing.                                           *)
(***************************************************************************)
EXTENDS MatrixFilter

CONSTANT RefineRounds   \* MAX_REFINE_ROUNDS

RECURSIVE gcd(_, _)
gcd(a, b) == IF b = 0 THEN a ELSE gcd(b, a % b)

selected(batch, v) == v \cap DOMAIN batch
total(batch, v, val) == FoldSet(LAMBDA i, n : n + val[i], 0, selected(batch, v))
times(batch, v, val) == FoldSet(LAMBDA i, y : (y * val[i]) % N, 1 % N, selected(batch, v))

ComputeX(batch, v) == times(batch, v, [i \in DOMAIN batch |-> batch[i].sq])

\* Exponent sums of the sign, of two and of the primes of the factor base.
signCount(batch, v) == total(batch, v, [i \in DOMAIN batch |-> IF batch[i].neg THEN 1 ELSE 0])
exp2(batch, v) == total(batch, v, [i \in DOMAIN batch |-> batch[i].v2])
expOf(batch, v, j) == 
    total(batch, v, [i \in DOMAIN batch |-> IF j \in DOMAIN batch[i].f THEN batch[i].f[j] ELSE 0])

\* Half of every exponent; a large prime stored with a relation counts once.
ComputeY(batch, v) ==
    LET base == FoldLeft(LAMBDA y, j : (y * Power(FactorBase[j], expOf(batch, v, j) \div 2)) % N,
                         Power(2, exp2(batch, v) \div 2), [j \in 1 .. FbSize |-> j])
        signed == IF Odd(signCount(batch, v) \div 2) THEN (N - base) % N ELSE base
    IN  (signed * times(batch, v, [i \in DOMAIN batch |-> batch[i].lp % N])) % N
\* The batched kernels leave Y at zero when an exponent is odd.
HalveExponents(batch, v) == /\ ~Odd(signCount(batch, v)) /\ ~Odd(exp2(batch, v))
                            /\ \A j \in 1 .. FbSize : ~Odd(expOf(batch, v, j))
BatchedExponentiateY(batch, v) == IF HalveExponents(batch, v) THEN ComputeY(batch, v) ELSE 0
ApplyLPCorrection(y, lpY) == (y * lpY) % N

\* gcd(|X - Y|, N), or gcd(X + Y, N) when that is trivial; 1 when both are.
trivial(f) == f \in {1, N}
splitBy(x, y) ==
    LET f1 == gcd(IF x < y THEN y - x ELSE x - y, N)
        f2 == gcd((x + y) % N, N)
    IN  IF ~trivial(f1) THEN f1 ELSE IF ~trivial(f2) THEN f2 ELSE 1

\* Factors found by several dependencies are split by their common divisors; the pool is sorted and
\* free of duplicates, so a set stands for it.
splits(pool) == {p \in pool \X pool : p[1] < p[2] /\ gcd(p[1], p[2]) \notin {1, p[1], p[2]}}
refineRound(pool) ==
    LET parts(p) == LET g == gcd(p[1], p[2]) IN {g, p[1] \div g, p[2] \div g}
        involved == UNION {{p[1], p[2]} : p \in splits(pool)}
    IN  (UNION {parts(p) : p \in splits(pool)} \cup (pool \ involved)) \ {1, N}
RefineFactors(pool) == FoldLeft(LAMBDA q, k : IF splits(q) = {} THEN q ELSE refineRound(q),
                                pool \ {1, N}, [k \in 1 .. RefineRounds |-> k])

\* The smallest refined factor with its cofactor, or <<1, N>>.
BatchedGCD(xs, ys) ==
    LET pool == RefineFactors({splitBy(xs[i], ys[i]) : i \in DOMAIN xs})
    IN  IF pool = {} THEN <<1, N>> ELSE <<Min(pool), N \div Min(pool)>>

\* One dependency on the host: nothing when Y is zero or X^2 # Y^2.
Perform(batch, v, lpY) ==
    LET x == ComputeX(batch, v)
        y == ApplyLPCorrection(ComputeY(batch, v), lpY)
        f == splitBy(x, y)
    IN  IF y = 0 \/ (x * x) % N # (y * y) % N THEN <<0, 0>> ELSE <<f, N \div f>>
accepted(p) == 0 \notin Range(p) /\ p[1] \notin {1, N} /\ p[1] * p[2] = N

\* Only the first dependency is looked at.
performAll_First(batch, sols, lpY) ==
    IF sols = <<>> \/ ~accepted(Perform(batch, sols[1], lpY[1])) THEN <<>> ELSE Perform(batch, sols[1], lpY[1])
\* The host loop stops at the first dependency that splits N.
performAll(batch, sols, lpY) ==
    FoldLeft(LAMBDA acc, i : IF acc = <<>> /\ accepted(Perform(batch, sols[i], lpY[i]))
                             THEN Perform(batch, sols[i], lpY[i]) ELSE acc,
             <<>>, [i \in DOMAIN sols |-> i])
\* All dependencies at once on the device, the host loop when they fail.
batchedThenHost(batch, sols, lpY) ==
    LET p == BatchedGCD([i \in DOMAIN sols |-> ComputeX(batch, sols[i])],
                        [i \in DOMAIN sols |-> ApplyLPCorrection(BatchedExponentiateY(batch, sols[i]), lpY[i])])
    IN  IF accepted(p) THEN p ELSE performAll(batch, sols, lpY)
=============================================================================
