--------------------------- MODULE NumberTheory ---------------------------
(***************************************************************************)
(* The host number theory that sets up a sieve: residues and square roots  *)
(* modulo a prime, the factor base, Hensel lifting, the coefficients a and *)
(* B of a polynomial, the Gray walk over its signs and the mask of the     *)
(* smallest primes (src/src/sieve/prime_algorithms.cu, graycode.cuh,       *)
(* dynamicMask.cuh).  Every modular product of the code goes through a     *)
(* 128-bit intermediate, so integers stand for its words.                  *)
(***************************************************************************)
EXTENDS Integers, Sequences, FiniteSets

RECURSIVE powAcc(_, _, _, _)
powAcc(base, exp, m, res) ==
    IF exp = 0 THEN res
    ELSE powAcc((base * base) % m, exp \div 2, m, IF exp % 2 = 1 THEN (res * base) % m ELSE res)
pow_mod(base, exp, m) == powAcc(base % m, exp, m, 1)

RECURSIVE ctz(_)
ctz(x) == IF x % 2 = 1 THEN 0 ELSE 1 + ctz(x \div 2)

\* Binary Jacobi symbol: strip twos, reciprocity, swap.
RECURSIVE jacobiLoop(_, _, _)
jacobiLoop(a, n, t) ==
    IF a = 0 THEN IF n = 1 THEN t ELSE 0
    ELSE LET zeros == ctz(a)
             odd == a \div 2 ^ zeros
             t1 == IF zeros % 2 = 1 /\ n % 8 \in {3, 5} THEN -t ELSE t
             t2 == IF odd % 4 = 3 /\ n % 4 = 3 THEN -t1 ELSE t1
         IN  jacobiLoop(n % odd, odd, t2)
jacobi(a, n) == jacobiLoop(a % n, n, 1)

(***************************************************************************)
(* Tonelli-Shanks: p - 1 = Q 2^S, z a non-residue.  Each round finds the   *)
(* order 2^i of t and multiplies R by a power of c; no root yields 0.      *)
(***************************************************************************)
RECURSIVE orderExp(_, _, _, _)
orderExp(t, i, M, p) == IF i >= M THEN M
                        ELSE LET sq == (t * t) % p
                             IN  IF sq = 1 THEN i ELSE orderExp(sq, i + 1, M, p)
\* One squaring too many.
squared_OneMore(b, k, p) == LET RECURSIVE go(_, _)
                                go(x, j) == IF j = 0 THEN x ELSE go((x * x) % p, j - 1)
                            IN  go(b, k + 1)
RECURSIVE squared(_, _, _)
squared(b, k, p) == IF k = 0 THEN b ELSE squared((b * b) % p, k - 1, p)
RECURSIVE shanks(_, _, _, _, _)
shanks(M, c, t, R, p) ==
    IF t = 0 THEN 0 ELSE IF t = 1 THEN R
    ELSE LET i == orderExp(t, 1, M, p)
             b == squared(c, M - i - 1, p)
             c2 == (b * b) % p
         IN  IF i = M THEN 0 ELSE shanks(i, c2, (t * c2) % p, (R * b) % p, p)
Tonelli_Shanks(n, p) ==
    IF n = 0 \/ pow_mod(n, (p - 1) \div 2, p) # 1 THEN 0
    ELSE LET S == ctz(p - 1)
             Q == (p - 1) \div 2 ^ S
             z == CHOOSE w \in 2 .. p - 1 : /\ pow_mod(w, (p - 1) \div 2, p) = p - 1
                                            /\ \A v \in 2 .. w - 1 : pow_mod(v, (p - 1) \div 2, p) # p - 1
         IN  shanks(S, pow_mod(z, Q, p), pow_mod(n, Q, p), pow_mod(n, (Q + 1) \div 2, p), p)

\* Deterministic Miller-Rabin: trial division by the witnesses, then every witness.
Witnesses == {2, 3, 5, 7, 11, 13, 17, 19, 23, 29, 31, 37}
passes(w, n, d, r) == LET x == pow_mod(w, d, n)
                      IN  x \in {1, n - 1} \/ \E j \in 1 .. r - 1 : squared(x, j, n) = n - 1
is_prime_u64(n) ==
    /\ n >= 2
    /\ \/ n \in Witnesses
       \/ /\ \A w \in Witnesses : n % w # 0
          /\ LET r == ctz(n - 1) IN \A w \in Witnesses : passes(w, n, (n - 1) \div 2 ^ r, r)

(***************************************************************************)
(* The factor base: the odd primes up to F modulo which N is a square, in  *)
(* increasing order, each with its smaller root of N.                      *)
(***************************************************************************)
isComposite(F) ==
    {0, 1} \cup {i \in 4 .. F : i % 2 = 0}
    \cup UNION {{j \in i * i .. F : (j - i * i) % (2 * i) = 0} : i \in {k \in 3 .. F : k % 2 = 1 /\ k * k <= F}}
minRoot(N, p) == LET r == Tonelli_Shanks(N % p, p) IN IF r > p \div 2 THEN p - r ELSE r
generateFactorBase(N, F) ==
    LET keep == {p \in 3 .. F : p % 2 = 1 /\ p \notin isComposite(F) /\ jacobi(N % p, p) = 1}
        nth(k) == CHOOSE p \in keep : Cardinality({q \in keep : q < p}) = k - 1
    IN  [i \in 1 .. Cardinality(keep) |-> [p |-> nth(i), root |-> minRoot(N, nth(i))]]
\* findRoot: a root of (x - d)^2 = N modulo p.
findRoot(d, N, p) == ((d % p) + Tonelli_Shanks(N % p, p)) % p

modInv(a, p) == pow_mod(a, p - 2, p)
modInvSquare(a, p) == pow_mod(a, p * p - p - 1, p * p)
\* One Newton step: r - (r^2 - N) / 2r modulo p^2, the inverse taken modulo p only.
liftRoot(r, N, p) ==
    LET sq == p * p
        diff == ((r * r) - N) % sq
        term == (diff * modInv((2 * r) % p, p)) % sq
    IN  (r - term) % sq

(***************************************************************************)
(* init_a_factors: primes are multiplied in from the top of a window that  *)
(* starts at index `start' (150 in the code) and divided out at its bottom *)
(* until the product is within five per cent above the target, or the      *)
(* window reaches the end of the factor base.  Indices count from 0.       *)
(***************************************************************************)
RECURSIVE slide(_, _, _, _, _)
slide(fb, target, lo, hi, prod) ==
    LET upper == (target * 100) \div 95
    IN  IF (prod >= target /\ prod <= upper) \/ hi >= Len(fb) \/ lo >= Len(fb)
        THEN [lo |-> lo, hi |-> hi, prod |-> prod]
        ELSE LET p1 == IF prod < target THEN prod * fb[hi + 1].p ELSE prod
                 hi1 == IF prod < target THEN hi + 2 ELSE hi
             IN  IF p1 > upper THEN slide(fb, target, lo + 2, hi1, p1 \div fb[lo + 1].p)
                 ELSE slide(fb, target, lo, hi1, p1)
\* The window read one prime short.
init_a_factors_OneLess(fb, target, start) ==
    LET w == slide(fb, target, start, start, 1)
    IN  [i \in 1 .. (w.hi - w.lo) \div 2 - 1 |-> w.lo + 2 * (i - 1)]
init_a_factors(fb, target, start) ==
    LET w == slide(fb, target, start, start, 1)
    IN  [i \in 1 .. (w.hi - w.lo) \div 2 |-> w.lo + 2 * (i - 1)]

(***************************************************************************)
(* recalc_a: a is the product of the chosen primes; B[i] is a / p times    *)
(* the root of N modulo p over a / p, taken as the smaller of the two.     *)
(***************************************************************************)
RECURSIVE product(_, _, _)
product(fb, idx, skip) == IF idx = <<>> THEN 1
                          ELSE (IF Len(idx) = skip THEN 1 ELSE fb[idx[Len(idx)] + 1].p)
                               * product(fb, SubSeq(idx, 1, Len(idx) - 1), skip)
\* The inverse of a / p left out of gamma.
gammaOf_NoInverse(cofactor, e) == e.root
gammaOf(cofactor, e) ==
    LET g == (modInv(cofactor % e.p, e.p) * e.root) % e.p IN IF g > e.p \div 2 THEN e.p - g ELSE g
recalc_a(fb, idx) ==
    [a |-> product(fb, idx, 0),
     B |-> [i \in 1 .. Len(idx) |-> product(fb, idx, i) * gammaOf(product(fb, idx, i), fb[idx[i] + 1])]]

\* b for the sign pattern polyId: bit i set adds B[i], clear subtracts it.
RECURSIVE bFromPolyId(_, _)
bFromPolyId(B, polyId) == IF B = <<>> THEN 0
                          ELSE (IF polyId % 2 = 1 THEN B[1] ELSE -B[1]) + bFromPolyId(Tail(B), polyId \div 2)

\* ---- Gray codes ----------------------------------------------------------
RECURSIVE xor(_, _)
xor(a, b) == IF a = 0 /\ b = 0 THEN 0 ELSE ((a + b) % 2) + 2 * xor(a \div 2, b \div 2)
gray(i) == xor(i, i \div 2)
advanceGray(i) == ctz(xor(gray(i + 1), gray(i)))
RECURSIVE lor(_, _)
lor(a, b) == IF a = 0 /\ b = 0 THEN 0
             ELSE (IF (a % 2) + (b % 2) > 0 THEN 1 ELSE 0) + 2 * lor(a \div 2, b \div 2)
\* One step of the cyclic walk over a block of `size' codes, size a power of two.
advanceGrayCyclic(walkIndex, size, code) ==
    LET bit == ctz(lor(walkIndex % size, IF size >= 2 THEN size \div 2 ELSE 1))
        next == xor(code, 2 ^ bit)
    IN  [bit |-> bit, code |-> next, nowSet |-> (next \div 2 ^ bit) % 2 = 1]

\* The path over a cube: each dimension appends its edge and the reversed path so far.
RECURSIVE hypercube(_)
hypercube(d) == IF d = 0 THEN <<>>
                ELSE LET h == hypercube(d - 1)
                     IN  h \o <<[dir |-> d - 1, sign |-> 1]>>
                           \o [i \in 1 .. Len(h) |-> [dir |-> h[Len(h) + 1 - i].dir, sign |-> -h[Len(h) + 1 - i].sign]]
generateHypercubePath(dim) == hypercube(dim)

(***************************************************************************)
(* The mask of the smallest primes: the bytes of one period, four to a     *)
(* word, with the logarithms added at the multiples of each prime, and the *)
(* word at which a sieve that starts at `start' has to begin reading for   *)
(* roots other than zero, found by the Chinese remainder theorem.          *)
(***************************************************************************)
RECURSIVE log2(_)
log2(n) == IF n < 2 THEN 0 ELSE 1 + log2(n \div 2)
RECURSIVE prodSeq(_)
prodSeq(s) == IF s = <<>> THEN 1 ELSE Head(s) * prodSeq(Tail(s))
RECURSIVE logsAt(_, _, _)
logsAt(small, roots, x) == IF small = <<>> THEN 0
                           ELSE (IF (x - Head(roots)) % Head(small) = 0 THEN log2(Head(small)) ELSE 0)
                                + logsAt(Tail(small), Tail(roots), x)
generateMask(small) ==
    LET period == prodSeq(small)
    IN  [period |-> period,
         bytes |-> [j \in 0 .. 4 * period - 1 |-> logsAt(small, [i \in DOMAIN small |-> 0], j)],
         crt |-> [i \in DOMAIN small |->
                    LET q == period \div small[i] IN (q * modInv(q % small[i], small[i])) % period]]
RECURSIVE dot(_, _)
dot(u, v) == IF u = <<>> THEN 0 ELSE Head(u) * Head(v) + dot(Tail(u), Tail(v))
findMaskOffset(mask, small, roots, start) ==
    LET shift == dot(mask.crt, [i \in DOMAIN small |-> roots[i] % small[i]]) % mask.period
        offset == (start - shift) % mask.period
        k == CHOOSE n \in 0 .. 3 : (offset + n * mask.period) % 4 = 0
    IN  (offset + k * mask.period) \div 4
\* The byte the sieve adds at position start + j.
maskByte(mask, word, j) == mask.bytes[4 * ((word + j \div 4) % mask.period) + (j % 4)]
===========================================================================
