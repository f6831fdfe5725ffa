----------------------------- MODULE Algorithms -----------------------------
(***************************************************************************)
(* The pure algorithms of the program, called on every input of small      *)
(* ranges and compared with what they are meant to compute.  A behaviour   *)
(* is one call: Init picks it, one action runs it, the invariants judge    *)
(* the result.                                                             *)
(***************************************************************************)
EXTENDS Uint512, PolynomialWalk

LOCAL INSTANCE PolyArithmetic
LOCAL INSTANCE SequencesExt

CONSTANTS
    Moduli,      \* moduli of the modular operations, the largest near Top
    OddPrimes,   \* primes the residue algorithms run modulo
    Candidates,  \* numbers given to the primality test
    Composites,  \* numbers N to be factored, for the factor base and the polynomials
    FBBound,     \* bound F of the factor base of the polynomials
    WindowBound, \* bound F of the factor base the window of a-factors slides over
    FBSize,      \* size of the factor base of the walk
    WindowStart, \* index of the lowest a-factor (150 in init_a_factors)
    DeltaMax, ByteValues, BlockItems, WordBits, HostColBits, Lanes, PatternRows  \* the widths of Spmm

S == INSTANCE SpmmPlan

VARIABLES call, ret

vars == <<call, ret>>

\* ret is empty until the call returns, then holds its result.
Op(name) == call[1] = name
Done(name) == Op(name) /\ ret # <<>>
Arg(i) == call[i + 1]
res == ret[1]
Returns(r) == ret = <<>> /\ ret' = <<r>> /\ UNCHANGED call

\* The sign patterns, selections of a-factors and small roots that are tried.
Selections(N) == LET n == Len(generateFactorBase(N, FBBound))
                 IN  {<<i, j, k>> \in (0 .. n - 1) \X (0 .. n - 1) \X (0 .. n - 1) : i < j /\ j < k}
SmallSets == {<<3>>, <<5>>, <<3, 5>>, <<3, 7>>}
RootsOf(small) == {r \in [DOMAIN small -> 0 .. 6] : \A i \in DOMAIN small : r[i] < small[i]}

Rates == [done : {0, 1, 2, 3, 5}, aps : {0, 3, 20}]

\* The thresholds and leaves a product is tuned to.
Tunings == [threshold : {1, 2, 3}, leaf : {"smemB"}, wide : BOOLEAN, mpb : {1}]
     \cup [threshold : {20}, leaf : {"global", "smemB", "mpb"}, wide : {TRUE}, mpb : {4}]

\* Sparse matrices: four rows, two of them the same, one empty or nearly full; and six rows, some dense.
RowOf(set) == SelectSeq([i \in 1 .. 12 |-> i - 1], LAMBDA c : c \in set)
FourRows == {[cols |-> 7, rows |-> [r \in 0 .. 3 |-> RowOf(IF r \in {0, 3} THEN s ELSE IF r = 1 THEN {} ELSE t)]] :
                s \in SUBSET (0 .. 6), t \in {{}, {0, 6}, 1 .. 5}}
SixRows == {[cols |-> 12, rows |-> [r \in 0 .. 5 |->
                CASE r = 0 -> RowOf({11}) [] r = 1 -> RowOf(s) [] r = 2 -> RowOf({c + 1 : c \in s} \cup {0})
                  [] r = 3 -> <<>> [] r = 4 -> RowOf({3, 11}) [] r = 5 -> RowOf(u)]] :
                s \in {{}, {4}, {0, 4, 9}}, u \in {{2}, 0 .. 11}}
\* The sizes and weights the tuners work with, and the times they measure: each configuration is the
\* fastest one somewhere.
Tuner == [initial |-> 1, most |-> 2, fixed |-> 2, weight |-> 3, small |-> 2, prune |-> 1, warp |-> 3, fallback |-> 2,
          tiles |-> <<[weight |-> 2, size |-> 2], [weight |-> 0, size |-> 4]>>]
Timings(x, y) == [b \in 1 .. 12 |-> [k \in 1 .. 8 |-> IF (b * x + k + y) % 8 = 0 THEN 1 ELSE 4]]

Init ==
    /\ ret = <<>>
    /\ call \in {"arith"} \X Words \X Words
           \cup {"mod"} \X Words \X Words \X Moduli
           \cup {"roots"} \X Words
           \cup {"signed"} \X Words \X (-Base .. Base) \X {0, 1, Base + 1} \X Moduli
           \cup {"residue"} \X (1 .. 40) \X OddPrimes
           \cup {c \in {"crt"} \X (0 .. 8) \X {2, 4, 5, 7} \X (0 .. 8) \X {3, 4, 9} :
                   c[2] < c[3] /\ c[4] < c[5] /\ gcd(c[3], c[5]) = 1 /\ 2 * c[3] * c[5] <= Top}
           \cup {"prime"} \X Candidates
           \cup {"base"} \X Composites
           \cup UNION {{"poly"} \X {N} \X Selections(N) : N \in Composites}
           \cup {"select"} \X Composites \X {40 * k : k \in 25 .. 60} \X {2, 4}
           \cup {"cube"} \X (1 .. 6)
           \cup {"gray"} \X {1, 2, 4, 8, 16} \X (0 .. 33)
           \cup UNION {{"mask"} \X {s} \X RootsOf(s) \X (-20 .. 3) : s \in SmallSets}
           \cup {"walk"} \X {4, 5} \X {"window", "override"} \X (0 .. 40) \X {1, 3, 16}
           \cup {"plan"} \X {4, 5} \X {<<1, 1>>, <<3, 1>>, <<0, 0>>, <<2, 1, 4>>, <<7, 0>>}
                       \X {0, 900} \X {1, 6, 16, 48} \X {0, 20}
           \cup {"chunk"} \X Rates \X Rates \X {200, 1000, 6000} \X {1, 6, 48}
           \cup {"resume"} \X {[start |-> 5, count |-> c] : c \in {0, 4, 8, 12}} \X {1, 3, 4, 6}
                         \X UNION {[1 .. n -> {Never, 0, 1, 2}] : n \in 1 .. 4}
           \cup {"product"} \X (1 .. 9) \X (1 .. 9) \X Tunings
           \cup {"format"} \X FourRows \X {0, 2} \X {0, 2} \X {2, 4}
           \cup {"slices"} \X FourRows \X {0, 2} \X {1, 2, 4}
           \cup {"multiply"} \X SixRows \X BOOLEAN \X BOOLEAN \X {"first", "again", "host"} \X {0, 1} \X (0 .. 7)

Arith == Op("arith") /\ Returns(
    LET a == Arg(1) b == Arg(2) IN
    [sum |-> add(a, b), short |-> add_uint32(a, Limb(b, 0)), diff |-> sub(a, b), prod |-> mult(a, b),
     wide |-> wide_product(a, b), long |-> IF b = 0 THEN <<>> ELSE <<div(a, b), mod(a, b)>>,
     scaled |-> mul_uint64_inplace(a, b % (Base * Base)),
     small |-> div_small(a, b % (Base * Base)),
     left |-> lshift(a, b % (Limbs * LimbBits + 1)), right |-> rshift(a, b % (Limbs * LimbBits + 1)),
     inverse |-> IF b < 2 THEN 0 ELSE mod_inverse(a, b)])

Modular == Op("mod") /\ Returns(
    LET a == Arg(1) b == Arg(2) N == Arg(3) IN
    [product |-> mul_mod(a, b, N),
     sum |-> IF a < N /\ b < N THEN add_mod(a, b, N) ELSE 0,
     diff |-> IF a < N /\ b < N THEN sub_mod(a, b, N) ELSE 0,
     double |-> IF a < N THEN double_mod(a, N) ELSE 0,
     mont |-> IF a < N /\ b < N /\ N % 2 = 1
              THEN reduce(montMul(transform(a, N), transform(b, N), N), N) ELSE 0])

Roots == Op("roots") /\ Returns(
    LET n == Arg(1) IN
    [floor |-> sqrt(n), target |-> isqrt_2N(n), text |-> fromDigits(to_string(n), Len(to_string(n)), 0),
     sign |-> abs_twos_complement(n)])

Signed == Op("signed") /\ Returns(
    LET a == Arg(1) x == Arg(2) b == Arg(3) N == Arg(4) IN
    [value |-> mul_add_mod_signed(a, x, b, N), root |-> calculate_sqrt_of_QX(a, b, x),
     q |-> calculateQ_unsigned(a, b, x, N), square |-> abs_square_minus_N(calculate_sqrt_of_QX(a, b, x).mag, N)])

Residue == Op("residue") /\ Returns(
    LET n == Arg(1) p == Arg(2) IN
    [jacobi |-> jacobi(n, p), root |-> Tonelli_Shanks(n % p, p), min |-> minRoot(n, p),
     lifted |-> IF Tonelli_Shanks(n % p, p) = 0 THEN 0 ELSE liftRoot(Tonelli_Shanks(n % p, p), n, p),
     euler |-> IF p >= Top THEN -1 ELSE legendre_symbol(n, p),
     mont |-> IF p >= Top THEN -1 ELSE reduce(montPow(transform(n % p, p), (p - 1) \div 2, p, transform(1, p)), p),
     short |-> IF p >= Top THEN 0 ELSE sqrt_mod_3mod4(n, p),
     shifted |-> findRoot(n, n * n, p),
     inverse |-> IF n % p = 0 THEN 0 ELSE modInvSquare(n, p)])

Crt == Op("crt") /\ Returns(crt_2(Arg(1), Arg(2), Arg(3), Arg(4)))
Prime == Op("prime") /\ Returns(is_prime_u64(Arg(1)))
FactorBase == Op("base") /\ Returns(generateFactorBase(Arg(1), FBBound))
Polynomial == Op("poly") /\ Returns(recalc_a(generateFactorBase(Arg(1), FBBound), Arg(2)))
Select == Op("select") /\ Returns(init_a_factors(generateFactorBase(Arg(1), WindowBound), Arg(2), Arg(3)))
Cube == Op("cube") /\ Returns(generateHypercubePath(Arg(1)))
Gray == Op("gray") /\ Returns(advanceGrayCyclic(Arg(2), Arg(1), gray((Arg(2) + Arg(1) - 1) % Arg(1))))
Mask == Op("mask") /\ Returns(
    LET mask == generateMask(Arg(1))
        word == findMaskOffset(mask, Arg(1), Arg(2), Arg(3))
    IN  [j \in 0 .. 19 |-> maskByte(mask, word, j)])

\* A node walks to a position and another one seeks it; both go on for a window.
Snapshot(dim, how) ==
    IF how = "window" THEN windowPivots(Evenly(WindowStart, dim)) ELSE overridePivots(Evenly(WindowStart, dim), FBSize)
Walk == Op("walk") /\ Returns(
    LET snap == Snapshot(Arg(1), Arg(2))
        low  == sieveRange(fromSnapshot(snap), Arg(3) * Arg(4), Arg(4))
        seek == resetAndAdvanceTo(snap, Arg(3) * Arg(4))
    IN  [walked |-> low.f, sought |-> seek,
         all |-> low.indices \o sieveRange(seek, 2 ^ Arg(1), Arg(4)).indices])

\* The coordinator divides the positions; every node seeks its range and sieves it in quanta.
Plan == Op("plan") /\ Returns(
    LET H      == 2 ^ Arg(1)
        snap   == Snapshot(Arg(1), "window")
        ranges == computeContiguousRanges(Arg(2), Arg(3), H, Arg(4), Arg(5))
    IN  [ranges |-> ranges,
         pool   |-> overflowPool(ranges, Arg(3), H, 1, walkCapacity(FBSize, WindowStart)),
         sieved |-> [i \in DOMAIN ranges |->
                        sieveRange(resetAndAdvanceTo(snap, ranges[i].start), ranges[i].count, Arg(4)).indices]])

Chunk == Op("chunk") /\ Returns(
    [v \in 1 .. 2 |-> nextChunkSize(<<Arg(1), Arg(2)>>, v, Arg(3), 2, 16, Arg(4))])

Resume == Op("resume") /\ Returns(Legs(Arg(1), 4, Arg(2), Arg(3)))

\* The memory of a product of polynomials of lengths la and lb: the factors, the result and the work
\* space hold whatever was there before, and so do the cells behind them.
Cells(la, lb) ==
    LET A == View(0, la)
        B == View(la, lb)
        C == View(la + lb, la + lb - 1)
        W == View(2 * (la + lb) - 1, karatsuba_workspace_size(Most(la, lb)))
    IN  [A |-> A, B |-> B, C |-> C, W |-> W,
         mem |-> [c \in 0 .. W.at + W.len + 7 |-> IF c < la + lb THEN {<<c>>} ELSE {<<-1>>}]]
Product == Op("product") /\ Returns(
    LET v == Cells(Arg(1), Arg(2)) IN
    [mem |-> poly_mul(v.mem, v.C.at, v.A.at, v.A.len, v.B.at, v.B.len, v.W.at, Arg(3)), cpu |-> poly_mul_naive_cpu(v.mem, v.C, v.A, v.B)])

\* The kernels add to what the result holds, here the symbol -1.
Fresh(n) == [r \in 0 .. n - 1 |-> {-1}]
SparseKernels == {"TiledCOO", "TiledCOO_Unrolled", "PForDelta", "PForDelta_BitExact", "Delta16", "Golomb"}
HeavyKernels == {"heavy_tiled_coo", "heavy_warp_csr", "heavy_bitmap"}
Dense(limit) == IF limit > 0 THEN {"dense_bitslice"} ELSE {}

\* One matrix in every format, by every kernel: from the host, and from the device's converters.
Format == Op("format") /\ Returns(
    LET mat == Arg(1)
        m   == S!preprocess(mat, Arg(2), Arg(3), <<9, 10>>, Arg(4))
        device(id) == S!run_spmm(Fresh(4), S!Convert(mat, S!Kernel(id, Arg(4))), S!to_spmm_cfg(id))
    IN  {S!run_spmm(Fresh(4), m, {"sparse", k, h} \cup Dense(Arg(2))) : k \in SparseKernels, h \in HeavyKernels}
        \cup {device(id) : id \in (SparseKernels \ {"PForDelta"}) \cup {"WarpCSR"}})

Slices == Op("slices") /\ Returns(
    LET parts == S!slice_matrix_vertical(Arg(1), Arg(2), 2, Arg(3), 2)
    IN  S!run_spmm_sliced(Fresh(4), [i \in DOMAIN parts |-> S!preprocess(parts[i], Arg(2), 0, <<9, 10>>, 2)],
                          {"sparse", "TiledCOO"} \cup Dense(Arg(2))))

\* The interface: permute, tune, compile once or twice, multiply, translate back.
Tuned(mat, t) == IF Arg(4) = "host" THEN S!tune_global(mat, Tuner, t)
                 ELSE S!tune(mat, Arg(3), Tuner, t, [cost |-> IF Arg(6) < 6 THEN 20 ELSE 0, k |-> Arg(6)])
Stripped(plan) == IF Arg(4) = "again"
                  THEN [plan EXCEPT !.segments = [i \in DOMAIN @ |-> [@[i] EXCEPT !.data = <<>>]]] ELSE plan
Multiply ==
    /\ Op("multiply")
    /\ \E bw \in {S!BlockWiedemannSpMM(Arg(1), 12, Arg(2))} :
       \E mat \in {IF Arg(3) THEN bw.AT ELSE bw.A} :
       \E plan \in {Tuned(mat, Timings(Arg(5), Arg(6)))} :
       \E segs \in {S!compile(mat, Stripped(plan))} :
       \E C \in {S!execute(Fresh(S!Rows(mat)), segs)} :
           Returns([segs |-> [i \in DOMAIN segs |-> <<segs[i].lo, segs[i].hi, segs[i].cfg.id>>],
                    raw |-> C, mat |-> mat, perm |-> plan.density_perm,
                    out |-> IF Arg(3) THEN S!PrePost(C, bw.P_row, bw.P_col) ELSE S!PrePost(C, bw.P_col, bw.P_row)])

Next == \/ Arith \/ Modular \/ Roots \/ Signed \/ Residue \/ Crt \/ Prime \/ FactorBase
        \/ Polynomial \/ Select \/ Cube \/ Gray \/ Mask
        \/ Walk \/ Plan \/ Chunk \/ Resume \/ Product \/ Format \/ Slices \/ Multiply
Spec == Init /\ [][Next]_vars

\* ---- what each algorithm is meant to compute -------------------------------
\* Wide integers wrap at 512 bits and nowhere else: every carry, borrow and shifted-out bit of
\* uint512 (uint512.cuh) is accounted for, so sums, products, quotients, shifts and inverses are
\* those of the integers modulo 2^512.
ArithmeticExact ==
    Done("arith") =>
        LET a == Arg(1) b == Arg(2) d == b % (Base * Base) s == b % (Limbs * LimbBits + 1) IN
        /\ res.sum = (a + b) % Top /\ res.short = (a + Limb(b, 0)) % Top
        /\ res.diff = (a - b) % Top
        /\ res.prod = (a * b) % Top /\ res.wide = a * b
        /\ b # 0 => res.long = <<a \div b, a % b>>
        /\ res.scaled.low + Top * res.scaled.carry = a * d
        /\ d # 0 => res.small = [quot |-> a \div d, rem |-> a % d]
        /\ res.left = (a * 2 ^ s) % Top /\ res.right = a \div 2 ^ s
        /\ b >= 2 => IF gcd(a, b) = 1 THEN (res.inverse * a) % b = 1 ELSE res.inverse = 0

\* The modular operations are exact up to the largest modulus, where a sum of two residues no
\* longer fits a word, and Montgomery multiplication agrees with the plain one.
ModularExact ==
    Done("mod") =>
        LET a == Arg(1) b == Arg(2) N == Arg(3) IN
        /\ res.product = (a * b) % N
        /\ (a < N /\ b < N) => res.sum = (a + b) % N /\ res.diff = (a - b) % N
        /\ a < N => res.double = (2 * a) % N
        /\ (a < N /\ b < N /\ N % 2 = 1) => res.mont = (a * b) % N

\* The square root is the floor for every word, the seed lying above it; isqrt_2N, which cannot
\* hold 2N, is the root of 2N within the error of its fixed-point constant; decimal text reads
\* back as the number it was printed from.
RootsExact ==
    Done("roots") =>
        LET n == Arg(1) r == res.target IN
        /\ res.floor * res.floor <= n /\ n < (res.floor + 1) * (res.floor + 1)
        /\ (r * Base) * (r * Base) <= (Base + 1) * (Base + 1) * 2 * n
        /\ n > 0 => ((r + 2) * Base) * ((r + 2) * Base) >= (Base - 1) * (Base - 1) * 2 * n
        /\ res.text = n

\* Where sieving keeps them, |ax + b| below the half word and |(ax + b)^2 - N| below the word, the
\* signed evaluations are exact: (ax + b) mod N, |ax + b| and |(ax + b)^2 - N| with their signs.
Sgn(v) == IF v = 0 THEN 0 ELSE IF v < 0 THEN -1 ELSE 1
Abs(v) == IF v < 0 THEN -v ELSE v
InRange(a, x, b, N) == LET v == a * x + b IN Abs(v) < Half /\ a * Abs(x) < Half /\ b < N
SignedExact ==
    (Done("signed") /\ InRange(Arg(1), Arg(2), Arg(3), Arg(4))) =>
        LET a == Arg(1) x == Arg(2) b == Arg(3) N == Arg(4) v == a * x + b IN
        /\ (a * Abs(x) <= N) => res.value = v % N
        /\ res.root = [sign |-> Sgn(v), mag |-> Abs(v)]
        /\ Abs(v * v - N) < Half => res.q = [sign |-> Sgn(v * v - N), mag |-> Abs(v * v - N)]
        /\ Abs(v * v - N) < Top => res.square.mag = Abs(v * v - N)

\* The residue symbol, the root modulo p, its lift modulo p^2 and the inverse modulo p^2 are what
\* their names say, for a non-residue and a multiple of p too.
Squares(n, p) == {y \in 1 .. p - 1 : (y * y) % p = n % p}
ResiduesExact ==
    Done("residue") =>
        LET n == Arg(1) p == Arg(2) IN
        /\ res.jacobi = IF n % p = 0 THEN 0 ELSE IF Squares(n, p) = {} THEN -1 ELSE 1
        /\ p < Top => LET symbol == IF n % p = 0 THEN 0 ELSE IF Squares(n, p) = {} THEN p - 1 ELSE 1
                      IN  res.euler = symbol /\ res.mont = symbol
        /\ p < Top => IF p % 4 = 3 /\ Squares(n, p) # {} THEN res.short \in Squares(n, p) ELSE res.short = 0
        /\ IF Squares(n, p) = {} THEN res.root = 0
           ELSE /\ res.root \in Squares(n, p) /\ res.min \in Squares(n, p) /\ 2 * res.min < p
                /\ (res.lifted * res.lifted - n) % (p * p) = 0
        /\ ((res.shifted - n) * (res.shifted - n) - n * n) % p = 0
        /\ n % p # 0 => (res.inverse * n) % (p * p) = 1

\* Two residues modulo coprime moduli are combined into the one number below their product, as long
\* as twice that product fits a word: crt_2 adds its two terms before it reduces them.
CrtExact == Done("crt") => res \in 0 .. Arg(2) * Arg(4) - 1 /\ res % Arg(2) = Arg(1) /\ res % Arg(4) = Arg(3)

\* The deterministic primality test is right for the numbers whose only factors are above its
\* trial divisors too.
PrimalityExact ==
    Done("prime") => (res <=> (Arg(1) > 1 /\ \A d \in 2 .. Arg(1) - 1 : d * d > Arg(1) \/ Arg(1) % d # 0))

\* The factor base holds every odd prime up to F modulo which N is a non-zero square, in order,
\* and no other number.
FactorBaseExact ==
    Done("base") =>
        LET N == Arg(1)
            good == {p \in 3 .. FBBound : /\ \A d \in 2 .. p - 1 : p % d # 0
                                          /\ Squares(N, p) # {}}
        IN  /\ {res[i].p : i \in DOMAIN res} = good
            /\ \A i, j \in DOMAIN res : i < j => res[i].p < res[j].p
            /\ \A i \in DOMAIN res : (res[i].root * res[i].root - N) % res[i].p = 0 /\ 2 * res[i].root < res[i].p

\* Every sign pattern of the B values is a root of N modulo a: b^2 = N (mod a), on which the
\* sieve, the value Q(x) = ((ax + b)^2 - N) / a and the square root all rely; and the 2^(d-1)
\* patterns with one sign fixed are different polynomials.
EverySignIsARoot ==
    Done("poly") =>
        LET d == Len(Arg(2))
            bs == {bFromPolyId(res.B, s) : s \in 0 .. 2 ^ d - 1}
        IN  /\ \A b \in bs : ((b % res.a) * (b % res.a) - Arg(1)) % res.a = 0
            /\ Cardinality({b % res.a : b \in bs}) = 2 ^ d

\* The first window of a-factors: a product within five per cent above the target, or a window
\* that stopped at the end of the factor base.
SelectionOnTarget ==
    Done("select") =>
        LET fb == generateFactorBase(Arg(1), WindowBound)
            a == product(fb, res, 0)
        IN  \/ a >= Arg(2) /\ 95 * a <= 100 * Arg(2)
            \/ res = <<>> \/ res[Len(res)] + 2 >= Len(fb)

\* The path visits every sign vector of the cube, each once, one sign changing per step: every
\* polynomial of a coefficient is sieved exactly once.
RECURSIVE vertices(_, _)
vertices(v, path) ==
    IF path = <<>> THEN {v}
    ELSE {v} \cup vertices([v EXCEPT ![Head(path).dir] = @ + Head(path).sign], Tail(path))
CubeCovered ==
    Done("cube") =>
        LET d == Arg(1) IN
        /\ Len(res) = 2 ^ d - 1
        /\ vertices([i \in 0 .. d - 1 |-> 0], res) = [0 .. d - 1 -> {0, 1}]

\* One step of the cyclic walk leads from the code of a walk index to the code of the next, over
\* the seam of the block too, and reports the bit that changed as it is afterwards.
GrayWalk ==
    Done("gray") =>
        LET size == Arg(1) i == Arg(2) IN
        size > 1 => /\ res.code = gray(i % size)
                    /\ res.nowSet = ((res.code \div 2 ^ res.bit) % 2 = 1)

\* The mask of the smallest primes, read from the word findMaskOffsets returns, adds at each
\* position exactly the logarithms of the primes one of whose roots is there.
MaskMatchesRoots ==
    Done("mask") => \A j \in DOMAIN res : res[j] = logsAt(Arg(1), Arg(2), Arg(3) + j)

\* A node that seeks a position is in exactly the state of a node that walked there, for every
\* position and batch size, so the ranges of a cluster and the resume of a checkpoint are cut out of
\* one sequence; and that sequence, over the seams of its hypercubes, has only products of distinct
\* primes and no coefficient twice (device_sieving_controller.cpp, advance in prime_algorithms.cu).
Indices(s) == {s[i] : i \in DOMAIN s}
WalkExact ==
    Done("walk") =>
        /\ res.walked = res.sought
        /\ \A k \in DOMAIN res.all : Cardinality(Indices(res.all[k])) = Arg(1)
        /\ Cardinality({Indices(res.all[k]) : k \in DOMAIN res.all}) = Len(res.all)

\* The ranges the scheduler gives the nodes, sieved by each of them in quanta from where it seeks,
\* contain no coefficient twice and leave none out before the overflow pool, and the pool ends where
\* the walk is still inside the factor base: a batch never reaches over the end of a range into
\* the next node's.
RangesExact ==
    Done("plan") =>
        LET ranges == res.ranges
            all    == UNION {{<<i, k>> : k \in DOMAIN res.sieved[i]} : i \in DOMAIN ranges}
            H      == 2 ^ Arg(1)
            last   == ((res.pool.start + res.pool.size) \div H) - 1
        IN  /\ \A i \in DOMAIN ranges : ranges[i].count > 0 /\ Len(res.sieved[i]) = ranges[i].count
            /\ Cardinality({Indices(res.sieved[c[1]][c[2]]) : c \in all}) = Cardinality(all)
            /\ res.pool.start = Cardinality(all)
            /\ res.pool.size > 0 =>
                  \A i \in Indices(resetAndAdvanceTo(Snapshot(Arg(1), "window"), last * H).a_factors) : i + 1 < FBSize

\* A chunk is never smaller than a hypercube and four quanta nor larger than its share of the pool,
\* and of two calibrated nodes with as many chunks behind them the faster one gets no smaller chunk.
ChunksProportional ==
    Done("chunk") =>
        /\ \A v \in 1 .. 2 : res[v] \in minChunk(16, Arg(4)) .. maxChunk(Arg(3), 2, 16, Arg(4))
        /\ (Arg(1).done = Arg(2).done /\ Arg(1).aps <= Arg(2).aps) => res[1] <= res[2]
        /\ (Arg(1).done >= 2 /\ Arg(2).done >= 4 /\ 3 * Arg(1).aps <= Arg(2).aps /\ Arg(2).aps > 0 /\ Arg(3) = 6000 /\ Arg(4) = 1)
              => res[1] < res[2]

\* A chain of kills and resumes never skips a coefficient: what lies below a recorded high-water has
\* been sieved, a leg that ends leaves the whole range sieved, no leg passes the range by more than
\* a batch, and no node with a range is sent off without a limit.
ResumesExact ==
    Done("resume") =>
        \A k \in DOMAIN res :
            LET range == Arg(1) leg == res[k] IN
            /\ range.start .. range.start + leg.hw - 1 \subseteq leg.sieved
            /\ leg.ended => range.start .. range.start + range.count - 1 \subseteq leg.sieved
            /\ leg.sieved \subseteq range.start .. range.start + range.count + Arg(2) - 2
            /\ range.count > 0 => leg.limit > 0

\* Whatever the result and the work space held before, the recursion leaves the whole product in C,
\* coefficient by coefficient and with the factors in their order, reads nothing stale, leaves
\* the factors alone and writes nothing behind a work space of karatsuba_workspace_size; the host's
\* reference and every leaf agree.
KaratsubaExact ==
    Done("product") =>
        LET la == Arg(1)
            lb == Arg(2)
            v  == Cells(la, lb)
        IN  /\ \A k \in 0 .. la + lb - 2 :
                  res.mem[v.C.at + k] = {<<i, la + k - i>> : i \in {i \in 0 .. la - 1 : k - i \in 0 .. lb - 1}}
            /\ \A c \in DOMAIN v.mem :
                  (c < v.C.at \/ c >= v.W.at + v.W.len) => res.mem[c] = v.mem[c]
            /\ \A c \in 0 .. v.W.at - 1 : res.cpu[c] = res.mem[c]

\* Every format is an exact code of its rows: whatever the kernel, the limit of the dense columns,
\* the heavy rows and the tile, the product adds row by row exactly the entries of the matrix; so do
\* the vertical slices together.
Plain(mat) == [r \in DOMAIN mat.rows |-> {-1} \cup ToSet(mat.rows[r])]
FormatsExact == /\ Done("format") => res = {Plain(Arg(1))}
                /\ Done("slices") => res = Plain(Arg(1))

\* The segments of a plan cover the rows once, in order, and a compiled plan computes the product,
\* also when it is compiled again from the host's rows.  The tuner on the device leaves the rows in
\* its own order, so that the interface multiplies with the caller's matrix, or its transpose, if
\* its rows were sorted before, which BlockWiedemannSpMM does unless it is told not to.
PlansExact ==
    Done("multiply") =>
        LET order == IF res.perm = <<>> THEN S!Identity(S!Rows(res.mat)) ELSE res.perm
            given == IF Arg(3) THEN S!transpose([Arg(1) EXCEPT !.cols = 12]) ELSE Arg(1)
        IN  /\ \A i \in DOMAIN res.segs : res.segs[i][1] = IF i = 1 THEN 0 ELSE res.segs[i - 1][2]
            /\ res.segs[Len(res.segs)][2] = S!Rows(res.mat)
            /\ \A r \in DOMAIN res.raw : res.raw[r] = {-1} \cup ToSet(res.mat.rows[order[r]])
            /\ (Arg(2) \/ Arg(4) = "host") => res.out = Plain(given)

\* The products the linear algebra is made of are exact: polynomials, sparse formats and plans.
ProductsExact == KaratsubaExact /\ FormatsExact /\ PlansExact

\* The wide integers of uint512.cuh: plain, modular, signed arithmetic and roots are exact.
IntegersExact == ArithmeticExact /\ ModularExact /\ RootsExact /\ SignedExact

\* Residue symbols, roots, remaindering, primality and the factor base are what their names say.
NumberTheoryExact == ResiduesExact /\ CrtExact /\ PrimalityExact /\ FactorBaseExact

\* The polynomials of a coefficient are roots of N, each visited once, and the small primes' masks fit them.
PolynomialsExact == EverySignIsARoot /\ SelectionOnTarget /\ CubeCovered /\ GrayWalk /\ MaskMatchesRoots

\* The ranges of the nodes are disjoint, the pool follows them, chunks fit the
\* node's speed, and a chain of resumes re-sieves but never skips.
RangesDisjoint == RangesExact /\ ChunksProportional /\ ResumesExact
=============================================================================
