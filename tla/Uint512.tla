------------------------------ MODULE Uint512 ------------------------------
(***************************************************************************)
(* The wide-integer arithmetic every other part of the program computes    *)
(* with: class uint512 (src/src/common/uint512.cuh), the Montgomery        *)
(* context (montgomery.cuh) and the number theory on top of them           *)
(* (math_utils.cuh).                                                       *)
(*                                                                         *)
(* A value is the natural number its limbs stand for; limb i is read back  *)
(* with Limb.  The code has 16 limbs of 32 bits; here Limbs limbs of       *)
(* LimbBits bits, so that every carry chain, every wrap at the top and     *)
(* every pair of operands is reached.  A uint32 is one limb, a uint64 two. *)
(***************************************************************************)
EXTENDS Integers, FiniteSets, Sequences

CONSTANTS Limbs, LimbBits

ASSUME WidthAssumption == Limbs \in Nat /\ Limbs >= 2 /\ LimbBits \in Nat /\ LimbBits >= 2

Base == 2 ^ LimbBits
Top == Base ^ Limbs
Words == 0 .. Top - 1
Half == Top \div 2

Limb(a, i) == (a \div Base ^ i) % Base
Bit(a, i) == (a \div 2 ^ i) % 2

RECURSIVE addFrom(_, _, _, _)
addFrom(a, b, i, carry) ==
    IF i = Limbs THEN 0
    ELSE LET res == Limb(a, i) + Limb(b, i) + carry
         IN  (res % Base) + Base * addFrom(a, b, i + 1, res \div Base)

add(a, b) == addFrom(a, b, 0, 0)

\* add_uint32 stops at the first limb that leaves no carry.
RECURSIVE carryFrom(_, _, _)
carryFrom(a, i, carry) ==
    IF i = Limbs \/ carry = 0 THEN a
    ELSE LET res == Limb(a, i) + carry
         IN  carryFrom(a + ((res % Base) - Limb(a, i)) * Base ^ i, i + 1, res \div Base)
add_uint32(a, v) == carryFrom(a, 0, v)

RECURSIVE subFrom(_, _, _, _)
subFrom(a, b, i, borrow) ==
    IF i = Limbs THEN 0
    ELSE LET x == Limb(a, i)
             y == Limb(b, i)
             out == IF x < y \/ (borrow = 1 /\ x = y) THEN 1 ELSE 0
         IN  ((x - y - borrow) % Base) + Base * subFrom(a, b, i + 1, out)

sub(a, b) == subFrom(a, b, 0, 0)

(***************************************************************************)
(* Schoolbook multiplication.  Row i adds a[i] * b, shifted by i limbs,    *)
(* into the accumulator p of `width' limbs.  mult keeps Limbs limbs and    *)
(* loses the carry out of the top one; the wide product keeps them all.    *)
(***************************************************************************)
RECURSIVE rowFrom(_, _, _, _, _, _, _)
rowFrom(p, ai, b, i, j, carry, width) ==
    IF i + j = width THEN 0
    ELSE IF j = Limbs
    THEN ((Limb(p, i + j) + carry) % Base) * Base ^ (i + j)
         + (p \div Base ^ (i + j + 1)) * Base ^ (i + j + 1)
    ELSE LET prod == ai * Limb(b, j) + Limb(p, i + j) + carry
         IN  (prod % Base) * Base ^ (i + j) + rowFrom(p, ai, b, i, j + 1, prod \div Base, width)

RECURSIVE rows(_, _, _, _, _)
rows(p, a, b, i, width) ==
    IF i = Limbs THEN p
    ELSE rows(IF Limb(a, i) = 0 THEN p
              ELSE (p % Base ^ i) + rowFrom(p, Limb(a, i), b, i, 0, 0, width),
              a, b, i + 1, width)

mult(a, b) == rows(0, a, b, 0, Limbs)
wide_product(a, b) == rows(0, a, b, 0, 2 * Limbs)

RECURSIVE scaleFrom(_, _, _, _)
scaleFrom(a, v, i, carry) ==
    IF i = Limbs THEN [low |-> 0, carry |-> carry]
    ELSE LET prod == Limb(a, i) * v + carry
             rest == scaleFrom(a, v, i + 1, prod \div Base)
         IN  [low |-> (prod % Base) + Base * rest.low, carry |-> rest.carry]

mult_uint32(a, v) == IF v = 0 THEN 0 ELSE IF v = 1 THEN a ELSE scaleFrom(a, v, 0, 0).low
mul_uint64_inplace(a, v) == scaleFrom(a, v, 0, 0)

RECURSIVE shortDivFrom(_, _, _, _)
shortDivFrom(a, d, i, rem) ==
    IF i < 0 THEN [quot |-> 0, rem |-> rem]
    ELSE LET cur == rem * Base + Limb(a, i)
             rest == shortDivFrom(a, d, i - 1, cur % d)
         IN  [quot |-> ((cur \div d) % Base) * Base ^ i + rest.quot, rem |-> rest.rem]

\* div_uint32_inplace, div_uint64_inplace, mod_uint32, mod_uint64, div_uint32_const:
\* a zero divisor leaves the value alone (the const form returns zero) and yields 0.
div_small(a, d) == IF d = 0 THEN [quot |-> a, rem |-> 0] ELSE shortDivFrom(a, d, Limbs - 1, 0)

msb(a) == IF a = 0 THEN 0 ELSE CHOOSE i \in 0 .. Limbs * LimbBits - 1 : 2 ^ i <= a /\ a < 2 ^ (i + 1)
countr_zero(a) == IF a = 0 THEN Limbs * LimbBits
                  ELSE CHOOSE i \in 0 .. Limbs * LimbBits - 1 :
                         Bit(a, i) = 1 /\ \A j \in 0 .. i - 1 : Bit(a, j) = 0

\* First whole limbs move, then the bits inside a limb with those of its neighbour.
RECURSIVE shiftLimbs(_, _, _, _)
shiftLimbs(a, bits, left, i) ==
    IF i = Limbs THEN 0
    ELSE LET near == Limb(a, i)
             far == IF left THEN (IF i = 0 THEN 0 ELSE Limb(a, i - 1))
                            ELSE (IF i = Limbs - 1 THEN 0 ELSE Limb(a, i + 1))
             here == IF left THEN ((near * 2 ^ bits) % Base) + far \div 2 ^ (LimbBits - bits)
                             ELSE (near \div 2 ^ bits) + ((far * 2 ^ (LimbBits - bits)) % Base)
         IN  here * Base ^ i + shiftLimbs(a, bits, left, i + 1)
lshift(a, bits) ==
    IF bits >= Limbs * LimbBits THEN 0
    ELSE shiftLimbs((a * Base ^ (bits \div LimbBits)) % Top, bits % LimbBits, TRUE, 0)
rshift(a, bits) ==
    IF bits >= Limbs * LimbBits THEN 0
    ELSE shiftLimbs(a \div Base ^ (bits \div LimbBits), bits % LimbBits, FALSE, 0)

(***************************************************************************)
(* Long division, one bit at a time from the top.  The bit shifted out of  *)
(* the remainder's highest limb decides the comparison when it is set.     *)
(***************************************************************************)
reduceStep(rem, bit, d) ==
    LET shifted == ((2 * rem) % Top) + bit
        geq == 2 * rem >= Top \/ shifted >= d
    IN  [rem |-> IF geq THEN sub(shifted, d) ELSE shifted, geq |-> geq]

RECURSIVE longDiv(_, _, _, _, _)
longDiv(n, d, i, rem, quot) ==
    IF i < 0 THEN [quot |-> quot, rem |-> rem]
    ELSE LET s == reduceStep(rem, Bit(n, i), d)
         IN  longDiv(n, d, i - 1, s.rem, IF s.geq THEN quot + 2 ^ i ELSE quot)

\* With a zero divisor the caller's remainder is left as it was constructed: zero.
div_mod_core(n, d) ==
    IF d = 0 THEN [quot |-> n, rem |-> 0]
    ELSE IF n < d THEN [quot |-> 0, rem |-> n]
    ELSE longDiv(n, d, msb(n), 0, 0)
div(n, d) == div_mod_core(n, d).quot
mod(n, d) == div_mod_core(n, d).rem

\* ---- modular operations -------------------------------------------------
add_mod(a, b, N) == LET s == add(a, b) IN IF s < a \/ s >= N THEN sub(s, N) ELSE s
sub_mod(a, b, N) == IF a < b THEN add(sub(a, b), N) ELSE sub(a, b)
double_mod(a, N) == LET s == lshift(a, 1) IN IF a >= Half \/ s >= N THEN sub(s, N) ELSE s
negate_mod_inplace(a, N) == IF a = 0 THEN 0 ELSE sub(N, a)

RECURSIVE reduceWide(_, _, _, _)
reduceWide(p, N, i, rem) ==
    IF i < 0 THEN rem ELSE reduceWide(p, N, i - 1, reduceStep(rem, Bit(p, i), N).rem)
mul_mod(a, b, N) ==
    IF N = 0 THEN a
    ELSE LET p == wide_product(a, b)
             top == IF p = 0 THEN -1
                    ELSE CHOOSE i \in 0 .. 2 * Limbs * LimbBits - 1 : 2 ^ i <= p /\ p < 2 ^ (i + 1)
         IN  reduceWide(p, N, top, 0)

(***************************************************************************)
(* (a * x + b) mod N for a signed two-limb x: the short path when a * |x|  *)
(* fits, otherwise the two halves of the product reduced separately.       *)
(***************************************************************************)
mul_add_mod_signed(a, x, b, N) ==
    LET neg == x < 0
        prod == mul_uint64_inplace(a, IF neg THEN -x ELSE x)
        ax == prod.low
        sum == add(ax, b)
        low == mod(ax, N)
        high == mod(mul_uint64_inplace(sub(0, N), prod.carry).low, N)
        both == LET s == add(low, high) IN IF s >= N THEN sub(s, N) ELSE s
    IN  IF prod.carry = 0
        THEN IF ~neg
             THEN IF sum >= N THEN (IF sub(sum, N) >= N THEN mod(sub(sum, N), N) ELSE sub(sum, N))
                  ELSE sum
             ELSE IF b >= ax THEN sub(b, ax) ELSE negate_mod_inplace(sub(ax, b), N)
        ELSE IF ~neg THEN add_mod(both, b, N) ELSE sub_mod(b, both, N)

msb_is_set(a) == Limb(a, Limbs - 1) >= Base \div 2
abs_twos_complement(a) ==
    [sign |-> IF a = 0 THEN 0 ELSE IF msb_is_set(a) THEN -1 ELSE 1,
     mag  |-> IF a # 0 /\ msb_is_set(a) THEN sub(0, a) ELSE a]

\* Newton's iteration from above, at most 32 rounds.
SqrtRounds == 32
RECURSIVE newton(_, _, _)
newton(n, x, i) ==
    LET t == rshift(add(div(n, x), x), 1)
    IN  IF i = SqrtRounds \/ ~(t < x) THEN x ELSE newton(n, t, i + 1)
sqrt(n) == IF n = 0 THEN 0 ELSE newton(n, 2 ^ (msb(n) \div 2 + 1), 0)

abs_square_minus_N(s, N) ==
    LET p == wide_product(s, s)
    IN  IF p >= N THEN [sign |-> 1, mag |-> sub(p % Top, N)]
        ELSE [sign |-> -1, mag |-> sub(N, p % Top)]

\* round(sqrt(2) * Base), the Q32 constant of the code.
Sqrt2Fixed == CHOOSE r \in 0 .. 2 * Base :
                /\ (2 * r - 1) * (2 * r - 1) <= 8 * Base * Base
                /\ 8 * Base * Base < (2 * r + 1) * (2 * r + 1)
isqrt_2N_Truncating(N) == sqrt(lshift(N, 1))
isqrt_2N(N) == IF ~msb_is_set(N) THEN sqrt(lshift(N, 1))
               ELSE rshift(mul_uint64_inplace(sqrt(N), Sqrt2Fixed).low, LimbBits)

\* ---- decimal and hexadecimal text --------------------------------------
\* Chunks of Digits decimal digits, least significant first, as to_string cuts them;
\* the constructor from text multiplies by ten and adds, digit by digit.
Digits == 2
RECURSIVE to_string(_)
to_string(a) == IF a = 0 THEN <<>>
                ELSE LET s == div_small(a, 10 ^ Digits) IN <<s.rem>> \o to_string(s.quot)
RECURSIVE fromDigits(_, _, _)
fromDigits(chunks, n, acc) ==
    IF n = 0 THEN acc
    ELSE LET hi == add_uint32(mult_uint32(acc, 10), chunks[n] \div 10)
         IN  fromDigits(chunks, n - 1, add_uint32(mult_uint32(hi, 10), chunks[n] % 10))

\* ---- math_utils.cuh -----------------------------------------------------
RECURSIVE powFrom(_, _, _, _)
powFrom(base, exp, N, res) ==
    IF exp = 0 THEN res
    ELSE powFrom(mul_mod(base, base, N), rshift(exp, 1), N,
                 IF Bit(exp, 0) = 1 THEN mul_mod(res, base, N) ELSE res)
modpow(base, exp, N) == powFrom(mod(base, N), exp, N, 1)

RECURSIVE euclid(_, _, _, _, _)
euclid(r0, r1, u0, u1, m) ==
    IF r1 = 0 THEN [r |-> r0, u |-> u0]
    ELSE LET s == div_mod_core(r0, r1)
             term == mul_mod(s.quot, u1, m)
             next == sub(IF u0 < term THEN add(u0, m) ELSE u0, term)
         IN  euclid(r1, s.rem, u1, next, m)
mod_inverse(a, m) == LET e == euclid(a, m, 1, 0, m) IN IF e.r = 1 THEN e.u ELSE 0

RECURSIVE gcd(_, _)
gcd(a, b) == IF b = 0 THEN a ELSE gcd(b, mod(a, b))

legendre_symbol(a, p) ==
    LET r == mod(a, p) IN IF r = 0 THEN 0 ELSE modpow(r, rshift(sub(p, 1), 1), p)
sqrt_mod_3mod4(n, p) ==
    IF p % 4 # 3 \/ legendre_symbol(n, p) # 1 THEN 0 ELSE modpow(n, rshift(add(p, 1), 2), p)
\* The two inverses exchanged.
crt_2_Swapped(r1, m1, r2, m2) ==
    LET M == mult(m1, m2)
    IN  mod(add(mul_mod(mul_mod(r1, m2, M), mod_inverse(m1, m2), M),
                mul_mod(mul_mod(r2, m1, M), mod_inverse(m2, m1), M)), M)
crt_2(r1, m1, r2, m2) ==
    LET M == mult(m1, m2)
        term1 == mul_mod(mul_mod(r1, m2, M), mod_inverse(m2, m1), M)
        term2 == mul_mod(mul_mod(r2, m1, M), mod_inverse(m1, m2), M)
    IN  mod(add(term1, term2), M)

\* The sign of x forgotten.
calculate_sqrt_of_QX_Unsigned(a, b, x) == abs_twos_complement(add(mult_uint32(a, IF x < 0 THEN -x ELSE x), b))
\* |ax + b| and its sign, by wrapping arithmetic.
calculate_sqrt_of_QX(a, b, x) ==
    LET ax == mult_uint32(a, IF x < 0 THEN -x ELSE x)
    IN  abs_twos_complement(IF x >= 0 THEN add(ax, b) ELSE sub(b, ax))
calculateQ_unsigned(a, b, x, N) ==
    LET s == calculate_sqrt_of_QX(a, b, x).mag IN abs_twos_complement(sub(mult(s, s), N))

\* ---- montgomery.cuh: R is Top --------------------------------------------
RECURSIVE hensel(_, _, _)
hensel(n0, inv, i) == IF i = 0 THEN inv ELSE hensel(n0, (inv * (2 - n0 * inv)) % Base, i - 1)
n_prime(N) == (-hensel(Limb(N, 0), 1, 5)) % Base
R2(N) == LET r == double_mod(mod(Half, N), N) IN mul_mod(r, r, N)

\* CIOS: T + a[i] * b + u * N is divisible by the base, and is shifted down one limb.
RECURSIVE cios(_, _, _, _, _)
cios(T, a, b, N, i) ==
    IF i = Limbs THEN T
    ELSE LET u == ((Limb(T, 0) + Limb(a, i) * Limb(b, 0)) * n_prime(N)) % Base
         IN  cios((T + Limb(a, i) * b + u * N) \div Base, a, b, N, i + 1)
\* `extra', the limb above the top, forces the last subtraction too.
montMul_NoExtra(a, b, N) == LET T == cios(0, a, b, N, 0) % Top IN IF T >= N THEN sub(T, N) ELSE T
montMul(a, b, N) == LET T == cios(0, a, b, N, 0) IN IF T >= N THEN sub(T % Top, N) ELSE T
RECURSIVE montPow(_, _, _, _)
montPow(base, exp, N, res) ==
    IF exp = 0 THEN res
    ELSE montPow(montMul(base, base, N), rshift(exp, 1), N,
                 IF Bit(exp, 0) = 1 THEN montMul(res, base, N) ELSE res)
transform(a, N) == montMul(a, R2(N), N)
reduce(a, N) == montMul(a, 1, N)
============================================================================
