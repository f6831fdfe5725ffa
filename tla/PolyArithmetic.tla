--------------------------- MODULE PolyArithmetic ---------------------------
(***************************************************************************)
(* Products of polynomials with matrix coefficients over GF(2)             *)
(* (src/linalg/src/lingen/operations): the convolution kernels, the        *)
(* additions and copies, and Karatsuba's recursion over views of shared    *)
(* device memory.                                                          *)
(*                                                                         *)
(* The device memory is the function mem from cells, one for each          *)
(* coefficient, to coefficients, and a view is a first cell and a length.  *)
(* A coefficient is a formal sum: the set of its terms, a term being the   *)
(* sequence of the input coefficients it multiplies, in order.  Adding is  *)
(* the symmetric difference, so what holds of formal coefficients holds of *)
(* matrices of every size with every entry.  The kernels of one call run   *)
(* in order, on one stream.                                                *)
(***************************************************************************)
EXTENDS Integers, Sequences, FiniteSets

LOCAL INSTANCE FiniteSetsExt

View(at, len) == [at |-> at, len |-> len]
split(v, off, len) == View(v.at + off, len)

Plus(p, q) == (p \ q) \union (q \ p)
Times(p, q) == {s \o t : s \in p, t \in q}
Least(a, b) == IF a < b THEN a ELSE b
Most(a, b) == IF a > b THEN a ELSE b

\* The sum over i in I of A[i] B[k - i].
SumOf(mem, A, B, k, I) ==
    FoldSet(LAMBDA i, acc : Plus(acc, Times(mem[A.at + i], mem[B.at + k - i])), {}, I)

\* mem with v(k) in cell k of C, for k below len.
Written(mem, C, len, v(_)) ==
    [c \in DOMAIN mem |-> IF c \in C.at .. C.at + len - 1 THEN v(c - C.at) ELSE mem[c]]

poly_add_gpu(mem, dst, src) ==
    Written(mem, dst, Least(dst.len, src.len), LAMBDA k : Plus(mem[dst.at + k], mem[src.at + k]))
poly_zero_gpu(mem, v) == Written(mem, v, v.len, LAMBDA k : {})
poly_copy_gpu(mem, dst, src) == Written(mem, dst, Least(dst.len, src.len), LAMBDA k : mem[src.at + k])

(***************************************************************************)
(* The leaves.  A block computes the coefficient k of the product, or MPB  *)
(* of them, the last block some beyond the product, which it drops.        *)
(***************************************************************************)
k_naive_conv_fused(mem, C, A, B) ==
    Written(mem, C, A.len + B.len - 1,
            LAMBDA k : SumOf(mem, A, B, k, Most(0, k - B.len + 1) .. Least(k, A.len - 1)))

k_naive_conv_fused_smemB(mem, C, A, B) ==
    Written(mem, C, A.len + B.len - 1,
            LAMBDA k : SumOf(mem, A, B, k, Most(0, k - B.len + 1) .. Least(k, A.len - 1)))

k_naive_conv_fused_smemB_mpb(mem, C, A, B, MPB) ==
    LET blocks == (A.len + B.len - 1 + MPB - 1) \div MPB
        active(k) == k < A.len + B.len - 1
        acc(k) == IF active(k)
                  THEN SumOf(mem, A, B, k, {i \in 0 .. A.len - 1 : k - i >= 0 /\ k - i < B.len})
                  ELSE mem[C.at + k]
    IN  Written(mem, C, blocks * MPB, acc)

\* The leaf the tuner chose, and the one the build chose, by the size N of the matrices.
karatsuba_launch_leaf(mem, C, A, B, leaf, MPB) ==
    CASE leaf = "global" -> k_naive_conv_fused(mem, C, A, B)
      [] leaf = "smemB"  -> k_naive_conv_fused_smemB(mem, C, A, B)
      [] leaf = "mpb"    -> k_naive_conv_fused_smemB_mpb(mem, C, A, B, MPB)

launch_leaf_conv(mem, C, A, B, wide) ==
    IF wide THEN k_naive_conv_fused_smemB(mem, C, A, B) ELSE k_naive_conv_fused(mem, C, A, B)

\* The host's reference clears C and adds up the products that fit it.
poly_mul_naive_cpu(mem, C, A, B) ==
    Written(mem, C, C.len, LAMBDA k : SumOf(mem, A, B, k, {i \in 0 .. A.len - 1 : k - i \in 0 .. B.len - 1}))

(***************************************************************************)
(* Karatsuba.  With A = A0 + X^k A1 and B = B0 + X^k B1 the outer products *)
(* A0 B0 and A1 B1 go straight into C, the cell between them is cleared,   *)
(* and (A0 + A1)(B0 + B1) less both is added in the middle.  The work      *)
(* space holds the two sums, their product, and what the recursion needs.  *)
(***************************************************************************)
Halves(A, B) ==
    LET k == (Least(A.len, B.len) + 1) \div 2
    IN  [k |-> k, A0 |-> split(A, 0, k), A1 |-> split(A, k, A.len - k),
                  B0 |-> split(B, 0, k), B1 |-> split(B, k, B.len - k)]

\* The views of the work space at ws, and the first cell that is left.
Scratch(h, ws) ==
    LET alen == Most(h.A0.len, h.A1.len)
        blen == Most(h.B0.len, h.B1.len)
    IN  [Asum |-> View(ws, alen), Bsum |-> View(ws + alen, blen),
         Tmix |-> View(ws + alen + blen, alen + blen - 1),
         next |-> ws + 2 * (alen + blen) - 1]

Gap_Kept(mem, C, from, to) == mem
Gap(mem, C, from, to) == IF from < to THEN poly_zero_gpu(mem, split(C, from, to - from)) ELSE mem

SumInto(mem, dst, lo, hi) == poly_add_gpu(poly_copy_gpu(poly_zero_gpu(mem, dst), dst, lo), dst, hi)

Recombine(mem, C, k, T0, T1, Tmix) ==
    LET both == poly_add_gpu(poly_add_gpu(mem, Tmix, T0), Tmix, T1)
        len  == Least(Tmix.len, C.len - k)
    IN  IF k < C.len THEN poly_add_gpu(both, split(C, k, len), split(Tmix, 0, len)) ELSE both

RECURSIVE karatsuba_mul(_, _, _, _, _, _, _)
karatsuba_mul(mem, C, A, B, ws, threshold, wide) ==
    LET h  == Halves(A, B)
        s  == Scratch(h, ws)
        z0 == h.A0.len + h.B0.len - 1
        z2 == IF 2 * h.k >= C.len THEN 0 ELSE Least(h.A1.len + h.B1.len - 1, C.len - 2 * h.k)
        T0 == split(C, 0, z0)
        T1 == split(C, 2 * h.k, z2)
        m0 == karatsuba_mul(mem, T0, h.A0, h.B0, ws, threshold, wide)
        m1 == IF z2 > 0 THEN karatsuba_mul(m0, T1, h.A1, h.B1, s.next, threshold, wide) ELSE m0
        m2 == Gap(m1, C, z0, Least(2 * h.k, C.len))
        m3 == SumInto(SumInto(m2, s.Asum, h.A0, h.A1), s.Bsum, h.B0, h.B1)
        m4 == karatsuba_mul(m3, s.Tmix, s.Asum, s.Bsum, s.next, threshold, wide)
    IN  IF A.len = 0 \/ B.len = 0 THEN mem
        ELSE IF A.len < threshold \/ B.len < threshold \/ h.k \in {0, A.len, B.len}
        THEN launch_leaf_conv(mem, C, A, B, wide)
        ELSE Recombine(m4, C, h.k, T0, T1, s.Tmix)

karatsuba_workspace_size(maxLen) == 8 * maxLen

\* Below the threshold the chosen leaf, else the recursion with the build's leaf.
karatsuba_mul_tuned(mem, C, A, B, ws, cfg) ==
    IF A.len = 0 \/ B.len = 0 THEN mem
    ELSE IF A.len < cfg.threshold \/ B.len < cfg.threshold
    THEN karatsuba_launch_leaf(mem, C, A, B, cfg.leaf, cfg.mpb)
    ELSE karatsuba_mul(mem, C, A, B, ws, cfg.threshold, cfg.wide)

\* C, A, B and ws are the first cells of the buffers.
poly_mul(mem, C, A, lenA, B, lenB, ws, cfg) ==
    karatsuba_mul_tuned(mem, View(C, lenA + lenB - 1), View(A, lenA), View(B, lenB), ws, cfg)
=============================================================================
