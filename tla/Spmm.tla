-------------------------------- MODULE Spmm --------------------------------
(***************************************************************************)
(* The product of a sparse matrix over GF(2) with a block of vectors       *)
(* (src/linalg/cuda_spmm): the compressed formats, the kernels that read   *)
(* them, the plan that cuts the rows into segments with a format each, and *)
(* the permutations around it.                                             *)
(*                                                                         *)
(* A matrix is a number of columns and, for each row from 0, the sequence  *)
(* of its columns in increasing order.  The vector is formal: its entry c  *)
(* is the symbol c, a sum of entries is a set of symbols and adding is the *)
(* symmetric difference.  So the product is right for every vector exactly *)
(* when row r of the result is the set of columns of row r.  Every width   *)
(* of the code is a constant here.                                         *)
(***************************************************************************)
EXTENDS Integers, Sequences, FiniteSets

LOCAL INSTANCE SequencesExt
LOCAL INSTANCE TLC

CONSTANTS
    DeltaMax,     \* largest delta of the 16-bit stream (0xFFFF)
    ByteValues,   \* values of a byte (256)
    BlockItems,   \* deltas in a PFOR block (128)
    WordBits,     \* bits of a word, which a packed coordinate fills (32)
    HostColBits,  \* column bits of a coordinate the host packs (22)
    Lanes,        \* threads of a warp (32)
    PatternRows   \* rows of an M4RM pattern (8)

Rows(mat) == Cardinality(DOMAIN mat.rows)
Xor(p, q) == (p \ q) \union (q \ p)
Sum(s) == FoldLeft(LAMBDA acc, c : Xor(acc, {c}), {}, s)
Ceil(a, b) == (a + b - 1) \div b
Fewer(a, b) == IF a < b THEN a ELSE b
More(a, b) == IF a > b THEN a ELSE b

\* C with the columns cols(r) added to each of count rows from first.
AddRows(C, first, count, cols(_)) ==
    [r \in DOMAIN C |-> IF r \in first .. first + count - 1 THEN Xor(C[r], Sum(cols(r))) ELSE C[r]]

\* Streams of all rows behind each other; row r is from offsets[r] up to offsets[r + 1].
Streams(n, enc(_)) ==
    LET upto[r \in 0 .. n] == IF r = 0 THEN <<>> ELSE upto[r - 1] \o enc(r - 1)
    IN  [data |-> upto[n], offsets |-> [r \in 0 .. n |-> Len(upto[r])]]
Slice(st, r) == SubSeq(st.data, st.offsets[r] + 1, st.offsets[r + 1])

\* What the threads of a block take from positions 1 .. n, each in strides of T, u at a time.
RECURSIVE Visits(_, _, _, _)
Visits(i, n, T, u) ==
    IF i + (u - 1) * T <= n THEN [k \in 1 .. u |-> i + (k - 1) * T] \o Visits(i + u * T, n, T, u)
    ELSE SelectSeq([k \in 1 .. u - 1 |-> i + (k - 1) * T], LAMBDA x : x <= n)
Strided(s, T, u) ==
    LET taken == FlattenSeq([t \in 1 .. T |-> Visits(t, Len(s), T, u)])
    IN  [i \in DOMAIN taken |-> s[taken[i]]]

\* The columns from limit on, and their distances, the first from limit - 1.
Sparse(row, limit) == SelectSeq(row, LAMBDA c : c >= limit)
Deltas(row, limit) ==
    LET s == Sparse(row, limit) IN [j \in DOMAIN s |-> s[j] - (IF j = 1 THEN limit - 1 ELSE s[j - 1])]
\* The columns that deltas lead to.
Columns(deltas, limit) ==
    LET col[j \in 0 .. Len(deltas)] == IF j = 0 THEN limit - 1 ELSE col[j - 1] + deltas[j]
    IN  [j \in DOMAIN deltas |-> col[j]]

(***************************************************************************)
(* Tiled coordinates: the entries of tile rows packed as row and column.   *)
(* The order of the entries of a tile only matters for speed.              *)
(***************************************************************************)
Pack(row, col, bits) == ((row * 2 ^ bits) % 2 ^ WordBits) + (col % 2 ^ bits)

Tiles(rows, from, to, limit, tile, bits) ==
    [b \in 0 .. Ceil(to - from, tile) - 1 |->
        LET lo == from + b * tile
            hi == Fewer(lo + tile, to)
        IN  FlattenSeq([i \in 1 .. hi - lo |->
                LET s == Sparse(rows[lo + i - 1], limit) IN [j \in DOMAIN s |-> Pack(i - 1, s[j], bits)]])]

generate_tiled_coo(rows, from, to, limit, tile) ==
    LET tiles == Tiles(rows, from, to, limit, tile, HostColBits)
    IN  [b \in DOMAIN tiles |-> SortSeq(tiles[b], LAMBDA x, y : x % 2 ^ HostColBits < y % 2 ^ HostColBits)]

\* The least bits that hold the rows of a tile leave the others to the column.
tiledcoo_col_bits(tile) == WordBits - (CHOOSE b \in 0 .. WordBits : 2 ^ b >= tile /\ (b = 0 \/ 2 ^ (b - 1) < tile))

\* Each tile is summed in shared memory and then added to the rows of C that exist.
TileSum(tiles, b, i, bits) ==
    Sum(LET here == SelectSeq(tiles[b], LAMBDA p : p \div 2 ^ bits = i)
        IN  [j \in DOMAIN here |-> here[j] % 2 ^ bits])
kernel_tiled_coo_writeback(C, tiles, first, total, tile, bits) ==
    [g \in DOMAIN C |->
        IF g >= first /\ g < total /\ (g - first) \div tile \in DOMAIN tiles
        THEN Xor(C[g], TileSum(tiles, (g - first) \div tile, (g - first) % tile, bits)) ELSE C[g]]
kernel_tiled_coo_writeback_unrolled(C, tiles, first, total, tile, bits) ==
    kernel_tiled_coo_writeback(C, [b \in DOMAIN tiles |-> Strided(tiles[b], Lanes, 2)], first, total, tile, bits)

(***************************************************************************)
(* The dense columns as bits of words, and the heavy rows as bits or as a  *)
(* list of columns.                                                        *)
(***************************************************************************)
Bitmap(cols, width) == [w \in 0 .. Ceil(width, WordBits) - 1 |-> {c % WordBits : c \in {d \in cols : d \div WordBits = w}}]
Bits(words) == FlattenSeq([w \in 1 .. Cardinality(DOMAIN words) |->
                   [k \in 1 .. WordBits |-> IF k - 1 \in words[w - 1] THEN {(w - 1) * WordBits + k - 1} ELSE {}]])
DenseParts(rows, n, n_heavy, limit, cols) ==
    [dense  |-> [r \in 0 .. n - 1 |-> Bitmap({c \in ToSet(rows[r]) : c < limit}, limit)],
     bitmap |-> [r \in 0 .. n_heavy - 1 |-> Bitmap({c - limit : c \in {d \in ToSet(rows[r]) : d >= limit}}, cols - limit)],
     csr    |-> Streams(n, LAMBDA r : IF r < n_heavy THEN Sparse(rows[r], limit) ELSE <<>>)]

kernel_dense_bitslice(C, m) ==
    [r \in DOMAIN C |-> IF r >= m.n_rows THEN C[r]
                        ELSE Xor(C[r], {c \in UNION ToSet(Bits(m.dense[r])) : c < m.n_dense})]
kernel_heavy_warp_csr(C, m) == AddRows(C, 0, m.n_heavy, LAMBDA r : Strided(Slice(m.csr, r), Lanes, 4))
kernel_heavy_bitmap(C, m) ==
    [r \in DOMAIN C |-> IF r >= m.n_heavy THEN C[r]
                        ELSE Xor(C[r], {m.n_dense + c : c \in UNION ToSet(Strided(Bits(m.bitmap[r]), 1, 1))})]
kernel_sparse_warp_csr(C, csr, n) == AddRows(C, 0, n, LAMBDA r : Strided(Slice(csr, r), 1, 4))

(***************************************************************************)
(* 16-bit deltas: a distance that does not fit is preceded by pairs of the *)
(* largest delta and zero.                                                 *)
(***************************************************************************)
RECURSIVE Escaped(_)
Escaped(d) == IF d > DeltaMax THEN <<DeltaMax, 0>> \o Escaped(d - DeltaMax) ELSE <<d>>
DeltaStream(rows, n, first, limit) ==
    Streams(n, LAMBDA r : IF r < first THEN <<>>
                          ELSE LET d == Deltas(rows[r], limit) IN FlattenSeq([j \in DOMAIN d |-> Escaped(d[j])]))

\* The device computes the offsets before the entries: one for each column where none can need an
\* escape, else counted, and each row writes from its own offset.
k_delta16_escape_sizes(row) ==
    LET d == Deltas(row, 0)
        size[j \in 0 .. Len(d)] == IF j = 0 THEN 0 ELSE size[j - 1] + 1 + 2 * ((d[j] - 1) \div DeltaMax)
    IN  size[Len(d)]
k_delta16_encode(rows, n, offsets) ==
    LET enc == DeltaStream(rows, n, 0, 0)
    IN  [i \in 1 .. offsets[n] |->
            LET r == CHOOSE q \in 0 .. n - 1 : offsets[q] < i /\ i <= offsets[q + 1]
            IN  Slice(enc, r)[i - offsets[r]]]
gpu_convert_csr_to_delta16(rows, n, cols) ==
    LET size(r) == IF cols <= DeltaMax THEN Len(rows[r]) ELSE k_delta16_escape_sizes(rows[r])
        off[r \in 0 .. n] == IF r = 0 THEN 0 ELSE off[r - 1] + size(r - 1)
    IN  [data |-> k_delta16_encode(rows, n, off), offsets |-> off]

RECURSIVE Unescaped(_, _, _, _)
Unescaped(s, i, col, cols) ==
    IF i > Len(s) THEN <<>>
    ELSE IF cols > DeltaMax /\ s[i] = DeltaMax /\ i + 1 <= Len(s) /\ s[i + 1] = 0
    THEN Unescaped(s, i + 2, col + s[i], cols)
    ELSE (IF s[i] # 0 THEN <<col + s[i]>> ELSE <<>>) \o Unescaped(s, i + 1, col + s[i], cols)
kernel_sparse_delta_16(C, st, limit, active, first, cols) ==
    AddRows(C, first, active, LAMBDA r : Unescaped(Slice(st, r), 1, limit - 1, cols))

(***************************************************************************)
(* PFOR: blocks of deltas, each as wide as its largest one needs, in bytes *)
(* aligned to that width.                                                  *)
(***************************************************************************)
Blocks(deltas) == [b \in 1 .. Ceil(Len(deltas), BlockItems) |->
                      SubSeq(deltas, (b - 1) * BlockItems + 1, Fewer(b * BlockItems, Len(deltas)))]
RowBlocks(rows, n, first, limit) ==
    Streams(n, LAMBDA r : IF r < first THEN <<>> ELSE Blocks(Deltas(rows[r], limit)))
Largest(s) == FoldLeft(More, 0, s)
Bytes(v, k) == [i \in 1 .. k |-> (v \div ByteValues ^ (i - 1)) % ByteValues]
Number(bytes) == FoldRight(LAMBDA x, acc : x + ByteValues * acc, bytes, 0)

PforBlock(st, block) ==
    LET width   == IF Largest(block) >= ByteValues ^ 2 THEN 4 ELSE IF Largest(block) >= ByteValues THEN 2 ELSE 1
        padding == (width - (Len(st.data) % width)) % width
        at      == st.data \o [i \in 1 .. padding |-> 0]
    IN  [meta |-> Append(st.meta, [count |-> Len(block), width |-> width, at |-> Len(at)]),
         data |-> at \o FlattenSeq([j \in DOMAIN block |-> Bytes(block[j], width)])]
Pfor(rows, n, first, limit) ==
    LET blocks == RowBlocks(rows, n, first, limit)
        st     == FoldLeft(PforBlock, [meta |-> <<>>, data |-> <<>>], blocks.data)
    IN  [bytes |-> st.data, data |-> st.meta, offsets |-> blocks.offsets]

kernel_sparse_pfor(C, p, limit, active, first) ==
    AddRows(C, first, active, LAMBDA r :
        LET metas == Slice(p, r)
            delta(m, i) == Number(SubSeq(p.bytes, m.at + (i - 1) * m.width + 1, m.at + i * m.width))
        IN  Columns(FlattenSeq([b \in DOMAIN metas |-> [i \in 1 .. metas[b].count |-> delta(metas[b], i)]]), limit))

(***************************************************************************)
(* Bit-exact PFOR: as many bits as the delta at the threshold needs, the   *)
(* larger ones kept aside as exceptions.                                   *)
(***************************************************************************)
BitLength(v) == CHOOSE b \in 0 .. 2 * WordBits : v < 2 ^ b /\ (b = 0 \/ v >= 2 ^ (b - 1))
Words(vals, b) ==
    LET bits == FlattenSeq([j \in DOMAIN vals |-> [k \in 1 .. b |-> (vals[j] \div 2 ^ (k - 1)) % 2]])
        bit(i) == IF i <= Len(bits) THEN bits[i] ELSE 0
        word(w) == FoldRight(LAMBDA x, acc : x + 2 * acc, [k \in 1 .. WordBits |-> bit((w - 1) * WordBits + k)], 0)
    IN  [w \in 1 .. Ceil(Len(bits), WordBits) |-> word(w)]

BitExactBlock(st, block, thr) ==
    LET sorted == SortSeq(block, <)
        b      == BitLength(sorted[1 + Fewer((Len(block) * thr[1]) \div thr[2], Len(block) - 1)])
        excess == SelectSeq([j \in DOMAIN block |-> j], LAMBDA j : block[j] > 2 ^ b - 1)
    IN  [meta |-> Append(st.meta, [count |-> Len(block), b |-> b, at |-> Len(st.data), nex |-> Len(excess), ex |-> Len(st.ex)]),
         ex   |-> st.ex \o [j \in DOMAIN excess |-> [idx |-> excess[j], val |-> block[excess[j]]]],
         data |-> st.data \o Words([j \in DOMAIN block |-> block[j] % 2 ^ b], b)]
BitExact(rows, n, first, limit, thr) ==
    LET blocks == RowBlocks(rows, n, first, limit)
        st     == FoldLeft(LAMBDA s, block : BitExactBlock(s, block, thr), [meta |-> <<>>, ex |-> <<>>, data |-> <<>>], blocks.data)
    IN  [words |-> st.data \o [i \in 1 .. BlockItems + 4 |-> 0], ex |-> st.ex, data |-> st.meta, offsets |-> blocks.offsets]

\* Two neighbouring words hold a value; the exceptions then replace theirs.
kernel_sparse_pfor_bit_exact(C, p, limit, active, first) ==
    AddRows(C, first, active, LAMBDA r :
        LET metas == Slice(p, r)
            value(m, i) == LET pos == (i - 1) * m.b
                               w   == m.at + (pos \div WordBits) + 1
                           IN  ((p.words[w] + p.words[w + 1] * 2 ^ WordBits) \div 2 ^ (pos % WordBits)) % 2 ^ m.b
            excepted(m, i) == {e \in m.ex + 1 .. m.ex + m.nex : p.ex[e].idx = i}
            delta(m, i) == IF excepted(m, i) = {} THEN value(m, i) ELSE p.ex[CHOOSE e \in excepted(m, i) : TRUE].val
        IN  Columns(FlattenSeq([b \in DOMAIN metas |-> [i \in 1 .. metas[b].count |-> delta(metas[b], i)]]), limit))

(***************************************************************************)
(* Golomb-Rice: remainders as words, quotients in unary as one stream of   *)
(* bits over all rows, the parameter k shared by the rows of a warp.       *)
(***************************************************************************)
calculate_optimal_k(gaps) ==
    LET total == FoldLeft(+, 0, gaps)
    IN  IF total <= Len(gaps) THEN 0 ELSE CHOOSE k \in 0 .. WordBits : 2 ^ k * Len(gaps) <= total /\ total < 2 ^ (k + 1) * Len(gaps)

Golomb(rows, n, first, limit) ==
    LET gaps(r) == IF r < first THEN <<>> ELSE LET d == Deltas(rows[r], limit) IN [j \in DOMAIN d |-> d[j] - 1]
        k == [w \in 0 .. Ceil(n, Lanes) - 1 |->
                 calculate_optimal_k(FlattenSeq([i \in 1 .. Fewer(Lanes, n - w * Lanes) |-> gaps(w * Lanes + i - 1)]))]
        unary(r) == FlattenSeq([j \in DOMAIN gaps(r) |-> [i \in 1 .. gaps(r)[j] \div 2 ^ k[r \div Lanes] |-> 1] \o <<0>>])
        rems == Streams(n, LAMBDA r : [j \in DOMAIN gaps(r) |-> gaps(r)[j] % 2 ^ k[r \div Lanes]])
        quos == Streams(n, unary)
    IN  [k |-> k, data |-> rems.data, offsets |-> rems.offsets, bits |-> quos.data, at |-> quos.offsets]

RECURSIVE Ones(_, _)
Ones(bits, i) == IF bits[i] = 1 THEN 1 + Ones(bits, i + 1) ELSE 0
kernel_sparse_golomb(C, g, limit, active, first) ==
    AddRows(C, first, active, LAMBDA r :
        LET rem == Slice(g, r)
            \* the bit position before the j-th quotient
            pos[j \in 1 .. Len(rem) + 1] == IF j = 1 THEN g.at[r] + 1 ELSE pos[j - 1] + Ones(g.bits, pos[j - 1]) + 1
        IN  Columns([j \in DOMAIN rem |-> Ones(g.bits, pos[j]) * 2 ^ g.k[r \div Lanes] + rem[j] + 1], limit))

(***************************************************************************)
(* M4RM: each column's pattern says which of a few rows it is in.  The     *)
(* kernel sums the entries with the same pattern and then, bit by bit, the *)
(* patterns that contain a row.                                            *)
(***************************************************************************)
prepare_m4rm_streams(rows, n, cols, num_rows) ==
    IF num_rows # PatternRows THEN <<>>
    ELSE [c \in 1 .. cols |-> {r \in 0 .. Fewer(num_rows, n) - 1 : c - 1 \in ToSet(rows[r])}]

RECURSIVE binary_search_device(_, _, _, _)
binary_search_device(s, lo, hi, target) ==
    LET mid == lo + (hi - lo) \div 2
    IN  /\ lo < hi
        /\ \/ s[mid] = target
           \/ s[mid] < target /\ binary_search_device(s, mid + 1, hi, target)
           \/ s[mid] > target /\ binary_search_device(s, lo, mid, target)
k_m4rm_encode(rows, n, cols) ==
    [c \in 1 .. cols |-> {r \in 0 .. Fewer(PatternRows, n) - 1 : binary_search_device(rows[r], 1, Len(rows[r]) + 1, c - 1)}]

m4rm_inverse_kernel(C, patterns) ==
    LET buckets == [p \in SUBSET (0 .. PatternRows - 1) |-> {c - 1 : c \in {d \in DOMAIN patterns : patterns[d] = p}}]
        fold(acc, k) == [p \in DOMAIN acc |-> IF k \in p THEN acc[p] ELSE Xor(acc[p], acc[p \union {k}])]
        acc == FoldLeft(fold, buckets, [k \in 1 .. PatternRows |-> k - 1])
    IN  [r \in DOMAIN C |-> IF r < PatternRows THEN Xor(C[r], acc[{r}]) ELSE C[r]]
=============================================================================
