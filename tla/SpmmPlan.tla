------------------------------ MODULE SpmmPlan ------------------------------
(***************************************************************************)
(* How the formats of Spmm are put together: the compressed matrix and the *)
(* dispatch of its kernels, vertical slices, the tuners' plans, the        *)
(* compiled segments and the permutations of the interface to block        *)
(* Wiedemann.  The times the tuners measure are inputs.                    *)
(***************************************************************************)
EXTENDS Spmm

LOCAL INSTANCE SequencesExt
LOCAL INSTANCE TLC

\* ---- one compressed matrix --------------------------------------------------
preprocess(mat, limit, heavy, thr, tile) ==
    LET n == Rows(mat)
        h == Fewer(heavy, n)
        d == DenseParts(mat.rows, n, h, limit, mat.cols)
    IN  [n_rows |-> n, n_dense |-> limit, n_heavy |-> h, cols |-> mat.cols - limit,
         tile |-> tile, bits |-> HostColBits, dense |-> d.dense, bitmap |-> d.bitmap, csr |-> d.csr, warp |-> <<>>,
         heavy_tiles |-> generate_tiled_coo(mat.rows, 0, h, limit, tile),
         tiles   |-> generate_tiled_coo(mat.rows, h, n, limit, tile),
         delta16 |-> DeltaStream(mat.rows, n, h, limit), pfor |-> Pfor(mat.rows, n, h, limit),
         be |-> BitExact(mat.rows, n, h, limit, thr), golomb |-> Golomb(mat.rows, n, h, limit)]

\* What a converter on the device fills in; everything else is null.
Nothing == [data |-> <<>>, bytes |-> <<>>, words |-> <<>>]
Converted(mat) ==
    [n_rows |-> Rows(mat), n_dense |-> 0, n_heavy |-> 0, cols |-> mat.cols, tile |-> 1, bits |-> HostColBits,
     warp |-> <<>>, tiles |-> <<>>, delta16 |-> Nothing, pfor |-> Nothing, be |-> Nothing, golomb |-> Nothing]
gpu_convert_csr_to_tiledcoo(mat, tile) ==
    [Converted(mat) EXCEPT !.tile = tile, !.bits = tiledcoo_col_bits(tile),
                           !.tiles = Tiles(mat.rows, 0, Rows(mat), 0, tile, tiledcoo_col_bits(tile))]
Convert(mat, cfg) ==
    CASE cfg.id \in {"TiledCOO", "TiledCOO_Unrolled"} -> gpu_convert_csr_to_tiledcoo(mat, cfg.size)
      [] cfg.id = "Delta16"  -> [Converted(mat) EXCEPT !.delta16 = gpu_convert_csr_to_delta16(mat.rows, Rows(mat), mat.cols)]
      [] cfg.id = "WarpCSR"  -> [Converted(mat) EXCEPT !.warp = <<Streams(Rows(mat), LAMBDA r : mat.rows[r])>>]
      [] cfg.id \in {"PForDelta_BitExact", "Golomb"} -> preprocess(mat, 0, 0, <<9, 10>>, 2)

HasTiles(tiles) == \E b \in DOMAIN tiles : tiles[b] # <<>>

to_spmm_cfg(id) ==
    CASE id = "Dense_Bitslice" -> {"dense_bitslice", "sparse", "heavy_warp_csr"}
      [] id = "Golomb" -> {"sparse"}
      [] OTHER -> {"sparse", id}

HeavyRows(C, m, cfg) ==
    IF m.n_heavy = 0 THEN C
    ELSE CASE "heavy_tiled_coo" \in cfg /\ HasTiles(m.heavy_tiles) ->
                  kernel_tiled_coo_writeback(C, m.heavy_tiles, 0, m.n_rows, m.tile, m.bits)
           [] OTHER -> CASE "heavy_warp_csr" \in cfg -> kernel_heavy_warp_csr(C, m)
                         [] "heavy_bitmap" \in cfg /\ "heavy_warp_csr" \notin cfg -> kernel_heavy_bitmap(C, m)
                         [] OTHER -> C

\* The first format that is asked for and there; Golomb's is the last resort.
SparseRows(C, m, cfg) ==
    LET count == m.n_rows - m.n_heavy IN
    IF "sparse" \notin cfg \/ count = 0 THEN C
    ELSE IF "WarpCSR" \in cfg /\ m.warp # <<>> THEN kernel_sparse_warp_csr(C, m.warp[1], m.n_rows)
    ELSE IF "TiledCOO_Unrolled" \in cfg /\ HasTiles(m.tiles)
         THEN kernel_tiled_coo_writeback_unrolled(C, m.tiles, m.n_heavy, m.n_rows, m.tile, m.bits)
    ELSE IF "TiledCOO" \in cfg /\ HasTiles(m.tiles)
         THEN kernel_tiled_coo_writeback(C, m.tiles, m.n_heavy, m.n_rows, m.tile, m.bits)
    ELSE IF "PForDelta" \in cfg /\ m.pfor.bytes # <<>> THEN kernel_sparse_pfor(C, m.pfor, m.n_dense, count, m.n_heavy)
    ELSE IF "PForDelta_BitExact" \in cfg /\ m.be.words # <<>>
         THEN kernel_sparse_pfor_bit_exact(C, m.be, m.n_dense, count, m.n_heavy)
    ELSE IF "Delta16" \in cfg /\ m.delta16.data # <<>>
         THEN kernel_sparse_delta_16(C, m.delta16, m.n_dense, count, m.n_heavy, m.cols)
    ELSE IF m.golomb.data # <<>> THEN kernel_sparse_golomb(C, m.golomb, m.n_dense, count, m.n_heavy)
    ELSE C

run_spmm(C, m, cfg) ==
    LET dense == IF "dense_bitslice" \in cfg /\ m.n_dense > 0 THEN kernel_dense_bitslice(C, m) ELSE C
    IN  SparseRows(HeavyRows(dense, m, cfg), m, cfg)

(***************************************************************************)
(* Vertical slices: a cut before the bucket of columns with which a block  *)
(* of rows would have more than most entries.  The first slice also gets   *)
(* the dense columns.                                                      *)
(***************************************************************************)
slice_matrix_vertical(mat, limit, rowBlock, most, width) ==
    LET blocks == 0 .. Ceil(Rows(mat), rowBlock) - 1
        count(b, k) == Cardinality({<<r, c>> \in (DOMAIN mat.rows) \X (limit .. mat.cols - 1) :
                          r \div rowBlock = b /\ c \in ToSet(mat.rows[r]) /\ (c - limit) \div width = k})
        step(st, k) ==
            IF \E b \in blocks : st.sums[b] + count(b, k) > most
            THEN [cuts |-> Append(st.cuts, limit + k * width), sums |-> [b \in blocks |-> count(b, k)]]
            ELSE [st EXCEPT !.sums = [b \in blocks |-> @[b] + count(b, k)]]
        buckets == [k \in 1 .. Ceil(mat.cols - limit, width) |-> k - 1]
        cuts == Append(FoldLeft(step, [cuts |-> <<limit>>, sums |-> [b \in blocks |-> 0]], buckets).cuts, mat.cols)
        keep(s, c) == (c >= cuts[s] /\ c < cuts[s + 1]) \/ (s = 1 /\ c < limit)
    IN  [s \in 1 .. Len(cuts) - 1 |->
            [mat EXCEPT !.rows = [r \in DOMAIN mat.rows |-> SelectSeq(mat.rows[r], LAMBDA c : keep(s, c))]]]
run_spmm_sliced(C, ms, cfg) == FoldLeft(LAMBDA acc, m : run_spmm(acc, m, cfg), C, ms)

(***************************************************************************)
(* The tuners cut the rows into blocks, measure every candidate on every   *)
(* block, and choose the cheapest sequence of segments.                    *)
(***************************************************************************)
Permuted(mat, perm) == [mat EXCEPT !.rows = [r \in DOMAIN mat.rows |-> mat.rows[perm[r]]]]
gpu_compute_density_permutation(mat) ==
    LET s == SortSeq([i \in 1 .. Rows(mat) |-> i - 1], LAMBDA x, y : Len(mat.rows[x]) > Len(mat.rows[y]))
    IN  [r \in DOMAIN mat.rows |-> s[r + 1]]
Part(mat, lo, hi) == [cols |-> mat.cols, rows |-> [r \in 0 .. hi - lo - 1 |-> mat.rows[lo + r]]]
Entries(mat, lo, hi) == FoldLeft(LAMBDA acc, r : acc + Len(mat.rows[r - 1]), 0, [i \in 1 .. hi - lo |-> lo + i])
device_csr_permute_by_density(mat) ==
    LET csr == Permuted(mat, gpu_compute_density_permutation(mat))
        threshold == mat.cols \div 4
    IN  [mat |-> csr, n_dense_rows |-> IF threshold = 0 THEN 0
                                       ELSE Cardinality({r \in DOMAIN csr.rows : Len(csr.rows[r]) >= threshold})]

RECURSIVE Cut(_, _, _, _, _)
Cut(lo, n, step, most, head) ==
    IF lo >= n THEN <<>>
    ELSE <<[lo |-> lo, hi |-> Fewer(lo + step, n), head |-> head]>>
         \o Cut(Fewer(lo + step, n), n, IF head THEN step ELSE Fewer(2 * step, most), most, head)
\* t holds the block sizes, and the weight below which the head of a transposed matrix is cut short.
create_exponential_blocks(csr, n_dense_rows, t, transposed) ==
    LET n    == Rows(csr)
        full == Fewer(Ceil(n_dense_rows, PatternRows) * PatternRows, n)
        head == IF transposed /\ full > 2 * PatternRows /\ Entries(csr, 0, full) < t.weight * full
                THEN 2 * PatternRows ELSE full
        step == IF transposed THEN t.fixed ELSE Fewer(More(t.initial, (n - head) \div 8), t.most)
    IN  Cut(0, head, PatternRows, PatternRows, TRUE) \o Cut(head, n, step, IF transposed THEN t.fixed ELSE t.most, FALSE)

\* The first rows in blocks of a pattern, then ever larger ones.
RECURSIVE create_atomic_blocks(_, _, _)
create_atomic_blocks(lo, n, t) ==
    LET step == IF lo < t.small THEN PatternRows ELSE IF lo < t.most THEN lo ELSE t.most
    IN  IF lo >= n THEN <<>>
        ELSE <<[lo |-> lo, hi |-> Fewer(lo + step, n), head |-> lo < t.small]>>
             \o create_atomic_blocks(Fewer(lo + step, n), n, t)

\* The configurations that compete, with the size of a pattern or of a tile.
Kernel(id, size) == [id |-> id, size |-> size]
gpu_candidate_configs(t) ==
    <<Kernel("M4RM", PatternRows)>> \o [i \in DOMAIN t.tiles |-> Kernel("TiledCOO", t.tiles[i].size)]
    \o [i \in DOMAIN t.tiles |-> Kernel("TiledCOO_Unrolled", t.tiles[i].size)]
    \o <<Kernel("WarpCSR", 2), Kernel("Delta16", 2), Kernel("PForDelta_BitExact", 2)>>
generate_candidate_configs ==
    <<Kernel("M4RM", PatternRows), Kernel("TiledCOO", 2), Kernel("Delta16", 2), Kernel("PForDelta_BitExact", 2), Kernel("Golomb", 2)>>

\* The heavier the rows, the smaller the tile: the first whose weight they reach.
select_tile_size(nnz, n, t) ==
    t.tiles[CHOOSE i \in DOMAIN t.tiles : nnz >= t.tiles[i].weight * n /\ \A j \in 1 .. i - 1 : nnz < t.tiles[j].weight * n].size

\* The candidates the tuner on the device measures on a block.
Measured(csr, block, cfg, t) ==
    LET n   == block.hi - block.lo
        nnz == Entries(csr, block.lo, block.hi)
    IN  /\ block.head <=> cfg.id = "M4RM"
        /\ cfg.id = "M4RM" => n = PatternRows
        /\ cfg.id \in {"TiledCOO", "TiledCOO_Unrolled"} =>
              /\ cfg.size = select_tile_size(nnz, n, t)
              /\ csr.cols <= 2 ^ tiledcoo_col_bits(cfg.size) - 1
        /\ cfg.id = "WarpCSR" => nnz <= t.warp * n
        /\ cfg.id = "PForDelta_BitExact" => n <= t.fallback /\ nnz >= t.prune * n

\* dp[i]: the cheapest way to cover the first i - 1 blocks, by its last segment.  A segment in
\* patterns has exactly a pattern's rows.
Impossible == 10000
Solve(blocks, configs, time, overhead) ==
    LET cost(dp, j, i, k) ==
            IF configs[k].id = "M4RM" /\ blocks[i].hi - blocks[j].lo # PatternRows THEN Impossible
            ELSE FoldLeft(LAMBDA acc, b : Fewer(Impossible, acc + time[j + b - 1, k]), dp[j].cost + overhead,
                          [b \in 1 .. i - j + 1 |-> b])
        options(dp, i) == {o \in (1 .. i) \X (DOMAIN configs) : cost(dp, o[1], i, o[2]) < Impossible}
        best(dp, i) == CHOOSE o \in options(dp, i) : \A q \in options(dp, i) :
            \/ cost(dp, o[1], i, o[2]) < cost(dp, q[1], i, q[2])
            \/ cost(dp, o[1], i, o[2]) = cost(dp, q[1], i, q[2]) /\ (o[1] < q[1] \/ (o[1] = q[1] /\ o[2] <= q[2]))
        extend(dp, i) == LET o == best(dp, i) IN Append(dp, [cost |-> cost(dp, o[1], i, o[2]), from |-> o[1], k |-> o[2]])
    IN  FoldLeft(extend, <<[cost |-> 0, from |-> 0, k |-> 0]>>, [i \in DOMAIN blocks |-> i])

\* One segment over all sparse blocks where that was measured to be faster.
Consolidated(dp, first, whole, overhead) ==
    LET B == Len(dp)
    IN  IF first < B - 1 /\ whole.cost + overhead < dp[B].cost - dp[first].cost
        THEN [dp EXCEPT ![B] = [cost |-> dp[first].cost + whole.cost + overhead, from |-> first, k |-> whole.k]]
        ELSE dp

RECURSIVE Backtrack(_, _, _, _)
Backtrack(blocks, configs, dp, curr) ==
    IF curr = 1 THEN <<>>
    ELSE Append(Backtrack(blocks, configs, dp, dp[curr].from),
                [lo |-> blocks[dp[curr].from].lo, hi |-> blocks[curr - 1].hi, cfg |-> configs[dp[curr].k]])

FirstSparse(blocks) == 1 + Cardinality({b \in DOMAIN blocks : blocks[b].head})

\* The search for the cheapest plan on the device; empty blocks cost nothing.
Searched(csr, blocks, configs, transposed, t, times, whole) ==
    LET time == [b \in DOMAIN blocks, k \in DOMAIN configs |->
                    IF ~Measured(csr, blocks[b], configs[k], t) THEN Impossible
                    ELSE IF Entries(csr, blocks[b].lo, blocks[b].hi) = 0 THEN 0 ELSE times[b][k]]
        dp == Solve(blocks, configs, time, 1)
    IN  IF transposed THEN dp ELSE Consolidated(dp, FirstSparse(blocks), whole, 1)

\* The segments with the data converted on the device.
Filled(csr, segs) ==
    LET data(s) == IF s.cfg.id = "M4RM" THEN [patterns |-> k_m4rm_encode(Part(csr, s.lo, s.hi).rows, s.hi - s.lo, csr.cols)]
                   ELSE Convert(Part(csr, s.lo, s.hi), s.cfg)
    IN  [i \in DOMAIN segs |-> [lo |-> segs[i].lo, hi |-> segs[i].hi, cfg |-> segs[i].cfg, data |-> <<data(segs[i])>>]]

\* The tuner on the device sorts the rows itself and leaves the converted data in the plan.
tune(mat, transposed, t, times, whole) ==
    LET configs == gpu_candidate_configs(t)
        best(csr, blocks) ==
            Filled(csr, Backtrack(blocks, configs, Searched(csr, blocks, configs, transposed, t, times, whole), Len(blocks) + 1))
        plan(sorted) == best(sorted.mat, create_exponential_blocks(sorted.mat, sorted.n_dense_rows, t, transposed))
    IN  [segments |-> plan(device_csr_permute_by_density(mat)), density_perm |-> gpu_compute_density_permutation(mat)]

\* The tuner on the host plans for the rows as they are, and leaves all conversion to compile.
tune_global(mat, t, times) ==
    LET configs == generate_candidate_configs
        blocks == create_atomic_blocks(0, Rows(mat), t)
        time == [b \in DOMAIN blocks, k \in DOMAIN configs |->
                    IF configs[k].id = "M4RM" /\ blocks[b].hi - blocks[b].lo # PatternRows THEN Impossible ELSE times[b][k]]
        segs == Backtrack(blocks, configs, Solve(blocks, configs, time, 1), Len(blocks) + 1)
    IN  [segments |-> [i \in DOMAIN segs |-> [lo |-> segs[i].lo, hi |-> segs[i].hi, cfg |-> segs[i].cfg, data |-> <<>>]],
         density_perm |-> <<>>]

(***************************************************************************)
(* Compiling merges neighbours with the same configuration, takes over the *)
(* data the plan holds, and converts on the host what it does not hold: a  *)
(* second compilation of a plan converts everything.                       *)
(***************************************************************************)
Merged(segs) ==
    LET same(x, y) == x.cfg.id # "M4RM" /\ x.cfg = y.cfg /\ x.hi = y.lo
        add(acc, s) == IF acc # <<>> /\ same(Last(acc), s) THEN [acc EXCEPT ![Len(acc)].hi = s.hi] ELSE Append(acc, s)
    IN  FoldLeft(add, <<>>, segs)
compile(host, plan) ==
    LET merged == Merged(plan.segments)
        part(s) == Part(IF plan.density_perm = <<>> THEN host ELSE Permuted(host, plan.density_perm), s.lo, s.hi)
        convert(s) == IF s.cfg.id = "M4RM"
                      THEN [patterns |-> prepare_m4rm_streams(part(s).rows, s.hi - s.lo, host.cols, s.cfg.size)]
                      ELSE preprocess(part(s), IF s.cfg.id = "Dense_Bitslice" THEN s.cfg.size ELSE 0, 0, <<9, 10>>,
                                      IF s.cfg.id = "Dense_Bitslice" THEN 2 ELSE s.cfg.size)
    IN  [i \in DOMAIN merged |-> [merged[i] EXCEPT !.data = IF merged[i].data # <<>> THEN merged[i].data[1] ELSE convert(merged[i])]]

\* A segment sees C from its first row on.
launch_segment(C, s) ==
    LET part == [r \in {q \in DOMAIN C : q + s.lo \in DOMAIN C} |-> C[r + s.lo]]
        done == IF s.cfg.id = "M4RM" THEN m4rm_inverse_kernel(part, s.data.patterns)
                ELSE run_spmm(part, s.data, to_spmm_cfg(s.cfg.id))
    IN  [r \in DOMAIN C |-> IF r < s.lo THEN C[r] ELSE done[r - s.lo]]
execute(C, segs) ==
    LET dense(s) == s.cfg.id \in {"M4RM", "Dense_Bitslice"}
    IN  FoldLeft(launch_segment, C, SelectSeq(segs, dense) \o SelectSeq(segs, LAMBDA s : ~dense(s)))

(***************************************************************************)
(* The interface sorts rows and columns by density, multiplies with the    *)
(* permuted matrix or its transpose, and translates the vectors.           *)
(***************************************************************************)
Inverted(map) == [i \in DOMAIN map |-> CHOOSE j \in DOMAIN map : map[j] = i]
Identity(n) == [i \in 0 .. n - 1 |-> i]
transpose(mat) ==
    [cols |-> Rows(mat),
     rows |-> [c \in 0 .. mat.cols - 1 |->
                  SelectSeq([i \in 1 .. Rows(mat) |-> i - 1], LAMBDA r : c \in ToSet(mat.rows[r]))]]
compute_density_permutation(mat, padded, transposed) ==
    gpu_compute_density_permutation(IF transposed THEN transpose([mat EXCEPT !.cols = padded]) ELSE mat)
apply_permutation_explicit(mat, padded, P_row, P_col) ==
    LET inv == Inverted(P_col)
        renamed(row) == [j \in DOMAIN row |-> inv[row[j]]]
    IN  [cols |-> padded, rows |-> [r \in DOMAIN mat.rows |-> SortSeq(renamed(mat.rows[P_row[r]]), <)]]

BlockWiedemannSpMM(mat, padded, sort) ==
    LET cols  == More(mat.cols, padded)
        P_row == IF sort THEN compute_density_permutation(mat, cols, FALSE) ELSE Identity(Rows(mat))
        P_col == IF sort THEN compute_density_permutation(mat, cols, TRUE) ELSE Identity(cols)
        A     == apply_permutation_explicit(mat, cols, P_row, P_col)
    IN  [P_row |-> P_row, P_col |-> P_col, A |-> A, AT |-> transpose(A)]

\* An entry of the input is renamed on the way in, an entry of the output moved on the way out.
PrePost(C, mapIn, mapOut) == [r \in DOMAIN C |-> {IF c < 0 THEN c ELSE mapIn[c] : c \in C[Inverted(mapOut)[r]]}]
=============================================================================
