-------------------------- MODULE MCBlockWiedemann --------------------------
(* Matrices of three rows, nilpotent, of rank one and two and with a kernel of *)
(* their own, and vectors that a small formula scatters.                       *)
EXTENDS BlockWiedemann, TLC

Rows(a, b, c) == (0 :> a) @@ (1 :> b) @@ (2 :> c)

MCMatrices ==
    {Rows({}, {0}, {1}), Rows({0, 1}, {0, 1}, {2}), Rows({1}, {0, 2}, {1}), Rows({0, 2}, {0}, {2})}
MCBlocks == {<<1, 1>>, <<1, 2>>, <<2, 2>>, <<3, 2>>}
MCFills == {{}, {0, 1}}
MCSeeds == {1, 2}
MCRandomVector(sd, rows, width) ==
    [r \in Upto(rows) |->
        {c \in Upto(width) : (((sd * 5) + (r * 3) + (c * r * sd) + (7 * c)) % 11) % 3 # 0}]
=============================================================================
