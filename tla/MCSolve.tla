------------------------------- MODULE MCSolve -------------------------------
(***************************************************************************)
(* Relations for N = 1649 = 17 * 97 over the factor base 5, 7, 23.         *)
(***************************************************************************)
EXTENDS Solve

MCFactorBase == <<5, 7, 23>>
Rel(sq, neg, v2, f, lp, chars) == [sq |-> sq, neg |-> neg, v2 |-> v2, f |-> f, lp |-> lp, chars |-> chars]
None == [i \in {} |-> 0]
F1(i, e) == [x \in {i} |-> e]
F2(i, d, j, e) == [x \in {i, j} |-> IF x = i THEN d ELSE e]

\* Two combined relations (their large primes squared), pairs of partials, a partial on its own.
First == [smooths  |-> <<Rel(27, TRUE, 3, F2(1, 1, 3, 1), 1, {}), Rel(42, FALSE, 0, F2(1, 1, 3, 1), 1, {1}),
                         Rel(41, FALSE, 5, None, 1, {}), Rel(33, TRUE, 4, F2(1, 1, 2, 1), 1, {}),
                         Rel((44 * 79) % 1649, FALSE, 4, F1(2, 2), 41, {1})>>,
          partials |-> <<Rel(45, FALSE, 3, None, 47, {1}), Rel(49, FALSE, 4, None, 47, {}), Rel(38, TRUE, 0, F1(1, 1), 41, {}),
                         Rel(31, TRUE, 4, None, 43, {})>>]
\* Columns of weight three, so that merges share a pivot.
Second == [smooths  |-> <<Rel(33, TRUE, 4, F2(1, 1, 2, 1), 1, {}), Rel(47, FALSE, 4, F2(1, 1, 2, 1), 1, {1}),
                          Rel(23, TRUE, 5, F2(1, 1, 2, 1), 1, {}), Rel(41, FALSE, 5, None, 1, {}),
                          Rel(43, FALSE, 3, F1(1, 2), 1, {}), Rel(39, TRUE, 7, None, 1, {1})>>,
           partials |-> <<>>]
\* More rows than columns, so that truncation has rows to drop.
Third == [smooths  |-> <<Rel(33, TRUE, 4, F2(1, 1, 2, 1), 1, {}), Rel(47, FALSE, 4, F2(1, 1, 2, 1), 1, {1}),
                         Rel(37, TRUE, 3, F2(1, 1, 2, 1), 1, {}), Rel(41, FALSE, 5, None, 1, {}),
                         Rel(57, FALSE, 6, F1(1, 2), 1, {}), Rel(39, TRUE, 7, None, 1, {1}),
                         Rel(65, FALSE, 4, F2(2, 1, 3, 1), 1, {}), Rel(27, TRUE, 3, F2(1, 1, 3, 1), 1, {1})>>,
          partials |-> <<Rel(45, FALSE, 3, None, 47, {}), Rel(49, FALSE, 4, None, 47, {})>>]
Base == [mode |-> "PREPROCESS", force |-> FALSE, backend |-> "GPU", solo |-> TRUE, post |-> TRUE, maxRows |-> 0,
         lpShare |-> 60, truncate |-> 0, cycles |-> 1, floor |-> 50, chars |-> "NONE", sqrtLegacy |-> FALSE]
Packed == {[Base EXCEPT !.force = TRUE],
           [Base EXCEPT !.cycles = 0, !.chars = "BRANCH", !.sqrtLegacy = TRUE],
           [Base EXCEPT !.force = TRUE, !.truncate = 110, !.chars = "NORM"],
           [Base EXCEPT !.force = TRUE, !.lpShare = 0]}
Expanded == {[Base EXCEPT !.backend = "CPU"], [Base EXCEPT !.force = TRUE, !.backend = "CPU", !.truncate = 110, !.sqrtLegacy = TRUE],
             [Base EXCEPT !.solo = FALSE, !.post = FALSE, !.chars = "NORM"],
             [Base EXCEPT !.mode = "LEGACY", !.force = TRUE, !.backend = "CPU", !.chars = "BRANCH", !.lpShare = 0]}
Legacy == {[Base EXCEPT !.mode = "LEGACY"], [Base EXCEPT !.mode = "LEGACY", !.post = FALSE, !.maxRows = 2],
           [Base EXCEPT !.mode = "LEGACY", !.post = FALSE, !.maxRows = 4, !.chars = "NORM", !.sqrtLegacy = TRUE],
           [Base EXCEPT !.mode = "LEGACY", !.chars = "BRANCH"]}
MCInputs == {First, Second, Third}
MCConfigs == Packed \cup Expanded \cup Legacy
=============================================================================
