---------------------------- MODULE MCRelations ----------------------------
(* Candidates of N = 1649 with factor base 5, 7: 41, 43, 57 are full, 19, 27, 42, 65, 73 leave the
   prime 23, 17, 51 leave 17, 5, 53 leave 29. *)
EXTENDS Relations

MCFactorBase == [i \in 1 .. 2 |-> IF i = 1 THEN 5 ELSE 7]
C(u) == [u |-> u, idx |-> <<1, 2>>]
Cs(us) == [i \in DOMAIN us |-> C(us[i])]

Roomy == [batches |-> <<<<Cs(<<41, 19>>), Cs(<<17>>)>>, <<Cs(<<27, 51>>), Cs(<<42>>)>>>>,
          rels |-> 6, partRels |-> 3, witRels |-> 6, outRels |-> 3, facts |-> 12, targetCap |-> 9, lpBound |-> 90,
          hashBits |-> 1, slabRows |-> 2, rowWidth |-> 2, purge |-> TRUE, cpu |-> FALSE, async |-> FALSE]
MCScenarios == {
    Roomy,
    [Roomy EXCEPT !.batches = <<<<Cs(<<19>>), Cs(<<27>>)>>, <<Cs(<<42>>), Cs(<<65>>)>>, <<Cs(<<73, 41>>)>>>>, !.rowWidth = 4],
    [Roomy EXCEPT !.batches = <<<<Cs(<<19>>), Cs(<<5>>)>>, <<Cs(<<27>>), Cs(<<19>>)>>, <<Cs(<<42>>), Cs(<<53>>)>>>>,
                  !.purge = FALSE, !.async = TRUE],
    [Roomy EXCEPT !.batches = <<<<Cs(<<41, 43>>), Cs(<<57>>), Cs(<<19>>)>>, <<Cs(<<27, 42>>), Cs(<<65>>)>>>>,
                  !.rels = 3, !.partRels = 2, !.targetCap = 2, !.outRels = 1, !.purge = FALSE],
    [Roomy EXCEPT !.batches = <<<<Cs(<<19, 27, 17>>), Cs(<<5>>)>>>>, !.rowWidth = 1, !.slabRows = 1, !.witRels = 3, !.partRels = 4],
    [Roomy EXCEPT !.batches = <<<<Cs(<<41, 19>>), Cs(<<17, 27>>)>>, <<Cs(<<43, 51>>), Cs(<<42, 65>>)>>, <<Cs(<<73>>)>>>>, !.partRels = 4, !.cpu = TRUE]
}

\* The large primes of the scenarios have positive tags, as the proofs about the table suppose.
ASSUME PrimesTagged ==
    \A s \in MCScenarios : \A k \in DOMAIN s.batches : \A w \in DOMAIN s.batches[k] : \A c \in DOMAIN s.batches[k][w] :
        LET p == processCandidate(s.batches[k][w][c]).lp IN p = 1 \/ (p \div 2) \div 2 ^ s.hashBits > 0
=============================================================================
