------------------------------- MODULE MCSieve -------------------------------
EXTENDS SieveKernel
Job(n, ix, st, v) == [N |-> n, idx |-> ix, start |-> st, variant |-> v]
MCJobs == {Job(n, ix, st, "narrow") : n \in {1081, 1649, 2021, 3599, 2759}, ix \in {<<1, 3>>, <<2, 3>>, <<1, 2>>},
                                      st \in {-16, -12}}
          \cup {Job(2021, <<1, 2>>, -12, "wide"), Job(2759, <<2, 3>>, -12, "u8sat")}
==============================================================================
