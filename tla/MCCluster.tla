----------------------------- MODULE MCCluster -----------------------------
(* The faults a run of ClusterSieve may meet. *)
EXTENDS ClusterSieve

None == [crash |-> 0, request |-> 0, hardcap |-> 0, sendfail |-> 0, recall |-> 0, save |-> 0,
         prompt |-> TRUE]

\* Every fault at once in time, and timeouts that fire too early around a checkpoint.
Faults == {[None EXCEPT !.crash = 1, !.hardcap = 1, !.sendfail = 1, !.recall = 1],
           [None EXCEPT !.crash = 1, !.request = 1, !.save = 1, !.prompt = FALSE]}

\* The faults after which the run must still end, and those after which it must miss nothing.
Ends == {[None EXCEPT !.crash = 1, !.hardcap = 1, !.sendfail = 1],
         [None EXCEPT !.sendfail = 1]}
=============================================================================
