---------------------------- MODULE MCSieveLoop ----------------------------
(* Configurations of SieveLoop. *)
EXTENDS SieveLoop

Solo == [tap |-> FALSE, lp |-> TRUE, scope |-> "sieve", N |-> 0, stride |-> 2, interval |-> 1, target |-> 9, cap |-> 20,
         floor |-> 0, limit |-> 0, maxBatches |-> 3, yields |-> {0, 2}, stops |-> FALSE, prompt |-> TRUE]

MCScenarios == {
    Solo,
    [Solo EXCEPT !.interval = 2, !.maxBatches = 4, !.yields = {2}],
    [Solo EXCEPT !.lp = FALSE, !.target = 1, !.cap = 2, !.yields = {2}],
    [Solo EXCEPT !.lp = FALSE, !.floor = 3, !.maxBatches = 2],
    [Solo EXCEPT !.N = 2, !.scope = "full", !.maxBatches = 5, !.yields = {2}],
    [Solo EXCEPT !.N = 2, !.maxBatches = 5, !.yields = {2}],
    [Solo EXCEPT !.tap = TRUE, !.limit = 2, !.maxBatches = 0, !.target = 20, !.yields = {1, 2}, !.stops = TRUE],
    [Solo EXCEPT !.tap = TRUE, !.limit = 4, !.N = 2, !.scope = "postproc", !.maxBatches = 0, !.target = 20, !.yields = {2}]
}
=============================================================================
