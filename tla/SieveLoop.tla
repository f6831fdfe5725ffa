----------------------------- MODULE SieveLoop -----------------------------
(***************************************************************************)
(* The sieving loops of SieveStage (orchestrator.cpp): the host thread     *)
(* enqueues work on the siever's stream "S", on the post-processing stream *)
(* "P" (the large-prime matcher is constructed on that same stream) and,   *)
(* in a cluster, on the extraction stream "X", and reads counters the      *)
(* device publishes in pinned memory.  A stream is a FIFO queue; the order *)
(* between streams is whatever the recorded and awaited events impose.     *)
(*                                                                         *)
(* A batch is one position of the walk over the leading coefficients.      *)
(* Sieving it yields at most one full relation and one partial; a token is *)
(* a record of the position and of the kind ("f", "p", or "c" for the full *)
(* relation the matcher makes of a partial).  The persistent batch is an   *)
(* array with two counters: the plain one, and the packed one through      *)
(* which trial division appends.                                           *)
(***************************************************************************)
EXTENDS Integers, Sequences, SequencesExt, FiniteSets, FiniteSetsExt

CONSTANTS
    Scenarios,  \* configurations explored, see TypeOK
    FirstYield, \* relations assumed of a graph batch before the first replay (600)
    MaxSaves,   \* bound: checkpoints written
    MaxResieves \* bound: re-sieve iterations (the code stops at a relation count)

VARIABLES
    sc,     \* the configuration of this run
    q,      \* stream -> queue of operations
    issued, \* event -> how often the host has recorded it
    done,   \* event -> the latest record the device has reached
    dev,    \* device memory
    pin,    \* counters in pinned memory: pers, part, acc, term
    host,   \* the host's local state
    tap,    \* extraction state: staging slots, active slot, pending, prev, delivered, consumed
    file    \* the checkpoint on disk

vars == <<sc, q, issued, done, dev, pin, host, tap, file>>

Full(p) == [pos |-> p, k |-> "f"]
Part(p) == [pos |-> p, k |-> "p"]
Comb(p) == [pos |-> p, k |-> "c"]

Streams == {"S", "P", "X", "GS", "GP"}  \* GS, GP: the branches of a running graph
Bufs == 0 .. 1
Slots == 0 .. 1
Events == {<<"read", b>> : b \in Bufs} \cup {<<"write", b>> : b \in Bufs}
     \cup {<<"h2d", s>> : s \in Slots} \cup {<<"stage", s>> : s \in Slots}
     \cup {<<"extract", s>> : s \in Slots}
     \cup {<<"gread", b>> : b \in Bufs} \cup {<<"gwrite", b>> : b \in Bufs}
     \cup {<<"reset", 0>>, <<"batch", 0>>, <<"graph", 0>>}

Lp == sc.lp /\ ~sc.tap
\* resolveGraphCaptureScope.
CapturePostproc == sc.scope \in {"postproc", "full"}
CaptureLp == sc.scope = "full" /\ Lp
KeepHostSync == sc.tap \/ ~CaptureLp
\* The last batch of a replay is post-processed by the next one.
deferred_tail == sc.N % 2 = 0 /\ CaptureLp

-----------------------------------------------------------------------------
(* Enqueuing.  A host step is a sequence of instructions <<kind, stream,   *)
(* argument>>; a wait binds to the record issued last, as in CUDA.         *)

Rec(s, e) == <<"rec", s, e>>
Wait(s, e) == <<"wait", s, e>>
Op(s, o) == <<"op", s, o>>

Enqueue(st, ins) ==
    CASE ins[1] = "rec"  -> [q |-> [st.q EXCEPT ![ins[2]] = Append(@, [op |-> "rec", e |-> ins[3], n |-> st.ev[ins[3]] + 1])],
                             ev |-> [st.ev EXCEPT ![ins[3]] = @ + 1]]
      [] ins[1] = "wait" -> [st EXCEPT !.q[ins[2]] = Append(@, [op |-> "wait", e |-> ins[3], n |-> st.ev[ins[3]]])]
      [] OTHER           -> [st EXCEPT !.q[ins[2]] = Append(@, ins[3])]
Issue(instrs) ==
    LET st == FoldLeft(Enqueue, [q |-> q, ev |-> issued], instrs)
    IN  q' = st.q /\ issued' = st.ev

Idle(s) == q[s] = <<>>
Reached(e) == done[e] = issued[e]

\* A finite sequence built from a function of its index.
Each(n, F(_)) == FlattenSeq([i \in 1 .. n |-> F(i)])
When(c, s) == IF c THEN s ELSE <<>>

\* processBatchBufferedCandidates: trial division of a buffer and everything behind it on the
\* stream, up to the record that frees the buffer.
postProcess(s, b, r, w) ==
    <<Wait(s, <<r, b>>), Op(s, [op |-> "divide", b |-> b]), Op(s, [op |-> "clear", b |-> b]), Rec(s, <<w, b>>)>>

\* launchDeviceAppend and resyncPersistentDualCounter.
drainLp_NoResync(s) == <<Op(s, [op |-> "append"])>>
drainLp(s) == <<Op(s, [op |-> "append"]), Op(s, [op |-> "resync"])>>
\* processAndCommitAsync, then resetPartialBatch.
lpPass(s) == <<Op(s, [op |-> "match"]), Op(s, [op |-> "resetPartial"])>>
\* issueLpBlock: inside a graph the append follows its own match.
issueLpBlock(s) == <<Op(s, [op |-> "match"]), Op(s, [op |-> "append"]), Op(s, [op |-> "resync"]), Op(s, [op |-> "resetPartial"])>>
lpGateFor(i) == CaptureLp /\ i % sc.stride = sc.stride - 1

\* enqueue_batch with an index slot of the siever: prepareSievingBatch, runSievingBatch, postProcess.
batchBody(slot, b) ==
    <<Wait("S", <<"write", b>>), Op("S", [op |-> "h2d", slot |-> slot]), Rec("S", <<"h2d", slot>>),
      Op("S", [op |-> "sieve", b |-> b, src |-> -1]), Rec("S", <<"read", b>>)>>
    \o postProcess("P", b, "read", "write")

\* The captured graph: per batch the sieve branch and the post-processing branch; s is the active
\* buffer at capture.  With the deferred tail the replay opens with the previous one's last buffer.
graphBatch(s, i) ==
    LET deferred == deferred_tail
        b == (s + i + (IF deferred THEN 1 ELSE 0)) % 2
        waits == IF deferred THEN i >= 1 ELSE i >= 2
        processed == ~deferred \/ i + 1 < sc.N
    IN  When(waits, <<Wait("GS", <<"gwrite", b>>)>>)
        \o <<Op("GS", [op |-> "sieve", b |-> b, src |-> i]), Rec("GS", <<"gread", b>>)>>
        \o When(processed, postProcess("GP", b, "gread", "gwrite") \o When(lpGateFor(i), issueLpBlock("GP")))
graphBody(s) ==
    IF ~CapturePostproc
    THEN Each(sc.N, LAMBDA i : <<Op("GS", [op |-> "sieve", b |-> s, src |-> i - 1])>>)
    ELSE When(deferred_tail, <<Rec("GS", <<"gread", s>>)>> \o postProcess("GP", s, "gread", "gwrite")
                             \o When(lpGateFor(sc.N - 1), issueLpBlock("GP")))
         \o Each(sc.N, LAMBDA i : graphBatch(s, i - 1))

-----------------------------------------------------------------------------
(* The device executes the operation at the head of a stream. *)

\* A set in some fixed order: the order of concurrent appends does not matter here.
Listed(S) == FoldSet(LAMBDA x, acc : Append(acc, x), <<>>, S)
\* An array written from position `at' on.
Put(a, at, new) ==
    [i \in 1 .. (IF Len(a) > at + Len(new) THEN Len(a) ELSE at + Len(new)) |->
        IF i > at /\ i <= at + Len(new) THEN new[i - at] ELSE a[i]]
\* append_to_soa refuses what would pass the target cap.
Admitted(n, at) == IF at >= sc.cap THEN 0 ELSE IF n > sc.cap - at THEN sc.cap - at ELSE n

divided(b) ==
    LET fulls == Listed({t \in dev.cand[b] : t.k = "f"})
        parts == Listed({t \in dev.cand[b] : t.k = "p"})
        new == SubSeq(fulls, 1, Admitted(Len(fulls), dev.dual))
    IN  [dev EXCEPT !.mem = Put(@, dev.dual, new), !.dual = @ + Len(new), !.plain = dev.dual + Len(new),
                    !.refused = @ + Len(fulls) - Len(new),
                    !.part = SubSeq(@, 1, dev.npart) \o parts, !.npart = @ + Len(parts)]

\* The matcher, all partials having one large prime: without a witness the partials become
\* witnesses, with one each combines; partials of one pass do not meet each other.
matched(n) ==
    LET seen == ToSet(SubSeq(dev.part, 1, n)) IN
    IF dev.wit = {} THEN [dev EXCEPT !.wit = seen]
    ELSE [dev EXCEPT !.out = @ \o Listed({Comb(t.pos) : t \in seen \ dev.wit})]

appended(d) ==
    LET n == Len(d.out) IN
    [d EXCEPT !.mem = Put(@, d.plain, d.out), !.plain = @ + n, !.out = <<>>]

Yields(p) == {Full(p)} \cup {Part(p)}
Sieve(o) ==
    \E got \in {g \in SUBSET Yields(IF o.src < 0 THEN dev.job ELSE dev.staged[o.src + 1]) :
                   Cardinality(g) \in sc.yields} :
        LET p == IF o.src < 0 THEN dev.job ELSE dev.staged[o.src + 1] IN
        /\ dev' = [dev EXCEPT !.cand[o.b] = @ \cup got, !.sieved = Append(@, p), !.found = @ \cup got]
        /\ UNCHANGED pin

Publish(d, acc) ==
    pin' = [pers |-> d.plain, part |-> d.npart, acc |-> acc,
            term |-> d.plain >= sc.target + sc.target \div 20]

Perform(o) ==
    CASE o.op = "h2d"    -> dev' = [dev EXCEPT !.job = host.pinned[o.slot]] /\ UNCHANGED pin
      [] o.op = "stage"  -> dev' = [dev EXCEPT !.staged = host.staged[o.slot]] /\ UNCHANGED pin
      [] o.op = "sieve"  -> Sieve(o)
      [] o.op = "divide" -> /\ dev' = divided(o.b)
                            /\ Publish(divided(o.b), Cardinality(dev.cand[o.b]))
      [] o.op = "clear"  -> dev' = [dev EXCEPT !.cand[o.b] = {}] /\ UNCHANGED pin
      [] o.op = "match"  -> dev' = matched(dev.npart) /\ UNCHANGED pin
      [] o.op = "append" -> dev' = appended(dev) /\ UNCHANGED pin
      [] o.op = "resync" -> dev' = [dev EXCEPT !.dual = dev.plain] /\ pin' = [pin EXCEPT !.pers = dev.plain]
      [] o.op = "resetPartial" -> dev' = [dev EXCEPT !.npart = 0] /\ UNCHANGED pin
      [] OTHER -> UNCHANGED <<dev, pin>>

\* A graph is one item of its stream: it starts when it is at the head and is over when its branches are.
GraphStart ==
    /\ ~Idle("S") /\ Head(q["S"]).op = "graph" /\ ~Head(q["S"]).started
    /\ LET clean == [e \in Events |-> IF e[1] \in {"gread", "gwrite"} THEN 0 ELSE issued[e]]
           st == FoldLeft(Enqueue, [q |-> [q EXCEPT !["S"][1].started = TRUE], ev |-> clean],
                          graphBody(Head(q["S"]).b))
       IN  q' = st.q /\ issued' = st.ev
    /\ done' = [e \in Events |-> IF e[1] \in {"gread", "gwrite"} THEN 0 ELSE done[e]]
    /\ UNCHANGED <<sc, dev, pin, host, tap, file>>

Ready(o) ==
    CASE o.op = "wait"  -> done[o.e] >= o.n
      [] o.op = "graph" -> o.started /\ Idle("GS") /\ Idle("GP")
      [] OTHER -> TRUE

DeviceStep(s) ==
    /\ ~Idle(s) /\ Ready(Head(q[s]))
    /\ LET o == Head(q[s]) IN
       /\ Perform(o)
       /\ done' = IF o.op = "rec" THEN [done EXCEPT ![o.e] = o.n] ELSE done
    /\ q' = [q EXCEPT ![s] = Tail(@)]
    /\ UNCHANGED <<sc, issued, host, tap, file>>

-----------------------------------------------------------------------------
(* The host. *)

Init ==
    /\ sc \in Scenarios
    /\ q = [s \in Streams |-> <<>>]
    /\ issued = [e \in Events |-> 0]
    /\ done = [e \in Events |-> 0]
    /\ dev = [cand |-> [b \in Bufs |-> {}], mem |-> <<>>, plain |-> 0, dual |-> 0, refused |-> 0,
              part |-> <<>>, npart |-> 0, wit |-> {}, out |-> <<>>, job |-> -1, staged |-> <<>>,
              sieved |-> <<>>, found |-> {}]
    /\ pin = [pers |-> 0, part |-> 0, acc |-> 0, term |-> FALSE]
    /\ host = [pc |-> IF sc.N > 0 THEN "stage" ELSE "loop", walk |-> 0, step |-> 0, batches |-> 0,
               replays |-> 0, active |-> 0, slot |-> 0, pinned |-> [s \in Slots |-> -1],
               staged |-> [s \in Slots |-> <<>>], stageSlot |-> 0, lpPending |-> FALSE,
               tail |-> FALSE, saves |-> 0, resieves |-> 0, result |-> {}, partials |-> {}]
    /\ tap = [full |-> [s \in Slots |-> <<>>], part |-> [s \in Slots |-> <<>>], active |-> 0,
              pending |-> FALSE, prev |-> 0, sent |-> <<>>, consumed |-> 0, stop |-> FALSE]
    /\ file = [step |-> 0, fulls |-> {}, partials |-> {}]

truncation_limit_reached == sc.maxBatches > 0 /\ host.batches >= sc.maxBatches
shouldStop == sc.tap /\ (tap.stop \/ tap.consumed >= sc.limit)
LoopOver == pin.pers >= sc.target \/ pin.term \/ truncation_limit_reached \/ shouldStop

At(pc) == host.pc = pc
Goto(pc) == host' = [host EXCEPT !.pc = pc]

\* prepareNextBatchIndices, N times: the walk moves on by N positions.
NextPositions == [i \in 1 .. sc.N |-> host.walk + i - 1]

\* The graph is captured on N batches prepared beforehand.
PreStage ==
    /\ At("stage")
    /\ Issue(<<Op("S", [op |-> "stage", slot |-> 0])>>)
    /\ host' = [host EXCEPT !.staged[0] = NextPositions, !.walk = @ + sc.N, !.stageSlot = 1, !.pc = "graph",
                            !.tail = CapturePostproc /\ deferred_tail]
    /\ UNCHANGED <<sc, done, dev, pin, tap, file>>

\* Leaves the graph loop while enough is left for two replays.
graphYield == IF host.replays > 0 THEN pin.pers \div host.replays ELSE sc.N * FirstYield
EnoughLeft == sc.target - pin.pers >= 2 * graphYield

\* A pinned staging set is rewritten only when the copy out of it is over.
StageFree == Reached(<<"stage", host.stageSlot>>)

Replay ==
    /\ At("graph") /\ ~LoopOver /\ EnoughLeft /\ StageFree
    /\ LET s == host.stageSlot
           b == host.active
       IN  /\ Issue(When(~CapturePostproc,
                         When(sc.tap /\ tap.pending, <<Wait("P", <<"reset", 0>>)>>) \o <<Wait("S", <<"write", b>>)>>)
                    \o <<Op("S", [op |-> "stage", slot |-> s]), Rec("S", <<"stage", s>>)>>
                    \o When(CapturePostproc /\ sc.tap /\ tap.pending, <<Wait("S", <<"reset", 0>>)>>)
                    \o <<Op("S", [op |-> "graph", b |-> b, started |-> FALSE]), Rec("S", <<"graph", 0>>)>>
                    \o When(~CapturePostproc, <<Rec("S", <<"read", b>>)>> \o postProcess("P", b, "read", "write"))
                    \o When(Lp /\ ~(CaptureLp /\ CapturePostproc),
                            When(host.lpPending, drainLp("P")) \o lpPass("P")))
           /\ host' = [host EXCEPT !.staged[s] = NextPositions, !.walk = @ + sc.N, !.stageSlot = 1 - s,
                                   !.lpPending = Lp /\ ~CaptureLp, !.pc = "gsync"]
    /\ UNCHANGED <<sc, done, dev, pin, tap, file>>

\* The per-replay synchronisation: of the post-processing stream at scope sieve, of the graph where
\* it is kept, of nothing at scope full.
Synced == IF ~CapturePostproc THEN Idle("P")
          ELSE KeepHostSync => Reached(<<"graph", 0>>) /\ (sc.tap => Idle("X"))

\* In a prompt configuration a record on the idle extraction stream is reached within the iteration.
ExtractSeen == sc.prompt => Idle("X")

\* The slot waiting to be handed to the tap goes if its event is seen completed.
Delivered(t, n) ==
    IF t.pending /\ Reached(<<"extract", 1 - t.active>>)
    THEN [t EXCEPT !.sent = IF t.stop THEN @ ELSE Append(@, [full |-> t.full[1 - t.active], part |-> t.part[1 - t.active]]),
                   !.consumed = IF t.stop THEN @ ELSE @ + n, !.pending = FALSE]
    ELSE t

\* moveRangeToHost of what is new in the persistent batch, moveToHost of the partial batch.
extracted(t) ==
    [t EXCEPT !.full[t.active] = IF pin.pers > t.prev THEN SubSeq(dev.mem, t.prev + 1, pin.pers) ELSE @,
              !.part[t.active] = IF pin.part > 0 THEN SubSeq(dev.part, 1, dev.npart) ELSE @]

\* The extraction block; rs is the stream that resets the partial batch, n the batches it stands for.
Extract(rs, n) ==
    LET t == Delivered(tap, n)
        anew == pin.pers > t.prev \/ pin.part > 0
    IN  IF anew
        THEN /\ tap' = [extracted(t) EXCEPT !.prev = pin.pers, !.active = 1 - @, !.pending = TRUE]
             /\ Issue(When(pin.part > 0, <<Op(rs, [op |-> "resetPartial"]), Rec(rs, <<"reset", 0>>)>>)
                      \o <<Rec("X", <<"extract", t.active>>)>>)
        ELSE tap' = t /\ UNCHANGED <<q, issued>>

\* Every stream is synchronised before the relations are copied.
quiesceForCheckpoint_Not == TRUE
quiesceForCheckpoint == \A s \in Streams : Idle(s)

\* checkpointWillFire, copyPersistentToHost: what reaches the file.
Checkpoint(step) ==
    /\ quiesceForCheckpoint
    /\ ~sc.tap /\ host.saves < MaxSaves
    /\ file' = [step |-> step, fulls |-> ToSet(SubSeq(dev.mem, 1, dev.plain)), partials |-> dev.wit]

\* A checkpoint at a replay boundary does not count the batch that still waits for its trial division.
ckpt_step(step) == IF host.tail /\ step >= 1 THEN step - 1 ELSE step

AfterReplay ==
    /\ At("gsync") /\ Synced /\ ExtractSeen
    /\ IF sc.tap THEN Extract("X", sc.N) ELSE UNCHANGED <<tap, q, issued>>
    /\ \/ /\ host' = [host EXCEPT !.batches = @ + sc.N, !.step = @ + sc.N, !.replays = @ + 1, !.pc = "graph"]
          /\ UNCHANGED file
       \/ /\ Checkpoint(ckpt_step(host.step + sc.N))
          /\ host' = [host EXCEPT !.batches = @ + sc.N, !.step = @ + sc.N, !.replays = @ + 1, !.saves = @ + 1,
                                  !.pc = "graph"]
    /\ UNCHANGED <<sc, done, dev, pin>>

\* The end of the graph loop: drain the matcher, then the deferred batch, then the plain loop.
GraphOver ==
    /\ At("graph") /\ (LoopOver \/ ~EnoughLeft)
    /\ Idle("S") /\ Idle("P")
    /\ LET tail == host.tail /\ host.replays > 0
           b == host.active
       IN  /\ Issue(Each(2, LAMBDA i : <<Rec("P", <<"read", i - 1>>), Rec("P", <<"write", i - 1>>)>>)
                    \o When(host.lpPending, drainLp("P"))
                    \o When(tail, postProcess("P", b, "read", "write") \o When(lpGateFor(sc.N - 1), issueLpBlock("P"))))
           /\ host' = [host EXCEPT !.lpPending = FALSE, !.active = IF tail THEN 1 - @ ELSE @, !.tail = FALSE, !.pc = "drain"]
    /\ UNCHANGED <<sc, done, dev, pin, tap, file>>
GraphDrained ==
    /\ At("drain") /\ Idle("P") /\ Goto("loop")
    /\ UNCHANGED <<sc, q, issued, done, dev, pin, tap, file>>

\* A pinned index slot is rewritten only when the copy out of it is over.
SlotFree_Always == TRUE
SlotFree_NextRecord == done[<<"h2d", host.slot>>] > issued[<<"h2d", host.slot>>]
SlotFree == Reached(<<"h2d", host.slot>>)

\* One iteration of the plain loop up to its extraction; the matcher runs every lp_interval batches.
Batch ==
    /\ At("loop") /\ ~LoopOver /\ SlotFree
    /\ LET b == host.active
           pass == Lp /\ host.batches > 0 /\ host.batches % sc.interval = 0
       IN  /\ Issue(When(sc.tap /\ tap.pending, <<Wait("P", <<"reset", 0>>)>>)
                    \o batchBody(host.slot, b)
                    \o When(sc.tap, <<Rec("P", <<"batch", 0>>)>>)
                    \o When(pass, When(host.lpPending, drainLp("P")) \o lpPass("P") \o <<Wait("S", <<"write", 1 - b>>)>>))
           /\ host' = [host EXCEPT !.pinned[host.slot] = host.walk, !.walk = @ + 1, !.slot = 1 - @, !.active = 1 - b,
                                   !.lpPending = @ \/ pass, !.pc = IF sc.tap THEN "query" ELSE "tail"]
    /\ UNCHANGED <<sc, done, dev, pin, tap, file>>

\* The extraction of the plain loop: the query of the previous slot, then the wait for this batch.
Query ==
    /\ At("query") /\ ExtractSeen
    /\ tap' = Delivered(tap, 1)
    /\ Goto("extract")
    /\ UNCHANGED <<sc, q, issued, done, dev, pin, file>>
ExtractBatch ==
    /\ At("extract") /\ Reached(<<"batch", 0>>) /\ Idle("X")
    /\ LET anew == pin.pers > tap.prev \/ pin.part > 0 IN
       /\ tap' = IF anew THEN [extracted(tap) EXCEPT !.prev = pin.pers, !.active = 1 - @, !.pending = TRUE] ELSE tap
       /\ Issue(When(pin.part > 0, <<Op("P", [op |-> "resetPartial"]), Rec("P", <<"reset", 0>>)>>)
                \o When(anew, <<Rec("X", <<"extract", tap.active>>)>>))
    /\ Goto("tail")
    /\ UNCHANGED <<sc, done, dev, pin, file>>

BatchTail ==
    /\ At("tail")
    /\ \/ /\ host' = [host EXCEPT !.batches = @ + 1, !.step = @ + 1, !.pc = "loop"]
          /\ UNCHANGED file
       \/ /\ Checkpoint(host.step + 1)
          /\ host' = [host EXCEPT !.batches = @ + 1, !.step = @ + 1, !.saves = @ + 1, !.pc = "loop"]
    /\ UNCHANGED <<sc, q, issued, done, dev, pin, tap>>

\* After the loop: the deferred append, the stragglers, the last pass of the matcher.
LoopEnd ==
    /\ At("loop") /\ LoopOver
    /\ Issue(When(host.lpPending, drainLp("P")))
    /\ host' = [host EXCEPT !.lpPending = FALSE, !.pc = "flush"]
    /\ UNCHANGED <<sc, done, dev, pin, tap, file>>
Stragglers ==
    /\ At("flush") /\ Idle("S") /\ Idle("P")
    /\ Issue(When(pin.acc > 0, postProcess("P", host.active, "read", "write")))
    /\ host' = [host EXCEPT !.active = IF pin.acc > 0 THEN 1 - @ ELSE @, !.pc = IF Lp THEN "lastpass" ELSE "finish"]
    /\ UNCHANGED <<sc, done, dev, pin, tap, file>>
\* processAndCommit: the count the host passes is the pinned one unless that is zero; its append
\* moves the plain counter only.
processAndCommit(hint) == appended(matched(IF hint > 0 THEN hint ELSE dev.npart))
LastPass ==
    /\ At("lastpass") /\ Idle("S") /\ Idle("P")
    /\ dev' = processAndCommit(pin.part)
    /\ Goto("finish")
    /\ UNCHANGED <<sc, q, issued, done, pin, tap, file>>

\* finalizePersistentToHost: deduplicate; if too few are left, make room, and re-sieve.
persisted == SubSeq(dev.mem, 1, dev.plain)
deduplicated(d) ==
    LET s == Listed(ToSet(SubSeq(d.mem, 1, d.plain))) IN [d EXCEPT !.mem = s, !.plain = Len(s)]
Finalize ==
    /\ At("finish") /\ ~sc.tap /\ Idle("S") /\ Idle("P")
    /\ LET d == deduplicated(dev) IN
       IF d.plain < sc.floor /\ host.resieves < MaxResieves
       THEN /\ dev' = [d EXCEPT !.dual = d.plain, !.npart = 0]
            /\ pin' = [pin EXCEPT !.pers = d.plain]
            /\ Goto("resieve")
       ELSE /\ dev' = d
            /\ host' = [host EXCEPT !.result = ToSet(d.mem), !.partials = d.wit, !.pc = "done"]
            /\ UNCHANGED pin
    /\ UNCHANGED <<sc, q, issued, done, tap, file>>

\* The re-sieve: one position is skipped by advance_a, the next one sieved and divided, the matcher run.
Resieve ==
    /\ At("resieve") /\ host.resieves < MaxResieves
    /\ \E got \in {g \in SUBSET Yields(host.walk + 1) : Cardinality(g) \in sc.yields} :
        LET fulls == Listed({t \in got : t.k = "f"})
            parts == Listed({t \in got : t.k = "p"})
            d == [dev EXCEPT !.mem = Put(@, dev.dual, fulls), !.dual = @ + Len(fulls), !.plain = dev.dual + Len(fulls),
                             !.part = parts, !.npart = Len(parts),
                             !.sieved = Append(@, host.walk + 1), !.found = @ \cup got]
            seen == ToSet(parts)
            m == IF d.wit = {} THEN [d EXCEPT !.wit = seen]
                 ELSE [d EXCEPT !.out = @ \o Listed({Comb(t.pos) : t \in seen \ d.wit})]
        IN  /\ dev' = IF Lp THEN [appended(m) EXCEPT !.npart = 0] ELSE d
            /\ pin' = [pin EXCEPT !.pers = d.plain]
    /\ host' = [host EXCEPT !.walk = @ + 2, !.resieves = @ + 1,
                            !.pc = IF pin'.pers >= sc.floor \/ host.resieves + 1 = MaxResieves THEN "finish" ELSE @]
    /\ UNCHANGED <<sc, q, issued, done, tap, file>>

\* In a cluster: hand over the pending slot, then what the end of the loop still produced.
FinalExtraction ==
    /\ At("finish") /\ sc.tap /\ Idle("S") /\ Idle("P") /\ Idle("X")
    /\ LET t == Delivered(tap, 1)
           last == [full |-> SubSeq(dev.mem, t.prev + 1, dev.plain),
                    part |-> IF pin.part > 0 THEN SubSeq(dev.part, 1, dev.npart) ELSE <<>>]
       IN  tap' = IF dev.plain > t.prev /\ ~t.stop
                  THEN [t EXCEPT !.sent = Append(@, last), !.consumed = @ + 1, !.prev = dev.plain] ELSE t
    /\ Goto("done")
    /\ UNCHANGED <<sc, q, issued, done, dev, pin, file>>

\* The coordinator's STOP arrives.
StopArrives ==
    /\ sc.tap /\ sc.stops /\ ~tap.stop
    /\ tap' = [tap EXCEPT !.stop = TRUE]
    /\ UNCHANGED <<sc, q, issued, done, dev, pin, host, file>>

Host == \/ PreStage \/ Replay \/ AfterReplay \/ GraphOver \/ GraphDrained
        \/ Batch \/ Query \/ ExtractBatch \/ BatchTail
        \/ LoopEnd \/ Stragglers \/ LastPass \/ Finalize \/ Resieve \/ FinalExtraction
Device == GraphStart \/ \E s \in Streams : DeviceStep(s)
Next == Host \/ Device \/ StopArrives

Spec == Init /\ [][Next]_vars
\* The host thread and the device both keep going.
FairSpec == Spec /\ WF_vars(Host) /\ WF_vars(Device)

-----------------------------------------------------------------------------
(* Properties. *)

\* No position is sieved twice and the order of the walk is kept: a pinned slot that the host
\* refills before the copy out of it has run would make two batches sieve the same indices.
SievedOnce == \A i, j \in DOMAIN dev.sieved : i < j => dev.sieved[i] < dev.sieved[j]

\* When a solo run ends, every full relation the siever found is in the result, and every partial
\* is either a stored witness or has been combined; the only loss is what the target cap refused.
SoloKeepsAll ==
    (At("done") /\ ~sc.tap /\ dev.refused = 0) =>
        \A t \in dev.found :
            IF t.k = "f" THEN t \in host.result
            ELSE Lp => t \in host.partials \/ Comb(t.pos) \in host.result

\* A checkpoint that says it covers the walk up to `step' contains the full relations of every
\* position below that, the batch still waiting in the deferred tail included.
CheckpointHolds ==
    dev.refused = 0 => \A t \in dev.found : t.k = "f" /\ t.pos < file.step => t \in file.fulls

\* When a cluster node ends its range undisturbed, every full relation and every partial found
\* has been handed to the tap.
SentFulls == UNION {ToSet(tap.sent[i].full) : i \in DOMAIN tap.sent}
SentParts == UNION {ToSet(tap.sent[i].part) : i \in DOMAIN tap.sent}
NodeHandsOverAll ==
    (At("done") /\ sc.tap /\ ~tap.stop /\ dev.refused = 0) =>
        dev.found \subseteq SentFulls \cup SentParts

\* Nothing found is lost between the device, the double buffers and the result or the tap.
NothingLost == SoloKeepsAll /\ NodeHandsOverAll

\* Every run of the loops comes to its end: no stream waits for a record that cannot come.
LoopsEnd == <>At("done")
=============================================================================
