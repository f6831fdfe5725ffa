-------------------------- MODULE RelationsProofs --------------------------
(***************************************************************************)
(* The large-prime table on the GPU, for any number of partials, threads,  *)
(* buckets, rows and slots and every interleaving of a kernel's threads.   *)
(*                                                                         *)
(* First: with purging on, a witness is spent at most once.  The index of  *)
(* a stored witness is treated as a token.  The append kernel makes it     *)
(* when its compare-and-swap moves the witness counter, a slot of the      *)
(* table takes it over, the probe kernel's compare-and-swap takes it out   *)
(* of the slot, and the combine kernel spends it.  TokenInv says that a    *)
(* token has one holder; nothing about the bucket locks is needed.         *)
(*                                                                         *)
(* Second: nothing in the table is overwritten.  LockInv says that one     *)
(* thread per bucket is between a lock and its release, that a row belongs *)
(* to one bucket and that it is empty past the bucket's count.             *)
(*                                                                         *)
(* Third: no witness is lost.  An index once held is passed on, from slot  *)
(* to thread to combined pair, unless an overflow is counted or the        *)
(* combine refuses the match.                                              *)
(***************************************************************************)
EXTENDS Relations, SequenceTheorems, WellFoundedInduction, TLAPS

\* The scenarios the theorem is about: the table on the GPU, purging.
Purging == sc.purge /\ ~sc.cpu

\* A purged slot is all zero, so it looks like an entry with tag 0.  The large primes at work have a
\* positive tag: they are at least 2^(hash_bits+1).
Kernels == {"probe", "combine", "append"}
Tagged ==
    phase \in Kernels => \A i \in DOMAIN thr : part.meta[i].lp \in Nat /\ tagOf(part.meta[i].lp) > 0

RowIds == 0 .. sc.slabRows - 1
SlotIds == 0 .. sc.rowWidth - 1
Known == 0 .. wit.dual[1] - 1

\* The bucket directory leads to rows of the slab.
TableOK ==
    /\ dir \in [Buckets -> [count : Nat, row : Nat, locked : BOOLEAN]]
    /\ \A h \in Buckets : dir[h].count > 0 => dir[h].row \in RowIds
    /\ slab \in [RowIds -> [SlotIds -> [tag : Int, idx : Int]]]
    /\ rows \in Nat

\* The committed count and the packed counter differ only while the append kernel runs.
WitnessesOK ==
    /\ {"n", "dual"} \subseteq DOMAIN wit
    /\ wit.dual[1] \in Nat
    /\ phase # "append" => wit.n = wit.dual[1]

\* What the threads carry in their registers.
ThreadsOK ==
    /\ phase \in {"idle", "divide", "done"} \cup Kernels
    /\ phase \in Kernels => \A i \in DOMAIN thr : DOMAIN thr[i] = {"pc", "old", "base", "slot"}
    /\ phase = "probe" => \A i \in DOMAIN thr :
          /\ thr[i].pc \in {"read", "take"} => dir[hashOf(part.meta[i].lp)].count > 0
          /\ thr[i].pc = "take" => thr[i].slot \in SlotIds
    /\ phase = "append" => \A i \in DOMAIN thr : thr[i].pc \in {"enter", "release"} =>
          /\ thr[i].old \in Nat \X Nat
          /\ thr[i].old[1] > 0 => thr[i].old[2] \in RowIds

\* The holders of a token: a slot of the table, a thread, a pair combined.
InSlot(r, s, w) == slab[r][s].tag > 0 /\ slab[r][s].idx = w
InThread(i, w) ==
    /\ \/ phase = "probe" /\ thr[i].pc = "match"
       \/ phase = "combine" /\ thr[i].pc \in {"load", "cas"}
       \/ phase = "append" /\ thr[i].pc \in {"lock", "enter"}
    /\ thr[i].base[1] = w
Spent(j, w) == used[j].w = w

TokensKnown ==
    /\ \A w : \A r \in RowIds, s \in SlotIds : InSlot(r, s, w) => w \in Known
    /\ \A w : \A i \in DOMAIN thr : InThread(i, w) => w \in Known
    /\ \A w : \A j \in DOMAIN used : Spent(j, w) => w \in Known

OneHolder ==
    /\ \A w : \A r1, r2 \in RowIds, s1, s2 \in SlotIds :
          InSlot(r1, s1, w) /\ InSlot(r2, s2, w) => r1 = r2 /\ s1 = s2
    /\ \A w : \A i, k \in DOMAIN thr : InThread(i, w) /\ InThread(k, w) => i = k
    /\ \A w : \A j, l \in DOMAIN used : Spent(j, w) /\ Spent(l, w) => j = l
    /\ \A w : \A r \in RowIds, s \in SlotIds, i \in DOMAIN thr : ~(InSlot(r, s, w) /\ InThread(i, w))
    /\ \A w : \A r \in RowIds, s \in SlotIds, j \in DOMAIN used : ~(InSlot(r, s, w) /\ Spent(j, w))
    /\ \A w : \A i \in DOMAIN thr, j \in DOMAIN used : ~(InThread(i, w) /\ Spent(j, w))

UsedOK == used \in Seq({used[j] : j \in DOMAIN used})

Parts == TableOK /\ WitnessesOK /\ ThreadsOK /\ UsedOK /\ TokensKnown /\ OneHolder
TokenInv == sc \in Scenarios /\ (Purging => Parts)

-----------------------------------------------------------------------------
(* Facts about the operators of the model. *)

\* The bucket of a large prime is a bucket, its tag an integer.
LEMMA HashRange ==
  ASSUME NEW B \in Nat \ {0}, NEW p \in Nat
  PROVE  (p \div 2) % B \in 0 .. B - 1 /\ (p \div 2) \div B \in Int
<1>1. p \div 2 \in Nat
  OBVIOUS
<1> QED BY <1>1

LEMMA Hashed ==
  ASSUME sc \in Scenarios, NEW p \in Nat
  PROVE  hashOf(p) \in Buckets /\ tagOf(p) \in Int
<1>1. 2 ^ sc.hashBits \in Nat \ {0}
  BY ScenariosAssumption
<1>2. (p \div 2) % 2 ^ sc.hashBits \in 0 .. 2 ^ sc.hashBits - 1 /\ (p \div 2) \div 2 ^ sc.hashBits \in Int
  BY <1>1, HashRange
<1> QED BY <1>2 DEF hashOf, tagOf, Buckets

\* The first slot with the tag is one of them.
LEMMA MinIsMember ==
  ASSUME NEW S, S \subseteq Nat, S # {}
  PROVE  Min(S) \in S
<1> DEFINE Lt == {p \in Nat \X Nat : p[1] < p[2]}
<1>1. IsWellFoundedOn(Lt, Nat)
  BY NatLessThanWellFounded, Zenon DEF OpToRel
<1>2. PICK x \in S : \A y \in S : ~ (<<y, x>> \in Lt)
  <2> HIDE DEF Lt
  <2> QED BY <1>1, WFMin
<1>3. \A y \in S : x <= y
  <2> TAKE y \in S
  <2>1. x \in Nat /\ y \in Nat
    OBVIOUS
  <2>2. ~ (y < x)
    BY <1>2, <2>1
  <2> QED BY <2>1, <2>2
<1> QED BY <1>3 DEF Min

\* Writing a relation leaves the counters of a batch alone.
LEMMA StoredKeeps ==
  ASSUME NEW b, NEW i, NEW fpos, NEW r, {"n", "dual"} \subseteq DOMAIN b
  PROVE  LET c == Stored(b, i, fpos, r)
         IN  DOMAIN c = DOMAIN b /\ c.n = b.n /\ c.dual = b.dual
BY DEF Stored

-----------------------------------------------------------------------------
(* Tokens that stay where they are. *)

\* A step that neither changes the table nor spends, gives no thread a token and does not lower the
\* witness counter keeps the tokens in order.
LEMMA TokensStay ==
  ASSUME TokensKnown, OneHolder, WitnessesOK,
         sc' = sc, slab' = slab, used' = used,
         wit.dual[1]' \in Nat, wit.dual[1]' >= wit.dual[1],
         \A w : \A i \in DOMAIN thr' : InThread(i, w)' => i \in DOMAIN thr /\ InThread(i, w)
  PROVE  TokensKnown' /\ OneHolder'
<1>1. Known \subseteq Known'
  BY DEF Known, WitnessesOK
<1>2. RowIds' = RowIds /\ SlotIds' = SlotIds
  BY DEF RowIds, SlotIds
<1>3. \A r, s, w : InSlot(r, s, w)' <=> InSlot(r, s, w)
  BY DEF InSlot
<1>4. \A j, w : Spent(j, w)' <=> Spent(j, w)
  BY DEF Spent
<1>5. DOMAIN used' = DOMAIN used
  OBVIOUS
<1>6. TokensKnown'
  BY <1>1, <1>2, <1>3, <1>4, <1>5 DEF TokensKnown
<1>7. OneHolder'
  BY <1>2, <1>3, <1>4, <1>5 DEF OneHolder
<1> QED BY <1>6, <1>7

-----------------------------------------------------------------------------
(* The steps, one lemma each. *)

\* What every step starts from.
Ready == sc \in Scenarios /\ Purging /\ Parts

\* Trial division and the end of the run do not touch the table.
LEMMA StepOutside ==
  ASSUME Ready, UNCHANGED <<sc, wit, dir, slab, rows, used>>,
         phase # "append", phase' \in {"idle", "divide", "done"}
  PROVE  Parts'
<1> USE DEF Ready, Parts
<1>1. TableOK'
  BY DEF TableOK, Buckets, RowIds, SlotIds
<1>2. WitnessesOK'
  BY DEF WitnessesOK
<1>3. ThreadsOK'
  BY DEF ThreadsOK, Kernels
<1>4. UsedOK'
  BY DEF UsedOK
<1>5. \A w : \A i \in DOMAIN thr' : ~ InThread(i, w)'
  BY DEF InThread
<1>6. wit.dual[1]' \in Nat /\ wit.dual[1]' >= wit.dual[1]
  BY DEF WitnessesOK
<1>7. TokensKnown' /\ OneHolder'
  BY <1>5, <1>6, TokensStay
<1> QED BY <1>1, <1>2, <1>3, <1>4, <1>7

\* A kernel's step that leaves the table, the witnesses and the pairs alone.
LEMMA StepInside ==
  ASSUME Ready, UNCHANGED <<sc, wit, dir, slab, rows, used>>,
         phase \in Kernels, phase' \in Kernels, phase = "append" => phase' = "append",
         ThreadsOK',
         \A w : \A i \in DOMAIN thr' : InThread(i, w)' => i \in DOMAIN thr /\ InThread(i, w)
  PROVE  Parts'
<1> USE DEF Ready, Parts
<1>1. TableOK'
  BY DEF TableOK, Buckets, RowIds, SlotIds
<1>2. phase' # "append" => wit.n' = wit.dual[1]'
  BY DEF WitnessesOK
<1>2a. WitnessesOK'
  BY <1>2 DEF WitnessesOK
<1>4. UsedOK'
  BY DEF UsedOK
<1>6. wit.dual[1]' \in Nat /\ wit.dual[1]' >= wit.dual[1]
  BY DEF WitnessesOK
<1>7. TokensKnown' /\ OneHolder'
  BY <1>6, TokensStay
<1> QED BY <1>1, <1>2a, <1>4, <1>7

LEMMA StepFactorizationEnds ==
  ASSUME Ready, Tagged', FactorizationEnds
  PROVE  Parts'
<1> USE DEF Ready, Parts
<1>1. /\ UNCHANGED <<sc, wit, dir, slab, rows, used>> /\ phase = "divide" /\ phase' = "probe"
      /\ thr' = [i \in 0 .. part'.n - 1 |->
                   Thread(IF dir[hashOf(part'.meta[i].lp)].count = 0 THEN "insert" ELSE "read")]
  BY DEF FactorizationEnds, KernelOver, Purging
<1>2. ASSUME NEW i \in DOMAIN thr'
      PROVE  /\ DOMAIN thr'[i] = {"pc", "old", "base", "slot"}
             /\ thr'[i].pc \in {"insert", "read"}
             /\ thr'[i].pc = "read" => dir[hashOf(part'.meta[i].lp)].count > 0
  <2>1. thr'[i] = Thread(IF dir[hashOf(part'.meta[i].lp)].count = 0 THEN "insert" ELSE "read")
    BY <1>1
  <2>2. part'.meta[i].lp \in Nat
    BY <1>1 DEF Tagged, Kernels
  <2>3. hashOf(part'.meta[i].lp) \in Buckets
    BY <2>2, Hashed
  <2>4. dir[hashOf(part'.meta[i].lp)].count \in Nat
    BY <2>3 DEF TableOK
  <2> QED BY <2>1, <2>4 DEF Thread
<1>3. ThreadsOK'
  BY <1>1, <1>2 DEF ThreadsOK, Kernels, hashOf
<1>4. \A w : \A i \in DOMAIN thr' : ~ InThread(i, w)'
  BY <1>1, <1>2 DEF InThread
<1>5. TableOK'
  BY <1>1 DEF TableOK, Buckets, RowIds, SlotIds
<1>6. WitnessesOK' /\ UsedOK'
  BY <1>1 DEF WitnessesOK, UsedOK
<1>7. wit.dual[1]' \in Nat /\ wit.dual[1]' >= wit.dual[1]
  BY <1>1 DEF WitnessesOK
<1>8. TokensKnown' /\ OneHolder'
  BY <1>1, <1>4, <1>7, TokensStay
<1> QED BY <1>3, <1>5, <1>6, <1>8

LEMMA StepProbe ==
  ASSUME Ready, Tagged, NEW i \in DOMAIN thr, Probe(i)
  PROVE  Parts'
<1> USE DEF Ready, Parts
<1> DEFINE p == part.meta[i].lp
           row == slab[dir[hashOf(p)].row]
           hits == {s \in DOMAIN row : row[s].tag = tagOf(p)}
<1>1. /\ UNCHANGED <<sc, wit, dir, slab, rows, used, part>> /\ phase = "probe" /\ phase' = "probe"
      /\ thr[i].pc = "read"
      /\ DOMAIN thr[i] = {"pc", "old", "base", "slot"}
  BY DEF Probe, ThreadsOK, Kernels
<1>2. hashOf(p) \in Buckets
  BY <1>1, Hashed DEF Tagged, Kernels
<1>3. dir[hashOf(p)].row \in RowIds
  BY <1>1, <1>2 DEF TableOK, ThreadsOK
<1>4. DOMAIN row = SlotIds
  BY <1>3 DEF TableOK
<1>5. hits # {} => Min(hits) \in SlotIds
  <2>1. hits \subseteq Nat
    BY <1>4, ScenariosAssumption DEF SlotIds
  <2>2. hits \subseteq SlotIds
    BY <1>4
  <2> HIDE DEF hits
  <2> QED BY <2>1, <2>2, MinIsMember
<1>6. \/ thr' = [thr EXCEPT ![i].pc = "insert"]
      \/ /\ hits # {}
         /\ thr' = [thr EXCEPT ![i].pc = "take", ![i].slot = Min(hits), ![i].base = <<row[Min(hits)].idx, 0>>]
  BY DEF Probe, Step, Purging
<1> HIDE DEF p, row, hits
<1>7. /\ DOMAIN thr' = DOMAIN thr
      /\ \A k \in DOMAIN thr : k # i => thr'[k] = thr[k]
      /\ DOMAIN thr'[i] = {"pc", "old", "base", "slot"}
      /\ thr'[i].pc \in {"insert", "take"}
      /\ thr'[i].pc = "take" => thr'[i].slot \in SlotIds
  <2>1. CASE thr' = [thr EXCEPT ![i].pc = "insert"]
    BY <1>1, <2>1
  <2>2. CASE /\ hits # {}
             /\ thr' = [thr EXCEPT ![i].pc = "take", ![i].slot = Min(hits), ![i].base = <<row[Min(hits)].idx, 0>>]
    <3> DEFINE m == Min(hits)
               x == <<row[Min(hits)].idx, 0>>
    <3>1. m \in SlotIds /\ thr' = [thr EXCEPT ![i].pc = "take", ![i].slot = m, ![i].base = x]
      BY <1>5, <2>2
    <3> HIDE DEF m, x
    <3> QED BY <1>1, <3>1
  <2> QED BY <1>6, <2>1, <2>2
<1>8. ThreadsOK'
  <2> SUFFICES ASSUME NEW k \in DOMAIN thr
               PROVE  /\ DOMAIN thr'[k] = {"pc", "old", "base", "slot"}
                      /\ thr'[k].pc \in {"read", "take"} => dir[hashOf(part.meta[k].lp)].count > 0
                      /\ thr'[k].pc = "take" => thr'[k].slot \in SlotIds
    BY <1>1, <1>7 DEF ThreadsOK, Kernels, hashOf, SlotIds, RowIds
  <2> QED BY <1>1, <1>7 DEF ThreadsOK, Kernels
<1>9. \A w : \A k \in DOMAIN thr' : InThread(k, w)' => k \in DOMAIN thr /\ InThread(k, w)
  BY <1>1, <1>7 DEF InThread
<1> QED BY <1>1, <1>8, <1>9, StepInside DEF Kernels

\* The compare-and-swap of the probe moves the token of the slot to the thread that wins.
LEMMA StepTake ==
  ASSUME Ready, Tagged, NEW i \in DOMAIN thr, Take(i)
  PROVE  Parts'
<1> USE DEF Ready, Parts
<1> DEFINE p == part.meta[i].lp
           r == dir[hashOf(p)].row
           s == thr[i].slot
           w0 == thr[i].base[1]
           t == takeSlot(slab[r], s, [tag |-> tagOf(p), idx |-> w0])
<1>1. /\ UNCHANGED <<sc, wit, dir, rows, used, part>> /\ phase = "probe" /\ phase' = "probe"
      /\ thr[i].pc = "take"
      /\ DOMAIN thr[i] = {"pc", "old", "base", "slot"}
      /\ s \in SlotIds
  BY DEF Take, ThreadsOK, Kernels
<1>2. hashOf(p) \in Buckets /\ tagOf(p) \in Int /\ tagOf(p) > 0
  BY <1>1, Hashed DEF Tagged, Kernels
<1>3. r \in RowIds
  BY <1>1, <1>2 DEF TableOK, ThreadsOK
<1>4. slab' = [slab EXCEPT ![r] = t.row] /\ thr' = [thr EXCEPT ![i].pc = IF t.won THEN "match" ELSE "insert"]
  BY DEF Take, Step
<1>5. /\ DOMAIN thr' = DOMAIN thr
      /\ \A k \in DOMAIN thr : k # i => thr'[k] = thr[k]
      /\ DOMAIN thr'[i] = {"pc", "old", "base", "slot"}
      /\ thr'[i].pc = IF t.won THEN "match" ELSE "insert"
      /\ thr'[i].base = thr[i].base
  <2> HIDE DEF t
  <2> QED BY <1>1, <1>4
<1>6. ThreadsOK'
  <2>1. thr'[i].pc \in {"match", "insert"}
    BY <1>5
  <2> SUFFICES ASSUME NEW k \in DOMAIN thr
               PROVE  /\ DOMAIN thr'[k] = {"pc", "old", "base", "slot"}
                      /\ thr'[k].pc \in {"read", "take"} => dir[hashOf(part.meta[k].lp)].count > 0
                      /\ thr'[k].pc = "take" => thr'[k].slot \in SlotIds
    BY <1>1, <1>5 DEF ThreadsOK, Kernels, hashOf, SlotIds, RowIds
  <2> HIDE DEF t
  <2> QED BY <1>1, <1>5, <2>1 DEF ThreadsOK, Kernels
<1>7. CASE slab[r][s] # [tag |-> tagOf(p), idx |-> w0]
  <2>1. t.row = slab[r] /\ ~t.won
    BY <1>7 DEF takeSlot
  <2>2. slab' = slab
    BY <1>3, <1>4, <2>1 DEF TableOK
  <2>3. \A w : \A k \in DOMAIN thr' : InThread(k, w)' => k \in DOMAIN thr /\ InThread(k, w)
    <3> HIDE DEF t
    <3> QED BY <1>1, <1>5, <2>1 DEF InThread
  <2> QED BY <1>1, <1>6, <2>2, <2>3, StepInside DEF Kernels
<1>8. CASE slab[r][s] = [tag |-> tagOf(p), idx |-> w0]
  <2>1. t.row = [slab[r] EXCEPT ![s] = Purged] /\ t.won
    BY <1>8 DEF takeSlot
  <2>2. InSlot(r, s, w0)
    BY <1>2, <1>8 DEF InSlot
  <2>3. slab' = [slab EXCEPT ![r] = [slab[r] EXCEPT ![s] = Purged]]
    BY <1>4, <2>1
  <2>4. thr'[i].pc = "match"
    BY <1>5, <2>1
  <2> HIDE DEF t, p, r, s, w0
  <2>5. Purged \in [tag : Int, idx : Int] /\ ~ (Purged.tag > 0)
    BY DEF Purged
  <2>6. slab' \in [RowIds -> [SlotIds -> [tag : Int, idx : Int]]]
    BY <1>1, <1>3, <2>3, <2>5 DEF TableOK
  <2>7. TableOK'
    BY <1>1, <2>6 DEF TableOK, Buckets, RowIds, SlotIds
  <2>8. \A w : \A r1 \in RowIds, s1 \in SlotIds : InSlot(r1, s1, w)' => InSlot(r1, s1, w) /\ ~ (r1 = r /\ s1 = s)
    BY <1>1, <1>3, <2>3, <2>5 DEF TableOK, InSlot
  <2>9. \A w : \A k \in DOMAIN thr : InThread(k, w)' => (k = i /\ w = w0) \/ (k # i /\ InThread(k, w))
    BY <1>1, <1>5, <2>4 DEF InThread, w0
  <2>10. RowIds' = RowIds /\ SlotIds' = SlotIds /\ Known' = Known
    BY <1>1 DEF RowIds, SlotIds, Known
  <2>11. \A j, w : Spent(j, w)' <=> Spent(j, w)
    BY <1>1 DEF Spent
  <2>12. TokensKnown'
    BY <1>1, <1>3, <1>5, <2>2, <2>8, <2>9, <2>10, <2>11 DEF TokensKnown
  <2>13. OneHolder'
    BY <1>1, <1>3, <1>5, <2>2, <2>8, <2>9, <2>10, <2>11 DEF OneHolder
  <2> QED BY <1>1, <1>6, <2>7, <2>12, <2>13 DEF WitnessesOK, UsedOK
<1> QED BY <1>7, <1>8

\* Between the probe and the combine the counters are reloaded from the committed counts.
LEMMA StepProbeEnds ==
  ASSUME Ready, ProbeEnds
  PROVE  Parts'
<1> USE DEF Ready, Parts
<1>1. /\ UNCHANGED <<sc, dir, slab, rows, used>> /\ phase = "probe" /\ phase' = "combine"
      /\ wit' = [wit EXCEPT !.dual = <<wit.n, wit.nf>>]
      /\ \A i \in DOMAIN thr : thr[i].pc \in {"match", "insert"}
      /\ thr' = [i \in DOMAIN thr |->
                 [thr[i] EXCEPT !.pc = IF @ = "insert" THEN "insert"
                                       ELSE IF combinable(Input(i), Rel(wit, thr[i].base[1])) THEN "load"
                                       ELSE "done"]]
  BY DEF ProbeEnds, Resynced
<1>2. /\ DOMAIN thr' = DOMAIN thr
      /\ \A i \in DOMAIN thr : /\ DOMAIN thr'[i] = {"pc", "old", "base", "slot"}
                               /\ thr'[i].base = thr[i].base
                               /\ thr[i].pc = "insert" => thr'[i].pc = "insert"
  <2> SUFFICES ASSUME NEW i \in DOMAIN thr
               PROVE  /\ DOMAIN thr'[i] = {"pc", "old", "base", "slot"}
                      /\ thr'[i].base = thr[i].base
                      /\ thr[i].pc = "insert" => thr'[i].pc = "insert"
    BY <1>1
  <2>1. DOMAIN thr[i] = {"pc", "old", "base", "slot"}
    BY <1>1 DEF ThreadsOK, Kernels
  <2>2. PICK x : thr'[i] = [thr[i] EXCEPT !.pc = IF thr[i].pc = "insert" THEN "insert" ELSE x]
    BY <1>1
  <2> QED BY <2>1, <2>2
<1>3. ThreadsOK'
  BY <1>1, <1>2 DEF ThreadsOK, Kernels
<1>4. \A w : \A i \in DOMAIN thr' : InThread(i, w)' => i \in DOMAIN thr /\ InThread(i, w)
  BY <1>1, <1>2 DEF InThread
<1>5. DOMAIN wit' = DOMAIN wit /\ wit'.n = wit.n /\ wit'.dual[1] = wit.n
  BY <1>1 DEF WitnessesOK
<1>6. WitnessesOK' /\ wit.dual[1]' \in Nat /\ wit.dual[1]' >= wit.dual[1]
  BY <1>1, <1>5 DEF WitnessesOK
<1>7. TableOK' /\ UsedOK'
  BY <1>1 DEF TableOK, Buckets, RowIds, SlotIds, UsedOK
<1>8. TokensKnown' /\ OneHolder'
  BY <1>1, <1>4, <1>6, TokensStay
<1> QED BY <1>3, <1>6, <1>7, <1>8

LEMMA StepCombineLoad ==
  ASSUME Ready, NEW i \in DOMAIN thr, CombineLoad(i)
  PROVE  Parts'
<1> USE DEF Ready, Parts
<1>1. /\ UNCHANGED <<sc, wit, dir, slab, rows, used>> /\ phase = "combine" /\ phase' = "combine"
      /\ thr[i].pc = "load"
      /\ DOMAIN thr[i] = {"pc", "old", "base", "slot"}
      /\ thr' = [thr EXCEPT ![i].pc = "cas", ![i].old = out.dual]
  BY DEF CombineLoad, ThreadsOK, Kernels
<1>2. /\ DOMAIN thr' = DOMAIN thr
      /\ \A k \in DOMAIN thr : k # i => thr'[k] = thr[k]
      /\ DOMAIN thr'[i] = {"pc", "old", "base", "slot"}
      /\ thr'[i].base = thr[i].base
  BY <1>1
<1>3. ThreadsOK'
  BY <1>1, <1>2 DEF ThreadsOK, Kernels
<1>4. \A w : \A k \in DOMAIN thr' : InThread(k, w)' => k \in DOMAIN thr /\ InThread(k, w)
  BY <1>1, <1>2 DEF InThread
<1> QED BY <1>1, <1>3, <1>4, StepInside DEF Kernels

LEMMA StepCombineEnds ==
  ASSUME Ready, CombineEnds
  PROVE  Parts'
<1> USE DEF Ready, Parts
<1>1. /\ UNCHANGED <<sc, wit, dir, slab, rows, used, thr>> /\ phase = "combine" /\ phase' = "append"
      /\ \A i \in DOMAIN thr : thr[i].pc \in {"insert", "done"}
  BY DEF CombineEnds
<1>2. ThreadsOK'
  BY <1>1 DEF ThreadsOK, Kernels
<1>3. \A w : \A k \in DOMAIN thr' : InThread(k, w)' => k \in DOMAIN thr /\ InThread(k, w)
  BY <1>1 DEF InThread
<1> QED BY <1>1, <1>2, <1>3, StepInside DEF Kernels

LEMMA StepAppendLoad ==
  ASSUME Ready, NEW i \in DOMAIN thr, AppendLoad(i)
  PROVE  Parts'
<1> USE DEF Ready, Parts
<1>1. /\ UNCHANGED <<sc, wit, dir, slab, rows, used>> /\ phase = "append" /\ phase' = "append"
      /\ DOMAIN thr[i] = {"pc", "old", "base", "slot"}
      /\ thr' = [thr EXCEPT ![i].pc = "cas", ![i].old = wit.dual]
  BY DEF AppendLoad, ThreadsOK, Kernels
<1>2. /\ DOMAIN thr' = DOMAIN thr
      /\ \A k \in DOMAIN thr : k # i => thr'[k] = thr[k]
      /\ DOMAIN thr'[i] = {"pc", "old", "base", "slot"}
      /\ thr'[i].pc = "cas"
  BY <1>1
<1>3. ThreadsOK'
  BY <1>1, <1>2 DEF ThreadsOK, Kernels, RowIds
<1>4. \A w : \A k \in DOMAIN thr' : InThread(k, w)' => k \in DOMAIN thr /\ InThread(k, w)
  BY <1>1, <1>2 DEF InThread
<1> QED BY <1>1, <1>3, <1>4, StepInside DEF Kernels

\* What appending one pair does to the history of pairs.
LEMMA UsedGrows ==
  ASSUME UsedOK, NEW e, used' = Append(used, e)
  PROVE  /\ UsedOK' /\ Len(used) + 1 \notin DOMAIN used
         /\ DOMAIN used' = DOMAIN used \cup {Len(used) + 1}
         /\ \A j \in DOMAIN used : used'[j] = used[j]
         /\ used'[Len(used) + 1] = e
<1> DEFINE S == {used[j] : j \in DOMAIN used}
           T == S \cup {e}
<1>1. used \in Seq(S)
  BY DEF UsedOK
<1>2. Len(used) \in Nat /\ DOMAIN used = 1 .. Len(used)
  <2> HIDE DEF S
  <2> QED BY <1>1
<1>3. \A j \in DOMAIN used : used[j] \in T
  OBVIOUS
<1> HIDE DEF S, T
<1>4. used \in Seq(T)
  <2>1. S \subseteq T
    BY DEF T
  <2> QED BY <1>1, <2>1
<1>5. e \in T
  BY DEF T
<1>6. /\ Len(used') = Len(used) + 1
      /\ DOMAIN used' = 1 .. Len(used) + 1
      /\ \A j \in 1 .. Len(used) : used'[j] = used[j]
      /\ used'[Len(used) + 1] = e
      /\ used' \in Seq(T)
  BY <1>4, <1>5
<1>7. DOMAIN used' = DOMAIN used \cup {Len(used) + 1} /\ Len(used) + 1 \notin DOMAIN used
  BY <1>2, <1>6
<1>8. used' \in Seq({used'[j] : j \in DOMAIN used'})
  <2> DEFINE V == {used'[j] : j \in DOMAIN used'}
             n == Len(used) + 1
  <2>1. \A j \in DOMAIN used' : used'[j] \in V
    OBVIOUS
  <2> HIDE DEF V
  <2>2. used' \in [1 .. n -> T] /\ n \in Nat
    BY <1>2, <1>6, LenProperties
  <2>3. used' \in [1 .. n -> V]
    BY <1>6, <2>1, <2>2
  <2>4. used' \in Seq(V)
    BY <2>2, <2>3, SeqDef
  <2> QED BY <2>4 DEF V
<1> QED BY <1>2, <1>6, <1>7, <1>8 DEF UsedOK

\* The combine spends the token, keeps it, or loses it when the output is full.
LEMMA StepCombineCas ==
  ASSUME Ready, NEW i \in DOMAIN thr, CombineCas(i)
  PROVE  Parts'
<1> USE DEF Ready, Parts
<1> DEFINE w0 == thr[i].base[1]
<1>1. /\ UNCHANGED <<sc, wit, dir, slab, rows>> /\ phase = "combine" /\ phase' = "combine"
      /\ thr[i].pc = "cas"
      /\ DOMAIN thr[i] = {"pc", "old", "base", "slot"}
  BY DEF CombineCas, ThreadsOK, Kernels
<1>2. InThread(i, w0)
  BY <1>1 DEF InThread
<1>3. \/ thr' = [thr EXCEPT ![i].pc = "done"] /\ used' = used
      \/ thr' = [thr EXCEPT ![i].old = out.dual] /\ used' = used
      \/ /\ thr' = [thr EXCEPT ![i].pc = "done"]
         /\ used' = Append(used, [a |-> Input(i).u, b |-> wit.meta[w0].u, w |-> w0])
  BY DEF CombineCas, Step
<1>4. /\ DOMAIN thr' = DOMAIN thr
      /\ \A k \in DOMAIN thr : k # i => thr'[k] = thr[k]
      /\ DOMAIN thr'[i] = {"pc", "old", "base", "slot"}
      /\ thr'[i].base = thr[i].base
  BY <1>1, <1>3
<1>5. ThreadsOK'
  BY <1>1, <1>4 DEF ThreadsOK, Kernels
<1>6. \A w : \A k \in DOMAIN thr' : InThread(k, w)' => k \in DOMAIN thr /\ InThread(k, w)
  BY <1>1, <1>4 DEF InThread
<1>7. CASE used' = used
  BY <1>1, <1>5, <1>6, <1>7, StepInside DEF Kernels
<1>8. CASE /\ thr' = [thr EXCEPT ![i].pc = "done"]
           /\ used' = Append(used, [a |-> Input(i).u, b |-> wit.meta[w0].u, w |-> w0])
  <2> DEFINE e == [a |-> Input(i).u, b |-> wit.meta[w0].u, w |-> w0]
             n == Len(used) + 1
  <2>1. e.w = w0
    OBVIOUS
  <2>2. thr'[i].pc = "done"
    BY <1>1, <1>8
  <2>3. used' = Append(used, e)
    BY <1>8
  <2> HIDE DEF e, w0
  <2>4. /\ UsedOK' /\ n \notin DOMAIN used
        /\ DOMAIN used' = DOMAIN used \cup {n}
        /\ \A j \in DOMAIN used : used'[j] = used[j]
        /\ used'[n] = e
    BY <2>3, UsedGrows
  <2> HIDE DEF n
  <2>5. \A w : \A j \in DOMAIN used' : Spent(j, w)' => (j = n /\ w = w0) \/ (j \in DOMAIN used /\ Spent(j, w))
    BY <2>1, <2>4 DEF Spent
  <2>6. \A w : \A k \in DOMAIN thr' : InThread(k, w)' => k # i /\ k \in DOMAIN thr /\ InThread(k, w)
    BY <1>1, <1>6, <2>2 DEF InThread
  <2>7. RowIds' = RowIds /\ SlotIds' = SlotIds /\ Known' = Known
    BY <1>1 DEF RowIds, SlotIds, Known
  <2>8. \A r, s, w : InSlot(r, s, w)' <=> InSlot(r, s, w)
    BY <1>1 DEF InSlot
  <2>9. TokensKnown'
    BY <1>2, <2>5, <2>6, <2>7, <2>8 DEF TokensKnown
  <2>10. OneHolder'
    BY <1>2, <2>5, <2>6, <2>7, <2>8 DEF OneHolder
  <2>11. TableOK'
    BY <1>1 DEF TableOK, Buckets, RowIds, SlotIds
  <2>12. WitnessesOK'
    BY <1>1 DEF WitnessesOK
  <2> QED BY <1>5, <2>4, <2>9, <2>10, <2>11, <2>12
<1> QED BY <1>3, <1>7, <1>8

\* The append makes a token: the number of witnesses before its compare-and-swap.
LEMMA StepAppendCas ==
  ASSUME Ready, NEW i \in DOMAIN thr, AppendCas(i)
  PROVE  Parts'
<1> USE DEF Ready, Parts
<1> DEFINE r == Input(i)
           old == thr[i].old
<1>1. /\ UNCHANGED <<sc, dir, slab, rows, used>> /\ phase = "append" /\ phase' = "append"
      /\ thr[i].pc = "cas"
      /\ DOMAIN thr[i] = {"pc", "old", "base", "slot"}
  BY DEF AppendCas, ThreadsOK, Kernels
<1>2. \/ thr' = [thr EXCEPT ![i].pc = "done"] /\ wit' = wit
      \/ thr' = [thr EXCEPT ![i].old = wit.dual] /\ wit' = wit
      \/ /\ wit.dual = old
         /\ wit' = Stored([wit EXCEPT !.dual = <<old[1] + 1, old[2] + Len(r.f)>>], old[1], old[2], r)
         /\ thr' = [thr EXCEPT ![i].pc = "lock", ![i].base = old]
  BY DEF AppendCas, Step, reserved
<1> HIDE DEF r, old
<1>3. CASE thr' = [thr EXCEPT ![i].pc = "done"] /\ wit' = wit
  <2>1. /\ DOMAIN thr' = DOMAIN thr
        /\ \A k \in DOMAIN thr : k # i => thr'[k] = thr[k]
        /\ DOMAIN thr'[i] = {"pc", "old", "base", "slot"}
        /\ thr'[i].pc = "done"
    BY <1>1, <1>3
  <2>2. ThreadsOK'
    BY <1>1, <2>1 DEF ThreadsOK, Kernels, RowIds
  <2>3. \A w : \A k \in DOMAIN thr' : InThread(k, w)' => k \in DOMAIN thr /\ InThread(k, w)
    BY <1>1, <2>1 DEF InThread
  <2> QED BY <1>1, <1>3, <2>2, <2>3, StepInside DEF Kernels
<1>4. CASE thr' = [thr EXCEPT ![i].old = wit.dual] /\ wit' = wit
  <2>1. /\ DOMAIN thr' = DOMAIN thr
        /\ \A k \in DOMAIN thr : k # i => thr'[k] = thr[k]
        /\ DOMAIN thr'[i] = {"pc", "old", "base", "slot"}
        /\ thr'[i].pc = "cas"
    BY <1>1, <1>4
  <2>2. ThreadsOK'
    BY <1>1, <2>1 DEF ThreadsOK, Kernels, RowIds
  <2>3. \A w : \A k \in DOMAIN thr' : InThread(k, w)' => k \in DOMAIN thr /\ InThread(k, w)
    BY <1>1, <2>1 DEF InThread
  <2> QED BY <1>1, <1>4, <2>2, <2>3, StepInside DEF Kernels
<1>5. CASE /\ wit.dual = old
           /\ wit' = Stored([wit EXCEPT !.dual = <<old[1] + 1, old[2] + Len(r.f)>>], old[1], old[2], r)
           /\ thr' = [thr EXCEPT ![i].pc = "lock", ![i].base = old]
  <2> DEFINE w0 == wit.dual[1]
             b == [wit EXCEPT !.dual = <<old[1] + 1, old[2] + Len(r.f)>>]
  <2>1. DOMAIN b = DOMAIN wit /\ b.dual[1] = w0 + 1 /\ b.n = wit.n
    BY <1>5 DEF WitnessesOK
  <2>2. wit' = Stored(b, old[1], old[2], r)
    BY <1>5
  <2> HIDE DEF b
  <2>3. DOMAIN wit' = DOMAIN wit /\ wit'.dual[1] = w0 + 1
    BY <2>1, <2>2, StoredKeeps DEF WitnessesOK
  <2>4. /\ DOMAIN thr' = DOMAIN thr
        /\ \A k \in DOMAIN thr : k # i => thr'[k] = thr[k]
        /\ DOMAIN thr'[i] = {"pc", "old", "base", "slot"}
        /\ thr'[i].pc = "lock" /\ thr'[i].base[1] = w0
    BY <1>1, <1>5
  <2>5. WitnessesOK' /\ w0 \notin Known /\ w0 \in Known' /\ Known \subseteq Known'
    BY <1>1, <2>3 DEF WitnessesOK, Known
  <2> HIDE DEF w0
  <2>6. ThreadsOK'
    BY <1>1, <2>4 DEF ThreadsOK, Kernels, RowIds
  <2>7. TableOK' /\ UsedOK'
    BY <1>1 DEF TableOK, Buckets, RowIds, SlotIds, UsedOK
  <2>8. \A w : \A k \in DOMAIN thr' : InThread(k, w)' => (k = i /\ w = w0) \/ (k \in DOMAIN thr /\ k # i /\ InThread(k, w))
    BY <1>1, <2>4 DEF InThread
  <2>9. RowIds' = RowIds /\ SlotIds' = SlotIds
    BY <1>1 DEF RowIds, SlotIds
  <2>10. (\A q, s, w : InSlot(q, s, w)' <=> InSlot(q, s, w)) /\ (\A j, w : Spent(j, w)' <=> Spent(j, w))
    BY <1>1 DEF InSlot, Spent
  <2>11. TokensKnown'
    BY <1>1, <2>5, <2>8, <2>9, <2>10 DEF TokensKnown
  <2>12. OneHolder'
    BY <1>1, <2>5, <2>8, <2>9, <2>10 DEF OneHolder, TokensKnown
  <2> QED BY <2>5, <2>6, <2>7, <2>11, <2>12
<1> QED BY <1>2, <1>3, <1>4, <1>5

LEMMA StepLock ==
  ASSUME Ready, Tagged, NEW i \in DOMAIN thr, Lock(i)
  PROVE  Parts'
<1> USE DEF Ready, Parts
<1> DEFINE h == hashOf(part.meta[i].lp)
           d == <<dir[h].count, dir[h].row>>
<1>1. /\ UNCHANGED <<sc, wit, slab, rows, used>> /\ phase = "append" /\ phase' = "append"
      /\ thr[i].pc = "lock"
      /\ DOMAIN thr[i] = {"pc", "old", "base", "slot"}
      /\ dir' = [dir EXCEPT ![h].locked = TRUE]
      /\ thr' = [thr EXCEPT ![i].pc = "enter", ![i].old = d]
  BY DEF Lock, ThreadsOK, Kernels
<1>2. h \in Buckets
  BY <1>1, Hashed DEF Tagged, Kernels
<1>3. d \in Nat \X Nat /\ (d[1] > 0 => d[2] \in RowIds)
  BY <1>2 DEF TableOK
<1> HIDE DEF h, d
<1>4. TableOK'
  <2>1. dir' \in [Buckets -> [count : Nat, row : Nat, locked : BOOLEAN]]
    BY <1>1, <1>2 DEF TableOK
  <2>2. \A g \in Buckets : dir'[g].count = dir[g].count /\ dir'[g].row = dir[g].row
    BY <1>1, <1>2 DEF TableOK
  <2> QED BY <1>1, <2>1, <2>2 DEF TableOK, Buckets, RowIds, SlotIds
<1>5. /\ DOMAIN thr' = DOMAIN thr
      /\ \A k \in DOMAIN thr : k # i => thr'[k] = thr[k]
      /\ DOMAIN thr'[i] = {"pc", "old", "base", "slot"}
      /\ thr'[i].old = d /\ thr'[i].base = thr[i].base
  BY <1>1
<1>6. ThreadsOK'
  BY <1>1, <1>3, <1>5 DEF ThreadsOK, Kernels, RowIds
<1>7. \A w : \A k \in DOMAIN thr' : InThread(k, w)' => k \in DOMAIN thr /\ InThread(k, w)
  BY <1>1, <1>5 DEF InThread
<1>8. WitnessesOK' /\ UsedOK' /\ wit.dual[1]' \in Nat /\ wit.dual[1]' >= wit.dual[1]
  BY <1>1 DEF WitnessesOK, UsedOK
<1>9. TokensKnown' /\ OneHolder'
  BY <1>1, <1>7, <1>8, TokensStay
<1> QED BY <1>4, <1>6, <1>8, <1>9

\* The token moves from the thread to a slot of its bucket's row, or is lost to a counted overflow.
LEMMA StepEnter ==
  ASSUME Ready, Tagged, NEW i \in DOMAIN thr, Enter(i)
  PROVE  Parts'
<1> USE DEF Ready, Parts
<1> DEFINE p == part.meta[i].lp
           count == thr[i].old[1]
           row == IF count = 0 THEN rows ELSE thr[i].old[2]
           w0 == thr[i].base[1]
<1>1. /\ UNCHANGED <<sc, wit, dir, used>> /\ phase = "append" /\ phase' = "append"
      /\ thr[i].pc = "enter"
      /\ DOMAIN thr[i] = {"pc", "old", "base", "slot"}
      /\ thr[i].old \in Nat \X Nat /\ (count > 0 => thr[i].old[2] \in RowIds)
      /\ rows' = IF count = 0 THEN rows + 1 ELSE rows
  BY DEF Enter, ThreadsOK, Kernels
<1>2. tagOf(p) \in Int /\ tagOf(p) > 0
  BY <1>1, Hashed DEF Tagged, Kernels
<1>3. InThread(i, w0)
  BY <1>1 DEF InThread
<1>4. w0 \in Known /\ w0 \in Int
  <2>1. w0 \in Known
    BY <1>3 DEF TokensKnown
  <2> QED BY <2>1 DEF Known
<1>5. count \in Nat /\ row \in Nat /\ rows' \in Nat /\ sc.slabRows \in Nat
  BY <1>1, ScenariosAssumption DEF TableOK
<1>6. \/ /\ row >= sc.slabRows
         /\ thr' = [thr EXCEPT ![i].pc = "release"]
         /\ slab' = slab
      \/ /\ row < sc.slabRows /\ count < sc.rowWidth
         /\ slab' = [slab EXCEPT ![row][count] = [tag |-> tagOf(p), idx |-> w0]]
         /\ thr' = [thr EXCEPT ![i].pc = "release", ![i].old = <<count + 1, row>>]
      \/ /\ row < sc.slabRows
         /\ thr' = [thr EXCEPT ![i].pc = "release", ![i].old = <<count, row>>]
         /\ slab' = slab
  BY <1>5 DEF Enter
<1> HIDE DEF p, w0
<1>7. /\ DOMAIN thr' = DOMAIN thr
      /\ \A k \in DOMAIN thr : k # i => thr'[k] = thr[k]
      /\ DOMAIN thr'[i] = {"pc", "old", "base", "slot"}
      /\ thr'[i].pc = "release"
      /\ thr'[i].old \in Nat \X Nat
      /\ thr'[i].old[1] > 0 => thr'[i].old[2] \in RowIds
  <2>1. row < sc.slabRows => row \in RowIds
    BY <1>5 DEF RowIds
  <2>2. CASE thr' = [thr EXCEPT ![i].pc = "release"]
    BY <1>1, <2>2
  <2> HIDE DEF row, count
  <2>3. CASE row < sc.slabRows /\ thr' = [thr EXCEPT ![i].pc = "release", ![i].old = <<count + 1, row>>]
    <3>1. thr'[i].old = <<count + 1, row>>
      BY <1>1, <2>3
    <3> QED BY <1>1, <1>5, <2>1, <2>3, <3>1
  <2>4. CASE row < sc.slabRows /\ thr' = [thr EXCEPT ![i].pc = "release", ![i].old = <<count, row>>]
    <3>1. thr'[i].old = <<count, row>>
      BY <1>1, <2>4
    <3> QED BY <1>1, <1>5, <2>1, <2>4, <3>1
  <2> QED BY <1>6, <2>2, <2>3, <2>4
<1>8. ThreadsOK'
  BY <1>1, <1>7 DEF ThreadsOK, Kernels, RowIds
<1>9. \A w : \A k \in DOMAIN thr' : InThread(k, w)' => k \in DOMAIN thr /\ k # i /\ InThread(k, w)
  BY <1>1, <1>7 DEF InThread
<1>10. WitnessesOK' /\ UsedOK' /\ wit.dual[1]' \in Nat /\ wit.dual[1]' >= wit.dual[1]
  BY <1>1 DEF WitnessesOK, UsedOK
<1>11. CASE slab' = slab
  <2>1. TableOK'
    BY <1>1, <1>5, <1>11 DEF TableOK, Buckets, RowIds, SlotIds
  <2>2. TokensKnown' /\ OneHolder'
    BY <1>1, <1>9, <1>10, <1>11, TokensStay
  <2> QED BY <1>8, <1>10, <2>1, <2>2
<1>12. CASE /\ row < sc.slabRows /\ count < sc.rowWidth
            /\ slab' = [slab EXCEPT ![row][count] = [tag |-> tagOf(p), idx |-> w0]]
  <2> DEFINE e == [tag |-> tagOf(p), idx |-> w0]
  <2>1. row \in RowIds /\ count \in SlotIds
    BY <1>5, <1>12, ScenariosAssumption DEF RowIds, SlotIds
  <2>2. e \in [tag : Int, idx : Int] /\ e.idx = w0
    BY <1>2, <1>4
  <2>3. slab' = [slab EXCEPT ![row][count] = e]
    BY <1>12
  <2> HIDE DEF e, row, count
  <2>4. slab' \in [RowIds -> [SlotIds -> [tag : Int, idx : Int]]]
    BY <2>1, <2>2, <2>3 DEF TableOK
  <2>5. TableOK'
    BY <1>1, <1>5, <2>4 DEF TableOK, Buckets, RowIds, SlotIds
  <2>6. \A w : \A r \in RowIds, s \in SlotIds :
          InSlot(r, s, w)' => (r = row /\ s = count /\ w = w0) \/ (~ (r = row /\ s = count) /\ InSlot(r, s, w))
    BY <2>1, <2>2, <2>3 DEF TableOK, InSlot
  <2>7. RowIds' = RowIds /\ SlotIds' = SlotIds /\ Known' = Known
    BY <1>1 DEF RowIds, SlotIds, Known
  <2>8. \A j, w : Spent(j, w)' <=> Spent(j, w)
    BY <1>1 DEF Spent
  <2>9. TokensKnown'
    BY <1>1, <1>4, <1>9, <2>6, <2>7, <2>8 DEF TokensKnown
  <2>10. OneHolder'
    BY <1>1, <1>3, <1>9, <2>6, <2>7, <2>8 DEF OneHolder
  <2> QED BY <1>8, <1>10, <2>5, <2>9, <2>10
<1> QED BY <1>6, <1>11, <1>12

LEMMA StepRelease ==
  ASSUME Ready, Tagged, NEW i \in DOMAIN thr, Release(i)
  PROVE  Parts'
<1> USE DEF Ready, Parts
<1> DEFINE h == hashOf(part.meta[i].lp)
           e == released(thr[i].old[1], thr[i].old[2])
<1>1. /\ UNCHANGED <<sc, wit, slab, rows, used>> /\ phase = "append" /\ phase' = "append"
      /\ thr[i].pc = "release"
      /\ DOMAIN thr[i] = {"pc", "old", "base", "slot"}
      /\ thr[i].old \in Nat \X Nat /\ (thr[i].old[1] > 0 => thr[i].old[2] \in RowIds)
      /\ dir' = [dir EXCEPT ![h] = e]
      /\ thr' = [thr EXCEPT ![i].pc = "done"]
  BY DEF Release, Step, ThreadsOK, Kernels
<1>2. h \in Buckets
  BY <1>1, Hashed DEF Tagged, Kernels
<1>3. e \in [count : Nat, row : Nat, locked : BOOLEAN] /\ (e.count > 0 => e.row \in RowIds)
  BY <1>1 DEF released
<1> HIDE DEF h, e
<1>4. TableOK'
  <2>1. dir' \in [Buckets -> [count : Nat, row : Nat, locked : BOOLEAN]]
    BY <1>1, <1>2, <1>3 DEF TableOK
  <2>2. \A g \in Buckets : dir'[g].count > 0 => dir'[g].row \in RowIds
    BY <1>1, <1>2, <1>3 DEF TableOK
  <2> QED BY <1>1, <2>1, <2>2 DEF TableOK, Buckets, RowIds, SlotIds
<1>5. /\ DOMAIN thr' = DOMAIN thr
      /\ \A k \in DOMAIN thr : k # i => thr'[k] = thr[k]
      /\ DOMAIN thr'[i] = {"pc", "old", "base", "slot"}
      /\ thr'[i].pc = "done"
  BY <1>1
<1>6. ThreadsOK'
  BY <1>1, <1>5 DEF ThreadsOK, Kernels, RowIds
<1>7. \A w : \A k \in DOMAIN thr' : InThread(k, w)' => k \in DOMAIN thr /\ InThread(k, w)
  BY <1>1, <1>5 DEF InThread
<1>8. WitnessesOK' /\ UsedOK' /\ wit.dual[1]' \in Nat /\ wit.dual[1]' >= wit.dual[1]
  BY <1>1 DEF WitnessesOK, UsedOK
<1>9. TokensKnown' /\ OneHolder'
  BY <1>1, <1>7, <1>8, TokensStay
<1> QED BY <1>4, <1>6, <1>8, <1>9

LEMMA StepPassEnds ==
  ASSUME Ready, PassEnds
  PROVE  Parts'
<1> USE DEF Ready, Parts
<1>1. /\ UNCHANGED <<sc, dir, slab, rows, used>> /\ phase' = "idle"
      /\ wit' = [wit EXCEPT !.n = wit.dual[1], !.nf = wit.dual[2]]
  BY DEF PassEnds, Committed
<1>2. DOMAIN wit' = DOMAIN wit /\ wit'.n = wit.dual[1] /\ wit'.dual = wit.dual
  BY <1>1 DEF WitnessesOK
<1>3. WitnessesOK' /\ wit.dual[1]' \in Nat /\ wit.dual[1]' >= wit.dual[1]
  BY <1>1, <1>2 DEF WitnessesOK
<1>4. TableOK' /\ UsedOK' /\ ThreadsOK'
  BY <1>1 DEF TableOK, Buckets, RowIds, SlotIds, UsedOK, ThreadsOK, Kernels
<1>5. \A w : \A k \in DOMAIN thr' : ~ InThread(k, w)'
  BY <1>1 DEF InThread
<1>6. TokensKnown' /\ OneHolder'
  BY <1>1, <1>3, <1>5, TokensStay
<1> QED BY <1>3, <1>4, <1>6

-----------------------------------------------------------------------------
(* The invariant, and what it is for. *)

LEMMA TokensInit == Init => TokenInv
<1> SUFFICES ASSUME Init
             PROVE  TokenInv
  OBVIOUS
<1>1. sc \in Scenarios /\ sc.slabRows \in Nat /\ sc.rowWidth \in Nat
  BY ScenariosAssumption DEF Init
<1>2. TableOK
  <2>1. Free \in [tag : Int, idx : Int]
    BY DEF Free
  <2> QED BY <1>1, <2>1 DEF Init, TableOK, RowIds, SlotIds
<1>3. WitnessesOK
  BY DEF Init, WitnessesOK, Batch
<1>4. ThreadsOK
  BY DEF Init, ThreadsOK, Kernels
<1>5. UsedOK /\ DOMAIN used = {}
  BY DEF Init, UsedOK
<1>6. \A w : \A r \in RowIds, s \in SlotIds : ~ InSlot(r, s, w)
  BY DEF Init, InSlot, RowIds, SlotIds, Free
<1>7. \A w : \A i \in DOMAIN thr : ~ InThread(i, w)
  BY DEF Init, InThread
<1>8. TokensKnown /\ OneHolder
  BY <1>5, <1>6, <1>7 DEF TokensKnown, OneHolder
<1> QED BY <1>1, <1>2, <1>3, <1>4, <1>5, <1>8 DEF TokenInv, Parts

LEMMA TokensStep ==
  ASSUME TokenInv, Tagged, Tagged', [Next]_vars
  PROVE  TokenInv'
<1>1. CASE UNCHANGED vars
  BY <1>1 DEF vars, TokenInv, Purging, Parts, TableOK, WitnessesOK, ThreadsOK, UsedOK, TokensKnown, OneHolder,
              RowIds, SlotIds, Known, Buckets, InSlot, InThread, Spent, hashOf, Kernels
<1>2. CASE Next
  <2>1. sc' = sc
    <3>1. ASSUME NEW i \in DOMAIN thr, NEW what \in {"full", "part"},
                 WarpLoad(i, what) \/ WarpCas(i, what) \/ WarpWrite(i, what)
          PROVE  sc' = sc
      BY <3>1 DEF WarpLoad, WarpCas, WarpWrite
    <3>2. ASSUME NEW i \in DOMAIN thr, Probe(i) \/ Take(i) \/ CombineLoad(i) \/ CombineCas(i)
          PROVE  sc' = sc
      BY <3>2 DEF Probe, Take, CombineLoad, CombineCas
    <3>3. ASSUME NEW i \in DOMAIN thr, AppendLoad(i) \/ AppendCas(i) \/ Lock(i) \/ Enter(i) \/ Release(i)
          PROVE  sc' = sc
      BY <3>3 DEF AppendLoad, AppendCas, Lock, Enter, Release
    <3>4. CASE Launch
      BY <3>4 DEF Launch, Begin, FactorizationEnds, ProbeEnds, CombineEnds, PassEnds, Ingest, Finish
    <3>5. CASE Done
      BY <3>5 DEF Done, vars
    <3> QED BY <1>2, <3>1, <3>2, <3>3, <3>4, <3>5 DEF Next, ThreadStep
  <2> SUFFICES ASSUME Purging
               PROVE  Parts'
    BY <2>1 DEF TokenInv, Purging
  <2>2. Ready
    BY DEF Ready, TokenInv
  <2>3. ASSUME NEW i \in DOMAIN thr, NEW what \in {"full", "part"}, WarpLoad(i, what) \/ WarpCas(i, what) \/ WarpWrite(i, what)
        PROVE  Parts'
    <3>1. UNCHANGED <<sc, wit, dir, slab, rows, used>> /\ phase = "divide" /\ phase' = "divide"
      BY <2>3 DEF WarpLoad, WarpCas, WarpWrite
    <3> QED BY <2>2, <3>1, StepOutside
  <2>4. CASE ThreadStep
    <3>1. PICK i \in DOMAIN thr :
            \/ \E what \in {"full", "part"} : WarpLoad(i, what) \/ WarpCas(i, what) \/ WarpWrite(i, what)
            \/ Probe(i) \/ Take(i) \/ CombineLoad(i) \/ CombineCas(i)
            \/ AppendLoad(i) \/ AppendCas(i) \/ Lock(i) \/ Enter(i) \/ Release(i)
      BY <2>4 DEF ThreadStep
    <3> QED BY <2>2, <2>3, <3>1, StepProbe, StepTake, StepCombineLoad, StepCombineCas, StepAppendLoad,
               StepAppendCas, StepLock, StepEnter, StepRelease
  <2>5. CASE Begin \/ Finish
    <3>1. UNCHANGED <<sc, wit, dir, slab, rows, used>> /\ phase = "idle" /\ phase' \in {"divide", "done"}
      BY <2>5 DEF Begin, Finish
    <3> QED BY <2>2, <3>1, StepOutside
  <2>6. CASE Ingest
    <3>1. phase = "cpu"
      BY <2>6 DEF Ingest
    <3> QED BY <2>2, <3>1 DEF Ready, Parts, ThreadsOK, Kernels
  <2>7. CASE Done
    <3>1. UNCHANGED <<sc, wit, dir, slab, rows, used>> /\ phase = "done" /\ phase' = "done"
      BY <2>7 DEF Done, vars
    <3> QED BY <2>2, <3>1, StepOutside
  <2> QED BY <1>2, <2>2, <2>4, <2>5, <2>6, <2>7, StepFactorizationEnds, StepProbeEnds, StepCombineEnds,
             StepPassEnds DEF Next, Launch
<1> QED BY <1>1, <1>2

\* Every index of a stored witness has at most one holder, through every interleaving of the
\* kernels' threads, as long as the large primes have positive tags.
THEOREM TokensInOrder == Spec /\ []Tagged => []TokenInv
BY TokensInit, TokensStep, PTL DEF Spec

\* On the GPU (largeprime.cu) no witness is combined twice while purging: the compare-and-swap of
\* probe_hash_table_kernel gives its slot to one thread, and nothing puts its index back.
THEOREM WitnessSpentOnce == Spec /\ []Tagged => [](~sc.cpu => SpentOnce)
<1>1. TokenInv => (~sc.cpu => SpentOnce)
  BY DEF TokenInv, Purging, Parts, OneHolder, Spent, SpentOnce
<1> QED BY <1>1, TokensInOrder, PTL

-----------------------------------------------------------------------------
(* The bucket locks: no entry of the table is overwritten. *)

Live(r, s) == slab[r][s].tag > 0
BucketOf(i) == hashOf(part.meta[i].lp)
InLock(i) == phase = "append" /\ thr[i].pc \in {"enter", "release"}
Releasing(i) == phase = "append" /\ thr[i].pc = "release"

\* The count and the row of a bucket: what a thread is about to publish with its release, or what
\* the directory says.
Has(h, c, r) ==
    \/ \E i \in DOMAIN thr : Releasing(i) /\ BucketOf(i) = h /\ thr[i].old[1] = c /\ thr[i].old[2] = r
    \/ /\ \A i \in DOMAIN thr : ~ (Releasing(i) /\ BucketOf(i) = h)
       /\ dir[h].count = c /\ dir[h].row = r

ShapeOK ==
    /\ dir \in [Buckets -> [count : Nat, row : Nat, locked : BOOLEAN]]
    /\ DOMAIN slab = RowIds /\ \A r \in RowIds : DOMAIN slab[r] = SlotIds
    /\ rows \in Nat
    /\ phase \in Kernels => \A i \in DOMAIN thr : DOMAIN thr[i] = {"pc", "old", "base", "slot"}
    /\ phase = "append" => \A i \in DOMAIN thr : InLock(i) => thr[i].old \in Nat \X Nat

\* One thread at a time is between a bucket's lock and its release, and what it read stays true.
LocksOK ==
    /\ \A i, k \in DOMAIN thr : InLock(i) /\ InLock(k) /\ BucketOf(i) = BucketOf(k) => i = k
    /\ \A i \in DOMAIN thr : InLock(i) => dir[BucketOf(i)].locked
    /\ \A i \in DOMAIN thr : phase = "append" /\ thr[i].pc = "enter" =>
          thr[i].old = <<dir[BucketOf(i)].count, dir[BucketOf(i)].row>>

\* No row serves two buckets, and past the count of its bucket, or not yet given to one, it is empty.
RowsOK ==
    /\ \A h \in Buckets, c, r \in Nat : Has(h, c, r) /\ c > 0 =>
          r \in RowIds /\ r < rows /\ \A s \in SlotIds : s >= c => ~ Live(r, s)
    /\ \A h, g \in Buckets, c, d, r \in Nat : Has(h, c, r) /\ Has(g, d, r) /\ c > 0 /\ d > 0 => h = g
    /\ \A r \in RowIds, s \in SlotIds : r >= rows => ~ Live(r, s)

LockParts == ShapeOK /\ LocksOK /\ RowsOK
LockInv == sc \in Scenarios /\ LockParts

\* An entry stays where it is until a probe's compare-and-swap takes it, whose thread keeps the index.
Taken(r, s) ==
    /\ phase = "probe"
    /\ \E i \in DOMAIN thr : /\ thr[i].pc = "take" /\ thr'[i].pc = "match"
                             /\ dir[BucketOf(i)].row = r /\ thr[i].slot = s
                             /\ thr'[i].base[1] = slab[r][s].idx
EntryStays == \A r \in RowIds, s \in SlotIds : Live(r, s) => slab'[r][s] = slab[r][s] \/ Taken(r, s)

\* Steps with no thread between a lock and its release: the table may only lose entries.
LEMMA LocksIdle ==
  ASSUME LockInv, UNCHANGED <<sc, dir, rows>>, ShapeOK',
         \A r \in RowIds, s \in SlotIds : Live(r, s)' => Live(r, s),
         \A i \in DOMAIN thr : ~ Releasing(i), \A i \in DOMAIN thr' : ~ InLock(i)'
  PROVE  LockInv'
<1>1. \A i \in DOMAIN thr' : ~ Releasing(i)'
  BY DEF InLock, Releasing
<1>2. \A h, c, r : Has(h, c, r)' <=> Has(h, c, r)
  BY <1>1 DEF Has
<1>3. LocksOK'
  BY DEF LocksOK, InLock
<1>4. RowIds' = RowIds /\ SlotIds' = SlotIds /\ Buckets' = Buckets
  BY DEF RowIds, SlotIds, Buckets
<1>5. RowsOK'
  BY <1>2, <1>4 DEF LockInv, LockParts, RowsOK
<1> QED BY <1>3, <1>5 DEF LockInv, LockParts

\* The same, where the table does not change either.
LEMMA LocksUntouched ==
  ASSUME LockInv, UNCHANGED <<sc, dir, rows, slab>>,
         phase' \in Kernels => \A i \in DOMAIN thr' : DOMAIN thr'[i] = {"pc", "old", "base", "slot"},
         \A i \in DOMAIN thr : ~ Releasing(i), \A i \in DOMAIN thr' : ~ InLock(i)'
  PROVE  LockInv'
<1>1. ShapeOK'
  BY DEF LockInv, LockParts, ShapeOK, Buckets, RowIds, SlotIds, Kernels
<1>2. \A r \in RowIds, s \in SlotIds : Live(r, s)' => Live(r, s)
  BY DEF Live
<1> QED BY <1>1, <1>2, LocksIdle

\* A thread of the append kernel that is not between a lock and its release before or after its step.
LEMMA LocksAside ==
  ASSUME LockInv, UNCHANGED <<sc, dir, rows, slab, part, phase>>, phase = "append", NEW i \in DOMAIN thr,
         DOMAIN thr' = DOMAIN thr, \A k \in DOMAIN thr : k # i => thr'[k] = thr[k],
         DOMAIN thr'[i] = {"pc", "old", "base", "slot"},
         ~ InLock(i), ~ InLock(i)'
  PROVE  LockInv'
<1> USE DEF LockInv, LockParts
<1>1. /\ \A k \in DOMAIN thr : InLock(k)' <=> InLock(k)
      /\ \A k \in DOMAIN thr : Releasing(k)' <=> Releasing(k)
      /\ \A k \in DOMAIN thr : InLock(k) => thr'[k] = thr[k]
      /\ \A k \in DOMAIN thr : Releasing(k) => thr'[k] = thr[k]
  BY DEF InLock, Releasing
<1>2. \A k : BucketOf(k)' = BucketOf(k)
  BY DEF BucketOf, hashOf
<1>3. \A h, c, r : Has(h, c, r)' <=> Has(h, c, r)
  BY <1>1, <1>2 DEF Has
<1>4. RowIds' = RowIds /\ SlotIds' = SlotIds /\ Buckets' = Buckets
  BY DEF RowIds, SlotIds, Buckets
<1>5. ShapeOK'
  BY <1>1, <1>4 DEF ShapeOK, Kernels
<1>6. LocksOK'
  BY <1>1, <1>2, <1>4 DEF LocksOK, InLock
<1>7. \A r, s : Live(r, s)' <=> Live(r, s)
  BY DEF Live
<1>8. RowsOK'
  BY <1>3, <1>4, <1>7 DEF RowsOK
<1> QED BY <1>5, <1>6, <1>8

LEMMA LockLock ==
  ASSUME LockInv, Tagged, NEW i \in DOMAIN thr, Lock(i)
  PROVE  LockInv'
<1> USE DEF LockInv, LockParts
<1> DEFINE b == BucketOf(i)
           d == <<dir[b].count, dir[b].row>>
<1>1. /\ UNCHANGED <<sc, part, slab, rows>> /\ phase = "append" /\ phase' = "append"
      /\ thr[i].pc = "lock" /\ ~dir[b].locked
      /\ DOMAIN thr[i] = {"pc", "old", "base", "slot"}
      /\ dir' = [dir EXCEPT ![b].locked = TRUE]
      /\ thr' = [thr EXCEPT ![i].pc = "enter", ![i].old = d]
  BY DEF Lock, unlocked, ShapeOK, Kernels, BucketOf
<1>2. \A k \in DOMAIN thr : BucketOf(k) \in Buckets /\ BucketOf(k)' = BucketOf(k)
  BY <1>1, Hashed DEF Tagged, Kernels, BucketOf, hashOf
<1>3. b \in Buckets /\ d \in Nat \X Nat
  BY <1>2 DEF ShapeOK
<1>4. /\ DOMAIN thr' = DOMAIN thr
      /\ \A k \in DOMAIN thr : k # i => thr'[k] = thr[k]
      /\ DOMAIN thr'[i] = {"pc", "old", "base", "slot"}
      /\ thr'[i].old = d /\ thr'[i].pc = "enter"
  <2> HIDE DEF d
  <2> QED BY <1>1
<1>5. /\ dir' \in [Buckets -> [count : Nat, row : Nat, locked : BOOLEAN]]
      /\ \A g \in Buckets : dir'[g].count = dir[g].count /\ dir'[g].row = dir[g].row
      /\ \A g \in Buckets : dir[g].locked => dir'[g].locked
      /\ dir'[b].locked
  <2> HIDE DEF b, d
  <2> QED BY <1>1, <1>3 DEF ShapeOK
<1>6. RowIds' = RowIds /\ SlotIds' = SlotIds /\ Buckets' = Buckets
  BY <1>1 DEF RowIds, SlotIds, Buckets
<1>7. /\ \A k \in DOMAIN thr : Releasing(k)' <=> Releasing(k)
      /\ \A k \in DOMAIN thr : Releasing(k) => thr'[k] = thr[k]
      /\ \A k \in DOMAIN thr : InLock(k)' <=> k = i \/ InLock(k)
      /\ ~ InLock(i)
  BY <1>1, <1>4 DEF InLock, Releasing
<1>8. ShapeOK'
  BY <1>1, <1>3, <1>4, <1>5, <1>6, <1>7 DEF ShapeOK, Kernels
<1>9. \A c, r : \A h \in Buckets : Has(h, c, r)' <=> Has(h, c, r)
  BY <1>2, <1>4, <1>5, <1>7 DEF Has
<1>10. RowsOK'
  BY <1>1, <1>6, <1>9 DEF RowsOK, Live
<1>11. LocksOK'
  <2>1. \A k \in DOMAIN thr : InLock(k) => BucketOf(k) # b
    BY <1>1 DEF LocksOK
  <2>2. \A k, l \in DOMAIN thr' : InLock(k)' /\ InLock(l)' /\ BucketOf(k)' = BucketOf(l)' => k = l
    BY <1>2, <1>4, <1>7, <2>1 DEF LocksOK
  <2>3. \A k \in DOMAIN thr' : InLock(k)' => dir'[BucketOf(k)'].locked
    BY <1>2, <1>4, <1>5, <1>7 DEF LocksOK
  <2>4. \A k \in DOMAIN thr' : thr'[k].pc = "enter" =>
           thr'[k].old = <<dir'[BucketOf(k)'].count, dir'[BucketOf(k)'].row>>
    BY <1>1, <1>2, <1>4, <1>5 DEF LocksOK
  <2> QED BY <2>2, <2>3, <2>4 DEF LocksOK
<1> QED BY <1>1, <1>8, <1>10, <1>11

LEMMA LockRelease ==
  ASSUME LockInv, Tagged, NEW i \in DOMAIN thr, Release(i)
  PROVE  LockInv'
<1> USE DEF LockInv, LockParts
<1> DEFINE b == BucketOf(i)
           e == released(thr[i].old[1], thr[i].old[2])
<1>1. /\ UNCHANGED <<sc, part, slab, rows>> /\ phase = "append" /\ phase' = "append"
      /\ thr[i].pc = "release"
      /\ DOMAIN thr[i] = {"pc", "old", "base", "slot"}
      /\ dir' = [dir EXCEPT ![b] = e]
      /\ thr' = [thr EXCEPT ![i].pc = "done"]
  BY DEF Release, Step, ShapeOK, Kernels, BucketOf
<1>2. \A k \in DOMAIN thr : BucketOf(k) \in Buckets /\ BucketOf(k)' = BucketOf(k)
  BY <1>1, Hashed DEF Tagged, Kernels, BucketOf, hashOf
<1>3. InLock(i) /\ Releasing(i) /\ thr[i].old \in Nat \X Nat
  BY <1>1 DEF ShapeOK, InLock, Releasing
<1>4. e \in [count : Nat, row : Nat, locked : BOOLEAN] /\ e.count = thr[i].old[1] /\ e.row = thr[i].old[2]
  BY <1>3 DEF released
<1> HIDE DEF e
<1>5. /\ DOMAIN thr' = DOMAIN thr
      /\ \A k \in DOMAIN thr : k # i => thr'[k] = thr[k]
      /\ DOMAIN thr'[i] = {"pc", "old", "base", "slot"}
      /\ thr'[i].pc = "done"
  BY <1>1
<1>6. /\ dir' \in [Buckets -> [count : Nat, row : Nat, locked : BOOLEAN]]
      /\ \A g \in Buckets : g # b => dir'[g] = dir[g]
      /\ dir'[b] = e
  BY <1>1, <1>2, <1>4 DEF ShapeOK
<1>7. RowIds' = RowIds /\ SlotIds' = SlotIds /\ Buckets' = Buckets
  BY <1>1 DEF RowIds, SlotIds, Buckets
<1>8. /\ \A k \in DOMAIN thr : Releasing(k)' <=> Releasing(k) /\ k # i
      /\ \A k \in DOMAIN thr : InLock(k)' <=> InLock(k) /\ k # i
  BY <1>1, <1>5 DEF InLock, Releasing
<1>9. \A k \in DOMAIN thr : InLock(k) /\ k # i => BucketOf(k) # b
  BY <1>3 DEF LocksOK
<1>10. ShapeOK'
  BY <1>1, <1>5, <1>6, <1>7, <1>8 DEF ShapeOK, Kernels
<1>11. \A c, r : \A h \in Buckets : Has(h, c, r)' => Has(h, c, r)
  <2> SUFFICES ASSUME NEW h \in Buckets, NEW c, NEW r, Has(h, c, r)'
               PROVE  Has(h, c, r)
    OBVIOUS
  <2>1. CASE \E k \in DOMAIN thr' : Releasing(k)' /\ BucketOf(k)' = h /\ thr'[k].old[1] = c /\ thr'[k].old[2] = r
    BY <1>2, <1>5, <1>8, <2>1 DEF Has
  <2>2. CASE /\ \A k \in DOMAIN thr' : ~ (Releasing(k)' /\ BucketOf(k)' = h)
             /\ dir'[h].count = c /\ dir'[h].row = r
    <3>1. CASE h = b
      BY <1>3, <1>4, <1>6, <2>2, <3>1 DEF Has
    <3>2. CASE h # b
      BY <1>2, <1>5, <1>6, <1>8, <2>2, <3>2 DEF Has
    <3> QED BY <3>1, <3>2
  <2> QED BY <2>1, <2>2 DEF Has
<1>12. RowsOK'
  BY <1>1, <1>7, <1>11 DEF RowsOK, Live
<1>13. LocksOK'
  <2>1. \A k, l \in DOMAIN thr' : InLock(k)' /\ InLock(l)' /\ BucketOf(k)' = BucketOf(l)' => k = l
    BY <1>2, <1>5, <1>8 DEF LocksOK
  <2>2. \A k \in DOMAIN thr' : InLock(k)' => dir'[BucketOf(k)'].locked
    BY <1>2, <1>5, <1>6, <1>8, <1>9 DEF LocksOK
  <2>3. \A k \in DOMAIN thr' : thr'[k].pc = "enter" =>
           thr'[k].old = <<dir'[BucketOf(k)'].count, dir'[BucketOf(k)'].row>>
    BY <1>1, <1>2, <1>5, <1>6, <1>9 DEF LocksOK, InLock
  <2> QED BY <2>1, <2>2, <2>3 DEF LocksOK
<1> QED BY <1>1, <1>10, <1>12, <1>13

\* The row and the slot that Enter writes to, if it writes.
TargetRow(i) == IF thr[i].old[1] = 0 THEN rows ELSE thr[i].old[2]

\* Enter starts from the state of its bucket: the slot it writes is empty and no other bucket's.
LEMMA EnterStarts ==
  ASSUME LockInv, Tagged, NEW i \in DOMAIN thr, Enter(i)
  PROVE  /\ UNCHANGED <<sc, part, dir, phase>> /\ phase = "append" /\ thr[i].pc = "enter"
         /\ DOMAIN thr[i] = {"pc", "old", "base", "slot"}
         /\ BucketOf(i) \in Buckets
         /\ thr[i].old \in Nat \X Nat
         /\ \A k \in DOMAIN thr : Releasing(k) => BucketOf(k) # BucketOf(i)
         /\ Has(BucketOf(i), thr[i].old[1], thr[i].old[2])
         /\ TargetRow(i) \in Nat
         /\ \A s \in SlotIds : s >= thr[i].old[1] /\ TargetRow(i) \in RowIds => ~ Live(TargetRow(i), s)
         /\ \A g \in Buckets, d \in Nat : g # BucketOf(i) /\ d > 0 => ~ Has(g, d, TargetRow(i))
<1> USE DEF LockInv, LockParts
<1>1. /\ UNCHANGED <<sc, part, dir, phase>> /\ phase = "append" /\ thr[i].pc = "enter"
      /\ DOMAIN thr[i] = {"pc", "old", "base", "slot"}
  BY DEF Enter, ShapeOK, Kernels
<1>2. BucketOf(i) \in Buckets
  BY <1>1, Hashed DEF Tagged, Kernels, BucketOf
<1>3. InLock(i) /\ thr[i].old \in Nat \X Nat
  BY <1>1 DEF InLock, ShapeOK
<1>4. \A k \in DOMAIN thr : Releasing(k) => BucketOf(k) # BucketOf(i)
  <2>1. \A k \in DOMAIN thr : Releasing(k) => InLock(k) /\ k # i
    BY <1>1 DEF Releasing, InLock
  <2> QED BY <1>3, <2>1 DEF LocksOK
<1>5. thr[i].old[1] = dir[BucketOf(i)].count /\ thr[i].old[2] = dir[BucketOf(i)].row
  BY <1>1 DEF LocksOK
<1>6. Has(BucketOf(i), thr[i].old[1], thr[i].old[2])
  BY <1>4, <1>5 DEF Has
<1>7. CASE thr[i].old[1] = 0
  <2>1. TargetRow(i) = rows /\ rows \in Nat
    BY <1>7 DEF TargetRow, ShapeOK
  <2>2. \A s \in SlotIds : rows \in RowIds => ~ Live(rows, s)
    BY <2>1 DEF RowsOK
  <2>3. \A g \in Buckets, d \in Nat : d > 0 => ~ Has(g, d, rows)
    BY <2>1 DEF RowsOK
  <2> QED BY <1>1, <1>2, <1>3, <1>4, <1>6, <2>1, <2>2, <2>3
<1>8. CASE thr[i].old[1] # 0
  <2>1. TargetRow(i) = thr[i].old[2] /\ thr[i].old[2] \in Nat /\ thr[i].old[1] \in Nat /\ thr[i].old[1] > 0
    BY <1>3, <1>8 DEF TargetRow
  <2>2. \A s \in SlotIds : s >= thr[i].old[1] => ~ Live(thr[i].old[2], s)
    BY <1>2, <1>6, <2>1 DEF RowsOK
  <2>3. \A g \in Buckets, d \in Nat : g # BucketOf(i) /\ d > 0 => ~ Has(g, d, thr[i].old[2])
    BY <1>2, <1>6, <2>1 DEF RowsOK
  <2> QED BY <1>1, <1>2, <1>3, <1>4, <1>6, <2>1, <2>2, <2>3
<1> QED BY <1>7, <1>8

\* What Enter does: give up, or write the next slot.
EnterWrites(i) ==
    /\ TargetRow(i) \in RowIds /\ thr[i].old[1] \in SlotIds
    /\ slab' = [slab EXCEPT ![TargetRow(i)][thr[i].old[1]] =
                  [tag |-> tagOf(part.meta[i].lp), idx |-> thr[i].base[1]]]
    /\ thr'[i].old = <<thr[i].old[1] + 1, TargetRow(i)>>

LEMMA EnterDoes ==
  ASSUME LockInv, Tagged, NEW i \in DOMAIN thr, Enter(i)
  PROVE  /\ DOMAIN thr' = DOMAIN thr /\ \A k \in DOMAIN thr : k # i => thr'[k] = thr[k]
         /\ DOMAIN thr'[i] = {"pc", "old", "base", "slot"}
         /\ thr'[i].pc = "release" /\ thr'[i].old \in Nat \X Nat
         /\ rows' \in Nat /\ rows' >= rows /\ (thr[i].old[1] = 0 => rows' = rows + 1)
         /\ \/ slab' = slab /\ (thr'[i].old[1] > 0 => thr'[i].old = thr[i].old)
            \/ EnterWrites(i)
<1> USE DEF LockInv, LockParts
<1> DEFINE count == thr[i].old[1]
           row == TargetRow(i)
<1>1. /\ DOMAIN thr[i] = {"pc", "old", "base", "slot"}
      /\ thr[i].old \in Nat \X Nat /\ count \in Nat /\ row \in Nat
      /\ BucketOf(i) \in Buckets /\ Has(BucketOf(i), count, thr[i].old[2])
  BY EnterStarts
<1>2. rows \in Nat /\ sc.slabRows \in Nat /\ sc.rowWidth \in Nat
  BY ScenariosAssumption DEF ShapeOK
<1>3. rows' \in Nat /\ rows' >= rows /\ (count = 0 => rows' = rows + 1)
  BY <1>2 DEF Enter
<1>4. \/ /\ row >= sc.slabRows
         /\ thr' = [thr EXCEPT ![i].pc = "release"]
         /\ slab' = slab
      \/ /\ row < sc.slabRows /\ count < sc.rowWidth
         /\ slab' = [slab EXCEPT ![row][count] = [tag |-> tagOf(part.meta[i].lp), idx |-> thr[i].base[1]]]
         /\ thr' = [thr EXCEPT ![i].pc = "release", ![i].old = <<count + 1, row>>]
      \/ /\ row < sc.slabRows
         /\ thr' = [thr EXCEPT ![i].pc = "release", ![i].old = <<count, row>>]
         /\ slab' = slab
  BY <1>1, <1>2 DEF Enter, TargetRow
<1>5. count > 0 => row = thr[i].old[2] /\ row < sc.slabRows
  <2> SUFFICES ASSUME count > 0
               PROVE  row = thr[i].old[2] /\ row < sc.slabRows
    OBVIOUS
  <2>1. row = thr[i].old[2]
    BY <1>1 DEF TargetRow
  <2>2. row \in RowIds
    BY <1>1, <2>1 DEF RowsOK
  <2> QED BY <1>2, <2>1, <2>2 DEF RowIds
<1>6. thr[i].old = <<count, thr[i].old[2]>>
  BY <1>1
<1>7. CASE row >= sc.slabRows /\ thr' = [thr EXCEPT ![i].pc = "release"] /\ slab' = slab
  <2>1. thr'[i].old = thr[i].old
    BY <1>1, <1>7
  <2> QED BY <1>1, <1>3, <1>7, <2>1
<1> HIDE DEF count, row
<1>8. CASE /\ row < sc.slabRows /\ count < sc.rowWidth
           /\ slab' = [slab EXCEPT ![row][count] = [tag |-> tagOf(part.meta[i].lp), idx |-> thr[i].base[1]]]
           /\ thr' = [thr EXCEPT ![i].pc = "release", ![i].old = <<count + 1, row>>]
  <2>1. /\ DOMAIN thr' = DOMAIN thr /\ \A k \in DOMAIN thr : k # i => thr'[k] = thr[k]
        /\ DOMAIN thr'[i] = {"pc", "old", "base", "slot"}
        /\ thr'[i].pc = "release" /\ thr'[i].old = <<count + 1, row>>
    BY <1>1, <1>8
  <2>2. row \in RowIds /\ count \in SlotIds
    BY <1>1, <1>2, <1>8 DEF RowIds, SlotIds
  <2>3. EnterWrites(i)
    BY <1>8, <2>1, <2>2 DEF EnterWrites, count, row
  <2>4. thr'[i].old \in Nat \X Nat
    BY <1>1, <2>1
  <2> QED BY <1>3, <2>1, <2>3, <2>4 DEF count
<1>9. CASE row < sc.slabRows /\ thr' = [thr EXCEPT ![i].pc = "release", ![i].old = <<count, row>>] /\ slab' = slab
  <2>1. /\ DOMAIN thr' = DOMAIN thr /\ \A k \in DOMAIN thr : k # i => thr'[k] = thr[k]
        /\ DOMAIN thr'[i] = {"pc", "old", "base", "slot"}
        /\ thr'[i].pc = "release" /\ thr'[i].old = <<count, row>>
    BY <1>1, <1>9
  <2>2. thr'[i].old \in Nat \X Nat /\ (thr'[i].old[1] > 0 => thr'[i].old = thr[i].old)
    BY <1>1, <1>5, <1>6, <2>1
  <2> QED BY <1>3, <1>9, <2>1, <2>2 DEF count
<1> QED BY <1>4, <1>7, <1>8, <1>9

LEMMA LockEnter ==
  ASSUME LockInv, Tagged, NEW i \in DOMAIN thr, Enter(i)
  PROVE  LockInv' /\ \A r \in RowIds, s \in SlotIds : Live(r, s) => slab'[r][s] = slab[r][s]
<1> USE DEF LockInv, LockParts
<1> DEFINE b == BucketOf(i)
           count == thr[i].old[1]
           row == TargetRow(i)
           c1 == thr'[i].old[1]
           r1 == thr'[i].old[2]
<1>1. /\ UNCHANGED <<sc, part, dir, phase>> /\ phase = "append" /\ thr[i].pc = "enter"
      /\ b \in Buckets /\ thr[i].old \in Nat \X Nat /\ count \in Nat /\ row \in Nat
      /\ \A k \in DOMAIN thr : Releasing(k) => BucketOf(k) # b
      /\ Has(b, count, thr[i].old[2])
      /\ \A s \in SlotIds : s >= count /\ row \in RowIds => ~ Live(row, s)
      /\ \A g \in Buckets, d \in Nat : g # b /\ d > 0 => ~ Has(g, d, row)
  BY EnterStarts
<1>2. /\ DOMAIN thr' = DOMAIN thr /\ \A k \in DOMAIN thr : k # i => thr'[k] = thr[k]
      /\ DOMAIN thr'[i] = {"pc", "old", "base", "slot"}
      /\ thr'[i].pc = "release" /\ thr'[i].old \in Nat \X Nat
      /\ rows' \in Nat /\ rows \in Nat /\ rows' >= rows /\ (count = 0 => rows' = rows + 1)
      /\ \/ slab' = slab /\ (c1 > 0 => thr'[i].old = thr[i].old)
         \/ EnterWrites(i)
  BY EnterDoes DEF ShapeOK
<1>3. RowIds' = RowIds /\ SlotIds' = SlotIds /\ Buckets' = Buckets
  BY <1>1 DEF RowIds, SlotIds, Buckets
<1>4. \A k \in DOMAIN thr : BucketOf(k)' = BucketOf(k)
  BY <1>1 DEF BucketOf, hashOf
<1>5. /\ \A k \in DOMAIN thr : Releasing(k)' <=> Releasing(k) \/ k = i
      /\ \A k \in DOMAIN thr : InLock(k)' <=> InLock(k)
      /\ InLock(i) /\ ~ Releasing(i)
  BY <1>1, <1>2 DEF InLock, Releasing
<1>6. LocksOK'
  <2>1. \A k \in DOMAIN thr' : thr'[k].pc = "enter" =>
           thr'[k].old = <<dir'[BucketOf(k)'].count, dir'[BucketOf(k)'].row>>
    BY <1>1, <1>2, <1>4 DEF LocksOK
  <2> QED BY <1>1, <1>2, <1>4, <1>5, <2>1 DEF LocksOK
<1>7. \A c, r : \A h \in Buckets : Has(h, c, r)' => (h = b /\ c = c1 /\ r = r1) \/ (h # b /\ Has(h, c, r))
  <2> HIDE DEF b
  <2> QED BY <1>1, <1>2, <1>4, <1>5 DEF Has, b
<1>8. CASE slab' = slab /\ (c1 > 0 => thr'[i].old = thr[i].old)
  <2>1. \A r, s : Live(r, s)' <=> Live(r, s)
    BY <1>8 DEF Live
  <2>2. \A h \in Buckets, c, r \in Nat : Has(h, c, r)' /\ c > 0 => Has(h, c, r)
    BY <1>1, <1>7, <1>8
  <2>3. RowsOK'
    <3>1. \A h \in Buckets, c, r \in Nat : Has(h, c, r)' /\ c > 0 =>
            r \in RowIds /\ r < rows' /\ \A s \in SlotIds : s >= c => ~ Live(r, s)
      <4> TAKE h \in Buckets, c, r \in Nat
      <4> HAVE Has(h, c, r)' /\ c > 0
      <4>1. Has(h, c, r)
        BY <2>2
      <4>2. r \in RowIds /\ r < rows /\ \A s \in SlotIds : s >= c => ~ Live(r, s)
        BY <4>1 DEF RowsOK
      <4> QED BY <1>2, <4>2
    <3>2. \A r \in RowIds, s \in SlotIds : r >= rows' => ~ Live(r, s)
      BY <1>2 DEF RowsOK, RowIds
    <3> QED BY <1>3, <2>1, <2>2, <3>1, <3>2 DEF RowsOK
  <2>4. ShapeOK'
    BY <1>1, <1>2, <1>3, <1>5, <1>8 DEF ShapeOK, Kernels
  <2> QED BY <1>1, <1>6, <1>8, <2>3, <2>4
<1>9. CASE EnterWrites(i)
  <2> DEFINE e == [tag |-> tagOf(part.meta[i].lp), idx |-> thr[i].base[1]]
  <2>1. /\ row \in RowIds /\ count \in SlotIds
        /\ slab' = [slab EXCEPT ![row][count] = e]
        /\ c1 = count + 1 /\ r1 = row
    BY <1>9 DEF EnterWrites
  <2> HIDE DEF e, row, count, c1, r1, b
  <2>2. /\ DOMAIN slab' = RowIds /\ \A r \in RowIds : DOMAIN slab'[r] = SlotIds
        /\ \A r \in RowIds, s \in SlotIds : ~ (r = row /\ s = count) => slab'[r][s] = slab[r][s]
    BY <2>1 DEF ShapeOK
  <2>3. \A r \in RowIds, s \in SlotIds : Live(r, s)' => Live(r, s) \/ (r = row /\ s = count)
    BY <2>2 DEF Live
  <2>4. row < rows'
    <3>1. CASE count = 0
      BY <1>2, <3>1 DEF row, count, TargetRow
    <3>2. CASE count # 0
      <4>1. row = thr[i].old[2] /\ row \in Nat /\ count \in Nat /\ count > 0
        BY <1>1, <3>2 DEF row, count, TargetRow
      <4>2. row < rows
        BY <1>1, <4>1 DEF RowsOK
      <4> QED BY <1>1, <1>2, <4>2
    <3> QED BY <3>1, <3>2
  <2>5. RowsOK'
    <3>1. ASSUME NEW h \in Buckets, NEW c \in Nat, NEW r \in Nat, Has(h, c, r)', c > 0
          PROVE  r \in RowIds /\ r < rows' /\ \A s \in SlotIds : s >= c => ~ Live(r, s)'
      <4>1. CASE h = b
        <5>1. c = count + 1 /\ r = row
          BY <1>7, <2>1, <3>1, <4>1
        <5>2. \A s \in SlotIds : s >= c => s # count /\ s >= count
          BY <1>1, <5>1 DEF SlotIds
        <5> QED BY <1>1, <2>1, <2>3, <2>4, <5>1, <5>2
      <4>2. CASE h # b
        <5>1. Has(h, c, r)
          BY <1>7, <3>1, <4>2
        <5>2. r # row
          BY <1>1, <3>1, <4>2, <5>1
        <5> QED BY <1>2, <2>3, <3>1, <5>1, <5>2 DEF RowsOK
      <4> QED BY <4>1, <4>2
    <3>2. ASSUME NEW h \in Buckets, NEW g \in Buckets, NEW c \in Nat, NEW d \in Nat, NEW r \in Nat,
                 Has(h, c, r)', Has(g, d, r)', c > 0, d > 0
          PROVE  h = g
      <4>1. CASE h = b /\ g # b
        BY <1>1, <1>7, <2>1, <3>2, <4>1
      <4>2. CASE h # b /\ g = b
        BY <1>1, <1>7, <2>1, <3>2, <4>2
      <4>3. CASE h # b /\ g # b
        BY <1>7, <3>2, <4>3 DEF RowsOK
      <4> QED BY <4>1, <4>2, <4>3
    <3>3. \A r \in RowIds, s \in SlotIds : r >= rows' => ~ Live(r, s)'
      BY <1>1, <1>2, <2>3, <2>4 DEF RowsOK, RowIds
    <3> QED BY <1>3, <3>1, <3>2, <3>3 DEF RowsOK
  <2>6. ShapeOK'
    BY <1>1, <1>2, <1>3, <1>5, <2>2 DEF ShapeOK, Kernels
  <2>7. \A r \in RowIds, s \in SlotIds : Live(r, s) => slab'[r][s] = slab[r][s]
    <3>1. ~ Live(row, count)
      BY <1>1, <2>1
    <3> QED BY <2>2, <3>1
  <2> QED BY <1>1, <1>6, <2>5, <2>6, <2>7
<1> QED BY <1>2, <1>8, <1>9

\* A probing thread that wins its slot takes the entry with it; one that loses changes nothing.
LEMMA LockTake ==
  ASSUME LockInv, NEW i \in DOMAIN thr, Take(i)
  PROVE  LockInv' /\ EntryStays
<1> USE DEF LockInv, LockParts
<1> DEFINE r0 == dir[BucketOf(i)].row
           s0 == thr[i].slot
           x == [tag |-> tagOf(part.meta[i].lp), idx |-> thr[i].base[1]]
           t == takeSlot(slab[r0], s0, x)
<1>1. /\ UNCHANGED <<sc, dir, rows>> /\ phase = "probe" /\ phase' = "probe" /\ thr[i].pc = "take"
      /\ DOMAIN thr[i] = {"pc", "old", "base", "slot"}
      /\ slab' = [slab EXCEPT ![r0] = t.row]
      /\ thr' = [thr EXCEPT ![i].pc = IF t.won THEN "match" ELSE "insert"]
  BY DEF Take, Step, BucketOf, ShapeOK, Kernels
<1>2. \/ t.won /\ t.row = [slab[r0] EXCEPT ![s0] = Purged] /\ slab[r0][s0] = x
      \/ ~t.won /\ t.row = slab[r0]
  BY DEF takeSlot
<1>3. x.idx = thr[i].base[1] /\ ~ (Purged.tag > 0)
  BY DEF Purged
<1> HIDE DEF t, x
<1>4. /\ DOMAIN thr' = DOMAIN thr
      /\ \A k \in DOMAIN thr : k # i => thr'[k] = thr[k]
      /\ DOMAIN thr'[i] = {"pc", "old", "base", "slot"}
      /\ thr'[i].pc = (IF t.won THEN "match" ELSE "insert") /\ thr'[i].base = thr[i].base
  BY <1>1
<1> HIDE DEF r0, s0
<1>5. /\ DOMAIN slab' = RowIds /\ \A r \in RowIds : DOMAIN slab'[r] = SlotIds
      /\ \A r \in RowIds, s \in SlotIds : ~ (t.won /\ r = r0 /\ s = s0) => slab'[r][s] = slab[r][s]
      /\ \A r \in RowIds, s \in SlotIds : t.won /\ r = r0 /\ s = s0 => slab'[r][s] = Purged
  BY <1>1, <1>2 DEF ShapeOK
<1>6. \A r \in RowIds, s \in SlotIds : Live(r, s)' => Live(r, s)
  BY <1>3, <1>5 DEF Live
<1>7. ShapeOK'
  BY <1>1, <1>4, <1>5 DEF ShapeOK, Kernels, Buckets, RowIds, SlotIds
<1>8. LockInv'
  <2>1. (\A k \in DOMAIN thr : ~ Releasing(k)) /\ \A k \in DOMAIN thr' : ~ InLock(k)'
    BY <1>1 DEF Releasing, InLock
  <2> QED BY <1>1, <1>6, <1>7, <2>1, LocksIdle
<1>9. EntryStays
  <2> SUFFICES ASSUME NEW r \in RowIds, NEW s \in SlotIds, t.won /\ r = r0 /\ s = s0
               PROVE  Taken(r, s)
    BY <1>5 DEF EntryStays
  <2>1. thr'[i].pc = "match" /\ thr'[i].base[1] = slab[r][s].idx
    BY <1>2, <1>3, <1>4
  <2> QED BY <1>1, <2>1 DEF Taken, r0, s0
<1> QED BY <1>8, <1>9

\* A step of a thread that writes neither the table nor the directory.
LEMMA ThreadFrame ==
  ASSUME LockInv, NEW i \in DOMAIN thr,
         Probe(i) \/ CombineLoad(i) \/ CombineCas(i) \/ AppendLoad(i) \/ AppendCas(i)
  PROVE  /\ UNCHANGED <<sc, dir, rows, slab, part, phase>> /\ phase \in Kernels
         /\ \A k \in DOMAIN thr : DOMAIN thr[k] = {"pc", "old", "base", "slot"}
         /\ DOMAIN thr' = DOMAIN thr
         /\ \A k \in DOMAIN thr : k # i => thr'[k] = thr[k]
         /\ DOMAIN thr'[i] = {"pc", "old", "base", "slot"}
<1> USE DEF LockInv, LockParts
<1>1. UNCHANGED <<sc, dir, rows, slab, part, phase>> /\ phase \in Kernels
  BY DEF Probe, CombineLoad, CombineCas, AppendLoad, AppendCas, Kernels
<1>2. \A k \in DOMAIN thr : DOMAIN thr[k] = {"pc", "old", "base", "slot"}
  BY <1>1 DEF ShapeOK
<1>3. /\ DOMAIN thr' = DOMAIN thr
      /\ \A k \in DOMAIN thr : k # i => thr'[k] = thr[k]
      /\ DOMAIN thr'[i] = {"pc", "old", "base", "slot"}
  <2>1. CASE Probe(i)
    <3>1. PICK pc, slot, base : \/ thr' = [thr EXCEPT ![i].pc = pc]
                                \/ thr' = [thr EXCEPT ![i].pc = pc, ![i].slot = slot, ![i].base = base]
      <4> DEFINE q == part.meta[i].lp
                 row == slab[dir[hashOf(q)].row]
                 hits == {s \in DOMAIN row : row[s].tag = tagOf(q)}
      <4>1. CASE hits = {}
        BY <2>1, <4>1 DEF Probe, Step
      <4>2. CASE hits # {}
        <5>1. thr' = [thr EXCEPT ![i].pc = IF sc.purge THEN "take" ELSE "match",
                                 ![i].slot = Min(hits), ![i].base = <<row[Min(hits)].idx, 0>>]
          BY <2>1, <4>2 DEF Probe
        <5> HIDE DEF hits, row
        <5> QED BY <5>1
      <4> QED BY <4>1, <4>2
    <3> QED BY <1>2, <3>1
  <2>2. CASE CombineLoad(i)
    BY <1>2, <2>2 DEF CombineLoad
  <2>3. CASE CombineCas(i)
    <3>1. thr' = [thr EXCEPT ![i].pc = "done"] \/ thr' = [thr EXCEPT ![i].old = out.dual]
      BY <2>3 DEF CombineCas, Step
    <3> QED BY <1>2, <3>1
  <2>4. CASE AppendLoad(i)
    BY <1>2, <2>4 DEF AppendLoad
  <2>5. CASE AppendCas(i)
    <3>1. \/ thr' = [thr EXCEPT ![i].pc = "done"]
          \/ thr' = [thr EXCEPT ![i].old = wit.dual]
          \/ thr' = [thr EXCEPT ![i].pc = "lock", ![i].base = thr[i].old]
      BY <2>5 DEF AppendCas, Step
    <3> QED BY <1>2, <3>1
  <2> QED BY <2>1, <2>2, <2>3, <2>4, <2>5
<1> QED BY <1>1, <1>2, <1>3

LEMMA LockThread ==
  ASSUME LockInv, NEW i \in DOMAIN thr,
         Probe(i) \/ CombineLoad(i) \/ CombineCas(i) \/ AppendLoad(i) \/ AppendCas(i)
  PROVE  LockInv' /\ slab' = slab
<1> USE DEF LockInv, LockParts
<1>1. UNCHANGED <<sc, dir, rows, slab, part, phase>> /\ phase \in Kernels
  BY ThreadFrame
<1>2. \A k \in DOMAIN thr : DOMAIN thr[k] = {"pc", "old", "base", "slot"}
  BY ThreadFrame
<1>3. /\ DOMAIN thr' = DOMAIN thr
      /\ \A k \in DOMAIN thr : k # i => thr'[k] = thr[k]
      /\ DOMAIN thr'[i] = {"pc", "old", "base", "slot"}
  BY ThreadFrame
<1>4. CASE phase # "append"
  <2>1. /\ \A k \in DOMAIN thr : ~ Releasing(k)
        /\ \A k \in DOMAIN thr' : ~ InLock(k)'
        /\ \A k \in DOMAIN thr' : DOMAIN thr'[k] = {"pc", "old", "base", "slot"}
    BY <1>1, <1>2, <1>3, <1>4 DEF Releasing, InLock
  <2> QED BY <1>1, <2>1, LocksUntouched
<1>5. CASE phase = "append"
  <2>1. AppendLoad(i) \/ AppendCas(i)
    BY <1>5 DEF Probe, CombineLoad, CombineCas
  <2>2. thr[i].pc \in {"insert", "cas"} /\ thr'[i].pc \in {"cas", "done", "lock"}
    <3>1. CASE AppendLoad(i)
      BY <1>2, <3>1 DEF AppendLoad
    <3>2. CASE AppendCas(i)
      <4>1. \/ thr' = [thr EXCEPT ![i].pc = "done"]
            \/ thr' = [thr EXCEPT ![i].old = wit.dual]
            \/ thr' = [thr EXCEPT ![i].pc = "lock", ![i].base = thr[i].old]
        BY <3>2 DEF AppendCas, Step
      <4>2. thr[i].pc = "cas"
        BY <3>2 DEF AppendCas
      <4> QED BY <1>2, <4>1, <4>2
    <3> QED BY <2>1, <3>1, <3>2
  <2>3. ~ InLock(i) /\ ~ InLock(i)'
    BY <2>2 DEF InLock
  <2> QED BY <1>1, <1>3, <1>5, <2>3, LocksAside
<1> QED BY <1>1, <1>4, <1>5

\* The launches of the kernels.
LEMMA LockLaunch ==
  ASSUME LockInv, Launch
  PROVE  LockInv' /\ slab' = slab
<1> USE DEF LockInv, LockParts
<1>1. UNCHANGED <<sc, dir, rows, slab>>
  BY DEF Launch, Begin, FactorizationEnds, ProbeEnds, CombineEnds, PassEnds, Ingest, Finish
<1>2. \A k \in DOMAIN thr : ~ Releasing(k)
  BY DEF Launch, Begin, FactorizationEnds, ProbeEnds, CombineEnds, PassEnds, Ingest, Finish, KernelOver, Releasing
<1>3. \A k \in DOMAIN thr' : ~ InLock(k)'
  BY DEF Launch, Begin, FactorizationEnds, ProbeEnds, CombineEnds, PassEnds, Ingest, Finish, InLock
<1>4. phase' \in Kernels => \A k \in DOMAIN thr' : DOMAIN thr'[k] = {"pc", "old", "base", "slot"}
  <2>1. CASE Begin \/ PassEnds \/ Ingest \/ Finish
    BY <2>1 DEF Begin, PassEnds, Ingest, Finish, Kernels
  <2>2. CASE FactorizationEnds
    <3>1. CASE sc.cpu
      BY <2>2, <3>1 DEF FactorizationEnds, Kernels
    <3>2. CASE ~sc.cpu
      BY <2>2, <3>2 DEF FactorizationEnds, Thread
    <3> QED BY <3>1, <3>2
  <2>3. CASE ProbeEnds
    <3> SUFFICES ASSUME NEW k \in DOMAIN thr'
                 PROVE  DOMAIN thr'[k] = {"pc", "old", "base", "slot"}
      OBVIOUS
    <3>1. k \in DOMAIN thr /\ phase = "probe"
      BY <2>3 DEF ProbeEnds
    <3>2. PICK pc : thr'[k] = [thr[k] EXCEPT !.pc = pc]
      BY <2>3, <3>1 DEF ProbeEnds
    <3> QED BY <3>1, <3>2 DEF ShapeOK, Kernels
  <2>4. CASE CombineEnds
    BY <2>4 DEF CombineEnds, ShapeOK, Kernels
  <2> QED BY <2>1, <2>2, <2>3, <2>4 DEF Launch
<1> QED BY <1>1, <1>2, <1>3, <1>4, LocksUntouched

LEMMA LockInit == Init => LockInv
<1> SUFFICES ASSUME Init
             PROVE  LockInv
  OBVIOUS
<1>1. ShapeOK
  BY DEF Init, ShapeOK, Kernels, RowIds, SlotIds
<1>2. LocksOK
  BY DEF Init, LocksOK, InLock
<1>3. RowsOK
  <2>1. \A c, r : \A h \in Buckets : Has(h, c, r) => c = 0
    BY DEF Init, Has, Releasing
  <2>2. \A r \in RowIds, s \in SlotIds : ~ Live(r, s)
    BY DEF Init, Live, Free, RowIds, SlotIds
  <2> QED BY <2>1, <2>2 DEF RowsOK
<1> QED BY <1>1, <1>2, <1>3 DEF LockInv, LockParts, Init

LEMMA LockStep ==
  ASSUME LockInv, Tagged, [Next]_vars
  PROVE  LockInv' /\ EntryStays
<1>1. slab' = slab => EntryStays
  BY DEF EntryStays
<1>2. CASE UNCHANGED vars
  <2>1. LockInv'
    BY <1>2 DEF vars, LockInv, LockParts, ShapeOK, LocksOK, RowsOK, Has, Live, InLock, Releasing, BucketOf,
                hashOf, Buckets, RowIds, SlotIds, Kernels
  <2> QED BY <1>1, <1>2, <2>1 DEF vars
<1>3. ASSUME NEW i \in DOMAIN thr, NEW what \in {"full", "part"},
             WarpLoad(i, what) \/ WarpCas(i, what) \/ WarpWrite(i, what)
      PROVE  LockInv' /\ EntryStays
  <2>1. UNCHANGED <<sc, dir, slab, rows>> /\ phase = "divide" /\ phase' = "divide"
    BY <1>3 DEF WarpLoad, WarpCas, WarpWrite
  <2>2. LockInv'
    BY <2>1, LocksUntouched DEF Releasing, InLock, Kernels
  <2> QED BY <1>1, <2>1, <2>2
<1>4. ASSUME NEW i \in DOMAIN thr, Lock(i) \/ Enter(i) \/ Release(i)
      PROVE  LockInv' /\ EntryStays
  <2>1. CASE Lock(i)
    BY <1>1, <2>1, LockLock DEF Lock
  <2>2. CASE Enter(i)
    BY <2>2, LockEnter DEF EntryStays
  <2>3. CASE Release(i)
    BY <1>1, <2>3, LockRelease DEF Release
  <2> QED BY <1>4, <2>1, <2>2, <2>3
<1>5. CASE ThreadStep
  <2>1. PICK i \in DOMAIN thr :
          \/ \E what \in {"full", "part"} : WarpLoad(i, what) \/ WarpCas(i, what) \/ WarpWrite(i, what)
          \/ Probe(i) \/ Take(i) \/ CombineLoad(i) \/ CombineCas(i)
          \/ AppendLoad(i) \/ AppendCas(i) \/ Lock(i) \/ Enter(i) \/ Release(i)
    BY <1>5 DEF ThreadStep
  <2> QED BY <1>1, <1>3, <1>4, <2>1, LockTake, LockThread
<1>6. CASE Launch
  BY <1>1, <1>6, LockLaunch
<1>7. CASE Done
  BY <1>2, <1>7 DEF Done
<1> QED BY <1>2, <1>5, <1>6, <1>7 DEF Next

\* The spin lock of a bucket (largeprime.cu, global_append_kernel) is one: between a lock and its
\* release there is one thread per bucket, rows belong to one bucket and are empty past its count.
THEOREM BucketLocksHold == Spec /\ []Tagged => []LockInv
BY LockInit, LockStep, PTL DEF Spec

\* Nothing in the table is overwritten: a stored witness stays in its slot until the probe of one
\* thread takes it out and keeps its index.
THEOREM EntriesStay == Spec /\ []Tagged => [][EntryStays]_vars
BY LockStep, BucketLocksHold, PTL DEF Spec

-----------------------------------------------------------------------------
(* No witness is lost: who holds an index passes it on. *)

Held(w) ==
    \/ \E r \in RowIds, s \in SlotIds : InSlot(r, s, w)
    \/ \E i \in DOMAIN thr : InThread(i, w)
    \/ \E j \in DOMAIN used : Spent(j, w)

\* The exceptions: an overflow that is counted, and a match whose guards refuse the combination.
Counted == over'.slab > over.slab \/ over'.output > over.output
Refused(w) ==
    /\ phase = "probe" /\ phase' = "combine"
    /\ \E i \in DOMAIN thr : InThread(i, w) /\ ~ combinable(Input(i), Rel(wit, w))
TokenKept == ~sc.cpu => \A w : Held(w) => Held(w)' \/ Counted \/ Refused(w)

OverOK == {"slab", "output"} \subseteq DOMAIN over /\ over.slab \in Nat /\ over.output \in Nat
KeptInv == LockInv /\ (~sc.cpu => UsedOK /\ phase # "cpu" /\ OverOK)

\* A step that keeps the table and the pairs, where a thread that lets go of a token is excused.
LEMMA KeptByOthers ==
  ASSUME sc' = sc, slab' = slab, used' = used,
         \A w : \A i \in DOMAIN thr : InThread(i, w) =>
             (\E k \in DOMAIN thr' : InThread(k, w)') \/ Counted \/ Refused(w)
  PROVE  TokenKept
<1>1. RowIds' = RowIds /\ SlotIds' = SlotIds
  BY DEF RowIds, SlotIds
<1>2. \A r, s, w : InSlot(r, s, w)' <=> InSlot(r, s, w)
  BY DEF InSlot
<1>3. \A j, w : Spent(j, w)' <=> Spent(j, w)
  BY DEF Spent
<1> QED BY <1>1, <1>2, <1>3 DEF TokenKept, Held

LEMMA KeptThread ==
  ASSUME KeptInv, ~sc.cpu, NEW i \in DOMAIN thr,
         Probe(i) \/ CombineLoad(i) \/ AppendLoad(i) \/ AppendCas(i)
  PROVE  TokenKept
<1> USE DEF KeptInv
<1>1. /\ UNCHANGED <<sc, slab, phase>> /\ DOMAIN thr[i] = {"pc", "old", "base", "slot"}
      /\ DOMAIN thr' = DOMAIN thr /\ \A k \in DOMAIN thr : k # i => thr'[k] = thr[k]
  BY ThreadFrame
<1>2. used' = used
  BY DEF Probe, CombineLoad, AppendLoad, AppendCas
<1>3. \A w : InThread(i, w) => InThread(i, w)'
  <2>1. CASE Probe(i)
    BY <2>1 DEF Probe, InThread
  <2>2. CASE AppendLoad(i) \/ AppendCas(i)
    BY <2>2 DEF AppendLoad, AppendCas, InThread
  <2>3. CASE CombineLoad(i)
    <3>1. /\ phase = "combine"
          /\ thr' = [thr EXCEPT ![i].pc = "cas", ![i].old = out.dual]
      BY <2>3 DEF CombineLoad
    <3>2. thr'[i].pc = "cas" /\ thr'[i].base = thr[i].base
      BY <1>1, <3>1
    <3> QED BY <1>1, <3>1, <3>2 DEF InThread
  <2> QED BY <2>1, <2>2, <2>3
<1>4. \A w : \A k \in DOMAIN thr : InThread(k, w) => InThread(k, w)'
  BY <1>1, <1>3 DEF InThread
<1> QED BY <1>1, <1>2, <1>4, KeptByOthers

LEMMA KeptCombineCas ==
  ASSUME KeptInv, ~sc.cpu, NEW i \in DOMAIN thr, CombineCas(i)
  PROVE  TokenKept
<1> USE DEF KeptInv
<1> DEFINE w0 == thr[i].base[1]
<1>1. /\ UNCHANGED <<sc, slab, phase>> /\ DOMAIN thr[i] = {"pc", "old", "base", "slot"}
      /\ DOMAIN thr' = DOMAIN thr /\ \A k \in DOMAIN thr : k # i => thr'[k] = thr[k]
  BY ThreadFrame
<1>2. phase = "combine" /\ thr[i].pc = "cas"
  BY DEF CombineCas
<1>3. \A w : \A k \in DOMAIN thr : k # i /\ InThread(k, w) => InThread(k, w)'
  BY <1>1 DEF InThread
<1>4. \/ used' = used /\ over' = [over EXCEPT !.output = @ + 1]
      \/ used' = used /\ thr' = [thr EXCEPT ![i].old = out.dual]
      \/ used' = Append(used, [a |-> Input(i).u, b |-> wit.meta[w0].u, w |-> w0])
  BY DEF CombineCas, Step
<1>5. CASE used' = used /\ over' = [over EXCEPT !.output = @ + 1]
  <2>1. Counted
    BY <1>5 DEF Counted, OverOK
  <2> QED BY <2>1 DEF TokenKept
<1>6. CASE used' = used /\ thr' = [thr EXCEPT ![i].old = out.dual]
  <2>1. thr'[i].pc = "cas" /\ thr'[i].base = thr[i].base
    BY <1>1, <1>2, <1>6
  <2>2. \A w : InThread(i, w) => InThread(i, w)'
    BY <1>1, <1>2, <2>1 DEF InThread
  <2> QED BY <1>1, <1>3, <1>6, <2>2, KeptByOthers
<1>7. CASE used' = Append(used, [a |-> Input(i).u, b |-> wit.meta[w0].u, w |-> w0])
  <2> DEFINE e == [a |-> Input(i).u, b |-> wit.meta[w0].u, w |-> w0]
             n == Len(used) + 1
  <2>1. e.w = w0
    OBVIOUS
  <2>2. used' = Append(used, e)
    BY <1>7
  <2> HIDE DEF e
  <2>3. /\ DOMAIN used' = DOMAIN used \cup {n}
        /\ \A j \in DOMAIN used : used'[j] = used[j]
        /\ used'[n] = e
    BY <2>2, UsedGrows
  <2> HIDE DEF n
  <2> SUFFICES ASSUME NEW w, Held(w)
               PROVE  Held(w)'
    BY DEF TokenKept
  <2>4. ASSUME NEW j \in DOMAIN used, Spent(j, w)
        PROVE  Held(w)'
    <3>1. j \in DOMAIN used' /\ Spent(j, w)'
      BY <2>3, <2>4 DEF Spent
    <3> QED BY <3>1 DEF Held
  <2>5. ASSUME InThread(i, w)
        PROVE  Held(w)'
    <3>1. w = w0
      BY <2>5 DEF InThread
    <3>2. PICK j \in DOMAIN used' : used'[j].w = w
      BY <2>1, <2>3, <3>1
    <3>3. Spent(j, w)'
      BY <3>2 DEF Spent
    <3> QED BY <3>3 DEF Held
  <2>6. ASSUME NEW k \in DOMAIN thr, k # i, InThread(k, w)
        PROVE  Held(w)'
    <3>1. k \in DOMAIN thr' /\ InThread(k, w)'
      BY <1>1, <1>3, <2>6
    <3> QED BY <3>1 DEF Held
  <2>7. ASSUME NEW r \in RowIds, NEW s \in SlotIds, InSlot(r, s, w)
        PROVE  Held(w)'
    <3>1. r \in RowIds' /\ s \in SlotIds' /\ InSlot(r, s, w)'
      BY <1>1, <2>7 DEF RowIds, SlotIds, InSlot
    <3> QED BY <3>1 DEF Held
  <2> QED BY <2>4, <2>5, <2>6, <2>7 DEF Held
<1> QED BY <1>4, <1>5, <1>6, <1>7

LEMMA KeptTake ==
  ASSUME KeptInv, ~sc.cpu, NEW i \in DOMAIN thr, Take(i)
  PROVE  TokenKept
<1> USE DEF KeptInv
<1>1. EntryStays
  BY LockTake
<1>2. /\ UNCHANGED <<sc, used, phase>> /\ phase = "probe" /\ thr[i].pc = "take"
      /\ DOMAIN thr' = DOMAIN thr /\ \A k \in DOMAIN thr : k # i => thr'[k] = thr[k]
  BY DEF Take, Step
<1>3. \A w : \A k \in DOMAIN thr : InThread(k, w) => InThread(k, w)'
  BY <1>2 DEF InThread
<1>4. \A w : \A r \in RowIds, s \in SlotIds : InSlot(r, s, w) =>
         InSlot(r, s, w)' \/ \E k \in DOMAIN thr' : InThread(k, w)'
  <2> SUFFICES ASSUME NEW w, NEW r \in RowIds, NEW s \in SlotIds, InSlot(r, s, w)
               PROVE  InSlot(r, s, w)' \/ \E k \in DOMAIN thr' : InThread(k, w)'
    OBVIOUS
  <2>1. Live(r, s) /\ slab[r][s].idx = w
    BY DEF InSlot, Live
  <2>2. CASE slab'[r][s] = slab[r][s]
    BY <2>2 DEF InSlot
  <2>3. CASE Taken(r, s)
    BY <1>2, <2>1, <2>3 DEF Taken, InThread
  <2> QED BY <1>1, <2>1, <2>2, <2>3 DEF EntryStays
<1>5. RowIds' = RowIds /\ SlotIds' = SlotIds /\ \A j, w : Spent(j, w)' <=> Spent(j, w)
  BY <1>2 DEF RowIds, SlotIds, Spent
<1> QED BY <1>2, <1>3, <1>4, <1>5 DEF TokenKept, Held

LEMMA KeptEnter ==
  ASSUME KeptInv, Tagged, ~sc.cpu, NEW i \in DOMAIN thr, Enter(i)
  PROVE  TokenKept
<1> USE DEF KeptInv
<1>1. /\ UNCHANGED <<sc, used, phase>> /\ phase = "append" /\ thr[i].pc = "enter"
      /\ \A k \in DOMAIN thr : k # i => thr'[k] = thr[k]
      /\ DOMAIN thr' = DOMAIN thr
  BY EnterStarts, EnterDoes DEF Enter
<1>2. \A r \in RowIds, s \in SlotIds : Live(r, s) => slab'[r][s] = slab[r][s]
  BY LockEnter
<1>3. \A w : \A r \in RowIds, s \in SlotIds : InSlot(r, s, w) => InSlot(r, s, w)'
  BY <1>2 DEF InSlot, Live
<1>4. \A w : \A k \in DOMAIN thr : k # i /\ InThread(k, w) => InThread(k, w)'
  BY <1>1 DEF InThread
<1>5. RowIds' = RowIds /\ SlotIds' = SlotIds /\ \A j, w : Spent(j, w)' <=> Spent(j, w)
  BY <1>1 DEF RowIds, SlotIds, Spent
<1>6. \/ over' = [over EXCEPT !.slab = @ + 1]
      \/ EnterWrites(i)
  <2> DEFINE count == thr[i].old[1]
             row == TargetRow(i)
  <2>1. \/ over' = [over EXCEPT !.slab = @ + 1]
        \/ /\ ~ (row >= sc.slabRows) /\ count < sc.rowWidth
           /\ slab' = [slab EXCEPT ![row][count] = [tag |-> tagOf(part.meta[i].lp), idx |-> thr[i].base[1]]]
           /\ thr' = [thr EXCEPT ![i].pc = "release", ![i].old = <<count + 1, row>>]
    BY DEF Enter, TargetRow
  <2>2. /\ row \in Nat /\ count \in Nat /\ sc.slabRows \in Nat /\ sc.rowWidth \in Nat
        /\ DOMAIN thr[i] = {"pc", "old", "base", "slot"}
    BY EnterStarts, ScenariosAssumption DEF LockInv
  <2> HIDE DEF count, row
  <2>3. CASE /\ ~ (row >= sc.slabRows) /\ count < sc.rowWidth
             /\ slab' = [slab EXCEPT ![row][count] = [tag |-> tagOf(part.meta[i].lp), idx |-> thr[i].base[1]]]
             /\ thr' = [thr EXCEPT ![i].pc = "release", ![i].old = <<count + 1, row>>]
    <3>1. row \in RowIds /\ count \in SlotIds
      BY <2>2, <2>3 DEF RowIds, SlotIds
    <3>2. thr'[i].old = <<count + 1, row>>
      BY <2>2, <2>3
    <3> QED BY <2>3, <3>1, <3>2 DEF EnterWrites, count, row
  <2> QED BY <2>1, <2>3
<1>7. CASE over' = [over EXCEPT !.slab = @ + 1]
  <2>1. Counted
    BY <1>7 DEF Counted, OverOK
  <2> QED BY <2>1 DEF TokenKept
<1>8. CASE EnterWrites(i)
  <2> DEFINE row == TargetRow(i)
             count == thr[i].old[1]
             e == [tag |-> tagOf(part.meta[i].lp), idx |-> thr[i].base[1]]
  <2>1. row \in RowIds /\ count \in SlotIds /\ slab' = [slab EXCEPT ![row][count] = e]
    BY <1>8 DEF EnterWrites
  <2>2. e.tag > 0 /\ e.idx = thr[i].base[1]
    BY <1>1 DEF Tagged, Kernels
  <2> HIDE DEF e, row, count
  <2>3. slab'[row][count] = e
    BY <2>1 DEF LockInv, LockParts, ShapeOK
  <2> SUFFICES ASSUME NEW w, Held(w)
               PROVE  Held(w)'
    BY DEF TokenKept
  <2>4. ASSUME InThread(i, w)
        PROVE  Held(w)'
    <3>1. w = thr[i].base[1]
      BY <2>4 DEF InThread
    <3>2. slab'[row][count].tag > 0 /\ slab'[row][count].idx = w
      BY <2>2, <2>3, <3>1
    <3>3. PICK r \in RowIds', s \in SlotIds' : slab'[r][s].tag > 0 /\ slab'[r][s].idx = w
      BY <1>5, <2>1, <3>2
    <3>4. InSlot(r, s, w)'
      BY <3>3 DEF InSlot
    <3> QED BY <3>3, <3>4 DEF Held
  <2>5. ASSUME NEW k \in DOMAIN thr, k # i, InThread(k, w)
        PROVE  Held(w)'
    <3>1. k \in DOMAIN thr' /\ InThread(k, w)'
      BY <1>1, <1>4, <2>5
    <3> QED BY <3>1 DEF Held
  <2>6. ASSUME NEW r \in RowIds, NEW s \in SlotIds, InSlot(r, s, w)
        PROVE  Held(w)'
    <3>1. r \in RowIds' /\ s \in SlotIds' /\ InSlot(r, s, w)'
      BY <1>3, <1>5, <2>6
    <3> QED BY <3>1 DEF Held
  <2>7. ASSUME NEW j \in DOMAIN used, Spent(j, w)
        PROVE  Held(w)'
    <3>1. j \in DOMAIN used' /\ Spent(j, w)'
      BY <1>1, <1>5, <2>7
    <3> QED BY <3>1 DEF Held
  <2> QED BY <2>4, <2>5, <2>6, <2>7 DEF Held
<1> QED BY <1>6, <1>7, <1>8

LEMMA KeptLock ==
  ASSUME KeptInv, ~sc.cpu, NEW i \in DOMAIN thr, Lock(i) \/ Release(i)
  PROVE  TokenKept
<1> USE DEF KeptInv
<1>1. /\ UNCHANGED <<sc, slab, used, phase>> /\ phase = "append"
      /\ DOMAIN thr[i] = {"pc", "old", "base", "slot"}
  BY DEF Lock, Release, LockInv, LockParts, ShapeOK, Kernels
<1>2. PICK d : \/ thr[i].pc = "release" /\ thr' = [thr EXCEPT ![i].pc = "done"]
               \/ thr' = [thr EXCEPT ![i].pc = "enter", ![i].old = d]
  BY DEF Lock, Release, Step
<1>3. /\ DOMAIN thr' = DOMAIN thr /\ \A k \in DOMAIN thr : k # i => thr'[k] = thr[k]
      /\ thr[i].pc # "release" => thr'[i].pc = "enter" /\ thr'[i].base = thr[i].base
  BY <1>1, <1>2
<1>4. \A w : \A k \in DOMAIN thr : InThread(k, w) => InThread(k, w)'
  BY <1>1, <1>3 DEF InThread
<1> QED BY <1>1, <1>3, <1>4, KeptByOthers

LEMMA KeptLaunch ==
  ASSUME KeptInv, ~sc.cpu, Launch
  PROVE  TokenKept
<1> USE DEF KeptInv
<1>1. CASE ProbeEnds
  <2>1. /\ UNCHANGED <<sc, slab, used>> /\ phase = "probe" /\ phase' = "combine"
        /\ DOMAIN thr' = DOMAIN thr
    BY <1>1 DEF ProbeEnds
  <2>2. ASSUME NEW w, NEW i \in DOMAIN thr, InThread(i, w)
        PROVE  InThread(i, w)' \/ Refused(w)
    <3>1. thr[i].pc = "match" /\ thr[i].base[1] = w
      BY <2>1, <2>2 DEF InThread
    <3>2. DOMAIN thr[i] = {"pc", "old", "base", "slot"}
      BY <2>1 DEF LockInv, LockParts, ShapeOK, Kernels
    <3>3. thr'[i] = [thr[i] EXCEPT !.pc = IF combinable(Input(i), Rel(wit, w)) THEN "load" ELSE "done"]
      BY <1>1, <3>1 DEF ProbeEnds
    <3>4. CASE combinable(Input(i), Rel(wit, w))
      <4>1. thr'[i].pc = "load" /\ thr'[i].base = thr[i].base
        BY <3>2, <3>3, <3>4
      <4> QED BY <2>1, <3>1, <4>1 DEF InThread
    <3>5. CASE ~ combinable(Input(i), Rel(wit, w))
      BY <2>1, <2>2, <3>5 DEF Refused
    <3> QED BY <3>4, <3>5
  <2> QED BY <2>1, <2>2, KeptByOthers
<1>2. CASE Begin \/ FactorizationEnds \/ CombineEnds \/ PassEnds \/ Finish
  <2>1. UNCHANGED <<sc, slab, used>>
    BY <1>2 DEF Begin, FactorizationEnds, CombineEnds, PassEnds, Finish
  <2>2. \A w : \A i \in DOMAIN thr : ~ InThread(i, w)
    BY <1>2 DEF Begin, FactorizationEnds, CombineEnds, PassEnds, Finish, KernelOver, InThread
  <2> QED BY <2>1, <2>2, KeptByOthers
<1>3. ~ Ingest
  BY DEF Ingest
<1> QED BY <1>1, <1>2, <1>3 DEF Launch

\* The history of pairs, the phase and the counters of overflows.
LEMMA KeptStep ==
  ASSUME KeptInv, Tagged, [Next]_vars
  PROVE  KeptInv' /\ TokenKept
<1> USE DEF KeptInv
<1>1. LockInv'
  BY LockStep
<1>2. sc' = sc
  <2>1. ASSUME NEW i \in DOMAIN thr, NEW what \in {"full", "part"},
               WarpLoad(i, what) \/ WarpCas(i, what) \/ WarpWrite(i, what)
        PROVE  sc' = sc
    BY <2>1 DEF WarpLoad, WarpCas, WarpWrite
  <2>2. ASSUME NEW i \in DOMAIN thr, Probe(i) \/ Take(i) \/ CombineLoad(i) \/ CombineCas(i)
        PROVE  sc' = sc
    BY <2>2 DEF Probe, Take, CombineLoad, CombineCas
  <2>3. ASSUME NEW i \in DOMAIN thr, AppendLoad(i) \/ AppendCas(i) \/ Lock(i) \/ Enter(i) \/ Release(i)
        PROVE  sc' = sc
    BY <2>3 DEF AppendLoad, AppendCas, Lock, Enter, Release
  <2>4. CASE Launch
    BY <2>4 DEF Launch, Begin, FactorizationEnds, ProbeEnds, CombineEnds, PassEnds, Ingest, Finish
  <2>5. CASE Done \/ UNCHANGED vars
    BY <2>5 DEF Done, vars
  <2> QED BY <2>1, <2>2, <2>3, <2>4, <2>5 DEF Next, ThreadStep
<1> SUFFICES ASSUME ~sc.cpu
             PROVE  UsedOK' /\ phase' # "cpu" /\ OverOK' /\ TokenKept
  BY <1>1, <1>2 DEF TokenKept
<1>3. ASSUME UNCHANGED <<used, over>>, phase' # "cpu"
      PROVE  UsedOK' /\ phase' # "cpu" /\ OverOK'
  BY <1>3 DEF UsedOK, OverOK
<1>4. ASSUME NEW i \in DOMAIN thr, NEW what \in {"full", "part"},
             WarpLoad(i, what) \/ WarpCas(i, what) \/ WarpWrite(i, what)
      PROVE  UsedOK' /\ phase' # "cpu" /\ OverOK' /\ TokenKept
  <2>1. UNCHANGED <<sc, slab, used>> /\ phase = "divide" /\ phase' = "divide"
    BY <1>4 DEF WarpLoad, WarpCas, WarpWrite
  <2>2. over' = over \/ over' = [over EXCEPT !.refused = @ + Len(Chosen(i, what))]
    BY <1>4 DEF WarpLoad, WarpCas, WarpWrite
  <2>3. UsedOK' /\ OverOK'
    BY <2>1, <2>2 DEF UsedOK, OverOK
  <2>4. \A w : \A k \in DOMAIN thr : ~ InThread(k, w)
    BY <2>1 DEF InThread
  <2> QED BY <2>1, <2>3, <2>4, KeptByOthers
<1>5. ASSUME NEW i \in DOMAIN thr, Probe(i) \/ Take(i) \/ CombineLoad(i) \/ AppendLoad(i) \/ Lock(i) \/ Release(i)
      PROVE  UsedOK' /\ phase' # "cpu" /\ OverOK' /\ TokenKept
  <2>1. UNCHANGED <<used, over>> /\ phase' # "cpu"
    BY <1>5 DEF Probe, Take, CombineLoad, AppendLoad, Lock, Release
  <2> QED BY <1>3, <1>5, <2>1, KeptThread, KeptTake, KeptLock
<1>6. ASSUME NEW i \in DOMAIN thr, CombineCas(i)
      PROVE  UsedOK' /\ phase' # "cpu" /\ OverOK' /\ TokenKept
  <2>1. phase' # "cpu" /\ (over' = over \/ over' = [over EXCEPT !.output = @ + 1])
    BY <1>6 DEF CombineCas
  <2>2. PICK e : used' = used \/ used' = Append(used, e)
    BY <1>6 DEF CombineCas
  <2>3. UsedOK'
    <3>1. CASE used' = used
      BY <3>1 DEF UsedOK
    <3>2. CASE used' = Append(used, e)
      BY <3>2, UsedGrows
    <3> QED BY <2>2, <3>1, <3>2
  <2>4. OverOK'
    BY <2>1 DEF OverOK
  <2> QED BY <1>6, <2>1, <2>3, <2>4, KeptCombineCas
<1>7. ASSUME NEW i \in DOMAIN thr, AppendCas(i) \/ Enter(i)
      PROVE  UsedOK' /\ phase' # "cpu" /\ OverOK' /\ TokenKept
  <2>1. used' = used /\ phase' # "cpu"
    BY <1>7 DEF AppendCas, Enter
  <2>2. over' = over \/ over' = [over EXCEPT !.witness = @ + 1] \/ over' = [over EXCEPT !.slab = @ + 1]
    BY <1>7 DEF AppendCas, Enter
  <2>3. UsedOK' /\ OverOK'
    BY <2>1, <2>2 DEF UsedOK, OverOK
  <2> QED BY <1>7, <2>1, <2>3, KeptThread, KeptEnter
<1>8. CASE Launch
  <2>1. used' = used /\ phase' # "cpu"
    <3>1. ~ Ingest
      BY DEF Ingest
    <3> QED BY <1>8, <3>1 DEF Launch, Begin, FactorizationEnds, ProbeEnds, CombineEnds, PassEnds, Finish
  <2>2. PICK x : over' = over \/ over' = [over EXCEPT !.refused = x]
    BY <1>8 DEF Launch, Begin, FactorizationEnds, ProbeEnds, CombineEnds, PassEnds, Ingest, Finish
  <2>3. UsedOK' /\ OverOK'
    BY <2>1, <2>2 DEF UsedOK, OverOK
  <2> QED BY <1>8, <2>1, <2>3, KeptLaunch
<1>9. CASE Done \/ UNCHANGED vars
  <2>1. UNCHANGED <<sc, slab, used, over, thr, phase>>
    BY <1>9 DEF Done, vars
  <2>2. \A w : \A k \in DOMAIN thr : InThread(k, w) => k \in DOMAIN thr' /\ InThread(k, w)'
    BY <2>1 DEF InThread
  <2> QED BY <1>3, <2>1, <2>2, KeptByOthers
<1> QED BY <1>4, <1>5, <1>6, <1>7, <1>8, <1>9 DEF Next, ThreadStep

\* No stored witness is lost on the GPU: its index passes from slot to thread to combined pair, or its
\* loss is an overflow the kernels count, or the combine refuses the match (same relation, other prime).
THEOREM WitnessesKept == Spec /\ []Tagged => [][TokenKept]_vars
<1>1. Init => KeptInv
  <2> SUFFICES ASSUME Init
               PROVE  KeptInv
    OBVIOUS
  <2>1. UsedOK /\ phase # "cpu" /\ OverOK
    BY DEF Init, UsedOK, OverOK
  <2> QED BY <2>1, LockInit DEF KeptInv
<1> QED BY <1>1, KeptStep, PTL DEF Spec

=============================================================================
