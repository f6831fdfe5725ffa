--------------------------- MODULE SpscRingProofs ---------------------------
(***************************************************************************)
(* Proofs about SpscRing, for every size of the ring, every coalescing     *)
(* count and any number of batches: the two threads never meet at a slot,  *)
(* the ring is drained when the I/O thread ends, and it implements the     *)
(* queue TapQueue.                                                         *)
(***************************************************************************)
EXTENDS SpscRing, SequenceTheorems, TLAPS

Item == 0 .. MaxItems

(* Types of the two indices, the slots and the locals of both threads. *)
RingTypeOK ==
  /\ head \in Index /\ tail \in Index /\ h \in Index
  /\ headSeen \in Index /\ tailSeen \in Index
  /\ slots \in [Index -> Item]
  /\ shutdown \in BOOLEAN
  /\ ppc \in {"sieve", "check", "fill", "publish", "join", "over"}
  /\ cpc \in {"top", "size", "load", "move", "over"}
  /\ item \in Nat \ {0} /\ (ppc \in {"check", "fill", "publish"} => item \in 1 .. MaxItems)
  /\ batch \in Seq(Item) /\ delivered \in Seq(Item) /\ accepted \in Seq(Item)

(* Going round the ring: head_ as the sieve thread saw it, head_, popBatch's h,
   tail_ as the I/O thread saw it, tail_; and one slot is left before the first.
   While tryPush writes there are two. *)
InOrder ==
  Ahead(headSeen, head) + Ahead(head, h) + Ahead(h, tailSeen) + Ahead(tailSeen, tail)
    <= IF ppc \in {"fill", "publish"} THEN N - 2 ELSE N - 1

(* popBatch holds the slots between head_ and h, and nothing between two calls. *)
PopState ==
  /\ Len(batch) = Ahead(head, h)
  /\ cpc # "move" => h = head

(* Every slot that waits for nobody is empty, but the one tryPush has filled. *)
Clean ==
  /\ \A i \in Index : Ahead(h, i) >= Ahead(h, tail) =>
       slots[i] = IF i = tail /\ ppc = "publish" THEN item ELSE Empty

(* The batches accepted are those delivered and those in the ring, in order. *)
InSequence == accepted = delivered \o Waiting

(* shutdown_ is stored after the last push; the I/O thread leaves on an empty ring. *)
Ending ==
  /\ shutdown <=> ppc \in {"join", "over"}
  /\ cpc = "size" => shutdown
  /\ cpc = "over" => shutdown /\ h = tail

RingInv == RingTypeOK /\ InOrder /\ PopState /\ Clean /\ InSequence /\ Ending

-----------------------------------------------------------------------------
(* Arithmetic on the indices, without the remainder. *)
LEMMA AheadValue ==
  ASSUME NEW i \in Index, NEW j \in Index
  PROVE  Ahead(i, j) = IF i <= j THEN j - i ELSE j - i + N
  BY NAssumption DEF Ahead, Index

(* Stepping past the last index wraps to the first. *)
LEMMA StepValue ==
  ASSUME NEW i \in Index, NEW k \in 0 .. N
  PROVE  (i + k) % N = IF i + k < N THEN i + k ELSE i + k - N
  BY NAssumption DEF Index

(* The same for Succ, which masks. *)
LEMMA SuccValue ==
  ASSUME NEW i \in Index
  PROVE  Succ(i) = IF i + 1 < N THEN i + 1 ELSE 0
  BY NAssumption DEF Succ, Index

(* Distances are below N, and a step round the ring stays in it. *)
LEMMA AheadRange ==
  ASSUME NEW i \in Index, NEW j \in Index
  PROVE  Ahead(i, j) \in 0 .. N - 1 /\ (Ahead(i, j) = 0 <=> i = j)
  BY AheadValue, NAssumption DEF Index

(* The successor of an index is an index. *)
LEMMA SuccRange == \A i \in Index : Succ(i) \in Index
  BY SuccValue, NAssumption DEF Index

(* Distances of less than a round add up. *)
LEMMA AheadAdds ==
  ASSUME NEW i \in Index, NEW j \in Index, NEW k \in Index,
         Ahead(i, j) + Ahead(j, k) < N
  PROVE  Ahead(i, k) = Ahead(i, j) + Ahead(j, k)
  BY AheadValue, NAssumption DEF Index

(* One step of the far end of a distance, and of its near end. *)
LEMMA AheadGrows ==
  ASSUME NEW i \in Index, NEW j \in Index, Ahead(i, j) < N - 1
  PROVE  Ahead(i, Succ(j)) = Ahead(i, j) + 1
<1>1. Succ(j) \in Index /\ Succ(j) = IF j + 1 < N THEN j + 1 ELSE 0
  BY SuccValue, SuccRange
<1>2. Ahead(i, Succ(j)) = IF i <= Succ(j) THEN Succ(j) - i ELSE Succ(j) - i + N
  BY <1>1, AheadValue
<1> QED BY <1>1, <1>2, AheadValue, NAssumption DEF Index

(* Moving the head one on brings the tail one nearer. *)
LEMMA AheadShrinks ==
  ASSUME NEW i \in Index, NEW j \in Index, i # j
  PROVE  Ahead(Succ(i), j) = Ahead(i, j) - 1
<1>1. Succ(i) \in Index /\ Succ(i) = IF i + 1 < N THEN i + 1 ELSE 0
  BY SuccValue, SuccRange
<1>2. Ahead(Succ(i), j) = IF Succ(i) <= j THEN j - Succ(i) ELSE j - Succ(i) + N
  BY <1>1, AheadValue
<1> QED BY <1>1, <1>2, AheadValue, NAssumption DEF Index

(* A stale load: the values an index had divide the way to its present value. *)
LEMMA StaleLoad ==
  ASSUME NEW seen \in Index, NEW now \in Index, NEW x \in SinceSeen(seen, now)
  PROVE  /\ x \in Index
         /\ Ahead(seen, now) = Ahead(seen, x) + Ahead(x, now)
<1>1. PICK k \in 0 .. Ahead(seen, now) : x = (seen + k) % N
  BY DEF SinceSeen
<1>2. k \in 0 .. N - 1
  BY <1>1, AheadRange, NAssumption
<1>3. x = IF seen + k < N THEN seen + k ELSE seen + k - N
  BY <1>1, <1>2, StepValue, NAssumption DEF Index
<1>4. x \in Index
  BY <1>2, <1>3, NAssumption DEF Index
<1>5. Ahead(seen, x) = k
  BY <1>2, <1>3, <1>4, AheadValue, NAssumption DEF Index
<1>6. Ahead(x, now) = Ahead(seen, now) - k
  BY <1>1, <1>2, <1>3, <1>4, AheadValue, NAssumption DEF Index
<1> QED BY <1>4, <1>5, <1>6, AheadRange, NAssumption

-----------------------------------------------------------------------------
(* The contents of the ring from index i up to index j. *)
Window(i, j, s) == [k \in 1 .. Ahead(i, j) |-> s[(i + k - 1) % N]]

(* A window of the slots is a sequence. *)
LEMMA WindowSeq ==
  ASSUME NEW i \in Index, NEW j \in Index, NEW s \in [Index -> Item]
  PROVE  /\ Window(i, j, s) \in Seq(Item)
         /\ Len(Window(i, j, s)) = Ahead(i, j)
         /\ \A k \in 1 .. Ahead(i, j) : /\ (i + k - 1) % N \in Index
                                        /\ Window(i, j, s)[k] = s[(i + k - 1) % N]
<1>1. Ahead(i, j) \in 0 .. N - 1
  BY AheadRange
<1>2. ASSUME NEW k \in 1 .. Ahead(i, j) PROVE (i + k - 1) % N \in Index
  <2>1. k - 1 \in 0 .. N
    BY <1>1, NAssumption
  <2>2. (i + (k - 1)) % N = IF i + (k - 1) < N THEN i + (k - 1) ELSE i + (k - 1) - N
    BY <2>1, StepValue
  <2>3. i + k - 1 = i + (k - 1)
    BY <1>1, NAssumption DEF Index
  <2> QED BY <2>1, <2>2, <2>3, NAssumption DEF Index
<1>3. Window(i, j, s) \in [1 .. Ahead(i, j) -> Item]
  BY <1>2 DEF Window
<1>4. Ahead(i, j) \in Nat
  BY <1>1, NAssumption
<1>5. Window(i, j, s) \in Seq(Item)
  BY <1>3, <1>4, SeqDef
<1>6. DOMAIN Window(i, j, s) = 1 .. Ahead(i, j)
  BY DEF Window
<1>7. Len(Window(i, j, s)) = Ahead(i, j)
  BY <1>4, <1>5, <1>6, LenProperties
<1> QED BY <1>2, <1>5, <1>7 DEF Window

(* The k-th slot from i on is the one at distance k - 1. *)
LEMMA WindowPlace ==
  ASSUME NEW i \in Index, NEW k \in 1 .. N
  PROVE  /\ (i + k - 1) % N \in Index
         /\ Ahead(i, (i + k - 1) % N) = k - 1
<1>1. k - 1 \in 0 .. N - 1 /\ i + k - 1 = i + (k - 1)
  BY NAssumption DEF Index
<1>2. (i + (k - 1)) % N = IF i + (k - 1) < N THEN i + (k - 1) ELSE i + (k - 1) - N
  BY <1>1, StepValue, NAssumption
<1>3. (i + k - 1) % N \in Index
  BY <1>1, <1>2, NAssumption DEF Index
<1> QED BY <1>1, <1>2, <1>3, AheadValue, NAssumption DEF Index

(* Two states of the slots that agree between i and j have the same contents there. *)
LEMMA WindowSame ==
  ASSUME NEW i \in Index, NEW j \in Index, NEW s, NEW t,
         \A x \in Index : Ahead(i, x) < Ahead(i, j) => s[x] = t[x]
  PROVE  Window(i, j, s) = Window(i, j, t)
<1>1. Ahead(i, j) \in 0 .. N - 1
  BY AheadRange
<1>2. \A k \in 1 .. Ahead(i, j) : s[(i + k - 1) % N] = t[(i + k - 1) % N]
  <2> SUFFICES ASSUME NEW k \in 1 .. Ahead(i, j)
               PROVE  s[(i + k - 1) % N] = t[(i + k - 1) % N]
    OBVIOUS
  <2>1. k \in 1 .. N /\ k - 1 < Ahead(i, j)
    BY <1>1, NAssumption
  <2> QED BY <2>1, WindowPlace
<1> QED BY <1>2 DEF Window

(* A push adds the slot at the far end ... *)
LEMMA WindowAppend ==
  ASSUME NEW i \in Index, NEW j \in Index, NEW s \in [Index -> Item], Ahead(i, j) < N - 1
  PROVE  Window(i, Succ(j), s) = Append(Window(i, j, s), s[j])
<1> DEFINE n == Ahead(i, j)
           U == Window(i, j, s)
           V == Window(i, Succ(j), s)
<1>1. Succ(j) \in Index /\ Ahead(i, Succ(j)) = n + 1 /\ n \in Nat /\ s[j] \in Item
  BY SuccRange, AheadGrows, AheadRange, NAssumption
<1>2. /\ U \in Seq(Item) /\ Len(U) = n /\ V \in Seq(Item) /\ Len(V) = n + 1
      /\ \A k \in 1 .. n : U[k] = s[(i + k - 1) % N]
      /\ \A k \in 1 .. n + 1 : V[k] = s[(i + k - 1) % N]
  <2>1. /\ U \in Seq(Item) /\ Len(U) = n
        /\ \A k \in 1 .. n : U[k] = s[(i + k - 1) % N]
    BY WindowSeq
  <2>2. /\ V \in Seq(Item) /\ Len(V) = Ahead(i, Succ(j))
        /\ \A k \in 1 .. Ahead(i, Succ(j)) : V[k] = s[(i + k - 1) % N]
    BY <1>1, WindowSeq
  <2> HIDE DEF U, V, n
  <2> QED BY <2>1, <2>2, <1>1
<1>3. (i + (n + 1) - 1) % N = j
  <2>1. n + 1 \in 1 .. N
    BY <1>1, NAssumption
  <2>2. (i + n) % N = IF i + n < N THEN i + n ELSE i + n - N
    BY <2>1, <1>1, StepValue, NAssumption
  <2>3. i + (n + 1) - 1 = i + n
    BY <1>1 DEF Index
  <2>4. n = IF i <= j THEN j - i ELSE j - i + N
    BY AheadValue
  <2> HIDE DEF n
  <2> QED BY <2>2, <2>3, <2>4, NAssumption DEF Index
<1>4. V[n + 1] = s[j]
  BY <1>1, <1>2, <1>3
<1>5. /\ Append(U, s[j]) \in Seq(Item) /\ Len(Append(U, s[j])) = n + 1
      /\ \A k \in 1 .. n : Append(U, s[j])[k] = U[k]
      /\ Append(U, s[j])[n + 1] = s[j]
  BY <1>1, <1>2, AppendProperties
<1>6. \A k \in 1 .. n + 1 : V[k] = Append(U, s[j])[k]
  BY <1>1, <1>2, <1>4, <1>5
<1> HIDE DEF U, V, n
<1> QED BY <1>2, <1>5, <1>6, SeqEqual DEF U, V, n

(* ... and a pop takes the slot at the near end. *)
LEMMA WindowHead ==
  ASSUME NEW i \in Index, NEW j \in Index, NEW s \in [Index -> Item], i # j
  PROVE  Window(i, j, s) = <<s[i]>> \o Window(Succ(i), j, s)
<1> DEFINE n == Ahead(i, j)
           U == Window(i, j, s)
           V == Window(Succ(i), j, s)
<1>1. Succ(i) \in Index /\ Ahead(Succ(i), j) = n - 1 /\ n \in 1 .. N - 1 /\ s[i] \in Item
  BY SuccRange, AheadShrinks, AheadRange, NAssumption
<1>2. /\ U \in Seq(Item) /\ Len(U) = n /\ V \in Seq(Item) /\ Len(V) = n - 1
      /\ \A k \in 1 .. n : U[k] = s[(i + k - 1) % N]
      /\ \A k \in 1 .. n - 1 : V[k] = s[(Succ(i) + k - 1) % N]
  <2>1. /\ U \in Seq(Item) /\ Len(U) = n
        /\ \A k \in 1 .. n : U[k] = s[(i + k - 1) % N]
    BY WindowSeq
  <2>2. /\ V \in Seq(Item) /\ Len(V) = Ahead(Succ(i), j)
        /\ \A k \in 1 .. Ahead(Succ(i), j) : V[k] = s[(Succ(i) + k - 1) % N]
    BY <1>1, WindowSeq
  <2> HIDE DEF U, V, n
  <2> QED BY <2>1, <2>2, <1>1
<1>3. <<s[i]>> \in Seq(Item) /\ Len(<<s[i]>>) = 1 /\ <<s[i]>>[1] = s[i]
  BY <1>1
<1>4. /\ <<s[i]>> \o V \in Seq(Item) /\ Len(<<s[i]>> \o V) = n
      /\ \A k \in 1 .. n : (<<s[i]>> \o V)[k] = IF k <= 1 THEN s[i] ELSE V[k - 1]
  <2>1. Len(<<s[i]>>) + Len(V) = n
    BY <1>1, <1>2, <1>3, NAssumption
  <2> HIDE DEF V, n
  <2> QED BY <2>1, <1>2, <1>3, ConcatProperties
<1>5. ASSUME NEW k \in 1 .. n
      PROVE  U[k] = (<<s[i]>> \o V)[k]
  <2>1. CASE k = 1
    <3>1. (i + 1 - 1) % N = i
      <4>1. (i + 0) % N = IF i + 0 < N THEN i + 0 ELSE i + 0 - N
        BY StepValue, NAssumption
      <4> QED BY <4>1, NAssumption DEF Index
    <3> QED BY <2>1, <3>1, <1>1, <1>2, <1>4, NAssumption
  <2>2. CASE k # 1
    <3>1. k - 1 \in 1 .. n - 1 /\ k \in 1 .. n
      BY <2>2, <1>1, NAssumption
    <3>2. (Succ(i) + (k - 1) - 1) % N = (i + k - 1) % N
      <4>1. k - 2 \in 0 .. N /\ k - 1 \in 0 .. N
        BY <3>1, <1>1, NAssumption
      <4>2. (Succ(i) + (k - 2)) % N = IF Succ(i) + (k - 2) < N THEN Succ(i) + (k - 2) ELSE Succ(i) + (k - 2) - N
        BY <4>1, <1>1, StepValue
      <4>3. (i + (k - 1)) % N = IF i + (k - 1) < N THEN i + (k - 1) ELSE i + (k - 1) - N
        BY <4>1, StepValue
      <4>4. Succ(i) + (k - 1) - 1 = Succ(i) + (k - 2) /\ i + k - 1 = i + (k - 1)
        BY <4>1, <1>1, NAssumption DEF Index
      <4>5. Succ(i) = IF i + 1 < N THEN i + 1 ELSE 0
        BY SuccValue
      <4>6. k - 2 < N - 1 /\ k \in Int
        BY <3>1, <1>1, NAssumption
      <4> HIDE DEF n
      <4> QED BY <4>1, <4>2, <4>3, <4>4, <4>5, <4>6, <1>1, NAssumption DEF Index
    <3>3. V[k - 1] = s[(i + k - 1) % N]
      BY <3>1, <3>2, <1>2
    <3> QED BY <3>1, <3>3, <2>2, <1>2, <1>4, NAssumption
  <2> QED BY <2>1, <2>2
<1> HIDE DEF U, V, n
<1> QED BY <1>2, <1>4, <1>5, SeqEqual DEF U, V, n

-----------------------------------------------------------------------------
(* What the order of the indices says about the distances between them. *)
LEMMA Distances ==
  ASSUME RingTypeOK, InOrder
  PROVE  /\ Ahead(h, tail) = Ahead(h, tailSeen) + Ahead(tailSeen, tail)
         /\ Ahead(head, tail) = Ahead(head, h) + Ahead(h, tail)
         /\ Ahead(headSeen, tail) = Ahead(headSeen, head) + Ahead(head, tail)
         /\ Ahead(h, tail) \in 0 .. N - 1 /\ Ahead(head, tail) \in 0 .. N - 1
         /\ Ahead(headSeen, tail) \in 0 .. N - 1
         /\ ppc \in {"fill", "publish"} => Ahead(headSeen, tail) < N - 1
<1>1. /\ head \in Index /\ tail \in Index /\ h \in Index /\ headSeen \in Index /\ tailSeen \in Index
  BY DEF RingTypeOK
<1>2. /\ Ahead(headSeen, head) \in 0 .. N - 1 /\ Ahead(head, h) \in 0 .. N - 1
      /\ Ahead(h, tailSeen) \in 0 .. N - 1 /\ Ahead(tailSeen, tail) \in 0 .. N - 1
      /\ Ahead(h, tail) \in 0 .. N - 1 /\ Ahead(head, tail) \in 0 .. N - 1
      /\ Ahead(headSeen, tail) \in 0 .. N - 1
  BY <1>1, AheadRange
<1>3. /\ Ahead(headSeen, head) + Ahead(head, h) + Ahead(h, tailSeen) + Ahead(tailSeen, tail) <= N - 1
      /\ ppc \in {"fill", "publish"} =>
           Ahead(headSeen, head) + Ahead(head, h) + Ahead(h, tailSeen) + Ahead(tailSeen, tail) <= N - 2
  BY <1>2, NAssumption DEF InOrder
<1>4. Ahead(h, tail) = Ahead(h, tailSeen) + Ahead(tailSeen, tail)
  BY <1>1, <1>2, <1>3, AheadAdds, NAssumption
<1>5. Ahead(head, tail) = Ahead(head, h) + Ahead(h, tail)
  BY <1>1, <1>2, <1>3, <1>4, AheadAdds, NAssumption
<1>6. Ahead(headSeen, tail) = Ahead(headSeen, head) + Ahead(head, tail)
  BY <1>1, <1>2, <1>3, <1>4, <1>5, AheadAdds, NAssumption
<1> QED BY <1>2, <1>3, <1>4, <1>5, <1>6, NAssumption

(* What waits in the queue: the popped batch, then the slots from h to the tail. *)
LEMMA WaitingIs == Waiting = batch \o Window(h, tail, slots)
  BY DEF Waiting, Window

(* The initial state. *)
LEMMA RingInit == Init => RingInv
<1> SUFFICES ASSUME Init PROVE RingInv
  OBVIOUS
<1> USE DEF Init
<1>1. 0 \in Index /\ Ahead(0, 0) = 0
  BY AheadRange, NAssumption DEF Index
<1>2. RingTypeOK
  BY <1>1, MaxItemsAssumption DEF RingTypeOK, Item, Empty
<1>3. InOrder /\ PopState /\ Ending
  BY <1>1, NAssumption DEF InOrder, PopState, Ending
<1>4. Clean
  BY DEF Clean
<1>5. InSequence
  <2>1. Window(h, tail, slots) \in Seq(Item) /\ Len(Window(h, tail, slots)) = 0
    BY <1>1, <1>2, WindowSeq DEF RingTypeOK
  <2>2. Window(h, tail, slots) = <<>>
    BY <2>1, EmptySeq
  <2> QED BY <2>2, WaitingIs DEF InSequence
<1> QED BY <1>2, <1>3, <1>4, <1>5 DEF RingInv

(* A step of one thread's program counter alone. *)
LEMMA PushBeginInv == RingInv /\ PushBegin => RingInv'
<1> SUFFICES ASSUME RingInv, PushBegin PROVE RingInv'
  OBVIOUS
<1> USE DEF RingInv, PushBegin, ioThread
<1>1. RingTypeOK'
  BY MaxItemsAssumption DEF RingTypeOK
<1>2. InOrder' /\ PopState' /\ Clean' /\ InSequence' /\ Ending'
  BY DEF InOrder, PopState, Clean, InSequence, Ending, Waiting, RingTypeOK
<1> QED BY <1>1, <1>2

(* tryPush looks at a head_ that may be stale; it goes on only if the ring is not
   full seen from there, so that two slots are left before what it saw. *)
LEMMA PushCheckInv == RingInv /\ PushCheck => RingInv'
<1> SUFFICES ASSUME RingInv, PushCheck PROVE RingInv'
  OBVIOUS
<1> USE DEF RingInv
<1>1. PICK seen \in SinceSeen(headSeen, head) :
        /\ headSeen' = seen
        /\ \/ Full(seen) /\ ppc' = "sieve" /\ item' = item + 1
           \/ ~Full(seen) /\ ppc' = "fill" /\ UNCHANGED item
  BY DEF PushCheck
<1>2. /\ ppc = "check" /\ UNCHANGED <<accepted, tail, shutdown, slots, cpc, tailSeen, h, batch, delivered, head>>
  BY DEF PushCheck, ioThread
<1>3. /\ head \in Index /\ tail \in Index /\ h \in Index /\ headSeen \in Index /\ tailSeen \in Index
  BY DEF RingTypeOK
<1>4. seen \in Index /\ Ahead(headSeen, head) = Ahead(headSeen, seen) + Ahead(seen, head)
  BY <1>3, StaleLoad
<1>5. RingTypeOK'
  BY <1>1, <1>2, <1>3, <1>4 DEF RingTypeOK
<1>6. InOrder'
  <2>1. /\ Ahead(headSeen, seen) \in 0 .. N - 1 /\ Ahead(seen, head) \in 0 .. N - 1
        /\ Ahead(head, h) \in 0 .. N - 1 /\ Ahead(h, tailSeen) \in 0 .. N - 1
        /\ Ahead(tailSeen, tail) \in 0 .. N - 1 /\ Ahead(seen, tail) \in 0 .. N - 1
    BY <1>3, <1>4, AheadRange
  <2>2. Ahead(seen, head) + Ahead(head, h) + Ahead(h, tailSeen) + Ahead(tailSeen, tail) <= N - 1
    BY <1>2, <1>4, <2>1, NAssumption DEF InOrder
  <2>3. Ahead(seen, tail) = Ahead(seen, head) + Ahead(head, h) + Ahead(h, tailSeen) + Ahead(tailSeen, tail)
    <3>1. Ahead(head, tail) = Ahead(head, h) + Ahead(h, tailSeen) + Ahead(tailSeen, tail)
      BY Distances, <2>1, NAssumption
    <3> QED BY <3>1, <2>1, <2>2, <1>3, <1>4, AheadAdds, NAssumption
  <2>4. ~Full(seen) => Ahead(seen, tail) # N - 1
    BY <1>3, <1>4, AheadValue, SuccValue, NAssumption DEF Full, Index
  <2>5. ppc' = "fill" => Ahead(seen, tail) <= N - 2
    BY <1>1, <2>1, <2>4, NAssumption
  <2> QED BY <1>1, <1>2, <2>1, <2>2, <2>3, <2>5, NAssumption DEF InOrder
<1>7. PopState' /\ Clean' /\ InSequence' /\ Ending'
  BY <1>1, <1>2 DEF PopState, Clean, InSequence, Ending, Waiting, RingTypeOK
<1> QED BY <1>5, <1>6, <1>7

(* The filled slot lies outside the window, so nothing the ring holds changes. *)
LEMMA FillKeeps ==
  ASSUME RingInv, PushFill
  PROVE  slots' \in [Index -> Item] /\ Waiting' = Waiting
<1>1. /\ h \in Index /\ tail \in Index /\ slots \in [Index -> Item] /\ item \in Item
  BY DEF RingInv, RingTypeOK, PushFill, Item
<1>2. /\ slots' = [slots EXCEPT ![tail] = item] /\ UNCHANGED <<h, tail, batch>>
  BY DEF PushFill, ioThread
<1>3. ASSUME NEW x \in Index, Ahead(h, x) < Ahead(h, tail)
      PROVE  slots'[x] = slots[x]
  <2>1. Ahead(h, tail) \in 0 .. N - 1
    BY <1>1, AheadRange
  <2>2. x # tail
    BY <1>3, <2>1, NAssumption
  <2> QED BY <1>1, <1>2, <2>2
<1>4. \A x \in Index : Ahead(h, x) < Ahead(h, tail) => slots'[x] = slots[x]
  BY <1>3
<1>5. Window(h, tail, slots') = Window(h, tail, slots)
  <2> DEFINE u == slots'
             v == slots
  <2>1. \A x \in Index : Ahead(h, x) < Ahead(h, tail) => u[x] = v[x]
    BY <1>4
  <2> HIDE DEF u, v
  <2>2. Window(h, tail, u) = Window(h, tail, v)
    BY <1>1, <2>1, WindowSame
  <2> QED BY <2>2 DEF u, v
<1>6. Waiting' = batch \o Window(h, tail, slots')
  BY <1>2 DEF Waiting, Window
<1> QED BY <1>1, <1>2, <1>5, <1>6, WaitingIs

(* onBatchComplete fills the slot at the tail. *)
LEMMA PushFillInv == RingInv /\ PushFill => RingInv'
<1> SUFFICES ASSUME RingInv, PushFill PROVE RingInv'
  OBVIOUS
<1>1. Waiting' = Waiting
  BY FillKeeps
<1> USE DEF RingInv, PushFill, ioThread
<1>2. RingTypeOK'
  BY DEF RingTypeOK, Item
<1>3. InOrder' /\ PopState' /\ Ending'
  BY DEF InOrder, PopState, Ending, RingTypeOK
<1>4. Clean'
  BY DEF Clean, RingTypeOK
<1>5. InSequence'
  BY <1>1 DEF InSequence
<1> QED BY <1>2, <1>3, <1>4, <1>5

(* The store of tail_ takes the filled slot into the window. *)
LEMMA PublishAppends ==
  ASSUME RingInv, PushPublish
  PROVE  /\ Waiting' = Append(Waiting, item)
         /\ Waiting \in Seq(Item) /\ Len(Waiting) < N - 1
         /\ item \in 1 .. MaxItems
<1> USE DEF RingInv, PushPublish, ioThread
<1>1. /\ tail \in Index /\ h \in Index /\ slots \in [Index -> Item] /\ batch \in Seq(Item)
      /\ head \in Index /\ headSeen \in Index /\ item \in 1 .. MaxItems /\ item \in Item
  BY DEF RingTypeOK, Item
<1>2. slots[tail] = item
  <2>1. Ahead(h, tail) \in 0 .. N - 1
    BY <1>1, AheadRange
  <2>2. Ahead(h, tail) >= Ahead(h, tail) /\ ppc = "publish"
    BY <2>1, NAssumption
  <2> QED BY <1>1, <2>2 DEF Clean
<1>3. /\ Ahead(h, tail) < N - 1 /\ Ahead(h, tail) \in Nat
      /\ Len(batch) + Ahead(h, tail) < N - 1 /\ Len(batch) \in Nat
  <2>1. Ahead(headSeen, tail) < N - 1
    BY Distances
  <2>2. Ahead(headSeen, tail) = Ahead(headSeen, head) + Ahead(head, tail)
    BY Distances
  <2>3. Ahead(head, tail) = Ahead(head, h) + Ahead(h, tail)
    BY Distances
  <2>4. /\ Ahead(headSeen, head) \in 0 .. N - 1 /\ Ahead(head, h) \in 0 .. N - 1 /\ Ahead(h, tail) \in 0 .. N - 1
    BY <1>1, AheadRange
  <2> QED BY <2>1, <2>2, <2>3, <2>4, NAssumption DEF PopState
<1>4. Window(h, Succ(tail), slots) = Append(Window(h, tail, slots), item)
  BY <1>1, <1>2, <1>3, WindowAppend
<1>5. Window(h, tail, slots) \in Seq(Item) /\ Len(Window(h, tail, slots)) = Ahead(h, tail)
  BY <1>1, WindowSeq
<1>6. Waiting' = batch \o Append(Window(h, tail, slots), item)
  BY <1>4 DEF Waiting, Window
<1>7. batch \o Append(Window(h, tail, slots), item) = Append(batch \o Window(h, tail, slots), item)
  <2> DEFINE W == Window(h, tail, slots)
  <2>1. W \in Seq(Item) /\ batch \in Seq(Item) /\ item \in Item
    BY <1>1, <1>5
  <2> HIDE DEF W
  <2>2. <<item>> \in Seq(Item) /\ batch \o W \in Seq(Item)
    BY <2>1, ConcatProperties
  <2>3. Append(W, item) = W \o <<item>> /\ Append(batch \o W, item) = (batch \o W) \o <<item>>
    BY <2>1, <2>2, AppendIsConcat
  <2>4. (batch \o W) \o <<item>> = batch \o (W \o <<item>>)
    BY <2>1, <2>2, ConcatAssociative
  <2> QED BY <2>3, <2>4 DEF W
<1>8. Waiting \in Seq(Item) /\ Len(Waiting) = Len(batch) + Ahead(h, tail)
  BY <1>1, <1>5, WaitingIs, ConcatProperties
<1> QED BY <1>1, <1>3, <1>6, <1>7, <1>8, WaitingIs

(* onBatchComplete publishes the new tail. *)
LEMMA PushPublishInv == RingInv /\ PushPublish => RingInv'
<1> SUFFICES ASSUME RingInv, PushPublish PROVE RingInv'
  OBVIOUS
<1>0. /\ tail \in Index /\ h \in Index /\ head \in Index /\ headSeen \in Index /\ tailSeen \in Index
      /\ slots \in [Index -> Item] /\ delivered \in Seq(Item)
  BY DEF RingInv, RingTypeOK
<1>1. /\ Waiting' = Append(Waiting, item) /\ Waiting \in Seq(Item) /\ item \in 1 .. MaxItems
  BY PublishAppends
<1> USE DEF RingInv, PushPublish, ioThread
<1>2. RingTypeOK'
  BY <1>1, SuccRange, AppendProperties DEF RingTypeOK, Item
<1>3. Ahead(headSeen, tail) < N - 1 /\ ppc = "publish"
  BY Distances
<1>4. /\ Ahead(headSeen, head) \in 0 .. N - 1 /\ Ahead(head, h) \in 0 .. N - 1 /\ Ahead(h, tail) \in 0 .. N - 1
      /\ Ahead(h, tailSeen) \in 0 .. N - 1 /\ Ahead(tailSeen, tail) \in 0 .. N - 1
  BY <1>0, AheadRange
<1>5. /\ Ahead(headSeen, head) + Ahead(head, h) + Ahead(h, tailSeen) + Ahead(tailSeen, tail) <= N - 2
      /\ Ahead(h, tail) = Ahead(h, tailSeen) + Ahead(tailSeen, tail)
  BY <1>3, Distances DEF InOrder
<1>6. /\ Ahead(tailSeen, tail') = Ahead(tailSeen, tail) + 1
      /\ Ahead(h, tail') = Ahead(h, tail) + 1
  BY <1>0, <1>4, <1>5, AheadGrows, NAssumption
<1>7. InOrder'
  BY <1>4, <1>5, <1>6, NAssumption DEF InOrder
<1>8. PopState' /\ Ending'
  BY <1>3 DEF PopState, Ending
<1>9. Clean'
  <2> SUFFICES ASSUME NEW i \in Index, Ahead(h, i) >= Ahead(h, tail) + 1
               PROVE  slots[i] = Empty
    BY <1>6 DEF Clean
  <2>0. Ahead(h, i) \in 0 .. N - 1
    BY <1>0, AheadRange
  <2>1. i # tail /\ Ahead(h, i) >= Ahead(h, tail)
    BY <1>4, <2>0, NAssumption
  <2> QED BY <2>1 DEF Clean
<1>10. InSequence'
  <2>1. accepted = delivered \o Waiting
    BY DEF InSequence
  <2>2. item \in Item /\ <<item>> \in Seq(Item) /\ delivered \o Waiting \in Seq(Item)
    BY <1>0, <1>1, ConcatProperties DEF Item
  <2>3. Append(delivered \o Waiting, item) = (delivered \o Waiting) \o <<item>>
    BY <2>2, AppendIsConcat
  <2>4. Append(Waiting, item) = Waiting \o <<item>>
    BY <1>1, <2>2, AppendIsConcat
  <2>5. (delivered \o Waiting) \o <<item>> = delivered \o (Waiting \o <<item>>)
    BY <1>0, <1>1, <2>2, ConcatAssociative
  <2> QED BY <1>1, <2>1, <2>3, <2>4, <2>5 DEF InSequence
<1> QED BY <1>2, <1>7, <1>8, <1>9, <1>10

(* The other steps of the sieve thread's program counter. *)
LEMMA ShutdownInv == RingInv /\ (Shutdown \/ Join) => RingInv'
<1> SUFFICES ASSUME RingInv, Shutdown \/ Join PROVE RingInv'
  OBVIOUS
<1> USE DEF RingInv, Shutdown, Join, ioThread
<1>1. RingTypeOK'
  BY DEF RingTypeOK
<1>2. InOrder' /\ PopState' /\ Clean' /\ InSequence' /\ Ending'
  BY DEF InOrder, PopState, Clean, InSequence, Ending, Waiting, RingTypeOK
<1> QED BY <1>1, <1>2

-----------------------------------------------------------------------------
(* The I/O thread: the loop's head. *)
LEMMA LoopTopInv == RingInv /\ LoopTop => RingInv'
<1> SUFFICES ASSUME RingInv, LoopTop PROVE RingInv'
  OBVIOUS
<1> USE DEF RingInv, LoopTop, sieveThread
<1>1. RingTypeOK'
  BY DEF RingTypeOK
<1>2. InOrder' /\ PopState' /\ Clean' /\ InSequence' /\ Ending'
  BY DEF InOrder, PopState, Clean, InSequence, Ending, Waiting, RingTypeOK
<1> QED BY <1>1, <1>2

(* A load of tail_ by the I/O thread moves tailSeen within the way to tail_. *)
LEMMA LoadOrder ==
  ASSUME RingTypeOK, InOrder, NEW t \in SinceSeen(tailSeen, tail)
  PROVE  /\ t \in Index
         /\ Ahead(headSeen, head) + Ahead(head, h) + Ahead(h, t) + Ahead(t, tail)
              = Ahead(headSeen, head) + Ahead(head, h) + Ahead(h, tailSeen) + Ahead(tailSeen, tail)
<1>1. /\ head \in Index /\ tail \in Index /\ h \in Index /\ headSeen \in Index /\ tailSeen \in Index
  BY DEF RingTypeOK
<1>2. t \in Index /\ Ahead(tailSeen, tail) = Ahead(tailSeen, t) + Ahead(t, tail)
  BY <1>1, StaleLoad
<1>3. /\ Ahead(headSeen, head) \in 0 .. N - 1 /\ Ahead(head, h) \in 0 .. N - 1
      /\ Ahead(h, tailSeen) \in 0 .. N - 1 /\ Ahead(tailSeen, t) \in 0 .. N - 1 /\ Ahead(t, tail) \in 0 .. N - 1
  BY <1>1, <1>2, AheadRange
<1>4. /\ Ahead(headSeen, head) + Ahead(head, h) + Ahead(h, tailSeen) + Ahead(tailSeen, tail) <= N - 1
  BY <1>1, <1>2, AheadRange, NAssumption DEF InOrder
<1>5. Ahead(h, t) = Ahead(h, tailSeen) + Ahead(tailSeen, t)
  BY <1>1, <1>2, <1>3, <1>4, AheadAdds, NAssumption
<1> QED BY <1>2, <1>3, <1>5, NAssumption

(* The last value of tail_ is one of those a load can return. *)
LEMMA LastLoad ==
  ASSUME NEW seen \in Index, NEW now \in Index
  PROVE  now \in SinceSeen(seen, now)
<1>1. Ahead(seen, now) \in 0 .. N - 1 /\ Ahead(seen, now) = IF seen <= now THEN now - seen ELSE now - seen + N
  BY AheadRange, AheadValue
<1>2. Ahead(seen, now) \in 0 .. N
  BY <1>1, NAssumption
<1>3. (seen + Ahead(seen, now)) % N = IF seen + Ahead(seen, now) < N THEN seen + Ahead(seen, now) ELSE seen + Ahead(seen, now) - N
  BY <1>2, StepValue
<1>4. (seen + Ahead(seen, now)) % N = now
  BY <1>1, <1>3, NAssumption DEF Index
<1>5. Ahead(seen, now) \in 0 .. Ahead(seen, now)
  BY <1>1, NAssumption
<1> QED BY <1>4, <1>5 DEF SinceSeen

(* Once shutdown_ is seen the load returns the last tail_, so that an empty ring is empty
   for good: the I/O thread leaves only then. *)
LEMMA LoopSizeInv == RingInv /\ LoopSize => RingInv'
<1> SUFFICES ASSUME RingInv, LoopSize PROVE RingInv'
  OBVIOUS
<1> USE DEF RingInv
<1>1. /\ cpc = "size" /\ tailSeen' = tail /\ cpc' = IF Ahead(head, tail) = 0 THEN "over" ELSE "load"
      /\ UNCHANGED <<h, batch, delivered, head, ppc, item, headSeen, accepted, tail, shutdown, slots>>
  BY DEF LoopSize, TailLoads, sieveThread
<1>2. /\ head \in Index /\ tail \in Index /\ h \in Index /\ headSeen \in Index /\ tailSeen \in Index
  BY DEF RingTypeOK
<1>3. tail \in SinceSeen(tailSeen, tail)
  BY <1>2, LastLoad
<1>4. RingTypeOK'
  BY <1>1, <1>2 DEF RingTypeOK
<1>5. InOrder'
  BY <1>1, <1>3, LoadOrder DEF InOrder
<1>6. PopState' /\ Clean' /\ InSequence'
  BY <1>1 DEF PopState, Clean, InSequence, Waiting
<1>7. cpc' = "over" => h = tail
  BY <1>1, <1>2, AheadRange DEF PopState
<1>8. Ending'
  BY <1>1, <1>7 DEF Ending
<1> QED BY <1>4, <1>5, <1>6, <1>8

(* popBatch loads the tail. *)
LEMMA PopLoadInv == RingInv /\ PopLoad => RingInv'
<1> SUFFICES ASSUME RingInv, PopLoad PROVE RingInv'
  OBVIOUS
<1> USE DEF RingInv
<1>1. PICK t \in SinceSeen(tailSeen, tail) : tailSeen' = t
  BY DEF PopLoad
<1>2. /\ cpc = "load" /\ h' = head /\ batch' = <<>> /\ cpc' = "move"
      /\ UNCHANGED <<delivered, head, ppc, item, headSeen, accepted, tail, shutdown, slots>>
  BY DEF PopLoad, sieveThread
<1>3. head \in Index /\ h \in Index /\ batch \in Seq(Item)
  BY DEF RingTypeOK
<1>4. h = head /\ Len(batch) = 0
  BY <1>2, <1>3, AheadRange DEF PopState
<1>5. h' = h /\ batch' = batch
  BY <1>2, <1>3, <1>4, EmptySeq
<1>6. RingTypeOK'
  BY <1>1, <1>2, <1>5, LoadOrder DEF RingTypeOK
<1>7. InOrder'
  BY <1>1, <1>2, <1>5, LoadOrder DEF InOrder
<1>8. PopState' /\ Clean' /\ InSequence' /\ Ending'
  BY <1>2, <1>4, <1>5 DEF PopState, Clean, InSequence, Ending, Waiting
<1> QED BY <1>6, <1>7, <1>8

(* popBatch takes a slot from the near end of the window and empties it: the batches in
   the ring stay the same. *)
LEMMA MoveKeeps ==
  ASSUME RingInv, PopMove
  PROVE  /\ h \in Index /\ h # tail /\ Succ(h) \in Index
         /\ Ahead(Succ(h), tail) = Ahead(h, tail) - 1
         /\ Ahead(Succ(h), tailSeen) = Ahead(h, tailSeen) - 1
         /\ Ahead(head, Succ(h)) = Ahead(head, h) + 1
         /\ slots' \in [Index -> Item]
         /\ batch' \in Seq(Item) /\ Len(batch') = Len(batch) + 1
         /\ Waiting' = Waiting
<1> USE DEF RingInv, PopMove, More, sieveThread
<1>1. /\ tail \in Index /\ h \in Index /\ head \in Index /\ headSeen \in Index /\ tailSeen \in Index
      /\ slots \in [Index -> Item] /\ batch \in Seq(Item) /\ h # tailSeen
  BY DEF RingTypeOK
<1>2. /\ Ahead(headSeen, head) \in 0 .. N - 1 /\ Ahead(head, h) \in 0 .. N - 1 /\ Ahead(h, tail) \in 0 .. N - 1
      /\ Ahead(h, tailSeen) \in 0 .. N - 1 /\ Ahead(tailSeen, tail) \in 0 .. N - 1 /\ Ahead(h, tailSeen) # 0
      /\ Ahead(head, tail) \in 0 .. N - 1
      /\ (h = tail => Ahead(h, tail) = 0)
  BY <1>1, AheadRange
<1>3. /\ Ahead(h, tail) = Ahead(h, tailSeen) + Ahead(tailSeen, tail)
      /\ Ahead(head, tail) = Ahead(head, h) + Ahead(h, tail)
  BY Distances
<1>4. h # tail /\ Ahead(head, h) < N - 1
  BY <1>2, <1>3, NAssumption
<1>5. Succ(h) \in Index /\ Ahead(head, Succ(h)) = Ahead(head, h) + 1
  BY <1>1, <1>4, SuccRange, AheadGrows
<1>6. /\ Ahead(Succ(h), tail) = Ahead(h, tail) - 1
      /\ Ahead(Succ(h), tailSeen) = Ahead(h, tailSeen) - 1
  BY <1>1, <1>4, AheadShrinks
<1>7. slots' \in [Index -> Item] /\ slots[h] \in Item
  BY <1>1, MaxItemsAssumption DEF Empty, Item
<1>8. batch' \in Seq(Item) /\ Len(batch') = Len(batch) + 1
  BY <1>1, <1>7, AppendProperties
<1>9. Window(Succ(h), tail, slots') = Window(Succ(h), tail, slots)
  <2>1. ASSUME NEW x \in Index, Ahead(Succ(h), x) < Ahead(Succ(h), tail)
        PROVE  slots'[x] = slots[x]
    <3>1. x # h
      <4>1. Ahead(Succ(h), h) = N - 1
        <5>1. Succ(h) = IF h + 1 < N THEN h + 1 ELSE 0
          BY <1>1, SuccValue
        <5>2. Ahead(Succ(h), h) = IF Succ(h) <= h THEN h - Succ(h) ELSE h - Succ(h) + N
          BY <1>1, <1>5, AheadValue
        <5> QED BY <1>1, <5>1, <5>2, NAssumption DEF Index
      <4> QED BY <2>1, <4>1, <1>2, <1>6, NAssumption
    <3> QED BY <1>1, <3>1
  <2>2. \A x \in Index : Ahead(Succ(h), x) < Ahead(Succ(h), tail) => slots'[x] = slots[x]
    BY <2>1
  <2> DEFINE g == Succ(h)
             u == slots'
             v == slots
  <2>3. g \in Index /\ tail \in Index /\ \A x \in Index : Ahead(g, x) < Ahead(g, tail) => u[x] = v[x]
    BY <1>1, <1>5, <2>2
  <2> HIDE DEF g, u, v
  <2>4. Window(g, tail, u) = Window(g, tail, v)
    BY <2>3, WindowSame
  <2> QED BY <2>4 DEF g, u, v
<1>10. Window(h, tail, slots) = <<slots[h]>> \o Window(Succ(h), tail, slots)
  BY <1>1, <1>4, WindowHead
<1>11. Waiting' = batch' \o Window(Succ(h), tail, slots')
  BY DEF Waiting, Window
<1>12. Append(batch, slots[h]) = batch \o <<slots[h]>>
  BY <1>1, <1>7, AppendIsConcat
<1>13. (batch \o <<slots[h]>>) \o Window(Succ(h), tail, slots) = batch \o (<<slots[h]>> \o Window(Succ(h), tail, slots))
  <2>1. Window(Succ(h), tail, slots) \in Seq(Item) /\ <<slots[h]>> \in Seq(Item)
    BY <1>1, <1>5, <1>7, WindowSeq
  <2> QED BY <1>1, <2>1, ConcatAssociative
<1>14. Waiting' = Waiting
  BY <1>9, <1>10, <1>11, <1>12, <1>13, WaitingIs
<1> QED BY <1>1, <1>4, <1>5, <1>6, <1>7, <1>8, <1>14

(* popBatch moves slots out. *)
LEMMA PopMoveInv == RingInv /\ PopMove => RingInv'
<1> SUFFICES ASSUME RingInv, PopMove PROVE RingInv'
  OBVIOUS
<1>1. /\ h \in Index /\ h # tail /\ Succ(h) \in Index
      /\ Ahead(Succ(h), tail) = Ahead(h, tail) - 1
      /\ Ahead(Succ(h), tailSeen) = Ahead(h, tailSeen) - 1
      /\ Ahead(head, Succ(h)) = Ahead(head, h) + 1
      /\ slots' \in [Index -> Item]
      /\ batch' \in Seq(Item) /\ Len(batch') = Len(batch) + 1
      /\ Waiting' = Waiting
  BY MoveKeeps
<1>2. /\ cpc = "move" /\ h' = Succ(h) /\ slots' = [slots EXCEPT ![h] = Empty]
      /\ UNCHANGED <<cpc, tailSeen, delivered, head, ppc, item, headSeen, accepted, tail, shutdown>>
  BY DEF PopMove, sieveThread
<1> USE DEF RingInv
<1>3. /\ tail \in Index /\ head \in Index /\ headSeen \in Index /\ tailSeen \in Index /\ slots \in [Index -> Item]
  BY DEF RingTypeOK
<1>4. /\ Ahead(headSeen, head) \in 0 .. N - 1 /\ Ahead(head, h) \in 0 .. N - 1 /\ Ahead(h, tail) \in 0 .. N - 1
      /\ Ahead(h, tailSeen) \in 0 .. N - 1 /\ Ahead(tailSeen, tail) \in 0 .. N - 1
  BY <1>1, <1>3, AheadRange
<1>5. RingTypeOK'
  BY <1>1, <1>2 DEF RingTypeOK
<1>6. InOrder'
  BY <1>1, <1>2, <1>4, NAssumption DEF InOrder
<1>7. PopState' /\ InSequence' /\ Ending'
  BY <1>1, <1>2 DEF PopState, InSequence, Ending
<1>8. Clean'
  <2> SUFFICES ASSUME NEW i \in Index, Ahead(Succ(h), i) >= Ahead(Succ(h), tail)
               PROVE  slots'[i] = IF i = tail /\ ppc = "publish" THEN item ELSE Empty
    BY <1>2 DEF Clean
  <2>1. CASE i = h
    BY <1>1, <1>2, <1>3, <2>1
  <2>2. CASE i # h
    <3>1. Ahead(Succ(h), i) = Ahead(h, i) - 1 /\ Ahead(h, i) \in 0 .. N - 1
      BY <1>1, <2>2, AheadShrinks, AheadRange
    <3>2. Ahead(h, i) >= Ahead(h, tail)
      BY <1>1, <1>4, <3>1, NAssumption
    <3>3. slots'[i] = slots[i]
      BY <1>2, <1>3, <2>2
    <3> QED BY <3>2, <3>3 DEF Clean
  <2> QED BY <2>1, <2>2
<1> QED BY <1>5, <1>6, <1>7, <1>8

(* The store of head_ gives the emptied slots back and hands the batch on. *)
LEMMA PublishHands ==
  ASSUME RingInv, PopPublish
  PROVE  /\ batch \in Seq(Item) /\ delivered \in Seq(Item) /\ Window(h, tail, slots) \in Seq(Item)
         /\ Waiting = batch \o Window(h, tail, slots)
         /\ Waiting' = Window(h, tail, slots)
         /\ delivered' = delivered \o batch
<1>1. /\ tail \in Index /\ h \in Index /\ slots \in [Index -> Item] /\ batch \in Seq(Item) /\ delivered \in Seq(Item)
  BY DEF RingInv, RingTypeOK
<1>2. Window(h, tail, slots) \in Seq(Item)
  BY <1>1, WindowSeq
<1>3. Waiting' = <<>> \o Window(h, tail, slots)
  BY DEF Waiting, Window, PopPublish, sieveThread
<1>4. <<>> \o Window(h, tail, slots) = Window(h, tail, slots)
  BY <1>2, ConcatEmptySeq
<1> QED BY <1>1, <1>2, <1>3, <1>4, WaitingIs DEF PopPublish

(* popBatch publishes the new head. *)
LEMMA PopPublishInv == RingInv /\ PopPublish => RingInv'
<1> SUFFICES ASSUME RingInv, PopPublish PROVE RingInv'
  OBVIOUS
<1>1. /\ cpc = "move" /\ head' = h /\ batch' = <<>> /\ cpc' = "top"
      /\ UNCHANGED <<tailSeen, h, ppc, item, headSeen, accepted, tail, shutdown, slots>>
  BY DEF PopPublish, sieveThread
<1>2. /\ batch \in Seq(Item) /\ delivered \in Seq(Item) /\ Window(h, tail, slots) \in Seq(Item)
      /\ Waiting = batch \o Window(h, tail, slots)
      /\ Waiting' = Window(h, tail, slots)
      /\ delivered' = delivered \o batch
  BY PublishHands
<1> USE DEF RingInv
<1>3. /\ tail \in Index /\ h \in Index /\ head \in Index /\ headSeen \in Index /\ tailSeen \in Index
  BY DEF RingTypeOK
<1>4. /\ Ahead(headSeen, head) \in 0 .. N - 1 /\ Ahead(head, h) \in 0 .. N - 1 /\ Ahead(h, tail) \in 0 .. N - 1
      /\ Ahead(h, tailSeen) \in 0 .. N - 1 /\ Ahead(tailSeen, tail) \in 0 .. N - 1 /\ Ahead(h, h) = 0
  BY <1>3, AheadRange
<1>5. Ahead(headSeen, h) = Ahead(headSeen, head) + Ahead(head, h)
  <2>1. Ahead(headSeen, head) + Ahead(head, h) < N
    BY <1>4, NAssumption DEF InOrder
  <2> QED BY <1>3, <2>1, AheadAdds
<1>6. RingTypeOK'
  <2>1. delivered' \in Seq(Item) /\ batch' \in Seq(Item)
    BY <1>1, <1>2, ConcatProperties
  <2> QED BY <1>1, <1>3, <2>1 DEF RingTypeOK
<1>7. InOrder'
  BY <1>1, <1>4, <1>5, NAssumption DEF InOrder
<1>8. PopState' /\ Clean' /\ Ending'
  BY <1>1, <1>4 DEF PopState, Clean, Ending
<1>9. InSequence'
  <2>1. accepted = delivered \o (batch \o Window(h, tail, slots))
    BY <1>2 DEF InSequence
  <2>2. (delivered \o batch) \o Window(h, tail, slots) = delivered \o (batch \o Window(h, tail, slots))
    BY <1>2, ConcatAssociative
  <2> QED BY <1>1, <1>2, <2>1, <2>2 DEF InSequence
<1> QED BY <1>6, <1>7, <1>8, <1>9

-----------------------------------------------------------------------------
(* The invariant only looks at the ring's variables. *)
LEMMA RingStutters == RingInv /\ UNCHANGED vars => RingInv'
<1> SUFFICES ASSUME RingInv, UNCHANGED vars PROVE RingInv'
  OBVIOUS
<1> USE DEF RingInv, vars, sieveThread, ioThread
<1> QED BY DEF RingTypeOK, InOrder, PopState, Clean, InSequence, Ending, Waiting

(* Every step of the two threads keeps the invariant. *)
LEMMA RingStep == RingInv /\ [Next]_vars => RingInv'
<1> SUFFICES ASSUME RingInv, [Next]_vars PROVE RingInv'
  OBVIOUS
<1>1. CASE SieveThread
  BY <1>1, PushBeginInv, PushCheckInv, PushFillInv, PushPublishInv, ShutdownInv DEF SieveThread
<1>2. CASE IoThread
  BY <1>2, LoopTopInv, LoopSizeInv, PopLoadInv, PopMoveInv, PopPublishInv DEF IoThread
<1>3. CASE Finished \/ UNCHANGED vars
  BY <1>3, RingStutters DEF Finished
<1> QED BY <1>1, <1>2, <1>3 DEF Next

(* The ring's invariant holds in every reachable state, for every capacity. *)
THEOREM RingInvariant == Spec => []RingInv
<1>1. Init => RingInv
  BY RingInit
<1>2. RingInv /\ [Next]_vars => RingInv'
  BY RingStep
<1> QED BY <1>1, <1>2, PTL DEF Spec

(* The slot tryPush fills is behind the one-slot gap, so popBatch is not at it. *)
LEMMA RingKeepsApart == RingInv => SlotsApart
<1> SUFFICES ASSUME RingInv, ppc = "fill"
             PROVE  slots[tail] = Empty /\ ~(cpc = "move" /\ More /\ h = tail)
  BY DEF SlotsApart
<1> USE DEF RingInv
<1>1. tail \in Index /\ h \in Index /\ tailSeen \in Index
  BY DEF RingTypeOK
<1>2. /\ Ahead(h, tail) \in 0 .. N - 1 /\ Ahead(h, tailSeen) \in 0 .. N - 1 /\ Ahead(tailSeen, tail) \in 0 .. N - 1
      /\ (h = tail <=> Ahead(h, tail) = 0) /\ (h = tailSeen <=> Ahead(h, tailSeen) = 0)
  BY <1>1, AheadRange
<1>3. slots[tail] = Empty
  <2>1. Ahead(h, tail) >= Ahead(h, tail)
    BY <1>2, NAssumption
  <2> QED BY <1>1, <2>1 DEF Clean
<1>4. Ahead(h, tail) = Ahead(h, tailSeen) + Ahead(tailSeen, tail)
  BY Distances
<1>5. h = tail => h = tailSeen
  BY <1>2, <1>4, NAssumption
<1> QED BY <1>3, <1>5 DEF More

(* With the I/O thread over, the window is empty. *)
LEMMA RingDrains == RingInv => DrainedAtExit
<1> SUFFICES ASSUME RingInv, cpc = "over" PROVE delivered = accepted
  BY DEF DrainedAtExit
<1> USE DEF RingInv
<1>1. /\ tail \in Index /\ h \in Index /\ slots \in [Index -> Item] /\ batch \in Seq(Item) /\ delivered \in Seq(Item)
      /\ head \in Index
  BY DEF RingTypeOK
<1>2. h = tail /\ h = head /\ Ahead(h, tail) = 0 /\ Ahead(head, h) = 0
  BY <1>1, AheadRange DEF Ending, PopState
<1>3. batch = <<>>
  BY <1>1, <1>2, EmptySeq DEF PopState
<1>4. Window(h, tail, slots) = <<>>
  BY <1>1, <1>2, WindowSeq, EmptySeq
<1>5. Waiting = <<>>
  BY <1>3, <1>4, WaitingIs
<1> QED BY <1>1, <1>5, ConcatEmptySeq DEF InSequence

(* The sieve thread and the I/O thread never touch a slot at the same time, for every
   ring size and whatever stale indices they act on (tryPush, popBatch). *)
THEOREM RingSlotsApart == Spec => []SlotsApart
  BY RingInvariant, RingKeepsApart, PTL

(* shutdown() leaves nothing behind: what tryPush accepted has been handed over, in order. *)
THEOREM RingDrainedAtExit == Spec => []DrainedAtExit
  BY RingInvariant, RingDrains, PTL

-----------------------------------------------------------------------------
(* The refinement.  A step that leaves the batches in the ring alone is a stutter. *)
LEMMA RingQuiet ==
  ASSUME RingInv, Waiting' = Waiting, delivered' = delivered, (cpc' = "over") = (cpc = "over")
  PROVE  UNCHANGED Fifo!vars
  BY DEF Fifo!vars

(* The store of tail_ is the queue's Accept; the I/O thread is not over then. *)
LEMMA PushPublishAccepts ==
  ASSUME RingInv, PushPublish
  PROVE  Fifo!Next
<1>1. Waiting' = Append(Waiting, item) /\ Len(Waiting) < N - 1 /\ item \in 1 .. MaxItems
  BY PublishAppends
<1>2. cpc # "over" /\ cpc' = cpc /\ delivered' = delivered
  BY DEF RingInv, Ending, PushPublish, ioThread
<1>3. Fifo!Accept(item)
  BY <1>1, <1>2 DEF Fifo!Accept
<1> QED BY <1>1, <1>2, <1>3 DEF Fifo!Next

(* The store of head_ is its Deliver, unless popBatch found nothing. *)
LEMMA PopPublishDelivers ==
  ASSUME RingInv, PopPublish
  PROVE  Fifo!Next \/ UNCHANGED Fifo!vars
<1> DEFINE W == Window(h, tail, slots)
<1>1. /\ batch \in Seq(Item) /\ delivered \in Seq(Item) /\ W \in Seq(Item)
      /\ Waiting = batch \o W /\ Waiting' = W /\ delivered' = delivered \o batch
  BY PublishHands
<1>2. cpc = "move" /\ cpc' = "top"
  BY DEF PopPublish
<1> HIDE DEF W
<1>3. CASE batch = <<>>
  <2>1. Waiting' = Waiting /\ delivered' = delivered
    BY <1>1, <1>3, ConcatEmptySeq
  <2> QED BY <1>2, <2>1, RingQuiet
<1>4. CASE batch # <<>>
  <2>1. /\ Len(batch) \in Nat /\ Len(batch) # 0 /\ Len(W) \in Nat
        /\ Len(Waiting) = Len(batch) + Len(W)
    BY <1>1, <1>4, EmptySeq, LenProperties, ConcatProperties
  <2>2. SubSeq(Waiting, 1, Len(batch)) = batch
    <3>1. SubSeq(batch \o W, 1, Len(batch)) = SubSeq(batch, 1, Len(batch))
      BY <1>1, <2>1, SubSeqOfConcat1
    <3> QED BY <1>1, <3>1, SubSeqFull
  <2>3. SubSeq(Waiting, Len(batch) + 1, Len(Waiting)) = W
    <3>1. SubSeq(batch \o W, Len(batch) + 1, Len(batch) + Len(W))
            = SubSeq(W, Len(batch) + 1 - Len(batch), Len(batch) + Len(W) - Len(batch))
      BY <1>1, <2>1, SubSeqOfConcat2
    <3>2. Len(batch) + 1 - Len(batch) = 1 /\ Len(batch) + Len(W) - Len(batch) = Len(W)
      BY <2>1
    <3> QED BY <1>1, <2>1, <3>1, <3>2, SubSeqFull
  <2>4. Fifo!Deliver(Len(batch))
    BY <1>1, <1>2, <2>2, <2>3 DEF Fifo!Deliver
  <2>5. Len(batch) \in 1 .. Len(Waiting)
    BY <2>1
  <2> QED BY <1>2, <2>4, <2>5 DEF Fifo!Next
<1> QED BY <1>3, <1>4

(* The I/O thread's exit is its End. *)
LEMMA LoopSizeEnds ==
  ASSUME RingInv, LoopSize
  PROVE  Fifo!Next \/ UNCHANGED Fifo!vars
<1>1. /\ cpc = "size" /\ UNCHANGED <<h, batch, delivered, head, accepted, tail, slots>>
  BY DEF LoopSize, sieveThread
<1>2. Waiting' = Waiting /\ delivered' = delivered
  BY <1>1 DEF Waiting
<1>3. CASE cpc' = "over"
  <2>1. RingInv'
    BY LoopSizeInv
  <2>2. delivered' \in Seq(Item) /\ accepted' = delivered' \o Waiting'
    BY <2>1 DEF RingInv, RingTypeOK, InSequence
  <2>3. Waiting = <<>>
    <3>1. /\ h' = tail' /\ h' \in Index /\ head' \in Index /\ h' = head' /\ Len(batch') = Ahead(head', h')
          /\ batch' \in Seq(Item) /\ slots' \in [Index -> Item]
      BY <1>3, <2>1 DEF RingInv, RingTypeOK, Ending, PopState
    <3>2. Ahead(h, tail) = 0 /\ Len(batch) = 0 /\ h \in Index /\ tail \in Index /\ batch \in Seq(Item) /\ slots \in [Index -> Item]
      BY <1>1, <3>1, AheadRange
    <3>3. batch = <<>>
      BY <3>2, EmptySeq
    <3>4. Window(h, tail, slots) = <<>>
      BY <3>2, WindowSeq, EmptySeq
    <3> QED BY <3>3, <3>4, WaitingIs
  <2> QED BY <1>1, <1>2, <1>3, <2>3 DEF Fifo!Next, Fifo!End
<1>4. CASE cpc' # "over"
  BY <1>1, <1>2, <1>4, RingQuiet
<1> QED BY <1>3, <1>4

(* Everything else happens inside the ring. *)
LEMMA RingInside ==
  ASSUME RingInv, \/ PushBegin \/ PushCheck \/ PushFill \/ Shutdown \/ Join
                  \/ LoopTop \/ PopLoad \/ PopMove \/ UNCHANGED vars
  PROVE  UNCHANGED Fifo!vars
<1>1. delivered' = delivered /\ (cpc' = "over") = (cpc = "over")
  BY DEF PushBegin, PushCheck, PushFill, Shutdown, Join, LoopTop, PopLoad, PopMove, vars, ioThread
<1>2. Waiting' = Waiting
  <2>1. CASE PushBegin \/ PushCheck \/ Shutdown \/ Join \/ LoopTop \/ UNCHANGED vars
    <3>1. UNCHANGED <<batch, h, tail, slots>>
      BY <2>1 DEF PushBegin, PushCheck, Shutdown, Join, LoopTop, vars, ioThread, sieveThread
    <3> QED BY <3>1 DEF Waiting
  <2>2. CASE PushFill
    BY <2>2, FillKeeps
  <2>3. CASE PopLoad
    <3>1. h \in Index /\ head \in Index /\ batch \in Seq(Item) /\ Ahead(head, head) = 0
      BY AheadRange DEF RingInv, RingTypeOK
    <3>2. h = head /\ Len(batch) = 0
      BY <2>3, <3>1 DEF RingInv, PopState, PopLoad
    <3>3. UNCHANGED <<batch, h, tail, slots>>
      BY <2>3, <3>1, <3>2, EmptySeq DEF PopLoad, sieveThread
    <3> QED BY <3>3 DEF Waiting
  <2>4. CASE PopMove
    BY <2>4, MoveKeeps
  <2> QED BY <2>1, <2>2, <2>3, <2>4
<1> QED BY <1>1, <1>2, RingQuiet

(* The ring implements a bounded first-in first-out queue of N - 1 batches: no batch is
   lost, duplicated, reordered or torn between tryPush and popBatch. *)
THEOREM RingIsFifo == Spec => IsFifo
<1>1. Init => Fifo!Init
  <2> SUFFICES ASSUME Init PROVE Fifo!Init
    OBVIOUS
  <2>1. RingInv
    BY RingInit
  <2>2. h = tail /\ batch = <<>> /\ delivered = <<>> /\ cpc = "top"
    BY DEF Init
  <2>3. Window(h, tail, slots) = <<>>
    <3>1. h \in Index /\ tail \in Index /\ slots \in [Index -> Item]
      BY <2>1 DEF RingInv, RingTypeOK
    <3>2. Ahead(h, tail) = 0
      BY <2>2, <3>1, AheadRange
    <3> QED BY <3>1, <3>2, WindowSeq, EmptySeq
  <2> QED BY <2>2, <2>3, WaitingIs DEF Fifo!Init
<1>2. RingInv /\ [Next]_vars => [Fifo!Next]_(Fifo!vars)
  <2> SUFFICES ASSUME RingInv, [Next]_vars PROVE Fifo!Next \/ UNCHANGED Fifo!vars
    OBVIOUS
  <2> QED BY PushPublishAccepts, PopPublishDelivers, LoopSizeEnds, RingInside
          DEF Next, SieveThread, IoThread, Finished
<1> QED BY <1>1, <1>2, RingInvariant, PTL DEF Spec, IsFifo, Fifo!Spec
=============================================================================
