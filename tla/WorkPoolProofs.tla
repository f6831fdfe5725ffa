--------------------------- MODULE WorkPoolProofs ---------------------------
(***************************************************************************)
(* Proofs about WorkPool for every pool size, worker set and chunk size.   *)
(* The inductive invariant is TypeOK, NoDoubleAssign and NoWorkLost        *)
(* together with the part of SavedSound that speaks of saved alone.  The   *)
(* three support each other: a completed chunk keeps done inside Index     *)
(* only because chunks lie below the cursor, splitting a returned unit     *)
(* keeps units disjoint only because they were, and the completed prefix   *)
(* is sound because an index below the cursor that is neither in flight    *)
(* nor returned is done.                                                   *)
(***************************************************************************)
EXTENDS WorkPool, SequenceTheorems, FiniteSetTheorems,
        WellFoundedInduction, TLAPS

SavedPrefixDone ==
  \A a \in Start .. (saved.cursor - 1) : a \in saved.done

IInv == TypeOK /\ NoDoubleAssign /\ NoWorkLost /\ SavedPrefixDone

USE StartAssumption, TotalAssumption, CountsAssumption, MaxChunksAssumption

-----------------------------------------------------------------------------
(* A new pool satisfies the invariant. *)
LEMMA InitIInv == Init => IInv
  BY FS_EmptySet DEF Init, IInv, TypeOK, NoDoubleAssign, NoWorkLost,
         SavedPrefixDone, End, Index, WorkUnit, CheckedOutWork

(* The invariant only looks at the pool's variables. *)
LEMMA StutterIInv == IInv /\ UNCHANGED vars => IInv'
  BY DEF IInv, TypeOK, NoDoubleAssign, NoWorkLost, SavedPrefixDone, vars,
         InFlightAt, ReturnedAt, Apart, BelowCursor, Span

(* completeChunk moves the indices of a chunk from in flight to done. *)
LEMMA CompleteIInv ==
  ASSUME NEW c \in inFlight, IInv, completeChunk(c)
  PROVE  IInv'
<1> USE DEF IInv, completeChunk
<1>0. Span(c.unit) \subseteq Index
  <2>1. c.unit.start \in Nat /\ c.unit.count \in Nat
    BY DEF TypeOK, CheckedOutWork, WorkUnit
  <2>2. Start <= c.unit.start /\ c.unit.start + c.unit.count <= next
    BY DEF NoDoubleAssign, BelowCursor
  <2>3. next <= End /\ next \in Nat
    BY DEF TypeOK, End
  <2> QED BY <2>1, <2>2, <2>3 DEF Span, Index, End
<1>1. TypeOK'
  BY <1>0, FS_RemoveElement DEF TypeOK
<1>2. NoDoubleAssign'
  BY DEF TypeOK, NoDoubleAssign, BelowCursor, Apart
<1>3. NoWorkLost'
  BY DEF TypeOK, NoWorkLost, InFlightAt, ReturnedAt
<1>4. SavedPrefixDone'
  BY DEF SavedPrefixDone
<1> QED BY <1>1, <1>2, <1>3, <1>4

(* returnChunk moves a whole unit from in flight to the top of the stack. *)
LEMMA ReturnIInv ==
  ASSUME NEW c \in inFlight, IInv, returnChunk(c)
  PROVE  IInv'
<1> USE DEF IInv, returnChunk
<1>1. c.unit \in WorkUnit
  BY DEF TypeOK, CheckedOutWork
<1>2. TypeOK'
  BY <1>1, FS_RemoveElement DEF TypeOK
<1>3. NoDoubleAssign'
  BY <1>1 DEF TypeOK, NoDoubleAssign, BelowCursor, Apart
<1>4. NoWorkLost'
  <2> SUFFICES ASSUME NEW a \in Index, a < next, ~ (a \in done)
               PROVE  InFlightAt(a)' \/ ReturnedAt(a)'
    BY DEF NoWorkLost
  <2>1. CASE a \in Span(c.unit)
    <3>1. Len(returned) + 1 \in DOMAIN returned' /\ returned'[Len(returned) + 1] = c.unit
      BY <1>1 DEF TypeOK
    <3> QED BY <2>1, <3>1 DEF ReturnedAt, Span
  <2>2. CASE InFlightAt(a) /\ ~ (a \in Span(c.unit))
    BY <2>2 DEF InFlightAt, Span
  <2>3. CASE ReturnedAt(a)
    <3>1. \A i \in DOMAIN returned : i \in DOMAIN returned' /\ returned'[i] = returned[i]
      BY <1>1 DEF TypeOK
    <3> QED BY <2>3, <3>1 DEF ReturnedAt, Span
  <2> QED BY <2>1, <2>2, <2>3 DEF NoWorkLost
<1>5. SavedPrefixDone'
  BY DEF SavedPrefixDone
<1> QED BY <1>2, <1>3, <1>4, <1>5

(* What a partial reclaim leaves behind: the suffix that was not consumed. *)
LEMMA PartialIInv ==
  ASSUME NEW c \in inFlight, NEW consumed \in Nat, IInv, reclaimPartial(c, consumed)
  PROVE  IInv'
<1> DEFINE u == c.unit
           used == Smaller(consumed, u.count)
           rem == [start |-> u.start + used, count |-> u.count - used]
<1> USE DEF IInv
<1>1. u \in WorkUnit /\ u.start \in Nat /\ u.count \in Nat \ {0}
  BY DEF TypeOK, CheckedOutWork, WorkUnit
<1>2. used \in 0 .. u.count
  BY <1>1 DEF Smaller
<1>3. BelowCursor(u) /\ next \in Start .. End
  BY DEF NoDoubleAssign, TypeOK
<1>4. /\ inFlight' = inFlight \ {c}
      /\ done' = done \cup u.start .. (u.start + used - 1)
      /\ UNCHANGED <<next, nextChunkId, saved>>
  BY DEF reclaimPartial
<1>5. done' \subseteq Index
  <2>1. u.start .. (u.start + used - 1) \subseteq Index
    BY <1>1, <1>2, <1>3 DEF BelowCursor, Index, End
  <2> QED BY <2>1, <1>4 DEF TypeOK
<1>6. SavedPrefixDone'
  BY <1>4 DEF SavedPrefixDone
<1>7. CASE used = u.count /\ UNCHANGED returned
  <2>1. TypeOK'
    BY <1>4, <1>5, <1>7, FS_RemoveElement DEF TypeOK
  <2>2. NoDoubleAssign'
    BY <1>4, <1>7 DEF TypeOK, NoDoubleAssign, BelowCursor, Apart
  <2>3. NoWorkLost'
    <3> SUFFICES ASSUME NEW a \in Index, a < next, ~ (a \in done')
                 PROVE  InFlightAt(a)' \/ ReturnedAt(a)'
      BY <1>4 DEF NoWorkLost
    <3>1. ~ (a \in Span(u))
      BY <1>1, <1>4, <1>7 DEF Span
    <3>2. InFlightAt(a) => InFlightAt(a)'
      BY <1>4, <3>1 DEF InFlightAt, Span
    <3>3. ReturnedAt(a) => ReturnedAt(a)'
      BY <1>7 DEF ReturnedAt, Span
    <3> QED BY <3>2, <3>3, <1>4 DEF NoWorkLost
  <2> QED BY <2>1, <2>2, <2>3, <1>6
<1>8. CASE used < u.count /\ returned' = Append(returned, rem)
  <2>1. rem \in WorkUnit /\ rem.start = u.start + used /\ rem.count = u.count - used
    BY <1>1, <1>2, <1>8 DEF WorkUnit
  <2>2. /\ returned' \in Seq(WorkUnit)
        /\ DOMAIN returned' = 1 .. (Len(returned) + 1)
        /\ \A i \in 1 .. Len(returned) : returned'[i] = returned[i]
        /\ returned'[Len(returned) + 1] = rem
        /\ DOMAIN returned = 1 .. Len(returned) /\ Len(returned) \in Nat
    BY <2>1, <1>8 DEF TypeOK
  <2> HIDE DEF rem
  <2>3. TypeOK'
    BY <1>4, <1>5, <2>2, FS_RemoveElement DEF TypeOK
  <2>4. BelowCursor(rem)
    BY <1>1, <1>2, <1>3, <2>1 DEF BelowCursor
  <2>5. \A v \in WorkUnit : Apart(u, v) => Apart(rem, v) /\ Apart(v, rem)
    BY <1>1, <1>2, <2>1 DEF Apart, WorkUnit
  <2>6. \A d \in inFlight' : Apart(d.unit, rem)
    BY <1>4, <2>5 DEF NoDoubleAssign, TypeOK, CheckedOutWork
  <2>7. \A i \in 1 .. Len(returned) :
          returned[i] \in WorkUnit /\ Apart(returned[i], rem) /\ Apart(rem, returned[i])
    BY <2>5, <2>2 DEF NoDoubleAssign, TypeOK
  <2>8. NoDoubleAssign'
    BY <1>4, <2>2, <2>4, <2>6, <2>7 DEF NoDoubleAssign, BelowCursor, Apart
  <2>9. NoWorkLost'
    <3> SUFFICES ASSUME NEW a \in Index, a < next, ~ (a \in done')
                 PROVE  InFlightAt(a)' \/ ReturnedAt(a)'
      BY <1>4 DEF NoWorkLost
    <3>1. a \in Span(u) => a \in Span(rem)
      BY <1>1, <1>2, <1>4, <2>1 DEF Span, Index
    <3>2. a \in Span(u) => ReturnedAt(a)'
      BY <3>1, <2>2 DEF ReturnedAt, Span
    <3>3. InFlightAt(a) /\ ~ (a \in Span(u)) => InFlightAt(a)'
      BY <1>4 DEF InFlightAt, Span
    <3>4. ReturnedAt(a) => ReturnedAt(a)'
      BY <2>2 DEF ReturnedAt, Span
    <3> QED BY <3>2, <3>3, <3>4, <1>4 DEF NoWorkLost
  <2> QED BY <2>3, <2>8, <2>9, <1>6
<1> QED BY <1>7, <1>8 DEF reclaimPartial

(* A recorded chunk: what Record adds to the pool. *)
LEMMA LinearIInv ==
  ASSUME NEW count \in Counts, NEW w \in Workers, IInv, CheckoutLinear(count, w)
  PROVE  IInv'
<1> DEFINE actual == Smaller(count, End - next)
           u == [start |-> next, count |-> actual]
           r == [chunk_id |-> nextChunkId, unit |-> u, worker_id |-> w]
<1> USE DEF IInv
<1>1. /\ inFlight' = inFlight \cup {r} /\ next' = next + actual
      /\ nextChunkId' = nextChunkId + 1 /\ nextChunkId < MaxChunks
      /\ returned = <<>> /\ UNCHANGED <<returned, done, saved>> /\ next < End
  BY DEF CheckoutLinear, Record
<1>2. actual \in 1 .. (End - next) /\ next \in Nat /\ End \in Nat /\ nextChunkId \in Nat
  BY <1>1 DEF Smaller, TypeOK, End
<1>3. /\ u \in WorkUnit /\ r \in CheckedOutWork /\ r.unit = u /\ r.chunk_id = nextChunkId
      /\ u.start = next /\ u.count = actual
  BY <1>2 DEF WorkUnit, CheckedOutWork
<1> HIDE DEF u, r, actual
<1>4. TypeOK'
  <2>1. IsFiniteSet(inFlight')
    BY <1>1, FS_AddElement DEF TypeOK
  <2>2. inFlight' \subseteq CheckedOutWork
    BY <1>1, <1>3 DEF TypeOK
  <2>3. next' \in Start .. End /\ nextChunkId' \in 0 .. MaxChunks
    BY <1>1, <1>2 DEF TypeOK
  <2> QED BY <2>1, <2>2, <2>3, <1>1 DEF TypeOK
<1>5. NoDoubleAssign'
  <2>1. \A c \in inFlight : /\ c.unit.start \in Nat /\ c.unit.count \in Nat
                            /\ c.chunk_id \in Nat /\ c.chunk_id < nextChunkId
                            /\ BelowCursor(c.unit)
    BY DEF TypeOK, CheckedOutWork, WorkUnit, NoDoubleAssign
  <2>2. \A c \in inFlight : BelowCursor(c.unit)' /\ Apart(c.unit, u) /\ Apart(u, c.unit)
    <3>1. next' \in Nat /\ next <= next' /\ u.start = next
      BY <1>1, <1>2, <1>3
    <3> QED BY <2>1, <3>1, <1>2 DEF BelowCursor, Apart
  <2>3. Start <= u.start /\ u.start + u.count <= next'
    BY <1>1, <1>2, <1>3 DEF TypeOK
  <2>4. \A c \in inFlight' : c.chunk_id < nextChunkId' /\ BelowCursor(c.unit)'
    <3>1. \A c \in inFlight : c.chunk_id < nextChunkId'
      BY <1>1, <1>2, <2>1
    <3>2. r.chunk_id < nextChunkId'
      BY <1>1, <1>2, <1>3
    <3>3. \A c \in inFlight' : c \in inFlight \/ c = r
      BY <1>1
    <3> QED BY <1>3, <2>2, <2>3, <3>1, <3>2, <3>3 DEF BelowCursor
  <2>5. \A c, d \in inFlight' : c # d => c.chunk_id # d.chunk_id /\ Apart(c.unit, d.unit)
    <3>1. \A c \in inFlight : /\ c.chunk_id # r.chunk_id
                              /\ Apart(c.unit, r.unit) /\ Apart(r.unit, c.unit)
      BY <1>2, <1>3, <2>1, <2>2
    <3>2. \A c \in inFlight' : c \in inFlight \/ c = r
      BY <1>1
    <3> QED BY <3>1, <3>2 DEF NoDoubleAssign
  <2> QED BY <1>1, <2>4, <2>5 DEF NoDoubleAssign, Apart
<1>6. NoWorkLost'
  <2> SUFFICES ASSUME NEW a \in Index, a < next', ~ (a \in done)
               PROVE  InFlightAt(a)'
    BY <1>1 DEF NoWorkLost
  <2>1. CASE a < next
    BY <2>1, <1>1 DEF NoWorkLost, InFlightAt, ReturnedAt, Span
  <2>2. CASE a >= next
    <3>1. a \in Span(u)
      BY <2>2, <1>1, <1>2, <1>3 DEF Span, Index
    <3> QED BY <3>1, <1>1, <1>3 DEF InFlightAt, Span
  <2> QED BY <2>1, <2>2, <1>2 DEF Index
<1>7. SavedPrefixDone'
  BY <1>1 DEF SavedPrefixDone
<1> QED BY <1>4, <1>5, <1>6, <1>7

(* The chunk handed out and the remainder split the top unit in two. *)
LEMMA ReturnedIInv ==
  ASSUME NEW count \in Counts, NEW w \in Workers, IInv, CheckoutReturned(count, w)
  PROVE  IInv'
<1> DEFINE n == Len(returned)
           top == returned[n]
           rest == SubSeq(returned, 1, n - 1)
<1> USE DEF IInv
<1>1. n \in Nat \ {0} /\ DOMAIN returned = 1 .. n
  BY DEF CheckoutReturned, TypeOK
<1>2. top \in WorkUnit /\ top.start \in Nat /\ top.count \in Nat \ {0}
  <2>1. top \in WorkUnit
    BY <1>1 DEF TypeOK
  <2> QED BY <2>1 DEF WorkUnit
<1>3. /\ rest \in Seq(WorkUnit) /\ Len(rest) = n - 1 /\ DOMAIN rest = 1 .. (n - 1)
      /\ \A i \in 1 .. (n - 1) : rest[i] = returned[i]
  <2>1. \A i \in 1 .. (n - 1) : returned[i] \in WorkUnit
    BY <1>1 DEF TypeOK
  <2>2. rest \in Seq(WorkUnit) /\ Len(rest) = n - 1
    BY <2>1, <1>1, SubSeqProperties
  <2>3. \A i \in 1 .. (n - 1) : rest[i] = returned[i]
    BY <2>1, <1>1, SubSeqProperties
  <2> QED BY <2>2, <2>3
<1> HIDE DEF top, rest, n
<1>4. PICK u \in WorkUnit :
        /\ u.start = top.start
        /\ Record(u, w)
        /\ \/ u.count = top.count /\ returned' = rest
           \/ /\ u.count < top.count
              /\ returned' = Append(rest, [start |-> top.start + u.count,
                                           count |-> top.count - u.count])
  <2>1. CASE top.count > count
    <3> DEFINE v == [start |-> top.start, count |-> count]
    <3>1. v \in WorkUnit /\ v.start = top.start /\ v.count = count
      BY <1>2 DEF WorkUnit
    <3>2. Record(v, w) /\ returned' = Append(rest, [start |-> top.start + count,
                                                  count |-> top.count - count])
      BY <2>1, <1>2 DEF CheckoutReturned, top, rest, n
    <3>3. returned' = Append(rest, [start |-> top.start + v.count,
                                    count |-> top.count - v.count])
      BY <3>1, <3>2
    <3> HIDE DEF v
    <3>4. v.count < top.count
      BY <3>1, <2>1, <1>2
    <3> v \in WorkUnit
      BY <3>1
    <3> WITNESS v \in WorkUnit
    <3> QED BY <3>1, <3>2, <3>3, <3>4
  <2>2. CASE top.count <= count
    <3>1. ~(top.count > count)
      BY <2>2, <1>2
    <3>2. Record(top, w) /\ returned' = rest
      BY <3>1 DEF CheckoutReturned, top, rest, n
    <3>3. top \in WorkUnit
      BY <1>2
    <3> WITNESS top \in WorkUnit
    <3> QED BY <3>2
  <2> QED BY <2>1, <2>2, <1>2
<1> DEFINE r == [chunk_id |-> nextChunkId, unit |-> u, worker_id |-> w]
           rem == [start |-> top.start + u.count, count |-> top.count - u.count]
<1>5. /\ inFlight' = inFlight \cup {r}
      /\ nextChunkId' = nextChunkId + 1 /\ nextChunkId < MaxChunks
      /\ UNCHANGED <<next, done, saved>>
  BY <1>4 DEF CheckoutReturned, Record
<1>6. /\ r \in CheckedOutWork /\ r.unit = u /\ r.chunk_id = nextChunkId
      /\ u.start \in Nat /\ u.count \in Nat \ {0} /\ nextChunkId \in Nat
  BY DEF CheckedOutWork, WorkUnit, TypeOK
<1>7. u.start = top.start /\ u.count <= top.count
  BY <1>2, <1>4, <1>6
<1>8. /\ u.count < top.count => rem \in WorkUnit
      /\ rem.start = top.start + u.count /\ rem.count = top.count - u.count
  BY <1>2, <1>6 DEF WorkUnit
<1> HIDE DEF r, rem
<1>9. BelowCursor(top) /\ next \in Start .. End
  BY <1>1 DEF NoDoubleAssign, TypeOK, top
<1>10. \A c \in inFlight : /\ c.unit \in WorkUnit /\ c.chunk_id \in Nat
                          /\ c.chunk_id < nextChunkId /\ BelowCursor(c.unit)
                          /\ Apart(c.unit, top)
  BY <1>1 DEF NoDoubleAssign, TypeOK, top, CheckedOutWork
<1>11. \A i \in 1 .. (n - 1) : /\ returned[i] \in WorkUnit /\ BelowCursor(returned[i])
                               /\ Apart(returned[i], top)
                               /\ \A c \in inFlight : Apart(c.unit, returned[i])
  BY <1>1 DEF NoDoubleAssign, TypeOK, top
<1>12. \A v \in WorkUnit : Apart(v, top) => Apart(v, u) /\ Apart(u, v)
  BY <1>2, <1>6, <1>7 DEF Apart, WorkUnit
<1>13. \A v \in WorkUnit : Apart(v, top) /\ u.count < top.count => Apart(v, rem) /\ Apart(rem, v)
  <2>1. /\ rem.start = u.start + u.count /\ rem.start \in Nat
        /\ rem.start + rem.count = top.start + top.count
    BY <1>2, <1>6, <1>8, <1>7
  <2> QED BY <2>1, <1>2, <1>6, <1>7 DEF Apart, WorkUnit
<1>14. SavedPrefixDone'
  BY <1>5 DEF SavedPrefixDone
<1>15. \A c, d \in inFlight' : c # d => c.chunk_id # d.chunk_id /\ Apart(c.unit, d.unit)
  BY <1>5, <1>6, <1>10, <1>12 DEF NoDoubleAssign
<1>16. BelowCursor(u)
  BY <1>2, <1>6, <1>9, <1>7 DEF BelowCursor, TypeOK, End
<1>17. \A c \in inFlight' : c.chunk_id < nextChunkId' /\ BelowCursor(c.unit)
  BY <1>5, <1>6, <1>10, <1>16 DEF BelowCursor
<1>18. inFlight' \subseteq CheckedOutWork /\ IsFiniteSet(inFlight')
  <2>1. inFlight \subseteq CheckedOutWork /\ IsFiniteSet(inFlight)
    BY DEF TypeOK
  <2>2. IsFiniteSet(inFlight \cup {r})
    BY <2>1, FS_AddElement
  <2> QED BY <2>1, <2>2, <1>5, <1>6
<1>19. nextChunkId' \in 0 .. MaxChunks
  BY <1>5 DEF TypeOK
<1>20. returned' \in Seq(WorkUnit) => TypeOK'
  BY <1>5, <1>18, <1>19 DEF TypeOK
<1>21. CASE u.count = top.count /\ returned' = rest
  <2>1. TypeOK'
    BY <1>3, <1>21, <1>20
  <2>2. NoDoubleAssign'
    <3>1. \A i \in DOMAIN returned' : BelowCursor(returned'[i])
      BY <1>3, <1>11, <1>21
    <3>2. \A c \in inFlight', i \in DOMAIN returned' : Apart(c.unit, returned'[i])
      BY <1>3, <1>5, <1>6, <1>11, <1>12, <1>21
    <3>3. \A i, j \in DOMAIN returned' : i # j => Apart(returned'[i], returned'[j])
      BY <1>1, <1>3, <1>21 DEF NoDoubleAssign
    <3> QED BY <1>5, <1>15, <1>17, <3>1, <3>2, <3>3 DEF NoDoubleAssign, BelowCursor, Apart
  <2>3. NoWorkLost'
    <3> SUFFICES ASSUME NEW a \in Index, a < next, ~ (a \in done)
                 PROVE  InFlightAt(a)' \/ ReturnedAt(a)'
      BY <1>5 DEF NoWorkLost
    <3>1. InFlightAt(a) => InFlightAt(a)'
      BY <1>5 DEF InFlightAt, Span
    <3>2. ReturnedAt(a) => a \in Span(top) \/ ReturnedAt(a)'
      BY <1>1, <1>3, <1>21 DEF ReturnedAt, Span, top
    <3>3. a \in Span(top) => InFlightAt(a)'
      BY <1>4, <1>5, <1>6, <1>21 DEF InFlightAt, Span
    <3> QED BY <3>1, <3>2, <3>3 DEF NoWorkLost
  <2> QED BY <2>1, <2>2, <2>3, <1>14
<1>22. CASE u.count < top.count /\ returned' = Append(rest, rem)
  <2>1. /\ returned' \in Seq(WorkUnit) /\ DOMAIN returned' = 1 .. n
        /\ \A i \in 1 .. (n - 1) : returned'[i] = returned[i]
        /\ returned'[n] = rem
    BY <1>1, <1>3, <1>8, <1>22
  <2>2. TypeOK'
    BY <1>20, <2>1
  <2>3. NoDoubleAssign'
    <3>1. BelowCursor(rem) /\ Apart(u, rem)
      <4>1. top.start + top.count <= next /\ Start <= top.start
        BY <1>9 DEF BelowCursor
      <4>2. rem.start = u.start + u.count /\ rem.start + rem.count = top.start + top.count
        BY <1>2, <1>6, <1>8, <1>7
      <4> QED BY <4>1, <4>2, <1>2, <1>6, <1>8, <1>7 DEF BelowCursor, Apart
    <3>2. \A i \in DOMAIN returned' : BelowCursor(returned'[i])
      BY <1>1, <1>11, <2>1, <3>1
    <3>3. \A c \in inFlight : Apart(c.unit, rem)
      BY <1>10, <1>13, <1>22
    <3>4. \A c \in inFlight', i \in DOMAIN returned' : Apart(c.unit, returned'[i])
      BY <1>1, <1>5, <1>6, <1>11, <1>12, <2>1, <3>1, <3>3
    <3>5. \A i \in 1 .. (n - 1) : Apart(returned[i], rem) /\ Apart(rem, returned[i])
      BY <1>11, <1>13, <1>22
    <3>6. \A i, j \in DOMAIN returned' : i # j => Apart(returned'[i], returned'[j])
      BY <1>1, <2>1, <3>5 DEF NoDoubleAssign
    <3> QED BY <1>5, <1>15, <1>17, <3>2, <3>4, <3>6 DEF NoDoubleAssign, BelowCursor, Apart
  <2>4. NoWorkLost'
    <3> SUFFICES ASSUME NEW a \in Index, a < next, ~ (a \in done)
                 PROVE  InFlightAt(a)' \/ ReturnedAt(a)'
      BY <1>5 DEF NoWorkLost
    <3>1. InFlightAt(a) => InFlightAt(a)'
      BY <1>5 DEF InFlightAt, Span
    <3>2. ReturnedAt(a) => a \in Span(top) \/ ReturnedAt(a)'
      BY <1>1, <2>1 DEF ReturnedAt, Span, top
    <3>3. a \in Span(top) => a \in Span(u) \/ a \in Span(rem)
      BY <1>2, <1>6, <1>8, <1>7 DEF Span, Index
    <3>4. a \in Span(u) => InFlightAt(a)'
      BY <1>5, <1>6 DEF InFlightAt, Span
    <3>5. a \in Span(rem) => ReturnedAt(a)'
      BY <1>1, <2>1 DEF ReturnedAt, Span
    <3> QED BY <3>1, <3>2, <3>3, <3>4, <3>5 DEF NoWorkLost
  <2> QED BY <2>2, <2>3, <2>4, <1>14
<1> QED BY <1>4, <1>21, <1>22 DEF rem

(* All chunks of a dead worker move to the top of the stack, each once. *)
LEMMA ReclaimIInv ==
  ASSUME NEW w \in Workers, IInv, reclaimWork(w)
  PROVE  IInv'
<1> DEFINE S == ChunksOf(w)
           k == Cardinality(S)
           n == Len(returned)
<1> USE DEF IInv
<1>1. PICK f \in [1 .. k -> S] :
        /\ IsScanOf(f, S)
        /\ returned' = [i \in 1 .. (n + k) |->
                          IF i <= n THEN returned[i] ELSE f[i - n].unit]
  BY DEF reclaimWork
<1>2. inFlight' = inFlight \ S /\ UNCHANGED <<next, nextChunkId, done, saved>>
  BY DEF reclaimWork
<1>3. S \subseteq inFlight
  BY DEF ChunksOf
<1> HIDE DEF S, k, n
<1>4. n \in Nat /\ DOMAIN returned = 1 .. n
  BY DEF TypeOK, n
<1>5. SavedPrefixDone'
  BY <1>2 DEF SavedPrefixDone
<1>6. k \in Nat /\ IsFiniteSet(inFlight \ S)
  <2>1. IsFiniteSet(S) /\ IsFiniteSet(inFlight \ S)
    BY <1>3, FS_Subset DEF TypeOK
  <2> QED BY <2>1, FS_CardinalityType DEF k
<1>7. /\ DOMAIN returned' = 1 .. (n + k)
      /\ \A i \in 1 .. n : returned'[i] = returned[i]
      /\ \A i \in (n + 1) .. (n + k) : returned'[i] = f[i - n].unit
  BY <1>1, <1>4, <1>6
<1>8. \A j \in 1 .. k : f[j] \in S /\ f[j] \in inFlight /\ f[j].unit \in WorkUnit
  BY <1>1, <1>3 DEF TypeOK, CheckedOutWork
<1>9. \A i \in (n + 1) .. (n + k) : i - n \in 1 .. k
  BY <1>4, <1>6
<1>10. \A i, j \in 1 .. k : i # j => f[i] # f[j]
  <2>1. \A i, j \in 1 .. k : i < j => f[i].chunk_id < f[j].chunk_id
    BY <1>1, <1>6 DEF IsScanOf
  <2>2. \A j \in 1 .. k : f[j].chunk_id \in Nat
    BY <1>8 DEF TypeOK, CheckedOutWork
  <2> QED BY <2>1, <2>2, <1>6
<1>11. returned' \in Seq(WorkUnit)
  <2>1. \A i \in 1 .. (n + k) : returned'[i] \in WorkUnit
    BY <1>4, <1>6, <1>7, <1>8, <1>9 DEF TypeOK
  <2>2. returned' = [i \in 1 .. (n + k) |-> returned'[i]]
    BY <1>1
  <2> QED BY <2>1, <2>2, <1>4, <1>6
<1>12. TypeOK'
  BY <1>2, <1>6, <1>11 DEF TypeOK
<1>13. NoDoubleAssign'
  <2>1. \A i \in DOMAIN returned' : BelowCursor(returned'[i])
    BY <1>4, <1>6, <1>7, <1>8, <1>9 DEF NoDoubleAssign
  <2>2. \A c \in inFlight', i \in DOMAIN returned' : Apart(c.unit, returned'[i])
    <3> SUFFICES ASSUME NEW c \in inFlight', NEW i \in DOMAIN returned'
                 PROVE  Apart(c.unit, returned'[i])
      OBVIOUS
    <3>1. c \in inFlight /\ ~ (c \in S)
      BY <1>2
    <3>2. CASE i \in 1 .. n
      BY <3>1, <3>2, <1>4, <1>7 DEF NoDoubleAssign
    <3>3. CASE i \in (n + 1) .. (n + k)
      BY <3>1, <3>3, <1>7, <1>8, <1>9 DEF NoDoubleAssign
    <3> QED BY <3>2, <3>3, <1>4, <1>6, <1>7
  <2>3. \A i, j \in DOMAIN returned' : i # j => Apart(returned'[i], returned'[j])
    <3> SUFFICES ASSUME NEW i \in DOMAIN returned', NEW j \in DOMAIN returned', i # j
                 PROVE  Apart(returned'[i], returned'[j])
      OBVIOUS
    <3>1. i \in 1 .. n \/ i \in (n + 1) .. (n + k)
      BY <1>4, <1>6, <1>7
    <3>2. j \in 1 .. n \/ j \in (n + 1) .. (n + k)
      BY <1>4, <1>6, <1>7
    <3>3. CASE i \in 1 .. n /\ j \in 1 .. n
      BY <3>3, <1>4, <1>7 DEF NoDoubleAssign
    <3>4. CASE i \in 1 .. n /\ j \in (n + 1) .. (n + k)
      <4>1. Apart(f[j - n].unit, returned[i])
        BY <3>4, <1>4, <1>8, <1>9 DEF NoDoubleAssign
      <4> QED BY <4>1, <3>4, <1>7 DEF Apart
    <3>5. CASE j \in 1 .. n /\ i \in (n + 1) .. (n + k)
      <4>1. Apart(f[i - n].unit, returned[j])
        BY <3>5, <1>4, <1>8, <1>9 DEF NoDoubleAssign
      <4> QED BY <4>1, <3>5, <1>7
    <3>6. CASE i \in (n + 1) .. (n + k) /\ j \in (n + 1) .. (n + k)
      <4>1. f[i - n] # f[j - n]
        BY <3>6, <1>4, <1>6, <1>9, <1>10
      <4>2. Apart(f[i - n].unit, f[j - n].unit)
        BY <4>1, <3>6, <1>8, <1>9 DEF NoDoubleAssign
      <4> QED BY <4>2, <3>6, <1>7
    <3> QED BY <3>1, <3>2, <3>3, <3>4, <3>5, <3>6
  <2>4. \A c, d \in inFlight' : c # d => c.chunk_id # d.chunk_id /\ Apart(c.unit, d.unit)
    BY <1>2 DEF NoDoubleAssign
  <2>5. \A c \in inFlight' : c.chunk_id < nextChunkId' /\ BelowCursor(c.unit)
    BY <1>2 DEF NoDoubleAssign
  <2> QED BY <2>1, <2>2, <2>3, <2>4, <2>5, <1>2 DEF NoDoubleAssign, BelowCursor, Apart
<1>14. NoWorkLost'
  <2> SUFFICES ASSUME NEW a \in Index, a < next, ~ (a \in done)
               PROVE  InFlightAt(a)' \/ ReturnedAt(a)'
    BY <1>2 DEF NoWorkLost
  <2>1. ReturnedAt(a) => ReturnedAt(a)'
    BY <1>4, <1>6, <1>7 DEF ReturnedAt, Span
  <2>2. ASSUME NEW c \in S, a \in Span(c.unit)
        PROVE  ReturnedAt(a)'
    <3>1. PICK i \in 1 .. k : f[i] = c
      BY <1>1, <1>6 DEF IsScanOf
    <3>2. n + i \in (n + 1) .. (n + k) /\ (n + i) - n = i /\ n + i \in DOMAIN returned'
      BY <1>4, <1>6, <1>7
    <3>3. returned'[n + i] = c.unit
      BY <3>1, <3>2, <1>7
    <3> QED BY <2>2, <3>2, <3>3 DEF ReturnedAt, Span
  <2>3. ASSUME NEW c \in inFlight \ S, a \in Span(c.unit)
        PROVE  InFlightAt(a)'
    BY <2>3, <1>2 DEF InFlightAt, Span
  <2> QED BY <2>1, <2>2, <2>3 DEF NoWorkLost, InFlightAt
<1> QED BY <1>5, <1>12, <1>13, <1>14

-----------------------------------------------------------------------------
(* The starts completedPrefixCursor() takes the minimum of. *)
Starts == {next} \cup {c.unit.start : c \in inFlight}
                 \cup {returned[i].start : i \in DOMAIN returned}

(* The starts completedPrefixCursor() takes its minimum over are cursors of the
   pool, and the linear cursor is one of them. *)
LEMMA StartsAreNat ==
  ASSUME IInv
  PROVE  Starts \subseteq Start .. End /\ Starts # {} /\ Starts \subseteq Nat
<1>1. \A c \in inFlight : c.unit.start \in Start .. End
  BY DEF IInv, TypeOK, NoDoubleAssign, BelowCursor, CheckedOutWork, WorkUnit, End
<1>2. \A i \in DOMAIN returned : returned[i].start \in Start .. End
  <2> SUFFICES ASSUME NEW i \in DOMAIN returned
               PROVE  returned[i].start \in Start .. End
    OBVIOUS
  <2>1. returned[i] \in WorkUnit
    BY DEF IInv, TypeOK
  <2> QED BY <2>1 DEF IInv, TypeOK, NoDoubleAssign, BelowCursor, WorkUnit, End
<1>3. Start .. End \subseteq Nat
  BY DEF End
<1> QED BY <1>1, <1>2, <1>3 DEF Starts, IInv, TypeOK

(* completedPrefixCursor() is a cursor of the pool and bounds every start. *)
LEMMA PrefixIsMinimum ==
  ASSUME IInv
  PROVE  /\ completedPrefixCursor \in Start .. End
         /\ completedPrefixCursor \in Starts
         /\ \A s \in Starts : completedPrefixCursor <= s
<1>1. Starts \subseteq Start .. End /\ Starts # {} /\ Starts \subseteq Nat
  BY StartsAreNat
<1> DEFINE Lt == {p \in Nat \X Nat : p[1] < p[2]}
<1>2. IsWellFoundedOn(Lt, Nat)
  BY NatLessThanWellFounded, Zenon DEF OpToRel
<1>3. PICK x \in Starts : \A y \in Starts : ~ (<<y, x>> \in Lt)
  <2> HIDE DEF Lt
  <2> QED BY <1>1, <1>2, WFMin
<1>4. \A y \in Starts : x <= y
  <2> TAKE y \in Starts
  <2>1. x \in Nat /\ y \in Nat
    BY <1>1
  <2>2. ~ (y < x)
    BY <1>3, <2>1
  <2> QED BY <2>1, <2>2
<1>5. x \in Start .. End /\ IsCompletedPrefix(x)
  BY <1>1, <1>4 DEF IsCompletedPrefix, Starts
<1>6. completedPrefixCursor \in Start .. End /\ IsCompletedPrefix(completedPrefixCursor)
  BY <1>5 DEF completedPrefixCursor
<1> QED BY <1>6 DEF IsCompletedPrefix, Starts

(* Below the completed prefix nothing is outstanding, so everything is done. *)
LEMMA PrefixIsDone == IInv => PrefixSound
<1> SUFFICES ASSUME IInv, NEW a \in Start .. (completedPrefixCursor - 1)
             PROVE  a \in done
  BY DEF PrefixSound
<1>1. /\ completedPrefixCursor \in Start .. End /\ completedPrefixCursor <= next
      /\ \A c \in inFlight : completedPrefixCursor <= c.unit.start
      /\ \A i \in DOMAIN returned : completedPrefixCursor <= returned[i].start
  BY PrefixIsMinimum DEF Starts
<1>2. a \in Index /\ a < next /\ a \in Int
  BY <1>1 DEF Index, End, IInv, TypeOK
<1>3. ~ InFlightAt(a)
  BY <1>1, <1>2 DEF InFlightAt, Span, IInv, TypeOK, CheckedOutWork, WorkUnit
<1>4. ~ ReturnedAt(a)
  <2>1. \A i \in DOMAIN returned : returned[i] \in WorkUnit
    BY DEF IInv, TypeOK
  <2> QED BY <1>1, <1>2, <2>1 DEF ReturnedAt, Span, WorkUnit
<1> QED BY <1>2, <1>3, <1>4 DEF IInv, NoWorkLost

(* The prefix a checkpoint saves has been completed. *)
LEMMA SaveIInv == IInv /\ SaveCursor => IInv'
<1> SUFFICES ASSUME IInv, SaveCursor
             PROVE  IInv'
  OBVIOUS
<1>1. /\ saved' = [cursor |-> completedPrefixCursor, done |-> done]
      /\ UNCHANGED <<next, nextChunkId, inFlight, returned, done>>
  BY DEF SaveCursor
<1>2. completedPrefixCursor \in Start .. End /\ PrefixSound
  BY PrefixIsMinimum, PrefixIsDone
<1> HIDE DEF completedPrefixCursor
<1>3. TypeOK' /\ NoDoubleAssign' /\ NoWorkLost'
  BY <1>1, <1>2 DEF IInv, TypeOK, NoDoubleAssign, NoWorkLost, InFlightAt, ReturnedAt,
                   Apart, BelowCursor, Span
<1>4. SavedPrefixDone'
  BY <1>1, <1>2 DEF SavedPrefixDone, PrefixSound
<1> QED BY <1>3, <1>4 DEF IInv

(* The pool of a restarted coordinator is consistent with what was saved. *)
LEMMA RestartIInv == IInv /\ Restart => IInv'
<1> SUFFICES ASSUME IInv, Restart
             PROVE  IInv'
  OBVIOUS
<1>1. saved.cursor \in Start .. End /\ saved.done \subseteq Index
  BY DEF IInv, TypeOK
<1>2. TypeOK' /\ NoDoubleAssign'
  BY <1>1, FS_EmptySet DEF Restart, IInv, TypeOK, NoDoubleAssign
<1>3. NoWorkLost' /\ SavedPrefixDone'
  BY <1>1 DEF Restart, IInv, NoWorkLost, SavedPrefixDone, Index
<1> QED BY <1>2, <1>3 DEF IInv

(* IInv is inductive: one case per operation of the pool. *)
LEMMA NextIInv == IInv /\ [Next]_vars => IInv'
<1> SUFFICES ASSUME IInv, [Next]_vars
             PROVE  IInv'
  OBVIOUS
<1>1. ASSUME NEW count \in Counts, NEW w \in Workers, checkoutWork(count, w)
      PROVE  IInv'
  BY <1>1, ReturnedIInv, LinearIInv DEF checkoutWork
<1>2. ASSUME NEW c \in inFlight, completeChunk(c)
      PROVE  IInv'
  BY <1>2, CompleteIInv
<1>3. ASSUME NEW c \in inFlight, returnChunk(c)
      PROVE  IInv'
  BY <1>3, ReturnIInv
<1>4. ASSUME NEW c \in inFlight, NEW consumed \in 0 .. Total, reclaimPartial(c, consumed)
      PROVE  IInv'
  <2>1. consumed \in Nat
    OBVIOUS
  <2> QED BY <1>4, <2>1, PartialIInv
<1>5. ASSUME NEW w \in Workers, reclaimWork(w)
      PROVE  IInv'
  BY <1>5, ReclaimIInv
<1> QED BY <1>1, <1>2, <1>3, <1>4, <1>5, SaveIInv, RestartIInv, StutterIInv DEF Next

-----------------------------------------------------------------------------
(* The invariant of the pool holds in every reachable state. *)
THEOREM PoolInvariant == Spec => []IInv
  BY InitIInv, NextIInv, PTL DEF Spec

(* Type correctness of the pool, for every Start, Total and worker set. *)
THEOREM PoolTypeOK == Spec => []TypeOK
<1>1. IInv => TypeOK
  BY DEF IInv
<1> QED BY <1>1, PoolInvariant, PTL

(* No a-value index below the linear cursor ever disappears from the pool. *)
THEOREM PoolNoWorkLost == Spec => []NoWorkLost
<1>1. IInv => NoWorkLost
  BY DEF IInv
<1> QED BY <1>1, PoolInvariant, PTL

(* No a-value index is ever held by two chunks or returned units at once. *)
THEOREM PoolNoDoubleAssign == Spec => []NoDoubleAssign
<1>1. IInv => NoDoubleAssign
  BY DEF IInv
<1> QED BY <1>1, PoolInvariant, PTL

(* A checkpoint taken at any moment resumes without skipping an index. *)
THEOREM PoolPrefixSound == Spec => []PrefixSound
  BY PrefixIsDone, PoolInvariant, PTL

-----------------------------------------------------------------------------
(* No operation brings a start below the completed prefix into the pool:
   each start after the step is at or above a start before it. *)
StartsOnlyGrow == \A s \in Starts' : \E t \in Starts : t <= s

(* Serving a returned unit, whole or split, opens no start below the old ones. *)
LEMMA CheckoutReturnedGrow ==
  ASSUME NEW count \in Counts, NEW w \in Workers, IInv, CheckoutReturned(count, w)
  PROVE  StartsOnlyGrow
<1> DEFINE n == Len(returned)
           top == returned[n]
           rest == SubSeq(returned, 1, n - 1)
<1>1. n \in Nat \ {0} /\ DOMAIN returned = 1 .. n /\ returned \in Seq(WorkUnit)
  BY DEF CheckoutReturned, TypeOK, IInv
<1>2. top \in WorkUnit /\ top.start \in Nat /\ top.count \in Nat
  <2>1. top \in WorkUnit
    BY <1>1
  <2> QED BY <2>1 DEF WorkUnit
<1>3. /\ Len(rest) = n - 1 /\ rest \in Seq(WorkUnit)
      /\ \A i \in 1 .. (n - 1) : rest[i] = returned[i]
  BY <1>1, SubSeqProperties
<1>4. \A t \in Starts : t \in Nat
  BY StartsAreNat
<1>5. top.start \in Starts
  BY <1>1 DEF Starts
<1> HIDE DEF top, rest, n
<1>6. \A c \in inFlight' : c \in inFlight \/ c.unit.start = top.start
  BY DEF CheckoutReturned, Record, top, n
<1>7. \A i \in DOMAIN returned' :
        \/ i \in 1 .. (n - 1) /\ returned'[i] = returned[i]
        \/ returned'[i].start \in Nat /\ returned'[i].start >= top.start
  <2>1. CASE returned' = rest
    <3>1. DOMAIN returned' = 1 .. (n - 1)
      BY <2>1, <1>1, <1>3
    <3> QED BY <2>1, <3>1, <1>3
  <2>2. CASE returned' = Append(rest, [start |-> top.start + count, count |-> top.count - count])
             /\ top.count > count
    <3> DEFINE rem == [start |-> top.start + count, count |-> top.count - count]
    <3>1. rem \in WorkUnit /\ rem.start = top.start + count
      BY <2>2, <1>2 DEF WorkUnit
    <3> HIDE DEF rem
    <3>2. /\ DOMAIN returned' = 1 .. n /\ returned'[n] = rem
          /\ \A i \in 1 .. (n - 1) : returned'[i] = returned[i]
      BY <2>2, <1>1, <1>3, <3>1 DEF rem
    <3>3. rem.start \in Nat /\ rem.start >= top.start
      BY <3>1, <1>2
    <3>4. \A i \in 1 .. n : i = n \/ i \in 1 .. (n - 1)
      BY <1>1
    <3> QED BY <3>2, <3>3, <3>4
  <2> QED BY <2>1, <2>2 DEF CheckoutReturned, top, rest, n
<1>8. next' = next
  BY DEF CheckoutReturned
<1>9. \A c \in inFlight : c.unit.start \in Starts
  BY DEF Starts
<1>10. \A i \in 1 .. (n - 1) : returned[i].start \in Starts
  BY <1>1 DEF Starts
<1> SUFFICES ASSUME NEW s \in Starts'
             PROVE  \E t \in Starts : t <= s
  BY DEF StartsOnlyGrow
<1>11. CASE s = next'
  BY <1>11, <1>4, <1>8 DEF Starts
<1>12. ASSUME NEW c \in inFlight', s = c.unit.start
       PROVE  \E t \in Starts : t <= s
  BY <1>12, <1>4, <1>5, <1>6, <1>9
<1>13. ASSUME NEW i \in DOMAIN returned', s = returned'[i].start
       PROVE  \E t \in Starts : t <= s
  BY <1>13, <1>4, <1>5, <1>7, <1>10
<1> QED BY <1>11, <1>12, <1>13 DEF Starts

(* A chunk from the linear cursor starts at the old cursor. *)
LEMMA CheckoutLinearGrow ==
  ASSUME NEW count \in Counts, NEW w \in Workers, IInv, CheckoutLinear(count, w)
  PROVE  StartsOnlyGrow
<1>1. next' >= next /\ next \in Nat /\ next' \in Nat
  BY DEF CheckoutLinear, IInv, TypeOK, Smaller, End
<1>2. \A c \in inFlight' : c \in inFlight \/ c.unit.start = next
  BY DEF CheckoutLinear, Record
<1>3. returned' = returned
  BY DEF CheckoutLinear
<1>4. \A t \in Starts : t \in Nat
  BY StartsAreNat
<1> QED BY <1>1, <1>2, <1>3, <1>4 DEF StartsOnlyGrow, Starts

(* Completing, returning or partially reclaiming a chunk opens no lower start. *)
LEMMA RemoveGrow ==
  ASSUME NEW c \in inFlight, IInv,
         \/ completeChunk(c)
         \/ returnChunk(c)
         \/ \E consumed \in Nat : reclaimPartial(c, consumed)
  PROVE  StartsOnlyGrow
<1>1. c.unit \in WorkUnit /\ c.unit.start \in Nat /\ c.unit.count \in Nat \ {0}
  BY DEF IInv, TypeOK, CheckedOutWork, WorkUnit
<1>2. \A t \in Starts : t \in Nat
  BY StartsAreNat
<1>3. inFlight' \subseteq inFlight /\ next' = next
  BY DEF completeChunk, returnChunk, reclaimPartial
<1>4. /\ returned \in Seq(WorkUnit)
      /\ \/ returned' = returned
         \/ \E u \in WorkUnit : u.start >= c.unit.start /\ returned' = Append(returned, u)
  <2>1. CASE completeChunk(c)
    BY <2>1 DEF completeChunk, IInv, TypeOK
  <2>2. CASE returnChunk(c)
    BY <2>2, <1>1 DEF returnChunk, IInv, TypeOK
  <2>3. ASSUME NEW consumed \in Nat, reclaimPartial(c, consumed), returned' # returned
        PROVE  \E u \in WorkUnit : u.start >= c.unit.start /\ returned' = Append(returned, u)
    <3> DEFINE used == Smaller(consumed, c.unit.count)
               rem == [start |-> c.unit.start + used, count |-> c.unit.count - used]
    <3>1. used < c.unit.count /\ returned' = Append(returned, rem)
      BY <2>3 DEF reclaimPartial
    <3>2. rem \in WorkUnit /\ rem.start >= c.unit.start
      BY <3>1, <1>1 DEF WorkUnit, Smaller
    <3> QED BY <3>1, <3>2
  <2> QED BY <2>1, <2>2, <2>3 DEF IInv, TypeOK
<1>5. \A i \in DOMAIN returned' :
        \/ i \in DOMAIN returned /\ returned'[i] = returned[i]
        \/ returned'[i].start \in Nat /\ returned'[i].start >= c.unit.start
  <2>1. CASE returned' = returned
    BY <2>1
  <2>2. ASSUME NEW u \in WorkUnit, u.start >= c.unit.start, returned' = Append(returned, u),
               NEW i \in DOMAIN returned'
        PROVE  \/ i \in DOMAIN returned /\ returned'[i] = returned[i]
               \/ returned'[i] = u
    <3>1. /\ DOMAIN returned = 1 .. Len(returned) /\ Len(returned) \in Nat
          /\ DOMAIN returned' = 1 .. (Len(returned) + 1)
          /\ returned'[Len(returned) + 1] = u
          /\ \A j \in 1 .. Len(returned) : returned'[j] = returned[j]
      BY <1>4, <2>2
    <3> QED BY <3>1
  <2>3. \A u \in WorkUnit : u.start \in Nat
    BY DEF WorkUnit
  <2> QED BY <1>4, <2>1, <2>2, <2>3
<1>6. c.unit.start \in Starts
  BY DEF Starts
<1> SUFFICES ASSUME NEW s \in Starts'
             PROVE  \E t \in Starts : t <= s
  BY DEF StartsOnlyGrow
<1>7. ASSUME NEW i \in DOMAIN returned', s = returned'[i].start
      PROVE  \E t \in Starts : t <= s
  <2>1. CASE i \in DOMAIN returned /\ returned'[i] = returned[i]
    <3>1. s \in Starts
      BY <1>7, <2>1 DEF Starts
    <3> QED BY <3>1, <1>2
  <2> QED BY <1>7, <1>5, <1>6, <2>1
<1>8. s \in Starts \/ \E i \in DOMAIN returned' : s = returned'[i].start
  BY <1>3 DEF Starts
<1> QED BY <1>2, <1>7, <1>8

(* Reclaiming a dead worker's chunks only moves their starts to the stack. *)
LEMMA ReclaimGrow ==
  ASSUME NEW w \in Workers, IInv, reclaimWork(w)
  PROVE  StartsOnlyGrow
<1> DEFINE S == ChunksOf(w)
           k == Cardinality(S)
           n == Len(returned)
<1>1. PICK f \in [1 .. k -> S] :
        returned' = [i \in 1 .. (n + k) |->
                       IF i <= n THEN returned[i] ELSE f[i - n].unit]
  BY DEF reclaimWork
<1>2. inFlight' \subseteq inFlight /\ next' = next /\ S \subseteq inFlight
  BY DEF reclaimWork, ChunksOf
<1>3. k \in Nat /\ n \in Nat /\ DOMAIN returned = 1 .. n
  <2>1. IsFiniteSet(S)
    BY <1>2, FS_Subset DEF IInv, TypeOK
  <2> QED BY <2>1, FS_CardinalityType DEF IInv, TypeOK
<1> HIDE DEF S, k, n
<1>4. \A i \in DOMAIN returned' :
        \/ i \in DOMAIN returned /\ returned'[i] = returned[i]
        \/ i - n \in 1 .. k /\ returned'[i] = f[i - n].unit
  BY <1>1, <1>3
<1>5. \A j \in 1 .. k : f[j] \in inFlight
  BY <1>1, <1>2
<1>6. \A t \in Starts : t \in Nat
  BY StartsAreNat
<1>7. Starts' \subseteq Starts
  BY <1>2, <1>4, <1>5 DEF Starts
<1> QED BY <1>6, <1>7 DEF StartsOnlyGrow

(* No step but a restart opens a start below all the old ones. *)
LEMMA StepStartsOnlyGrow ==
  ASSUME IInv, [Next]_vars, ~ Restart
  PROVE  StartsOnlyGrow
<1>1. \A t \in Starts : t \in Nat
  BY StartsAreNat
<1>2. ASSUME NEW count \in Counts, NEW w \in Workers, checkoutWork(count, w)
      PROVE  StartsOnlyGrow
  BY <1>2, CheckoutReturnedGrow, CheckoutLinearGrow DEF checkoutWork
<1>3. ASSUME NEW c \in inFlight, NEW consumed \in 0 .. Total, reclaimPartial(c, consumed)
      PROVE  StartsOnlyGrow
  <2>1. consumed \in Nat
    OBVIOUS
  <2> QED BY <1>3, <2>1, RemoveGrow
<1>4. CASE SaveCursor \/ UNCHANGED vars
  <2>1. Starts' = Starts
    BY <1>4 DEF SaveCursor, vars, Starts
  <2> QED BY <2>1, <1>1 DEF StartsOnlyGrow
<1> QED BY <1>2, <1>3, <1>4, RemoveGrow, ReclaimGrow DEF Next

PrefixInRange == completedPrefixCursor \in Starts /\ completedPrefixCursor \in Start .. End

(* completedPrefixCursor() is one of the starts, within the pool. *)
LEMMA PrefixRange == IInv => PrefixInRange
  BY PrefixIsMinimum DEF PrefixInRange

(* A step other than a restart moves the completed prefix forward or not at all. *)
LEMMA StepPrefixMonotone ==
  ASSUME IInv, [Next]_vars, ~ Restart
  PROVE  completedPrefixCursor' >= completedPrefixCursor
<1>1. IInv'
  BY NextIInv
<1>2. completedPrefixCursor' \in Starts' /\ completedPrefixCursor' \in Start .. End
  <2>1. (IInv => PrefixInRange)'
    BY PrefixRange, PTL
  <2> QED BY <1>1, <2>1 DEF PrefixInRange, End
<1>3. PICK t \in Starts : t <= completedPrefixCursor'
  BY <1>2, StepStartsOnlyGrow DEF StartsOnlyGrow
<1>4. completedPrefixCursor <= t /\ completedPrefixCursor \in Start .. End
  BY PrefixIsMinimum
<1>5. t \in Nat
  BY StartsAreNat
<1> HIDE DEF completedPrefixCursor
<1> QED BY <1>2, <1>3, <1>4, <1>5 DEF End

(* The completed prefix never moves backwards while the coordinator lives. *)
THEOREM PoolPrefixMonotone == Spec => PrefixMonotone
<1>1. IInv /\ [Next]_vars => [completedPrefixCursor' >= completedPrefixCursor \/ Restart]_vars
  BY StepPrefixMonotone
<1> QED BY <1>1, PoolInvariant, PTL DEF Spec, PrefixMonotone

(* The cursor a restarted coordinator resumes from skips no index and is never
   ahead of the live pool. *)
THEOREM PoolSavedSound == Spec => []SavedSound
<1> DEFINE NotAhead == saved.cursor <= completedPrefixCursor
<1>1. Init => NotAhead
  <2> SUFFICES ASSUME Init
               PROVE  NotAhead
    OBVIOUS
  <2>1. IInv
    BY InitIInv
  <2>2. completedPrefixCursor \in Start .. End /\ saved.cursor = Start
    BY <2>1, PrefixIsMinimum DEF Init
  <2> HIDE DEF completedPrefixCursor
  <2> QED BY <2>2 DEF End
<1>2. IInv /\ NotAhead /\ [Next]_vars => NotAhead'
  <2> SUFFICES ASSUME IInv, NotAhead, [Next]_vars
               PROVE  saved'.cursor <= completedPrefixCursor'
    OBVIOUS
  <2>1. IInv'
    BY NextIInv
  <2>2. completedPrefixCursor \in Start .. End
    BY PrefixIsMinimum
  <2>3. completedPrefixCursor' \in Starts' /\ completedPrefixCursor' \in Start .. End
    <3>1. (IInv => PrefixInRange)'
      BY PrefixRange, PTL
    <3> QED BY <2>1, <3>1 DEF PrefixInRange, End
  <2> HIDE DEF completedPrefixCursor
  <2>4. saved.cursor \in Start .. End /\ saved.cursor <= completedPrefixCursor
    BY DEF IInv, TypeOK
  <2>5. CASE Restart
    <3>1. Starts' = {saved.cursor} /\ saved' = saved
      BY <2>5 DEF Restart, Starts
    <3> QED BY <3>1, <2>3, <2>4 DEF End
  <2>6. CASE ~ Restart
    <3>1. completedPrefixCursor <= completedPrefixCursor'
      BY <2>6, StepPrefixMonotone
    <3>2. saved' = saved \/ saved'.cursor = completedPrefixCursor
      <4>1. CASE SaveCursor
        BY <4>1 DEF SaveCursor
      <4>2. CASE ~ SaveCursor
        BY <2>6, <4>2 DEF Next, vars, checkoutWork, CheckoutReturned, CheckoutLinear,
                    completeChunk, returnChunk, reclaimPartial, reclaimWork
      <4> QED BY <4>1, <4>2
    <3> QED BY <3>1, <3>2, <2>2, <2>3, <2>4 DEF End
  <2> QED BY <2>5, <2>6
<1>3. IInv /\ NotAhead => SavedSound
  BY DEF SavedSound, IInv, SavedPrefixDone
<1> QED BY <1>1, <1>2, <1>3, PoolInvariant, PTL DEF Spec
=============================================================================
