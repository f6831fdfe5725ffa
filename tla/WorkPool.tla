------------------------------ MODULE WorkPool ------------------------------
(***************************************************************************)
(* The coordinator's pool of a-value indices (src/cluster/work_pool.h and  *)
(* work_pool.cpp).  The pool covers the indices Start .. Start+Total-1.    *)
(* A chunk is checked out to a worker under a fresh chunk id and stays in  *)
(* in_flight_ until it is completed, returned or reclaimed; returned units *)
(* are served, last in first out, before the linear cursor next_ moves.    *)
(*                                                                         *)
(* Every method holds mutex_ for its whole body, so a call is one step.    *)
(* in_flight_ is a set of records: the vector is ordered by chunk_id,      *)
(* because ids grow and erase keeps the order, so the set determines it.   *)
(*                                                                         *)
(* The coordinator's checkpoint saves completedPrefixCursor(); a restarted *)
(* coordinator builds a new pool and calls setCursor() with that value.    *)
(* done and saved are history variables: the indices whose relations the   *)
(* coordinator has been told are sieved, and what the last checkpoint of   *)
(* the pool held (its cursor, and done at that moment).                    *)
(***************************************************************************)
EXTENDS Integers, Sequences, FiniteSets

CONSTANTS
  Start,        \* a_start, the first index of the pool
  Total,        \* total_a, the number of indices
  Workers,      \* worker ids a chunk can be checked out to
  Counts,       \* the chunk sizes callers ask for
  MaxChunks     \* bound on the chunk ids handed out; the code has 2^32

ASSUME StartAssumption == Start \in Nat
ASSUME TotalAssumption == Total \in Nat
ASSUME CountsAssumption == Counts \subseteq Nat \ {0}
ASSUME MaxChunksAssumption == MaxChunks \in Nat

VARIABLES
  next,         \* next_, the linear cursor
  nextChunkId,  \* next_chunk_id_
  inFlight,     \* in_flight_
  returned,     \* returned_, a stack whose top is its last element
  done,         \* history: indices sieved, in RAM
  saved         \* history: the last checkpoint, [cursor, done]

vars == <<next, nextChunkId, inFlight, returned, done, saved>>

End == Start + Total

Index == Start .. (End - 1)

WorkUnit == [start : Nat, count : Nat \ {0}]

CheckedOutWork == [chunk_id : Nat, unit : WorkUnit, worker_id : Workers]

\* The indices a unit stands for.
Span(u) == u.start .. (u.start + u.count - 1)

Smaller(x, y) == IF x < y THEN x ELSE y

-----------------------------------------------------------------------------
Init ==
  /\ next = Start
  /\ nextChunkId = 0
  /\ inFlight = {}
  /\ returned = <<>>
  /\ done = {}
  /\ saved = [cursor |-> Start, done |-> {}]

\* The record pushed onto in_flight_, with the id next_chunk_id_++ yields.
Record(u, w) ==
  /\ nextChunkId < MaxChunks
  /\ inFlight' = inFlight \cup
                   {[chunk_id |-> nextChunkId, unit |-> u, worker_id |-> w]}
  /\ nextChunkId' = nextChunkId + 1

\* Mutants: a split that forgets the remainder, one that also splits a unit
\* of the requested size, and a top that is served but not popped.
CheckoutReturned_DropRest(count, w) ==
  /\ returned # <<>>
  /\ LET top == returned[Len(returned)]
     IN  Record([start |-> top.start, count |-> Smaller(count, top.count)], w)
  /\ returned' = SubSeq(returned, 1, Len(returned) - 1)
  /\ UNCHANGED <<next, done, saved>>

CheckoutReturned_NoPop(count, w) ==
  /\ returned # <<>>
  /\ Record(returned[Len(returned)], w)
  /\ UNCHANGED <<next, returned, done, saved>>

\* checkoutWork, first branch: the top of returned_, split when too large.
CheckoutReturned(count, w) ==
  /\ returned # <<>>
  /\ LET top  == returned[Len(returned)]
         rest == SubSeq(returned, 1, Len(returned) - 1)
     IN  \/ /\ top.count > count
            /\ returned' = Append(rest, [start |-> top.start + count,
                                         count |-> top.count - count])
            /\ Record([start |-> top.start, count |-> count], w)
         \/ /\ top.count <= count
            /\ returned' = rest
            /\ Record(top, w)
  /\ UNCHANGED <<next, done, saved>>

\* Mutant: an idle pool hands out its last index again.
CheckoutLinear_OneEarly(count, w) ==
  /\ returned = <<>> /\ next < End
  /\ LET first == IF inFlight = {} /\ next > Start THEN next - 1 ELSE next
     IN  /\ Record([start |-> first, count |-> 1], w)
         /\ next' = first + 1
  /\ UNCHANGED <<returned, done, saved>>

\* checkoutWork, second branch: the linear cursor.
CheckoutLinear(count, w) ==
  /\ returned = <<>>
  /\ next < End
  /\ LET actual == Smaller(count, End - next)
     IN  /\ Record([start |-> next, count |-> actual], w)
         /\ next' = next + actual
  /\ UNCHANGED <<returned, done, saved>>

checkoutWork(count, w) == CheckoutReturned(count, w) \/ CheckoutLinear(count, w)

\* completeChunk: a call for an id that is not in flight changes nothing.
completeChunk(c) ==
  /\ inFlight' = inFlight \ {c}
  /\ done' = done \cup Span(c.unit)
  /\ UNCHANGED <<next, nextChunkId, returned, saved>>

\* returnChunk: the whole unit becomes assignable again.
returnChunk(c) ==
  /\ inFlight' = inFlight \ {c}
  /\ returned' = Append(returned, c.unit)
  /\ UNCHANGED <<next, nextChunkId, done, saved>>

\* reclaimPartial: the first consumed indices are done, the rest goes back.
reclaimPartial(c, consumed) ==
  LET u    == c.unit
      used == Smaller(consumed, u.count)
  IN  /\ inFlight' = inFlight \ {c}
      /\ \/ /\ used < u.count
            /\ returned' = Append(returned, [start |-> u.start + used,
                                             count |-> u.count - used])
         \/ /\ used = u.count
            /\ UNCHANGED returned
      /\ done' = done \cup u.start .. (u.start + used - 1)
      /\ UNCHANGED <<next, nextChunkId, saved>>

ChunksOf(w) == {c \in inFlight : c.worker_id = w}

\* The order in which a scan of in_flight_ meets the chunks of S.
IsScanOf(f, S) ==
  /\ \A c \in S : \E i \in DOMAIN f : f[i] = c
  /\ \A i, j \in DOMAIN f : i < j => f[i].chunk_id < f[j].chunk_id

\* reclaimWork: every chunk of a dead worker goes back, in scan order.
reclaimWork(w) ==
  /\ ChunksOf(w) # {}
  /\ \E f \in [1 .. Cardinality(ChunksOf(w)) -> ChunksOf(w)] :
       /\ IsScanOf(f, ChunksOf(w))
       /\ returned' = [i \in 1 .. (Len(returned) + Cardinality(ChunksOf(w))) |->
                         IF i <= Len(returned) THEN returned[i]
                                               ELSE f[i - Len(returned)].unit]
  /\ inFlight' = inFlight \ ChunksOf(w)
  /\ UNCHANGED <<next, nextChunkId, done, saved>>

\* Mutant: nextCursor(), which forgets the chunks in flight and returned.
IsCompletedPrefix_NextCursor(C) == C = next

\* C is the value completedPrefixCursor() returns.
IsCompletedPrefix(C) ==
  LET starts == {next} \cup {c.unit.start : c \in inFlight}
                       \cup {returned[i].start : i \in DOMAIN returned}
  IN  C \in starts /\ \A s \in starts : C <= s

completedPrefixCursor == CHOOSE C \in Start .. End : IsCompletedPrefix(C)

exhausted == next >= End /\ returned = <<>>

\* Mutant: the checkpoint stores the raw linear cursor.
SaveCursor_Next ==
  /\ saved' = [cursor |-> next, done |-> done]
  /\ UNCHANGED <<next, nextChunkId, inFlight, returned, done>>

\* The checkpoint stores the completed prefix and the relations in hand.
SaveCursor ==
  /\ saved' = [cursor |-> completedPrefixCursor, done |-> done]
  /\ UNCHANGED <<next, nextChunkId, inFlight, returned, done>>

\* A killed coordinator loses the pool; the next one is constructed and
\* positioned with setCursor, whose two assertions hold of a new pool.
Restart ==
  /\ next' = saved.cursor
  /\ nextChunkId' = 0
  /\ inFlight' = {}
  /\ returned' = <<>>
  /\ done' = saved.done
  /\ UNCHANGED saved

Next ==
  \/ \E count \in Counts, w \in Workers : checkoutWork(count, w)
  \/ \E c \in inFlight : completeChunk(c)
  \/ \E c \in inFlight : returnChunk(c)
  \/ \E c \in inFlight, consumed \in 0 .. Total : reclaimPartial(c, consumed)
  \/ \E w \in Workers : reclaimWork(w)
  \/ SaveCursor
  \/ Restart

Spec == Init /\ [][Next]_vars

-----------------------------------------------------------------------------
(* Type correctness of the pool's state, history variables included. *)
TypeOK ==
  /\ next \in Start .. End
  /\ nextChunkId \in 0 .. MaxChunks
  /\ inFlight \subseteq CheckedOutWork /\ IsFiniteSet(inFlight)
  /\ returned \in Seq(WorkUnit)
  /\ done \subseteq Index
  /\ saved \in [cursor : Start .. End, done : SUBSET Index]

InFlightAt(a) == \E c \in inFlight : a \in Span(c.unit)

ReturnedAt(a) == \E i \in DOMAIN returned : a \in Span(returned[i])

(* No a-value is ever lost: whatever mix of splits, returns, partial
   reclaims, dead workers and restarts happened, an index below the linear
   cursor is in flight, waiting in returned_, or sieved. *)
NoWorkLost ==
  \A a \in Index : a < next => InFlightAt(a) \/ ReturnedAt(a) \/ a \in done

(* Two units share no index; a unit lies below the linear cursor. *)
Apart(u, v) == u.start + u.count <= v.start \/ v.start + v.count <= u.start

BelowCursor(u) == Start <= u.start /\ u.start + u.count <= next

(* No a-value is assigned twice: the units in flight and the units waiting
   in returned_ are pairwise disjoint and all below the linear cursor, and
   chunk ids are never reused within one life of the pool. *)
NoDoubleAssign ==
  /\ \A c \in inFlight : c.chunk_id < nextChunkId /\ BelowCursor(c.unit)
  /\ \A i \in DOMAIN returned : BelowCursor(returned[i])
  /\ \A c, d \in inFlight : c # d => c.chunk_id # d.chunk_id /\ Apart(c.unit, d.unit)
  /\ \A c \in inFlight, i \in DOMAIN returned : Apart(c.unit, returned[i])
  /\ \A i, j \in DOMAIN returned : i # j => Apart(returned[i], returned[j])

(* completedPrefixCursor() is safe to resume from: every index below it has
   been sieved, so a checkpoint never skips an in-flight or returned chunk. *)
PrefixSound == \A a \in Start .. (completedPrefixCursor - 1) : a \in done

(* The checkpointed cursor skips nothing either, and never runs ahead of the
   prefix of the pool that wrote it or of the pool that resumed from it. *)
SavedSound ==
  /\ saved.cursor <= completedPrefixCursor
  /\ \A a \in Start .. (saved.cursor - 1) : a \in saved.done

(* Within one life of the pool the completed prefix never moves backwards:
   returning and reclaiming only give back what had not been completed. *)
PrefixMonotone == [][completedPrefixCursor' >= completedPrefixCursor \/ Restart]_vars
=============================================================================
