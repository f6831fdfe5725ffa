------------------------------ MODULE TapQueue ------------------------------
(***************************************************************************)
(* What the ring between the sieve thread and the I/O thread of a worker   *)
(* promises: a bounded first-in first-out queue that is empty when the I/O *)
(* thread ends.  A batch that is not accepted is dropped by the caller.    *)
(***************************************************************************)
EXTENDS Naturals, Sequences

CONSTANTS Items,     \* batches
          Capacity   \* most batches waiting at once

VARIABLES queue, delivered, over

vars == <<queue, delivered, over>>

Init == queue = <<>> /\ delivered = <<>> /\ over = FALSE

Accept(x) ==
  /\ Len(queue) < Capacity
  /\ queue' = Append(queue, x)
  /\ UNCHANGED <<delivered, over>>

\* The k oldest batches go out together.
Deliver(k) ==
  /\ delivered' = delivered \o SubSeq(queue, 1, k)
  /\ queue' = SubSeq(queue, k + 1, Len(queue))
  /\ UNCHANGED over

End ==
  /\ queue = <<>> /\ over' = TRUE
  /\ UNCHANGED <<queue, delivered>>

Next ==
  \/ ~over /\ (\E x \in Items : Accept(x))
  \/ ~over /\ (\E k \in 1 .. Len(queue) : Deliver(k))
  \/ End

Spec == Init /\ [][Next]_vars
=============================================================================
