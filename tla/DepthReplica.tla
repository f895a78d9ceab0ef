----------------------------- MODULE DepthReplica -----------------------------
(***************************************************************************)
(* What the local order book promises those who read cache.depth: a copy   *)
(* of the exchange's book that is either marked out of sync, or reflects   *)
(* every update up to its id; that moves on one event at a time; and that  *)
(* falls behind only until it is marked out of sync and starts anew.       *)
(***************************************************************************)
EXTENDS Integers

CONSTANT Batch   \* update ids per depth event

VARIABLES
  emitted,   \* the update id the exchange has emitted last
  shown      \* what the cache shows: synchronized, lastUpdateId, levels

Exact(at) == [synchronized |-> TRUE, lastUpdateId |-> at, levels |-> 1 .. at]
Approximate(at) == [Exact(at) EXCEPT !.synchronized = FALSE]

Init ==
  /\ emitted = Batch
  /\ shown = Approximate(0)

Emit ==
  /\ emitted' = emitted + Batch
  /\ UNCHANGED shown

\* A replica out of sync starts anew from a snapshot and the events behind it.
Synchronize ==
  /\ ~shown.synchronized
  /\ \E at \in 1 .. emitted : at % Batch = 0 /\ shown' = Exact(at)
  /\ UNCHANGED emitted

\* A synchronized one only applies the event that follows.
Advance ==
  /\ shown.synchronized
  /\ shown.lastUpdateId < emitted
  /\ shown' = Exact(shown.lastUpdateId + Batch)
  /\ UNCHANGED emitted

Discard ==
  /\ shown' = [shown EXCEPT !.synchronized = FALSE]
  /\ UNCHANGED emitted

\* While it is out of sync a REST book may be shown in its place.
ShowFallback ==
  /\ ~shown.synchronized
  /\ \E at \in 1 .. emitted : shown' = Approximate(at)
  /\ UNCHANGED emitted

Next == Emit \/ Synchronize \/ Advance \/ Discard \/ ShowFallback

Spec == Init /\ [][Next]_<<emitted, shown>>
=============================================================================
