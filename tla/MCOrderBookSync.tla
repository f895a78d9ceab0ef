--------------------------- MODULE MCOrderBookSync ---------------------------
(***************************************************************************)
(* The two streams OrderBookSync is checked with: one that loses nothing,  *)
(* with REST snapshots taken anywhere, and one whose messages may fail     *)
(* their schema and are dropped, with snapshots taken inside an event (the *)
(* theorems' condition).  The constants of the cfg are those of the first. *)
(***************************************************************************)
EXTENDS OrderBookSync

VARIABLE lossy   \* which of the two

L == INSTANCE OrderBookSync WITH Lossy <- TRUE, AlignedSnapshots <- FALSE

MCInit == Init /\ lossy \in BOOLEAN
MCNext ==
  /\ \/ ~lossy /\ Next
     \/ lossy /\ L!Next
  /\ UNCHANGED lossy

MCSpec == MCInit /\ [][MCNext]_<<vars, lossy>> /\ Fairness

\* On the stream that loses nothing an event starts an attempt, and an attempt
\* on a connection that has buffered an event synchronizes the book, unless the
\* socket is lost.
SynchronizationCompletes ==
  /\ ~lossy => EventStartsAttempt
  /\ ~lossy => AttemptSynchronizes
=============================================================================
