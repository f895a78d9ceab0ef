--------------------------- MODULE LocalOrderBook ---------------------------
(***************************************************************************)
(* The local replica of Binance's depth book (LocalOrderBook in            *)
(* market/local-order-book.ts) as operators on a record: each operator is  *)
(* one method, given the book before it and returning the book after it,   *)
(* with the method's result where it has one.                              *)
(*                                                                         *)
(* The exchange numbers every change of a level (the update ids) and       *)
(* batches them into depth events.  Event k carries the ids First(k) to    *)
(* Final(k): two per event, so that a REST snapshot can be taken at the    *)
(* end of an event or inside one.  A price map is abstracted to the set    *)
(* of update ids it reflects.                                              *)
(***************************************************************************)
EXTENDS Integers, FiniteSets, FiniteSetsExt

CONSTANT MaxBuffered      \* MAX_BUFFERED_EVENTS

ASSUME MaxBufferedAssumption == MaxBuffered \in Nat \ {0}

NoId == 0                 \* a null update id, or no pending snapshot

First(k) == 2 * k - 1     \* U
Final(k) == 2 * k         \* u
Previous(k) == 2 * (k - 1)  \* pu: the u of the event before

Ids(events) == {First(k) : k \in events} \cup {Final(k) : k \in events}

SyncStates == {"FETCHING_SNAPSHOT", "WAITING_FOR_BRIDGE", "SYNCHRONIZED",
               "RETRY_SCHEDULED"}

(***************************************************************************)
(* The private fields.  Events arrive in order, so the array of buffered   *)
(* events is the set of their numbers.                                     *)
(***************************************************************************)
Book == [synchronized : BOOLEAN,
         syncState    : SyncStates,
         lastUpdateId : Nat,
         levels       : SUBSET Nat,
         buffered     : SUBSET Nat,
         pending      : Nat]      \* pendingSnapshot.lastUpdateId

\* The fields as declared, and after reset().
EmptyBook == [synchronized |-> FALSE,
              syncState    |-> "FETCHING_SNAPSHOT",
              lastUpdateId |-> NoId,
              levels       |-> {},
              buffered     |-> {},
              pending      |-> NoId]

\* markFetchingSnapshot()
MarkFetching(b) == [b EXCEPT !.synchronized = FALSE,
                             !.syncState = "FETCHING_SNAPSHOT",
                             !.pending = NoId]

\* Mutant: a state the published type does not have.
MarkRetryUntyped(b) == [b EXCEPT !.synchronized = FALSE,
                                 !.syncState = "STALE",
                                 !.pending = NoId]

\* markRetryScheduled()
MarkRetry(b) == [b EXCEPT !.synchronized = FALSE,
                          !.syncState = "RETRY_SCHEDULED",
                          !.pending = NoId]

Oldest(events) == {k \in events : \A j \in events : k <= j}

\* buffer(event): the oldest event is dropped when the buffer overflows.
Buffer(b, k) ==
  LET all == b.buffered \cup {k}
  IN  [b EXCEPT !.buffered = IF Cardinality(all) > MaxBuffered
                             THEN all \ Oldest(all)
                             ELSE all]

Outcome(b, result) == [book |-> b, result |-> result]

(***************************************************************************)
(* tryApplyPendingSnapshot().  The events from the one that bridges the    *)
(* snapshot on are applied in order; each must follow the one applied      *)
(* before it, except that the code skips this test while the id applied    *)
(* last still is the snapshot's.  The first event that fails the test is   *)
(* the only one a failed replay keeps.                                     *)
(***************************************************************************)
\* Mutant: any event that ends behind the snapshot will do.
BridgesLoosely(b) == {k \in b.buffered : b.pending <= Final(k)}

Bridges(b) == {k \in b.buffered : First(k) <= b.pending /\ b.pending <= Final(k)}

Replayed(b) == {k \in b.buffered : \E e \in Bridges(b) : e <= k}

\* Mutant: the replay does not test that events follow each other.
NoReplayGaps(b) == {}

\* The replayed events behind a gap; the oldest of them fails the test.
ReplayGaps(b) ==
  {k \in Replayed(b) : \E j \in Replayed(b) :
     j < k /\ Final(j) # b.pending /\ \E i \in j .. k : i \notin Replayed(b)}

ReplayedBook(b) ==
  [synchronized |-> TRUE,
   syncState    |-> "SYNCHRONIZED",
   lastUpdateId |-> Final(Max(Replayed(b))),
   levels       |-> (1 .. b.pending) \cup Ids(Replayed(b)),
   buffered     |-> {},
   pending      |-> NoId]

TryApplyPendingSnapshot(b) ==
  IF Bridges(b) = {}
  THEN IF b.buffered # {} /\ \A k \in b.buffered : First(k) > b.pending
       THEN Outcome([b EXCEPT !.pending = NoId, !.syncState = "RETRY_SCHEDULED"],
                    "SNAPSHOT_STALE")
       ELSE Outcome([b EXCEPT !.syncState = "WAITING_FOR_BRIDGE"],
                    "WAITING_FOR_BRIDGE")
  ELSE IF ReplayGaps(b) # {}
       THEN Outcome([EmptyBook EXCEPT !.buffered = Oldest(ReplayGaps(b)),
                                      !.syncState = "RETRY_SCHEDULED"],
                    "SNAPSHOT_STALE")
       ELSE Outcome(ReplayedBook(b), "SYNCHRONIZED")

\* initialize(snapshot), for a snapshot taken at update id `at`.
Initialize(b, at) ==
  TryApplyPendingSnapshot(
    [b EXCEPT !.synchronized = FALSE,
              !.pending = at,
              !.buffered = {k \in b.buffered : Final(k) >= at}])

\* ingest(event) before the book is synchronized.
IngestUnsynchronized(b, k) ==
  IF b.pending # NoId /\ Final(k) < b.pending
  THEN Outcome(b, "IGNORED")
  ELSE IF b.pending # NoId
       THEN TryApplyPendingSnapshot(Buffer(b, k))
       ELSE Outcome(Buffer(b, k), "BUFFERED")

\* Mutant: a synchronized book applies whatever comes.
IngestUnchecked(b, k) ==
  Outcome([b EXCEPT !.levels = @ \cup Ids({k}), !.lastUpdateId = Final(k)],
          "APPLIED")

\* ingest(event) on a synchronized book.
IngestSynchronized(b, k) ==
  IF Final(k) < b.lastUpdateId
  THEN Outcome(b, "IGNORED")
  ELSE IF Previous(k) # b.lastUpdateId
       THEN Outcome(Buffer(EmptyBook, k), "GAP")
       ELSE Outcome([b EXCEPT !.levels = @ \cup Ids({k}),
                              !.lastUpdateId = Final(k)], "APPLIED")

Ingest(b, k) ==
  IF b.synchronized /\ b.lastUpdateId # NoId
  THEN IngestSynchronized(b, k)
  ELSE IngestUnsynchronized(b, k)
=============================================================================
