---------------------------- MODULE OrderBookSync ----------------------------
(***************************************************************************)
(* How MarketDataService (market/service.ts) keeps the local order book in *)
(* step with the exchange: the public WebSocket and its reconnects, the    *)
(* REST snapshot a synchronization awaits, the retry timer, the REST       *)
(* fallback of the five-second poll, and what MarketCache publishes to the *)
(* analysis as cache.depth.                                                *)
(*                                                                         *)
(* One action is one turn of the event loop: a handler, a timer callback,  *)
(* or the continuation of an awaited request with the microtasks behind    *)
(* it.  The exchange emits event 1, 2, ...; a socket delivers in order     *)
(* the events emitted after it opened.                                     *)
(***************************************************************************)
EXTENDS LocalOrderBook

CONSTANTS
  MaxEvents,         \* bound: the exchange emits at most this many events
  Lossy,             \* may the handler drop a message (schema failure)?
  AlignedSnapshots,  \* may a snapshot's id be the last id of an event?
  SnapshotLag        \* bound: how many events may be emitted between the
                     \* moment REST takes a snapshot and its arrival

ASSUME OrderBookSyncAssumption ==
  /\ MaxEvents \in Nat \ {0}
  /\ Lossy \in BOOLEAN
  /\ AlignedSnapshots \in BOOLEAN
  /\ SnapshotLag \in Nat

VARIABLES
  head,            \* the last event the exchange has emitted
  running,         \* started and not stopping
  socket,          \* sockets.public
  next,            \* the event the open socket delivers next
  reconnectTimer,  \* reconnectTimers.public is set
  book,            \* localOrderBook
  fetch,           \* orderBookSyncPromise, and whether it is for this socket
  retryTimer,      \* orderBookSyncTimer is set
  depth,           \* cache.depth
  fallbacks        \* the runs that REST fallback requests in flight belong to

vars == <<head, running, socket, next, reconnectTimer, book, fetch,
          retryTimer, depth, fallbacks>>
connection == <<running, socket, reconnectTimer>>

Depth == [synchronized : BOOLEAN,
          syncState    : SyncStates,
          lastUpdateId : Nat,
          levels       : SUBSET Nat]

TypeOK ==
  /\ head \in Nat
  /\ running \in BOOLEAN
  /\ socket \in {"none", "connecting", "open"}
  /\ next \in Nat
  /\ reconnectTimer \in BOOLEAN
  /\ book \in Book
  /\ fetch \in {"none", "current", "stale"}
  /\ retryTimer \in BOOLEAN
  /\ depth \in Depth
  /\ fallbacks \in SUBSET {"current", "stale"}

Init ==
  /\ head = 1
  /\ running = FALSE
  /\ socket = "none"
  /\ next = 1
  /\ reconnectTimer = FALSE
  /\ book = EmptyBook
  /\ fetch = "none"
  /\ retryTimer = FALSE
  /\ depth = [synchronized |-> FALSE, syncState |-> "FETCHING_SNAPSHOT",
              lastUpdateId |-> NoId, levels |-> {}]
  /\ fallbacks = {}

\* The update id a REST snapshot answered now may have been taken at.
SnapshotIds ==
  {id \in 1 .. Final(head) : /\ id >= First(head - SnapshotLag)
                             /\ AlignedSnapshots \/ \E k \in 1 .. head : id = First(k)}

(***************************************************************************)
(* What a turn does to cache.depth.                                        *)
(***************************************************************************)
\* publishOrderBook, for the book after this turn
PublishedDepth(b) ==
  [synchronized |-> TRUE, syncState |-> "SYNCHRONIZED",
   lastUpdateId |-> b.lastUpdateId, levels |-> b.levels]

\* markDepthUnsynchronized
Unsynchronized(state) ==
  [depth EXCEPT !.synchronized = FALSE, !.syncState = state]

(***************************************************************************)
(* scheduleOrderBookSync and orderBookRetryDetails.  The socket is current *)
(* wherever they are called; `pendingFetch` and `timer` are the promise    *)
(* and the timer the call finds.                                           *)
(***************************************************************************)
\* scheduleOrderBookSync(socket), without a delay
ScheduleNow(b, pendingFetch, timer) ==
  /\ retryTimer' = timer
  /\ IF pendingFetch # "none" \/ timer
     THEN book' = b /\ fetch' = pendingFetch /\ depth' = depth
     ELSE /\ book' = MarkFetching(b)
          /\ fetch' = "current"
          /\ depth' = Unsynchronized("FETCHING_SNAPSHOT")

\* orderBookRetryDetails, then scheduleOrderBookSync(socket, nextRetryMs)
ScheduleRetry(b, pendingFetch, timer) ==
  /\ book' = MarkRetry(b)
  /\ depth' = Unsynchronized("RETRY_SCHEDULED")
  /\ fetch' = pendingFetch
  /\ retryTimer' = (timer \/ pendingFetch = "none")

\* Mutant: the timer survives what should cancel it.
KeepRetry == UNCHANGED retryTimer

\* cancelOrderBookSyncRetry
CancelRetry == retryTimer' = FALSE

\* completeOrderBookSynchronization
Complete(b) ==
  /\ book' = b
  /\ depth' = PublishedDepth(b)
  /\ CancelRetry
-----------------------------------------------------------------------------
(***************************************************************************)
(* The exchange, and the life of the connection.                           *)
(***************************************************************************)
ExchangeEmits ==
  /\ head < MaxEvents
  /\ head' = head + 1
  /\ UNCHANGED <<running, socket, next, reconnectTimer, book, fetch,
                 retryTimer, depth, fallbacks>>

\* connect: the constructor of the socket may throw.
Connect ==
  \/ socket' = "connecting" /\ reconnectTimer' = FALSE
  \/ socket' = "none" /\ reconnectTimer' = TRUE

Start ==
  /\ ~running
  /\ running' = TRUE
  /\ Connect
  /\ UNCHANGED <<head, next, book, fetch, retryTimer, depth, fallbacks>>

\* The promise and the polls of a socket or a run that is gone.
Stale(pendingFetch) == IF pendingFetch = "none" THEN "none" ELSE "stale"

Stop ==
  /\ running
  /\ running' = FALSE
  /\ socket' = "none"
  /\ reconnectTimer' = FALSE
  /\ CancelRetry
  /\ fetch' = Stale(fetch)
  /\ fallbacks' = {"stale" : run \in fallbacks}
  /\ UNCHANGED <<head, next, book, depth>>

ReconnectTimerFires ==
  /\ reconnectTimer
  /\ Connect
  /\ UNCHANGED <<head, running, next, book, fetch, retryTimer, depth, fallbacks>>

SocketOpens ==
  /\ socket = "connecting"
  /\ socket' = "open"
  /\ next' = head + 1
  /\ ScheduleNow(EmptyBook, fetch, FALSE)
  /\ UNCHANGED <<head, running, reconnectTimer, fallbacks>>

\* failSocket, from either handler; also the planned reconnect after 23 h.
SocketFails ==
  /\ socket # "none"
  /\ socket' = "none"
  /\ reconnectTimer' = TRUE
  /\ CancelRetry
  /\ fetch' = Stale(fetch)
  /\ depth' = Unsynchronized("FETCHING_SNAPSHOT")
  /\ UNCHANGED <<head, running, next, book, fallbacks>>
-----------------------------------------------------------------------------
(***************************************************************************)
(* The depth stream (handleMessage).                                       *)
(***************************************************************************)
\* Mutant: the event that is buffered never starts a request.
NeverStartsSync(b) == FALSE

\* A request that an older socket's promise held up is made now.
StartsSync(b) == b.syncState = "FETCHING_SNAPSHOT" /\ fetch = "none"

DeliverDepth ==
  /\ socket = "open"
  /\ next <= head
  /\ next' = next + 1
  /\ LET outcome == Ingest(book, next)
         b == outcome.book
     IN  \/ /\ outcome.result = "APPLIED"
            /\ book' = b /\ depth' = PublishedDepth(b)
            /\ UNCHANGED <<fetch, retryTimer>>
         \/ /\ outcome.result = "SYNCHRONIZED"
            /\ Complete(b)
            /\ UNCHANGED fetch
         \/ /\ outcome.result \in {"GAP", "SNAPSHOT_STALE"}
            /\ ScheduleRetry(b, fetch, retryTimer)
         \/ /\ outcome.result = "BUFFERED"
            /\ StartsSync(b)
            /\ ScheduleNow(b, fetch, retryTimer)
         \/ /\ outcome.result = "BUFFERED"
            /\ ~StartsSync(b)
            /\ book' = b
            /\ UNCHANGED <<depth, fetch, retryTimer>>
         \/ /\ outcome.result \in {"IGNORED", "WAITING_FOR_BRIDGE"}
            /\ book' = b
            /\ UNCHANGED <<depth, fetch, retryTimer>>
  /\ UNCHANGED <<head, running, socket, reconnectTimer, fallbacks>>

\* The message fails its schema and the handler drops it.
DropMessage ==
  /\ Lossy
  /\ socket = "open"
  /\ next <= head
  /\ next' = next + 1
  /\ UNCHANGED <<head, running, socket, reconnectTimer, book, fetch,
                 retryTimer, depth, fallbacks>>
-----------------------------------------------------------------------------
(***************************************************************************)
(* synchronizeOrderBook, after its await.                                  *)
(***************************************************************************)
SnapshotTakenAt(at) ==
  /\ fetch = "current"
  /\ LET outcome == Initialize(book, at)
         b == outcome.book
     IN  \/ /\ outcome.result = "SYNCHRONIZED"
            /\ Complete(b)
            /\ fetch' = "none"
         \/ /\ outcome.result = "WAITING_FOR_BRIDGE"
            /\ book' = b
            /\ depth' = Unsynchronized("WAITING_FOR_BRIDGE")
            /\ fetch' = "none"
            /\ UNCHANGED retryTimer
         \/ /\ outcome.result = "SNAPSHOT_STALE"
            /\ ScheduleRetry(b, "none", retryTimer)
  /\ UNCHANGED <<head, next, connection, fallbacks>>

SnapshotArrives == \E at \in SnapshotIds : SnapshotTakenAt(at)

SnapshotFails ==
  /\ fetch = "current"
  /\ ScheduleRetry(book, "none", retryTimer)
  /\ UNCHANGED <<head, next, connection, fallbacks>>

\* The answer, or the error, of a request made for a socket that is gone.
StaleSnapshotReturns ==
  /\ fetch = "stale"
  /\ fetch' = "none"
  /\ UNCHANGED <<head, next, connection, book, retryTimer, depth, fallbacks>>

RetryTimerFires ==
  /\ retryTimer
  /\ retryTimer' = FALSE
  /\ fetch' = IF socket = "open" /\ fetch = "none" THEN "current" ELSE fetch
  /\ UNCHANGED <<head, next, connection, book, depth, fallbacks>>
-----------------------------------------------------------------------------
(***************************************************************************)
(* The REST fallback for the depth (depthTask of refreshFast).             *)
(***************************************************************************)
RefreshFast ==
  /\ running
  /\ ~book.synchronized
  /\ fallbacks' = fallbacks \cup {"current"}
  /\ UNCHANGED <<head, next, connection, book, fetch, retryTimer, depth>>

\* updateDepth with synchronized: false leaves syncState alone.
FallbackDepth(at) ==
  [depth EXCEPT !.synchronized = FALSE, !.lastUpdateId = at, !.levels = 1 .. at]

\* Mutant: the answer is used without a second look at the book.
FallbackAlwaysApplies == TRUE

\* The book may have been synchronized while the request was in flight.
FallbackApplies == ~book.synchronized

FallbackArrives ==
  /\ "current" \in fallbacks
  /\ fallbacks' = fallbacks \ {"current"}
  /\ \E at \in SnapshotIds :
       depth' = IF FallbackApplies THEN FallbackDepth(at) ELSE depth
  /\ UNCHANGED <<head, next, connection, book, fetch, retryTimer>>

\* The request fails, or it belongs to a run that has ended.
FallbackIsDropped ==
  /\ \E run \in fallbacks : fallbacks' = fallbacks \ {run}
  /\ UNCHANGED <<head, next, connection, book, fetch, retryTimer, depth>>
-----------------------------------------------------------------------------
Next ==
  \/ ExchangeEmits
  \/ Start \/ Stop \/ ReconnectTimerFires \/ SocketOpens \/ SocketFails
  \/ DeliverDepth \/ DropMessage
  \/ SnapshotArrives \/ SnapshotFails \/ StaleSnapshotReturns \/ RetryTimerFires
  \/ RefreshFast \/ FallbackArrives \/ FallbackIsDropped

Spec == Init /\ [][Next]_vars

(***************************************************************************)
(* Fairness.  A turn that is ready is run (the event loop is not starved): *)
(* an open socket delivers, a request is answered or fails, a timer fires. *)
(* Strong fairness of FreshSnapshotArrives says that REST is not down for  *)
(* ever: of the attempts that keep being made one is answered, and with a  *)
(* snapshot that is not older than the event emitted last.                 *)
(***************************************************************************)
FreshSnapshotArrives ==
  \E at \in SnapshotIds : at >= First(head) /\ SnapshotTakenAt(at)

Fairness ==
  /\ WF_vars(DeliverDepth)
  /\ WF_vars(SnapshotArrives \/ SnapshotFails)
  /\ SF_vars(FreshSnapshotArrives)
  /\ WF_vars(StaleSnapshotReturns)
  /\ WF_vars(RetryTimerFires)

FairSpec == Spec /\ Fairness
-----------------------------------------------------------------------------
(***************************************************************************)
(* Properties.                                                             *)
(***************************************************************************)
\* The detailed synchronization implements the replica its readers rely on
\* (cache.depth: exact or marked out of sync, and moving on event by event).
Replica == INSTANCE DepthReplica
  WITH Batch   <- Final(1),
       emitted <- Final(head),
       shown   <- [synchronized |-> depth.synchronized,
                   lastUpdateId |-> depth.lastUpdateId,
                   levels       |-> depth.levels]
ImplementsReplica == Replica!Spec

\* A depth published as synchronized reflects every update of the exchange
\* up to its id, whatever was buffered, replayed, dropped or refetched on the
\* way (PROJECT_SPEC 11.5: the replica follows a stream of consecutive ids).
PublishedBookExact ==
  depth.synchronized => depth.levels = 1 .. depth.lastUpdateId

\* cache.depth is the local book: what it publishes as synchronized is what
\* the book holds now, and while the socket is open a synchronized book is
\* published, also with a REST fallback still in flight.
DepthMirrorsBook ==
  /\ depth.synchronized => /\ book.synchronized
                           /\ depth.lastUpdateId = book.lastUpdateId
                           /\ depth.levels = book.levels
  /\ socket = "open" /\ book.synchronized => depth.synchronized

WaitingForBridge == book.pending # NoId /\ book.syncState = "WAITING_FOR_BRIDGE"

\* At most one synchronization is under way: while a request is in flight, or
\* the retry timer runs, no snapshot is pending and the book is not in use,
\* and never both.  A running service has a public socket or will reconnect;
\* of a stopped one nothing can act on the book any more.
OneSyncAtATime ==
  /\ fetch # "none" => ~book.synchronized /\ book.pending = NoId /\ ~retryTimer
  /\ retryTimer => /\ socket = "open"
                   /\ ~book.synchronized /\ book.pending = NoId
  /\ running => (socket = "none" <=> reconnectTimer)
  /\ ~running => /\ socket = "none" /\ ~reconnectTimer /\ ~retryTimer
                 /\ fetch # "current" /\ "current" \notin fallbacks

\* The update that follows a message the handler dropped unpublishes the book
\* (PROJECT_SPEC 11.5: a gap discards the book at once).
GapDiscardsBook ==
  [][ DeliverDepth /\ depth.synchronized /\ Previous(next) # depth.lastUpdateId
        => ~depth'.synchronized ]_vars

\* An event that reaches an unsynchronized book of an open socket with no old
\* promise in the way leads to an attempt to synchronize, when no message is
\* dropped.
EventStartsAttempt ==
  (socket = "open" /\ ~book.synchronized /\ ~WaitingForBridge
     /\ fetch # "stale" /\ next <= head)
  ~> (fetch = "current" \/ book.synchronized \/ socket # "open")

\* An attempt on a book that has buffered an event of this connection ends
\* with the book synchronized unless the socket is lost, when no message is
\* dropped.
AttemptSynchronizes ==
  (socket = "open" /\ (fetch = "current" \/ retryTimer) /\ book.buffered # {})
  ~> (book.synchronized \/ socket # "open")
=============================================================================
