------------------------- MODULE OrderBookSyncProofs -------------------------
(***************************************************************************)
(* Proofs about OrderBookSync, for any number of events, any buffer size   *)
(* and any lag of the REST snapshots: type correctness, that every depth   *)
(* published as synchronized is exact, that there is one synchronization   *)
(* at a time, and that the service implements DepthReplica.                *)
(*                                                                         *)
(* The inductive invariant says of the buffer what the replay of a         *)
(* snapshot relies on: it holds only events already delivered, it has a    *)
(* newest one, a pending snapshot has dropped the events before it, and,   *)
(* when no message is dropped, it is an interval of events that ends with  *)
(* the one delivered last.                                                 *)
(***************************************************************************)
EXTENDS OrderBookSync, TLAPS

\* What exactness needs of the environment: either no message is dropped, or
\* no snapshot ends where an event ends.
Trackable == Lossy => ~AlignedSnapshots

HasNewest(S) == S = {} \/ \E m \in S : \A k \in S : k <= m

Gapless(S) == \A i, j \in S : \A k \in i .. j : k \in S

\* A book whose buffer holds events before n only.
GoodBook(b, n) ==
  /\ b \in Book
  /\ \A k \in b.buffered : 1 <= k /\ k < n
  /\ HasNewest(b.buffered)
  /\ b.pending # NoId => \A k \in b.buffered : Final(k) >= b.pending
  /\ ~Lossy => Gapless(b.buffered)
  /\ ~AlignedSnapshots /\ b.pending # NoId => \E k \in Nat : b.pending = First(k)
  /\ b.synchronized => b.buffered = {} /\ b.lastUpdateId # NoId
  /\ b.synchronized => \E k \in 1 .. (n - 1) : b.lastUpdateId = Final(k)
  /\ Trackable /\ b.synchronized => b.levels = 1 .. b.lastUpdateId

EndsBefore(S, n) == S = {} \/ n - 1 \in S

IInv ==
  /\ TypeOK
  /\ head >= 1 /\ next >= 1
  /\ GoodBook(book, next)
  /\ ~Lossy /\ socket = "open" => EndsBefore(book.buffered, next)
  /\ Trackable => PublishedBookExact
-----------------------------------------------------------------------------
(***************************************************************************)
(* The operators on the book.                                              *)
(***************************************************************************)
\* The library's maximum is the newest event of a set that has one.
LEMMA MaxOfNewest ==
  ASSUME NEW S \in SUBSET Nat, NEW m \in S, \A k \in S : k <= m
  PROVE  Max(S) = m
<1> DEFINE P(x) == x \in S /\ \A y \in S : x >= y
<1>1. P(m)
  OBVIOUS
<1>2. \A x : P(x) => x = m
  <2>1. SUFFICES ASSUME NEW x, P(x)
                 PROVE  x = m
    OBVIOUS
  <2>2. x \in Nat /\ m \in Nat /\ x >= m /\ m >= x
    BY <2>1
  <2>3. QED
    BY <2>2
<1>3. P(CHOOSE x : P(x))
  BY <1>1, Zenon
<1>4. Max(S) = CHOOSE x : P(x)
  BY Zenon DEF Max
<1>5. QED
  BY <1>2, <1>3, <1>4, Zenon

\* buffer(event) keeps the invariant of the book, for an event that follows
\* the events delivered so far.
LEMMA BufferGood ==
  ASSUME NEW n \in Nat, n >= 1, NEW b, GoodBook(b, n), ~b.synchronized,
         b.pending # NoId => Final(n) >= b.pending,
         ~Lossy => EndsBefore(b.buffered, n)
  PROVE  /\ GoodBook(Buffer(b, n), n + 1)
         /\ ~Lossy => EndsBefore(Buffer(b, n).buffered, n + 1)
         /\ Buffer(b, n) = [b EXCEPT !.buffered = Buffer(b, n).buffered]
<1> DEFINE all == b.buffered \cup {n}
           kept == Buffer(b, n).buffered
<1>1. b \in Book
  BY DEF GoodBook
<1>2. Buffer(b, n) = [b EXCEPT !.buffered = kept]
  BY <1>1 DEF Buffer, Book
<1>3. kept = all \/ kept = all \ Oldest(all)
  BY <1>1 DEF Buffer, Book
<1>4. \A k \in all : k \in Nat /\ 1 <= k /\ k <= n
  BY <1>1 DEF GoodBook, Book
<1>5. kept \in SUBSET Nat /\ \A k \in kept : k \in all
  BY <1>3, <1>4
<1>6. kept = {} \/ n \in kept
  <2>1. CASE n \in Oldest(all)
    <3>1. \A k \in all : k = n
      BY <2>1, <1>4 DEF Oldest
    <3>2. QED
      BY <3>1, <1>3
  <2>2. CASE n \notin Oldest(all)
    BY <2>2, <1>3
  <2>3. QED
    BY <2>1, <2>2
<1>7. HasNewest(kept)
  BY <1>4, <1>5, <1>6 DEF HasNewest
<1>8. ASSUME ~Lossy
      PROVE  Gapless(kept)
  <2>1. Gapless(all)
    <3>1. SUFFICES ASSUME NEW i \in all, NEW j \in all, NEW k \in i .. j, k # n
                   PROVE  k \in b.buffered
      BY DEF Gapless
    <3>2. i \in b.buffered /\ k < n
      BY <1>4, <3>1
    <3>3. n - 1 \in b.buffered
      BY <1>8, <3>2 DEF EndsBefore
    <3>4. k \in i .. (n - 1)
      BY <3>1, <3>2, <1>4
    <3>5. QED
      BY <1>8, <3>2, <3>3, <3>4 DEF GoodBook, Gapless
  <2>2. CASE kept = all \ Oldest(all)
    <3>1. SUFFICES ASSUME NEW i \in kept, NEW j \in kept, NEW k \in i .. j
                   PROVE  k \notin Oldest(all)
      BY <2>1, <2>2 DEF Gapless
    <3>2. PICK o \in all : o < i
      BY <2>2, <1>4 DEF Oldest
    <3>3. QED
      BY <3>2, <1>4, <1>5 DEF Oldest
  <2>3. QED
    BY <1>3, <2>1, <2>2
<1>9. Buffer(b, n) \in Book
  BY <1>1, <1>2, <1>5 DEF Book
<1>10. GoodBook(Buffer(b, n), n + 1)
  <2>1. /\ Buffer(b, n).pending = b.pending
        /\ Buffer(b, n).synchronized = b.synchronized
        /\ Buffer(b, n).levels = b.levels
        /\ Buffer(b, n).lastUpdateId = b.lastUpdateId
    BY <1>1, <1>2 DEF Book
  <2>2. b.pending # NoId => \A k \in kept : Final(k) >= b.pending
    BY <1>5 DEF GoodBook
  <2>3. QED
    BY <1>4, <1>5, <1>7, <1>8, <1>9, <2>1, <2>2 DEF GoodBook
<1>11. ~Lossy => EndsBefore(kept, n + 1)
  BY <1>6 DEF EndsBefore
<1>12. QED
  BY <1>2, <1>10, <1>11

\* Events whose numbers run from one to another carry consecutive ids.
LEMMA IdsOfInterval ==
  ASSUME NEW S \in SUBSET Nat, NEW e \in S, NEW m \in S, e >= 1,
         \A k \in S : e <= k /\ k <= m, \A k \in e .. m : k \in S,
         NEW at \in Nat, First(e) <= at, at <= Final(e)
  PROVE  (1 .. at) \cup Ids(S) = 1 .. Final(m)
<1>1. ASSUME NEW id \in (1 .. at) \cup Ids(S)
      PROVE  id \in 1 .. Final(m)
  <2>1. CASE id \in 1 .. at
    BY <2>1 DEF First, Final
  <2>2. CASE id \in Ids(S)
    BY <2>2 DEF Ids, First, Final
  <2>3. QED
    BY <1>1, <2>1, <2>2
<1>2. ASSUME NEW id \in 1 .. Final(m)
      PROVE  id \in (1 .. at) \cup Ids(S)
  <2>1. CASE id <= at
    BY <2>1 DEF Final
  <2>2. CASE id > at
    <3>1. PICK k \in Nat : id = 2 * k - 1 \/ id = 2 * k
      <4> DEFINE q == id \div 2
      <4>1. id \in Nat /\ id >= 1
        BY DEF Final
      <4>2. q \in Nat /\ (id = 2 * q \/ id = 2 * q + 1)
        BY <4>1
      <4>3. CASE id = 2 * q
        BY <4>2, <4>3
      <4>4. CASE id = 2 * q + 1
        <5>1. q + 1 \in Nat /\ id = 2 * (q + 1) - 1
          BY <4>2, <4>4
        <5>2. QED
          BY <5>1
      <4>5. QED
        BY <4>2, <4>3, <4>4
    <3>2. k \in e .. m
      BY <2>2, <3>1 DEF First, Final
    <3>3. QED
      BY <3>1, <3>2 DEF Ids, First, Final
  <2>3. QED
    BY <2>1, <2>2 DEF Final
<1>3. QED
  BY <1>1, <1>2

\* The events a snapshot's replay applies when it finds no gap are an interval
\* that starts with the bridging event, whatever was dropped before.
LEMMA ReplayedIsInterval ==
  ASSUME NEW n \in Nat, NEW b, GoodBook(b, n), Trackable,
         NEW e \in Bridges(b), ReplayGaps(b) = {},
         NEW m \in Replayed(b), \A k \in Replayed(b) : k <= m
  PROVE  \A k \in e .. m : k \in Replayed(b)
<1> DEFINE R == Replayed(b)
<1>1. /\ b.buffered \in SUBSET Nat /\ b.pending \in Nat
      /\ e \in b.buffered /\ e >= 1 /\ R \in SUBSET b.buffered
  BY DEF GoodBook, Book, Bridges, Replayed
<1>2. \A k \in R : e <= k
  BY <1>1 DEF Replayed, Bridges, First, Final
<1>3. e \in R
  BY <1>1 DEF Replayed
<1>4. CASE ~Lossy
  <2>1. \A k \in e .. m : k \in b.buffered
    BY <1>1, <1>4 DEF GoodBook, Gapless, Replayed
  <2>2. QED
    BY <1>1, <2>1 DEF Replayed
<1>5. CASE Lossy
  <2>1. b.pending # NoId
    BY <1>1 DEF Bridges, First, NoId
  <2>2. PICK a \in Nat : b.pending = First(a)
    BY <1>5, <2>1 DEF GoodBook, Trackable
  <2>3. Final(e) # b.pending
    BY <1>1, <2>2 DEF First, Final
  <2>4. QED
    BY <1>1, <1>2, <1>3, <2>3 DEF ReplayGaps
<1>6. QED
  BY <1>4, <1>5

\* tryApplyPendingSnapshot keeps the invariant of the book, and a book it
\* synchronizes is exact.
LEMMA TryApplyGood ==
  ASSUME NEW n \in Nat, NEW b, GoodBook(b, n),
         b.pending # NoId, ~b.synchronized
  PROVE  LET after == TryApplyPendingSnapshot(b).book
         IN  /\ GoodBook(after, n)
             /\ ~Lossy => after.buffered \in {b.buffered, {}}
<1> DEFINE after == TryApplyPendingSnapshot(b).book
           R == Replayed(b)
<1>1. /\ b \in Book /\ b.pending \in Nat /\ b.buffered \in SUBSET Nat
      /\ R \in SUBSET b.buffered
  BY DEF GoodBook, Book, Replayed
<1>2. CASE Bridges(b) = {}
  <2>1. after \in {[b EXCEPT !.pending = NoId, !.syncState = "RETRY_SCHEDULED"],
                   [b EXCEPT !.syncState = "WAITING_FOR_BRIDGE"]}
    BY <1>2 DEF TryApplyPendingSnapshot, Outcome
  <2>2. /\ after \in Book /\ after.buffered = b.buffered
        /\ after.pending \in {NoId, b.pending}
        /\ after.synchronized = b.synchronized /\ after.levels = b.levels
        /\ after.lastUpdateId = b.lastUpdateId
    <3>1. CASE after = [b EXCEPT !.pending = NoId,
                                 !.syncState = "RETRY_SCHEDULED"]
      <4>1. "RETRY_SCHEDULED" \in SyncStates /\ NoId \in Nat
        BY DEF SyncStates, NoId
      <4>2. QED
        BY <1>1, <3>1, <4>1 DEF Book
    <3>2. CASE after = [b EXCEPT !.syncState = "WAITING_FOR_BRIDGE"]
      BY <1>1, <3>2 DEF Book, SyncStates, NoId
    <3>3. QED
      BY <2>1, <3>1, <3>2
  <2>3. QED
    BY <2>2 DEF GoodBook
<1>3. CASE Bridges(b) # {} /\ ReplayGaps(b) # {}
  <2>1. after = [EmptyBook EXCEPT !.buffered = Oldest(ReplayGaps(b)),
                                  !.syncState = "RETRY_SCHEDULED"]
    BY <1>3 DEF TryApplyPendingSnapshot, Outcome
  <2>2. Oldest(ReplayGaps(b)) \in SUBSET b.buffered
    BY <1>1 DEF Oldest, ReplayGaps
  <2>3. /\ after \in Book /\ after.buffered = Oldest(ReplayGaps(b))
        /\ after.pending = NoId /\ after.synchronized = FALSE
    <3> DEFINE kept == Oldest(ReplayGaps(b))
    <3>1. /\ kept \in SUBSET Nat
          /\ "RETRY_SCHEDULED" \in SyncStates /\ NoId \in Nat
      BY <1>1, <2>2 DEF SyncStates, NoId
    <3>2. after = [synchronized |-> FALSE, syncState |-> "RETRY_SCHEDULED",
                   lastUpdateId |-> NoId, levels |-> {},
                   buffered |-> kept, pending |-> NoId]
      BY <2>1 DEF EmptyBook
    <3> HIDE DEF kept, after
    <3>3. /\ after \in Book /\ after.buffered = kept
          /\ after.pending = NoId /\ after.synchronized = FALSE
      BY <3>1, <3>2 DEF Book
    <3>4. QED
      BY <3>3 DEF kept
  <2>4. \A i, j \in after.buffered : i = j
    BY <1>1, <2>2, <2>3 DEF Oldest
  <2>5. HasNewest(after.buffered)
    BY <1>1, <2>2, <2>3, <2>4 DEF HasNewest
  <2>6. Gapless(after.buffered)
    BY <1>1, <2>2, <2>3, <2>4 DEF Gapless
  <2>7. ~Lossy => ReplayGaps(b) = {}
    <3>1. SUFFICES ASSUME ~Lossy, NEW k \in R, NEW j \in R, NEW i \in j .. k
                   PROVE  i \in R
      BY DEF ReplayGaps
    <3>2. i \in b.buffered
      BY <1>1, <3>1 DEF GoodBook, Gapless
    <3>3. PICK e \in Bridges(b) : e <= j
      BY DEF Replayed
    <3>4. e \in Nat /\ e <= i
      BY <1>1, <3>3 DEF Bridges
    <3>5. QED
      BY <3>2, <3>4 DEF Replayed
  <2>8. QED
    BY <1>3, <2>2, <2>3, <2>5, <2>6, <2>7 DEF GoodBook
<1>4. CASE Bridges(b) # {} /\ ReplayGaps(b) = {}
  <2>1. after = ReplayedBook(b)
    BY <1>4 DEF TryApplyPendingSnapshot, Outcome
  <2>2. PICK e \in Bridges(b) : TRUE
    BY <1>4
  <2>3. e \in R /\ e >= 1 /\ First(e) <= b.pending /\ b.pending <= Final(e)
    BY <1>1, <2>2 DEF Replayed, Bridges, GoodBook
  <2>4. PICK m \in b.buffered : \A k \in b.buffered : k <= m
    BY <1>1, <2>3 DEF GoodBook, HasNewest
  <2>5. m \in R
    BY <1>1, <2>3, <2>4 DEF Replayed
  <2>6. Max(R) = m
    BY <1>1, <2>4, <2>5, MaxOfNewest
  <2>7. /\ after.lastUpdateId = Final(m) /\ Final(m) \in Nat
        /\ Final(m) # NoId
    BY <1>1, <2>1, <2>4, <2>6 DEF ReplayedBook, Final, NoId, GoodBook
  <2>8. Ids(R) \in SUBSET Nat
    BY <1>1 DEF Ids, First, Final, GoodBook
  <2>9. /\ after \in Book /\ after.buffered = {} /\ after.pending = NoId
        /\ after.levels = (1 .. b.pending) \cup Ids(R)
    BY <1>1, <2>1, <2>7, <2>8 DEF ReplayedBook, Book, SyncStates, NoId
  <2>10. Trackable => after.levels = 1 .. Final(m)
    <3>1. SUFFICES ASSUME Trackable
                   PROVE  after.levels = 1 .. Final(m)
      OBVIOUS
    <3>2. \A k \in e .. m : k \in R
      BY <1>1, <1>4, <2>2, <2>4, <2>5, <3>1, ReplayedIsInterval
    <3>3. \A k \in R : e <= k /\ k <= m
      BY <1>1, <2>2, <2>3, <2>4 DEF Replayed, Bridges, First, Final
    <3>4. R \in SUBSET Nat
      BY <1>1
    <3>5. (1 .. b.pending) \cup Ids(R) = 1 .. Final(m)
      BY <1>1, <2>3, <2>5, <3>2, <3>3, <3>4, IdsOfInterval
    <3>6. QED
      BY <2>9, <3>5
  <2>11. m \in 1 .. (n - 1)
    BY <1>1, <2>4 DEF GoodBook
  <2> HIDE DEF after
  <2>12. QED
    BY <2>7, <2>9, <2>10, <2>11 DEF GoodBook, HasNewest, Gapless, after
<1>5. QED
  BY <1>2, <1>3, <1>4

\* initialize(snapshot) keeps the invariant of the book.
LEMMA InitializeGood ==
  ASSUME NEW n \in Nat, NEW b, GoodBook(b, n), NEW at \in Nat, at >= 1,
         ~AlignedSnapshots => \E k \in Nat : at = First(k)
  PROVE  LET after == Initialize(b, at).book
         IN  /\ GoodBook(after, n)
             /\ ~Lossy /\ EndsBefore(b.buffered, n) => EndsBefore(after.buffered, n)
<1> DEFINE kept == {k \in b.buffered : Final(k) >= at}
           p == [b EXCEPT !.synchronized = FALSE, !.pending = at,
                          !.buffered = kept]
<1>1. /\ b \in Book /\ b.buffered \in SUBSET Nat /\ kept \in SUBSET Nat
      /\ \A k \in b.buffered : 1 <= k /\ k < n
  BY DEF GoodBook, Book
<1>2. /\ p \in Book /\ p.synchronized = FALSE
      /\ p.pending = at /\ p.buffered = kept
  <2> HIDE DEF kept
  <2>1. QED
    BY <1>1 DEF Book
<1>3. HasNewest(kept)
  <2>1. CASE b.buffered = {}
    BY <2>1 DEF HasNewest
  <2>2. CASE b.buffered # {}
    <3>1. PICK m \in b.buffered : \A k \in b.buffered : k <= m
      BY <2>2 DEF GoodBook, HasNewest
    <3>2. CASE m \in kept
      BY <3>1, <3>2 DEF HasNewest
    <3>3. CASE m \notin kept
      <4>1. kept = {}
        BY <1>1, <3>1, <3>3 DEF Final
      <4>2. QED
        BY <4>1 DEF HasNewest
    <3>4. QED
      BY <3>2, <3>3
  <2>3. QED
    BY <2>1, <2>2
<1>4. ~Lossy => Gapless(kept)
  BY <1>1 DEF Gapless, GoodBook, Final
<1>5. at # NoId
  BY DEF NoId
<1>6. GoodBook(p, n)
  <2> HIDE DEF p
  <2>1. QED
    BY <1>1, <1>2, <1>3, <1>4, <1>5 DEF GoodBook
<1>7. EndsBefore(b.buffered, n) => EndsBefore(kept, n)
  BY <1>1 DEF EndsBefore, Final
<1>8. Initialize(b, at) = TryApplyPendingSnapshot(p)
  BY DEF Initialize
<1> HIDE DEF p
<1>9. LET after == TryApplyPendingSnapshot(p).book
      IN  GoodBook(after, n) /\ (~Lossy => after.buffered \in {p.buffered, {}})
  BY <1>2, <1>5, <1>6, TryApplyGood
<1>10. QED
  BY <1>2, <1>7, <1>8, <1>9 DEF EndsBefore

\* ingest(event) keeps the invariant of the book.
LEMMA IngestGood ==
  ASSUME NEW n \in Nat, n >= 1, NEW b, GoodBook(b, n),
         ~Lossy => EndsBefore(b.buffered, n)
  PROVE  LET after == Ingest(b, n).book
         IN  /\ GoodBook(after, n + 1)
             /\ ~Lossy => EndsBefore(after.buffered, n + 1)
<1> DEFINE after == Ingest(b, n).book
<1>1. b \in Book /\ GoodBook(b, n + 1)
  BY DEF GoodBook, Book
<1>2. CASE b.synchronized
  <2>1. b.lastUpdateId # NoId /\ b.buffered = {} /\ b.lastUpdateId \in Nat
    BY <1>1, <1>2 DEF GoodBook, Book
  <2>2. Ingest(b, n) = IngestSynchronized(b, n)
    BY <1>2, <2>1 DEF Ingest
  <2>3. CASE Final(n) < b.lastUpdateId
    BY <1>1, <2>1, <2>2, <2>3 DEF IngestSynchronized, Outcome, EndsBefore
  <2>4. CASE ~(Final(n) < b.lastUpdateId) /\ Previous(n) # b.lastUpdateId
    <3>1. after = Buffer(EmptyBook, n)
      BY <2>2, <2>4 DEF IngestSynchronized, Outcome
    <3>2. GoodBook(EmptyBook, n) /\ ~EmptyBook.synchronized
          /\ EmptyBook.pending = NoId /\ EmptyBook.buffered = {}
      BY DEF GoodBook, EmptyBook, Book, SyncStates, HasNewest, Gapless, NoId
    <3>3. QED
      BY <3>1, <3>2, BufferGood DEF EndsBefore
  <2>5. CASE ~(Final(n) < b.lastUpdateId) /\ Previous(n) = b.lastUpdateId
    <3> DEFINE levels == b.levels \cup Ids({n})
    <3>1. after = [b EXCEPT !.levels = levels, !.lastUpdateId = Final(n)]
      BY <2>2, <2>5 DEF IngestSynchronized, Outcome
    <3>2. Ids({n}) = {Final(n), Final(n) - 1} /\ Final(n) = b.lastUpdateId + 2
      BY <2>5 DEF Ids, First, Final, Previous
    <3>3. levels \in SUBSET Nat /\ Final(n) \in Nat /\ Final(n) # NoId
      <4>1. Final(n) \in Nat /\ Final(n) - 1 \in Nat /\ Final(n) # NoId
        BY DEF Final, NoId
      <4>2. b.levels \in SUBSET Nat
        BY <1>1 DEF Book
      <4>3. QED
        BY <3>2, <4>1, <4>2
    <3>4. Trackable => levels = 1 .. Final(n)
      <4>1. SUFFICES ASSUME Trackable
                     PROVE  levels = 1 .. Final(n)
        OBVIOUS
      <4> DEFINE last == b.lastUpdateId
      <4>2. b.levels = 1 .. last /\ last \in Nat
        BY <1>2, <2>1, <4>1 DEF GoodBook
      <4>3. Final(n) = last + 2 /\ Final(n) - 1 = last + 1
        BY <3>2, <4>2
      <4>4. levels = (1 .. last) \cup {last + 2, last + 1}
        BY <3>2, <4>2, <4>3, Zenon
      <4> HIDE DEF last, levels
      <4>5. QED
        BY <4>2, <4>3, <4>4
    <3> HIDE DEF levels
    <3>5. /\ after \in Book /\ after.levels = levels
          /\ after.lastUpdateId = Final(n)
          /\ after.buffered = {} /\ after.pending = b.pending
          /\ after.synchronized = b.synchronized
      BY <1>1, <2>1, <3>1, <3>3 DEF Book
    <3> HIDE DEF after
    <3>6. GoodBook(after, n + 1)
      BY <2>1, <3>3, <3>4, <3>5 DEF GoodBook
    <3>7. QED
      BY <3>5, <3>6 DEF EndsBefore, after
  <2>6. QED
    BY <2>3, <2>4, <2>5
<1>3. CASE ~b.synchronized
  <2>1. Ingest(b, n) = IngestUnsynchronized(b, n)
    BY <1>3 DEF Ingest
  <2>2. CASE b.pending # NoId /\ Final(n) < b.pending
    <3>1. after = b
      BY <2>1, <2>2 DEF IngestUnsynchronized, Outcome
    <3>2. ~Lossy => b.buffered = {}
      BY <1>1, <2>2 DEF EndsBefore, GoodBook, Final, Book
    <3>3. QED
      BY <1>1, <3>1, <3>2 DEF EndsBefore
  <2>3. CASE ~(b.pending # NoId /\ Final(n) < b.pending)
    <3> DEFINE c == Buffer(b, n)
    <3>1. b.pending # NoId => Final(n) >= b.pending
      BY <1>1, <2>3 DEF Book, Final
    <3>2. /\ GoodBook(c, n + 1)
          /\ ~Lossy => EndsBefore(c.buffered, n + 1)
          /\ c = [b EXCEPT !.buffered = c.buffered]
      BY <1>3, <3>1, BufferGood
    <3> HIDE DEF c
    <3>3. c.pending = b.pending /\ ~c.synchronized
      BY <1>1, <1>3, <3>2 DEF Book
    <3>4. CASE b.pending = NoId
      <4>1. after = c
        BY <2>1, <3>4 DEF IngestUnsynchronized, Outcome, c
      <4>2. QED
        BY <3>2, <4>1
    <3>5. CASE b.pending # NoId
      <4>1. after = TryApplyPendingSnapshot(c).book
        BY <2>1, <2>3, <3>5 DEF IngestUnsynchronized, c
      <4>2. /\ GoodBook(after, n + 1)
            /\ ~Lossy => after.buffered \in {c.buffered, {}}
        BY <3>2, <3>3, <3>5, <4>1, TryApplyGood
      <4>3. QED
        BY <3>2, <4>2 DEF EndsBefore
    <3>6. QED
      BY <3>4, <3>5
  <2>4. QED
    BY <2>2, <2>3
<1>4. QED
  BY <1>1, <1>2, <1>3 DEF Book

\* The results on which the service publishes the book.
LEMMA PublishedIsSynchronized ==
  /\ \A b : TryApplyPendingSnapshot(b).result = "SYNCHRONIZED"
              => TryApplyPendingSnapshot(b).book.synchronized
  /\ \A b, at : Initialize(b, at).result = "SYNCHRONIZED"
                  => Initialize(b, at).book.synchronized
  /\ \A b \in Book : \A n :
       Ingest(b, n).result \in {"APPLIED", "SYNCHRONIZED"}
         => Ingest(b, n).book.synchronized
<1>1. ASSUME NEW b, TryApplyPendingSnapshot(b).result = "SYNCHRONIZED"
      PROVE  TryApplyPendingSnapshot(b).book.synchronized
  <2>1. TryApplyPendingSnapshot(b) = Outcome(ReplayedBook(b), "SYNCHRONIZED")
    BY <1>1 DEF TryApplyPendingSnapshot, Outcome
  <2>2. QED
    BY <2>1 DEF Outcome, ReplayedBook
<1>2. ASSUME NEW b, NEW at, Initialize(b, at).result = "SYNCHRONIZED"
      PROVE  Initialize(b, at).book.synchronized
  BY <1>1, <1>2 DEF Initialize
<1>3. ASSUME NEW b \in Book, NEW n,
             Ingest(b, n).result \in {"APPLIED", "SYNCHRONIZED"}
      PROVE  Ingest(b, n).book.synchronized
  <2>1. CASE b.synchronized /\ b.lastUpdateId # NoId
    <3> DEFINE levels == b.levels \cup Ids({n})
               c == [b EXCEPT !.levels = levels, !.lastUpdateId = Final(n)]
    <3>1. Ingest(b, n) = Outcome(c, "APPLIED")
      BY <1>3, <2>1 DEF Ingest, IngestSynchronized, Outcome
    <3>2. c.synchronized = b.synchronized
      <4> HIDE DEF levels
      <4>1. QED
        BY DEF Book
    <3>3. Ingest(b, n).book = c
      BY <3>1 DEF Outcome
    <3>4. QED
      BY <2>1, <3>2, <3>3
  <2>2. CASE ~(b.synchronized /\ b.lastUpdateId # NoId)
    <3>1. Ingest(b, n) = TryApplyPendingSnapshot(Buffer(b, n))
      BY <1>3, <2>2 DEF Ingest, IngestUnsynchronized, Outcome
    <3>2. TryApplyPendingSnapshot(Buffer(b, n)).result # "APPLIED"
      BY DEF TryApplyPendingSnapshot, Outcome
    <3>3. QED
      BY <1>1, <1>3, <3>1, <3>2
  <2>3. QED
    BY <2>1, <2>2
<1>4. QED
  BY <1>1, <1>2, <1>3

\* A book that has been reset satisfies the invariant of the book.
LEMMA EmptyBookGood ==
  ASSUME NEW n \in Nat
  PROVE  GoodBook(EmptyBook, n) /\ EmptyBook.buffered = {}
BY DEF GoodBook, EmptyBook, Book, SyncStates, HasNewest, Gapless, NoId

\* markRetryScheduled and markFetchingSnapshot keep the invariant of the book.
LEMMA MarkGood ==
  ASSUME NEW n \in Nat, NEW b, GoodBook(b, n),
         NEW after \in {MarkRetry(b), MarkFetching(b)}
  PROVE  GoodBook(after, n) /\ after.buffered = b.buffered
<1>1. b \in Book /\ NoId \in Nat
      /\ "RETRY_SCHEDULED" \in SyncStates /\ "FETCHING_SNAPSHOT" \in SyncStates
  BY DEF GoodBook, SyncStates, NoId
<1>2. /\ after \in Book /\ after.buffered = b.buffered
      /\ ~after.synchronized /\ after.pending = NoId
  <2>1. CASE after = MarkRetry(b)
    BY <1>1, <2>1 DEF MarkRetry, Book
  <2>2. CASE after = MarkFetching(b)
    BY <1>1, <2>2 DEF MarkFetching, Book
  <2>3. QED
    BY <2>1, <2>2
<1>3. QED
  BY <1>2 DEF GoodBook
-----------------------------------------------------------------------------
(***************************************************************************)
(* The steps.  GoodDepth is what each of them shows of cache.depth.        *)
(***************************************************************************)
GoodDepth(d) ==
  /\ d \in Depth
  /\ Trackable /\ d.synchronized => d.levels = 1 .. d.lastUpdateId

\* Publishing a synchronized book publishes an exact depth.
LEMMA PublishedDepthGood ==
  ASSUME NEW n, NEW b, GoodBook(b, n), b.synchronized
  PROVE  GoodDepth(PublishedDepth(b))
BY DEF GoodBook, Book, GoodDepth, Depth, PublishedDepth, SyncStates

\* Unpublishing the depth keeps its type.
LEMMA UnsynchronizedGood ==
  ASSUME TypeOK, NEW state \in SyncStates
  PROVE  GoodDepth(Unsynchronized(state))
BY DEF TypeOK, GoodDepth, Depth, Unsynchronized

\* scheduleOrderBookSync, with or without the retry details.
LEMMA ScheduleGood ==
  ASSUME IInv, NEW n \in Nat, NEW b, GoodBook(b, n),
         NEW f \in {"none", "current", "stale"}, NEW t \in BOOLEAN,
         ScheduleNow(b, f, t) \/ ScheduleRetry(b, f, t)
  PROVE  /\ GoodBook(book', n) /\ book'.buffered = b.buffered
         /\ fetch' \in {"none", "current", "stale"}
         /\ retryTimer' \in BOOLEAN
         /\ GoodDepth(depth')
<1>1. GoodDepth(depth) /\ TypeOK
  BY DEF IInv, TypeOK, GoodDepth, PublishedBookExact
<1>2. "FETCHING_SNAPSHOT" \in SyncStates /\ "RETRY_SCHEDULED" \in SyncStates
  BY DEF SyncStates
<1>3. CASE ScheduleNow(b, f, t)
  BY <1>1, <1>2, <1>3, MarkGood, UnsynchronizedGood DEF ScheduleNow
<1>4. CASE ScheduleRetry(b, f, t)
  BY <1>1, <1>2, <1>4, MarkGood, UnsynchronizedGood DEF ScheduleRetry
<1>5. QED
  BY <1>3, <1>4

\* The service as constructed satisfies the inductive invariant.
LEMMA InitGood == Init => IInv
<1>1. SUFFICES ASSUME Init
               PROVE  IInv
  OBVIOUS
<1>2. /\ head = 1 /\ next = 1 /\ book = EmptyBook
      /\ depth = [synchronized |-> FALSE, syncState |-> "FETCHING_SNAPSHOT",
                  lastUpdateId |-> NoId, levels |-> {}]
  BY <1>1 DEF Init
<1>3. GoodBook(book, next) /\ book.buffered = {} /\ book \in Book
  <2>1. GoodBook(EmptyBook, 1) /\ EmptyBook.buffered = {}
    BY EmptyBookGood
  <2>2. QED
    BY <1>2, <2>1 DEF GoodBook
<1>4. depth \in Depth /\ ~depth.synchronized
  <2>1. NoId \in Nat /\ "FETCHING_SNAPSHOT" \in SyncStates
    BY DEF NoId, SyncStates
  <2>2. QED
    BY <1>2, <2>1 DEF Depth
<1>5. TypeOK
  <2>1. /\ running = FALSE /\ socket = "none" /\ reconnectTimer = FALSE
        /\ fetch = "none" /\ retryTimer = FALSE /\ fallbacks = {}
    BY <1>1 DEF Init
  <2>2. QED
    BY <1>2, <1>3, <1>4, <2>1 DEF TypeOK
<1>6. QED
  BY <1>2, <1>3, <1>4, <1>5 DEF IInv, EndsBefore, PublishedBookExact

\* A socket that closes, a stop, a start, an emission, or a poll: the book is
\* left alone, and the depth is left alone or unpublished.
LEMMA BookUntouched ==
  ASSUME IInv, TypeOK', book' = book, next' = next, head' >= 1,
         GoodDepth(depth'),
         socket' = "open" => socket = "open"
  PROVE  IInv'
BY DEF IInv, GoodDepth, PublishedBookExact

\* A turn that brings the book or the stream further.
LEMMA BookAdvanced ==
  ASSUME IInv, TypeOK', GoodBook(book', next'), next' >= 1, head' = head,
         GoodDepth(depth'),
         ~Lossy /\ socket' = "open" => EndsBefore(book'.buffered, next')
  PROVE  IInv'
BY DEF IInv, GoodDepth, PublishedBookExact

\* A message of the depth stream keeps the inductive invariant.
LEMMA DeliverGood ==
  ASSUME IInv, DeliverDepth
  PROVE  IInv'
<1> DEFINE outcome == Ingest(book, next)
           b == outcome.book
<1>1. /\ TypeOK /\ GoodBook(book, next) /\ book \in Book
      /\ next \in Nat /\ next >= 1 /\ next' = next + 1 /\ socket = "open"
      /\ GoodDepth(depth)
  BY DEF IInv, DeliverDepth, TypeOK, GoodDepth, PublishedBookExact
<1>2. /\ GoodBook(b, next + 1)
      /\ ~Lossy => EndsBefore(b.buffered, next + 1)
  BY <1>1, IngestGood DEF IInv
<1>3. outcome.result \in {"APPLIED", "SYNCHRONIZED"} => GoodDepth(PublishedDepth(b))
  BY <1>1, <1>2, PublishedIsSynchronized, PublishedDepthGood
<1> HIDE DEF b, outcome
<1>4. /\ GoodBook(book', next + 1) /\ book'.buffered = b.buffered
      /\ fetch' \in {"none", "current", "stale"} /\ retryTimer' \in BOOLEAN
      /\ GoodDepth(depth')
  <2>1. CASE outcome.result = "APPLIED" /\ book' = b /\ depth' = PublishedDepth(b)
             /\ UNCHANGED <<fetch, retryTimer>>
    BY <1>1, <1>2, <1>3, <2>1 DEF TypeOK
  <2>2. CASE outcome.result = "SYNCHRONIZED" /\ Complete(b) /\ UNCHANGED fetch
    BY <1>1, <1>2, <1>3, <2>2 DEF TypeOK, Complete, CancelRetry
  <2>3. CASE ScheduleNow(b, fetch, retryTimer) \/ ScheduleRetry(b, fetch, retryTimer)
    <3>1. /\ next + 1 \in Nat /\ retryTimer \in BOOLEAN
          /\ fetch \in {"none", "current", "stale"}
      BY <1>1 DEF TypeOK
    <3>2. QED
      BY <1>2, <2>3, <3>1, ScheduleGood
  <2>4. CASE book' = b /\ UNCHANGED <<depth, fetch, retryTimer>>
    BY <1>1, <1>2, <2>4 DEF TypeOK
  <2>5. QED
    BY <2>1, <2>2, <2>3, <2>4 DEF DeliverDepth, b, outcome
<1>5. TypeOK'
  BY <1>1, <1>4 DEF TypeOK, DeliverDepth, GoodBook, GoodDepth
<1>6. QED
  BY <1>1, <1>2, <1>4, <1>5, BookAdvanced DEF DeliverDepth

\* The answer of a snapshot request keeps the inductive invariant.
LEMMA SnapshotGood ==
  ASSUME IInv, NEW at \in SnapshotIds, SnapshotTakenAt(at)
  PROVE  IInv'
<1> DEFINE outcome == Initialize(book, at)
           b == outcome.book
<1>1. /\ TypeOK /\ GoodBook(book, next) /\ next \in Nat /\ next >= 1
      /\ next' = next /\ head' = head /\ socket' = socket
      /\ GoodDepth(depth)
  BY DEF IInv, SnapshotTakenAt, TypeOK, GoodDepth, PublishedBookExact, connection
<1>2. at \in Nat /\ at >= 1 /\ (~AlignedSnapshots => \E k \in Nat : at = First(k))
  BY <1>1 DEF SnapshotIds, TypeOK, Final
<1>3. /\ GoodBook(b, next)
      /\ ~Lossy /\ EndsBefore(book.buffered, next) => EndsBefore(b.buffered, next)
  BY <1>1, <1>2, InitializeGood
<1>4. outcome.result = "SYNCHRONIZED" => GoodDepth(PublishedDepth(b))
  BY <1>3, PublishedIsSynchronized, PublishedDepthGood
<1>5. GoodDepth(Unsynchronized("WAITING_FOR_BRIDGE"))
  BY <1>1, UnsynchronizedGood DEF SyncStates
<1> HIDE DEF b, outcome
<1>6. /\ GoodBook(book', next) /\ book'.buffered = b.buffered
      /\ fetch' \in {"none", "current", "stale"} /\ retryTimer' \in BOOLEAN
      /\ GoodDepth(depth')
  <2>1. CASE outcome.result = "SYNCHRONIZED" /\ Complete(b) /\ fetch' = "none"
    BY <1>3, <1>4, <2>1 DEF Complete, CancelRetry
  <2>2. CASE book' = b /\ depth' = Unsynchronized("WAITING_FOR_BRIDGE")
             /\ fetch' = "none" /\ UNCHANGED retryTimer
    BY <1>1, <1>3, <1>5, <2>2 DEF TypeOK
  <2>3. CASE ScheduleRetry(b, "none", retryTimer)
    BY <1>1, <1>3, <2>3, ScheduleGood DEF TypeOK
  <2>4. QED
    BY <2>1, <2>2, <2>3 DEF SnapshotTakenAt, b, outcome
<1>7. TypeOK'
  BY <1>1, <1>6 DEF TypeOK, SnapshotTakenAt, connection, GoodBook, GoodDepth
<1>8. QED
  BY <1>1, <1>3, <1>6, <1>7, BookAdvanced DEF IInv

\* Every step keeps the inductive invariant.
LEMMA NextGood == IInv /\ [Next]_vars => IInv'
<1>1. SUFFICES ASSUME IInv, [Next]_vars
               PROVE  IInv'
  OBVIOUS
<1>2. TypeOK /\ GoodDepth(depth) /\ head >= 1
  BY <1>1 DEF IInv, TypeOK, GoodDepth, PublishedBookExact
<1>3. CASE ExchangeEmits
  BY <1>1, <1>2, <1>3, BookUntouched DEF ExchangeEmits, TypeOK
<1>4. CASE Start
  BY <1>1, <1>2, <1>4, BookUntouched DEF Start, Connect, TypeOK
<1>5. CASE Stop
  <2>1. fetch' \in {"none", "current", "stale"}
        /\ fallbacks' \in SUBSET {"current", "stale"}
    BY <1>2, <1>5 DEF Stop, Stale, TypeOK
  <2>2. QED
    BY <1>1, <1>2, <1>5, <2>1, BookUntouched DEF Stop, CancelRetry, TypeOK
<1>6. CASE ReconnectTimerFires
  BY <1>1, <1>2, <1>6, BookUntouched DEF ReconnectTimerFires, Connect, TypeOK
<1>7. CASE SocketOpens
  <2>1. /\ head + 1 \in Nat /\ next' = head + 1 /\ head' = head
        /\ fetch \in {"none", "current", "stale"}
    BY <1>2, <1>7 DEF SocketOpens, TypeOK
  <2>2. ScheduleNow(EmptyBook, fetch, FALSE)
    BY <1>7 DEF SocketOpens
  <2>3. GoodBook(EmptyBook, head + 1) /\ EmptyBook.buffered = {}
    BY <2>1, EmptyBookGood
  <2>4. /\ GoodBook(book', next') /\ book'.buffered = {}
        /\ fetch' \in {"none", "current", "stale"}
        /\ retryTimer' \in BOOLEAN /\ GoodDepth(depth')
    BY <1>1, <2>1, <2>2, <2>3, ScheduleGood
  <2>5. TypeOK'
    BY <1>2, <1>7, <2>1, <2>4 DEF TypeOK, SocketOpens, GoodBook, GoodDepth
  <2>6. next' >= 1
    BY <1>2, <2>1 DEF TypeOK
  <2>7. QED
    BY <1>1, <2>1, <2>4, <2>5, <2>6, BookAdvanced DEF EndsBefore
<1>8. CASE SocketFails
  <2>1. GoodDepth(depth')
    BY <1>2, <1>8, UnsynchronizedGood DEF SocketFails, SyncStates
  <2>2. TypeOK'
    BY <1>2, <1>8, <2>1 DEF SocketFails, CancelRetry, Stale, TypeOK, GoodDepth
  <2>3. QED
    BY <1>1, <1>2, <1>8, <2>1, <2>2, BookUntouched DEF SocketFails
<1>9. CASE DeliverDepth
  BY <1>1, <1>9, DeliverGood
<1>10. CASE DropMessage
  <2>1. GoodBook(book, next + 1)
    BY <1>1, <1>2 DEF IInv, GoodBook, TypeOK, Book
  <2>2. QED
    BY <1>1, <1>2, <1>10, <2>1, BookAdvanced DEF DropMessage, TypeOK, IInv
<1>11. CASE SnapshotArrives
  BY <1>1, <1>11, SnapshotGood DEF SnapshotArrives
<1>12. CASE SnapshotFails
  <2>1. /\ next \in Nat /\ next >= 1 /\ GoodBook(book, next)
        /\ "none" \in {"none", "current", "stale"} /\ retryTimer \in BOOLEAN
        /\ ScheduleRetry(book, "none", retryTimer)
        /\ head' = head /\ next' = next /\ socket' = socket
    BY <1>1, <1>2, <1>12 DEF SnapshotFails, IInv, TypeOK, connection
  <2>2. /\ GoodBook(book', next) /\ book'.buffered = book.buffered
        /\ fetch' \in {"none", "current", "stale"}
        /\ retryTimer' \in BOOLEAN /\ GoodDepth(depth')
    BY <1>1, <2>1, ScheduleGood
  <2>3. TypeOK'
    BY <1>2, <1>12, <2>2 DEF TypeOK, SnapshotFails, connection, GoodBook, GoodDepth
  <2>4. QED
    BY <1>1, <2>1, <2>2, <2>3, BookAdvanced DEF IInv
<1>13. CASE StaleSnapshotReturns
  BY <1>1, <1>2, <1>13, BookUntouched DEF StaleSnapshotReturns, connection, TypeOK
<1>14. CASE RetryTimerFires
  BY <1>1, <1>2, <1>14, BookUntouched DEF RetryTimerFires, connection, TypeOK
<1>15. CASE RefreshFast
  BY <1>1, <1>2, <1>15, BookUntouched DEF RefreshFast, connection, TypeOK
<1>16. CASE FallbackArrives
  <2>1. PICK at \in SnapshotIds :
          depth' = IF FallbackApplies THEN FallbackDepth(at) ELSE depth
    BY <1>16 DEF FallbackArrives
  <2>2. at \in Nat /\ 1 .. at \in SUBSET Nat
    BY <1>2 DEF SnapshotIds, TypeOK, Final
  <2>3. GoodDepth(FallbackDepth(at))
    <3> DEFINE ids == 1 .. at
    <3>1. ids \in SUBSET Nat /\ depth \in Depth
      BY <1>2, <2>2 DEF TypeOK
    <3>2. FallbackDepth(at) = [depth EXCEPT !.synchronized = FALSE,
                                 !.lastUpdateId = at, !.levels = ids]
      BY DEF FallbackDepth
    <3> HIDE DEF ids
    <3>3. QED
      BY <2>2, <3>1, <3>2 DEF GoodDepth, Depth
  <2>4. GoodDepth(depth')
    BY <1>2, <2>1, <2>3
  <2>5. TypeOK'
    BY <1>2, <1>16, <2>4 DEF FallbackArrives, connection, TypeOK, GoodDepth
  <2>6. QED
    BY <1>1, <1>2, <1>16, <2>4, <2>5, BookUntouched DEF FallbackArrives, connection
<1>17. CASE FallbackIsDropped
  BY <1>1, <1>2, <1>17, BookUntouched DEF FallbackIsDropped, connection, TypeOK
<1>18. CASE UNCHANGED vars
  BY <1>1, <1>2, <1>18, BookUntouched DEF vars, TypeOK
<1>19. QED
  BY <1>1, <1>3, <1>4, <1>5, <1>6, <1>7, <1>8, <1>9, <1>10, <1>11, <1>12,
     <1>13, <1>14, <1>15, <1>16, <1>17, <1>18 DEF Next
-----------------------------------------------------------------------------
(***************************************************************************)
(* The theorems.                                                           *)
(***************************************************************************)
\* The inductive invariant holds of every reachable state.
THEOREM Invariance == Spec => []IInv
BY InitGood, NextGood, PTL DEF Spec

\* The fields of the book, the cache and the service keep their types.
THEOREM TypeCorrect == Spec => []TypeOK
<1>1. IInv => TypeOK
  BY DEF IInv
<1>2. QED
  BY <1>1, Invariance, PTL

\* Every depth that is published as synchronized is exact, for every bound and
\* lag, if no message is dropped or no snapshot ends where an event ends.
THEOREM PublishedBookIsExact ==
  ASSUME Lossy => ~AlignedSnapshots
  PROVE  Spec => []PublishedBookExact
<1>1. IInv => PublishedBookExact
  BY DEF IInv, Trackable
<1>2. QED
  BY <1>1, Invariance, PTL
-----------------------------------------------------------------------------
(***************************************************************************)
(* cache.depth mirrors the local book, one synchronization is under way at *)
(* a time, a gap in the stream unpublishes the depth, and every step of    *)
(* the service is a step of DepthReplica or a stutter.                     *)
(*                                                                         *)
(* The first two hold only together: a socket that opens with a request of *)
(* an older one in the way leaves cache.depth alone, which is right        *)
(* because the book is not in use while any request is in flight; and a    *)
(* request starts only on a book that is not in use because the timer, the *)
(* request and the pending snapshot exclude each other.                    *)
(***************************************************************************)
\* A request that is current was made by the socket that is open, and a socket
\* delivers no event that has not been emitted.
RequestOfThisSocket ==
  /\ fetch = "current" => socket = "open"
  /\ next <= head + 1

SyncInv == DepthMirrorsBook /\ OneSyncAtATime /\ RequestOfThisSocket

\* Nothing is under way: no request in flight, no timer set.
Idle == fetch = "none" /\ ~retryTimer
-----------------------------------------------------------------------------
(***************************************************************************)
(* What the methods of the book answer.                                    *)
(***************************************************************************)
\* A book that is in use ignores, applies or discards; its result says which.
LEMMA IngestInUse ==
  ASSUME NEW n \in Nat, NEW b, GoodBook(b, n), b.synchronized
  PROVE  /\ b.lastUpdateId <= Previous(n)
         /\ \/ /\ Ingest(b, n) = Outcome(b, "IGNORED")
               /\ Final(n) < b.lastUpdateId
            \/ /\ Ingest(b, n).result = "APPLIED"
               /\ Previous(n) = b.lastUpdateId
               /\ Ingest(b, n).book.lastUpdateId = Final(n)
            \/ /\ Ingest(b, n) = Outcome(Buffer(EmptyBook, n), "GAP")
               /\ Previous(n) # b.lastUpdateId
<1>1. /\ b \in Book /\ b.lastUpdateId # NoId
      /\ \E k \in 1 .. (n - 1) : b.lastUpdateId = Final(k)
  BY DEF GoodBook
<1>2. b.lastUpdateId <= Previous(n)
  BY <1>1 DEF Previous, Final
<1>3. Ingest(b, n) = IngestSynchronized(b, n)
  BY <1>1 DEF Ingest
<1>4. CASE Final(n) < b.lastUpdateId
  BY <1>2, <1>3, <1>4 DEF IngestSynchronized
<1>5. CASE ~(Final(n) < b.lastUpdateId) /\ Previous(n) # b.lastUpdateId
  BY <1>2, <1>3, <1>5 DEF IngestSynchronized
<1>6. CASE ~(Final(n) < b.lastUpdateId) /\ Previous(n) = b.lastUpdateId
  <2> DEFINE levels == b.levels \cup Ids({n})
             c == [b EXCEPT !.levels = levels, !.lastUpdateId = Final(n)]
  <2>1. Ingest(b, n) = Outcome(c, "APPLIED")
    BY <1>3, <1>6 DEF IngestSynchronized
  <2>2. c.lastUpdateId = Final(n)
    <3> HIDE DEF levels
    <3>1. QED
      BY <1>1 DEF Book
  <2> HIDE DEF c
  <2>3. QED
    BY <1>2, <1>6, <2>1, <2>2 DEF Outcome
<1>7. QED
  BY <1>4, <1>5, <1>6

\* Buffering leaves everything but the buffer alone.
LEMMA BufferKeeps ==
  ASSUME NEW b \in Book, NEW n \in Nat
  PROVE  /\ Buffer(b, n) \in Book
         /\ Buffer(b, n).synchronized = b.synchronized
         /\ Buffer(b, n).pending = b.pending
<1> DEFINE kept == IF Cardinality(b.buffered \cup {n}) > MaxBuffered
                   THEN (b.buffered \cup {n}) \ Oldest(b.buffered \cup {n})
                   ELSE b.buffered \cup {n}
<1>1. Buffer(b, n) = [b EXCEPT !.buffered = kept]
  BY DEF Buffer
<1>2. kept \in SUBSET Nat
  BY DEF Book
<1> HIDE DEF kept
<1>3. QED
  BY <1>1, <1>2 DEF Book

\* The results of a replay and what they say of the book.
LEMMA TryApplyAnswers ==
  ASSUME NEW b \in Book, ~b.synchronized, b.pending # NoId
  PROVE  LET outcome == TryApplyPendingSnapshot(b)
         IN  /\ outcome.result \in {"SYNCHRONIZED", "WAITING_FOR_BRIDGE",
                                    "SNAPSHOT_STALE"}
             /\ outcome.result = "SYNCHRONIZED" <=> outcome.book.synchronized
<1> DEFINE outcome == TryApplyPendingSnapshot(b)
<1>1. CASE Bridges(b) = {}
  <2> DEFINE given == [b EXCEPT !.pending = NoId, !.syncState = "RETRY_SCHEDULED"]
             waits == [b EXCEPT !.syncState = "WAITING_FOR_BRIDGE"]
  <2>1. \/ outcome = Outcome(given, "SNAPSHOT_STALE")
        \/ outcome = Outcome(waits, "WAITING_FOR_BRIDGE")
    BY <1>1 DEF TryApplyPendingSnapshot
  <2>2. ~given.synchronized /\ ~waits.synchronized
    BY DEF Book
  <2> HIDE DEF given, waits
  <2>3. QED
    BY <2>1, <2>2 DEF Outcome
<1>2. CASE Bridges(b) # {} /\ ReplayGaps(b) # {}
  <2> DEFINE kept == Oldest(ReplayGaps(b))
             fresh == [EmptyBook EXCEPT !.buffered = kept,
                                        !.syncState = "RETRY_SCHEDULED"]
  <2>1. outcome = Outcome(fresh, "SNAPSHOT_STALE")
    BY <1>2 DEF TryApplyPendingSnapshot
  <2>2. ~fresh.synchronized
    <3> HIDE DEF kept
    <3>1. QED
      BY DEF EmptyBook
  <2> HIDE DEF fresh
  <2>3. QED
    BY <2>1, <2>2 DEF Outcome
<1>3. CASE Bridges(b) # {} /\ ReplayGaps(b) = {}
  <2>1. outcome = Outcome(ReplayedBook(b), "SYNCHRONIZED")
    BY <1>3 DEF TryApplyPendingSnapshot
  <2>2. QED
    BY <2>1 DEF Outcome, ReplayedBook
<1>4. QED
  BY <1>1, <1>2, <1>3

\* A book that is not in use buffers when it has no snapshot, and otherwise
\* ignores the event or tries to apply the snapshot.
LEMMA IngestNotInUse ==
  ASSUME NEW n \in Nat, NEW b \in Book, ~b.synchronized
  PROVE  LET outcome == Ingest(b, n)
         IN  /\ outcome.result \in {"IGNORED", "BUFFERED", "SYNCHRONIZED",
                                    "WAITING_FOR_BRIDGE", "SNAPSHOT_STALE"}
             /\ outcome.result = "SYNCHRONIZED" <=> outcome.book.synchronized
             /\ b.pending = NoId => /\ outcome.result = "BUFFERED"
                                    /\ outcome.book.pending = NoId
             /\ outcome.result = "BUFFERED" => outcome.book.pending = NoId
<1>1. Ingest(b, n) = IngestUnsynchronized(b, n)
  BY DEF Ingest
<1>2. CASE b.pending # NoId /\ Final(n) < b.pending
  BY <1>1, <1>2 DEF IngestUnsynchronized, Outcome
<1>3. CASE b.pending # NoId /\ ~(Final(n) < b.pending)
  <2> DEFINE c == Buffer(b, n)
  <2>1. Ingest(b, n) = TryApplyPendingSnapshot(c)
    BY <1>1, <1>3 DEF IngestUnsynchronized
  <2>2. c \in Book /\ ~c.synchronized /\ c.pending # NoId
    BY <1>3, BufferKeeps
  <2> HIDE DEF c
  <2>3. QED
    BY <1>3, <2>1, <2>2, TryApplyAnswers
<1>4. CASE b.pending = NoId
  BY <1>1, <1>4, BufferKeeps DEF IngestUnsynchronized, Outcome
<1>5. QED
  BY <1>2, <1>3, <1>4

\* The same of a snapshot's arrival.
LEMMA InitializeAnswers ==
  ASSUME NEW b \in Book, NEW at \in Nat, at # NoId
  PROVE  LET outcome == Initialize(b, at)
         IN  /\ outcome.result \in {"SYNCHRONIZED", "WAITING_FOR_BRIDGE",
                                    "SNAPSHOT_STALE"}
             /\ outcome.result = "SYNCHRONIZED" <=> outcome.book.synchronized
<1> DEFINE kept == {k \in b.buffered : Final(k) >= at}
           p == [b EXCEPT !.synchronized = FALSE, !.pending = at,
                          !.buffered = kept]
<1>1. kept \in SUBSET Nat
  BY DEF Book
<1>2. p \in Book /\ ~p.synchronized /\ p.pending # NoId
  <2> HIDE DEF kept
  <2>1. QED
    BY <1>1 DEF Book
<1>3. Initialize(b, at) = TryApplyPendingSnapshot(p)
  BY DEF Initialize
<1> HIDE DEF p
<1>4. QED
  BY <1>2, <1>3, TryApplyAnswers
-----------------------------------------------------------------------------
(***************************************************************************)
(* The steps.  Shown is what a turn leaves of the book and the depth, for  *)
(* an open socket; Unpublished is the case that both are out of use.       *)
(***************************************************************************)
Shown(b, d) ==
  IF b.synchronized
  THEN d.synchronized /\ d.lastUpdateId = b.lastUpdateId /\ d.levels = b.levels
  ELSE ~d.synchronized

Unpublished(b, d) == ~b.synchronized /\ b.pending = NoId /\ ~d.synchronized

\* Publishing a book that is in use shows it.
LEMMA PublishedIsShown ==
  ASSUME NEW b, b.synchronized
  PROVE  Shown(b, PublishedDepth(b))
BY DEF Shown, PublishedDepth

\* Unpublishing the depth marks it.
LEMMA UnsynchronizedIsMarked ==
  ASSUME depth \in Depth, NEW state
  PROVE  ~Unsynchronized(state).synchronized
BY DEF Unsynchronized, Depth

\* Scheduling a retry takes the book and the depth out of use.
LEMMA RetryUnpublishes ==
  ASSUME depth \in Depth, NEW b \in Book, NEW f, NEW t, ScheduleRetry(b, f, t)
  PROVE  Unpublished(book', depth')
<1>1. ~MarkRetry(b).synchronized /\ MarkRetry(b).pending = NoId
  BY DEF MarkRetry, Book
<1>2. QED
  BY <1>1, UnsynchronizedIsMarked DEF ScheduleRetry, Unpublished

\* So does the start of a request; with one in the way nothing happens.
LEMMA RequestUnpublishes ==
  ASSUME depth \in Depth, NEW b \in Book, NEW f, NEW t \in BOOLEAN,
         ScheduleNow(b, f, t), Unpublished(b, depth) \/ (f = "none" /\ ~t)
  PROVE  /\ Unpublished(book', depth')
         /\ retryTimer' = t
         /\ fetch' = (IF f = "none" /\ ~t THEN "current" ELSE f)
<1>1. ~MarkFetching(b).synchronized /\ MarkFetching(b).pending = NoId
  BY DEF MarkFetching, Book
<1>2. CASE f # "none" \/ t
  BY <1>2 DEF ScheduleNow
<1>3. CASE f = "none" /\ ~t
  BY <1>1, <1>3, UnsynchronizedIsMarked DEF ScheduleNow, Unpublished
<1>4. QED
  BY <1>2, <1>3

\* What the invariant says of an open socket.
LEMMA ShownWhileOpen ==
  ASSUME SyncInv, IInv
  PROVE  /\ socket = "open" => Shown(book, depth)
         /\ ~book.synchronized => ~depth.synchronized
         /\ book.synchronized => Idle
         /\ ~Idle => ~book.synchronized /\ book.pending = NoId
BY DEF SyncInv, IInv, TypeOK, Depth, Book, DepthMirrorsBook, OneSyncAtATime, Shown, Idle

\* A turn of an open socket that shows the book, with nothing under way or
\* with everything out of use.
LEMMA OpenTurn ==
  ASSUME SyncInv, socket = "open", UNCHANGED <<head, running, socket, reconnectTimer, fallbacks>>,
         next' <= head + 1, Shown(book', depth'),
         Idle' \/ Unpublished(book', depth'),
         fetch' = "none" \/ ~retryTimer'
  PROVE  SyncInv'
BY DEF SyncInv, DepthMirrorsBook, OneSyncAtATime, RequestOfThisSocket, Shown, Idle, Unpublished

\* A message of the depth stream: what becomes of the book and the depth.
LEMMA DeliverShows ==
  ASSUME IInv, SyncInv, DeliverDepth
  PROVE  /\ Shown(book', depth')
         /\ Idle' \/ Unpublished(book', depth')
         /\ fetch' = "none" \/ ~retryTimer'
<1> DEFINE outcome == Ingest(book, next)
           b == outcome.book
<1>1. /\ TypeOK /\ GoodBook(book, next) /\ book \in Book /\ depth \in Depth
      /\ next \in Nat /\ next >= 1 /\ socket = "open" /\ retryTimer \in BOOLEAN
  BY DEF IInv, DeliverDepth, TypeOK
<1>2. b \in Book
  <2>1. GoodBook(b, next + 1)
    BY <1>1, IngestGood DEF IInv
  <2>2. QED
    BY <2>1 DEF GoodBook
<1>3. fetch = "none" \/ ~retryTimer
  BY DEF SyncInv, OneSyncAtATime
<1>4. CASE book.synchronized
  <2>1. Idle /\ Shown(book, depth)
    BY <1>1, <1>4, ShownWhileOpen
  <2>2. CASE outcome = Outcome(book, "IGNORED")
    <3>1. book' = book /\ UNCHANGED <<depth, fetch, retryTimer>>
      BY <2>2 DEF DeliverDepth, Outcome
    <3>2. QED
      BY <2>1, <3>1 DEF Idle
  <2>3. CASE outcome.result = "APPLIED"
    <3>1. b.synchronized
      BY <1>1, <2>3, PublishedIsSynchronized
    <3>2. book' = b /\ depth' = PublishedDepth(b) /\ UNCHANGED <<fetch, retryTimer>>
      BY <2>3 DEF DeliverDepth
    <3>3. QED
      BY <2>1, <3>1, <3>2, PublishedIsShown DEF Idle
  <2>4. CASE outcome.result = "GAP"
    <3>1. ScheduleRetry(b, fetch, retryTimer)
      BY <2>4 DEF DeliverDepth
    <3>2. Unpublished(book', depth') /\ fetch' = "none"
      BY <1>1, <1>2, <2>1, <3>1, RetryUnpublishes DEF ScheduleRetry, Idle
    <3>3. QED
      BY <3>2 DEF Unpublished, Shown
  <2>5. QED
    BY <1>1, <1>4, <2>2, <2>3, <2>4, IngestInUse DEF Outcome
<1>5. CASE ~book.synchronized
  <2>1. ~depth.synchronized
    BY <1>5, ShownWhileOpen
  <2>2. /\ outcome.result \in {"IGNORED", "BUFFERED", "SYNCHRONIZED",
                               "WAITING_FOR_BRIDGE", "SNAPSHOT_STALE"}
        /\ outcome.result = "SYNCHRONIZED" <=> b.synchronized
        /\ book.pending = NoId => outcome.result = "BUFFERED"
        /\ outcome.result = "BUFFERED" => b.pending = NoId
    BY <1>1, <1>5, IngestNotInUse
  <2>3. outcome.result # "BUFFERED" => Idle
    BY <2>2, ShownWhileOpen
  <2>4. CASE outcome.result = "SYNCHRONIZED"
    <3>1. Complete(b) /\ UNCHANGED fetch
      BY <2>4 DEF DeliverDepth
    <3>2. QED
      BY <2>2, <2>3, <2>4, <3>1, PublishedIsShown DEF Complete, CancelRetry, Idle
  <2>5. CASE outcome.result = "SNAPSHOT_STALE"
    <3>1. ScheduleRetry(b, fetch, retryTimer)
      BY <2>5 DEF DeliverDepth
    <3>2. Unpublished(book', depth') /\ fetch' = "none"
      BY <1>1, <1>2, <2>3, <2>5, <3>1, RetryUnpublishes DEF ScheduleRetry, Idle
    <3>3. QED
      BY <3>2 DEF Unpublished, Shown
  <2>6. CASE outcome.result = "BUFFERED"
    <3>1. Unpublished(b, depth)
      BY <2>1, <2>2, <2>6 DEF Unpublished
    <3>2. CASE StartsSync(b) /\ ScheduleNow(b, fetch, retryTimer)
      <4>1. Unpublished(book', depth') /\ retryTimer' = retryTimer
            /\ fetch' = (IF fetch = "none" /\ ~retryTimer THEN "current" ELSE fetch)
        BY <1>1, <1>2, <3>1, <3>2, RequestUnpublishes
      <4>2. QED
        BY <1>3, <4>1 DEF Unpublished, Shown
    <3>3. CASE book' = b /\ UNCHANGED <<depth, fetch, retryTimer>>
      BY <1>3, <3>1, <3>3 DEF Unpublished, Shown
    <3>4. QED
      BY <2>6, <3>2, <3>3 DEF DeliverDepth
  <2>7. CASE outcome.result \in {"IGNORED", "WAITING_FOR_BRIDGE"}
    <3>1. book' = b /\ UNCHANGED <<depth, fetch, retryTimer>>
      BY <2>7 DEF DeliverDepth
    <3>2. QED
      BY <2>1, <2>2, <2>3, <2>7, <3>1 DEF Shown, Idle
  <2>8. QED
    BY <2>2, <2>4, <2>5, <2>6, <2>7
<1>6. QED
  BY <1>4, <1>5

\* The answer of a snapshot request: what becomes of the book and the depth.
LEMMA SnapshotShows ==
  ASSUME IInv, SyncInv, NEW at \in SnapshotIds, SnapshotTakenAt(at)
  PROVE  /\ Shown(book', depth')
         /\ Idle' \/ Unpublished(book', depth')
         /\ fetch' = "none"
<1> DEFINE outcome == Initialize(book, at)
           b == outcome.book
<1>1. /\ TypeOK /\ GoodBook(book, next) /\ book \in Book /\ depth \in Depth
      /\ head \in Nat /\ next \in Nat /\ fetch = "current" /\ retryTimer \in BOOLEAN
  BY DEF IInv, SnapshotTakenAt, TypeOK
<1>2. at \in Nat /\ at >= 1 /\ at # NoId
      /\ (~AlignedSnapshots => \E k \in Nat : at = First(k))
  BY <1>1 DEF SnapshotIds, Final, NoId
<1>3. b \in Book
  <2>1. GoodBook(b, next)
    BY <1>1, <1>2, InitializeGood
  <2>2. QED
    BY <2>1 DEF GoodBook
<1>4. /\ outcome.result \in {"SYNCHRONIZED", "WAITING_FOR_BRIDGE", "SNAPSHOT_STALE"}
      /\ outcome.result = "SYNCHRONIZED" <=> b.synchronized
  BY <1>1, <1>2, InitializeAnswers
<1>5. ~retryTimer
  BY <1>1 DEF SyncInv, OneSyncAtATime
<1>6. CASE outcome.result = "SYNCHRONIZED"
  <2>1. Complete(b) /\ fetch' = "none"
    BY <1>6 DEF SnapshotTakenAt
  <2>2. QED
    BY <1>4, <1>6, <2>1, PublishedIsShown DEF Complete, CancelRetry, Idle
<1>7. CASE outcome.result = "WAITING_FOR_BRIDGE"
  <2>1. /\ book' = b /\ depth' = Unsynchronized("WAITING_FOR_BRIDGE")
        /\ fetch' = "none" /\ UNCHANGED retryTimer
    BY <1>7 DEF SnapshotTakenAt
  <2>2. QED
    BY <1>1, <1>4, <1>5, <1>7, <2>1, UnsynchronizedIsMarked DEF Shown, Idle
<1>8. CASE outcome.result = "SNAPSHOT_STALE"
  <2>1. ScheduleRetry(b, "none", retryTimer)
    BY <1>8 DEF SnapshotTakenAt
  <2>2. Unpublished(book', depth') /\ fetch' = "none"
    BY <1>1, <1>3, <2>1, RetryUnpublishes DEF ScheduleRetry
  <2>3. QED
    BY <2>2 DEF Unpublished, Shown
<1>9. QED
  BY <1>4, <1>6, <1>7, <1>8

\* The service as constructed satisfies the invariant.
LEMMA SyncInit == Init => SyncInv
BY DEF Init, SyncInv, DepthMirrorsBook, OneSyncAtATime, RequestOfThisSocket,
       EmptyBook, NoId

\* Every step keeps the invariant.
LEMMA SyncNext == IInv /\ SyncInv /\ [Next]_vars => SyncInv'
<1>1. SUFFICES ASSUME IInv, SyncInv, [Next]_vars
               PROVE  SyncInv'
  OBVIOUS
<1>2. TypeOK /\ book \in Book /\ depth \in Depth /\ head \in Nat /\ next \in Nat
  BY <1>1 DEF IInv, TypeOK
<1> USE DEF SyncInv, DepthMirrorsBook, OneSyncAtATime, RequestOfThisSocket
<1>3. CASE ExchangeEmits
  BY <1>1, <1>2, <1>3 DEF ExchangeEmits
<1>4. CASE Start
  BY <1>1, <1>2, <1>4 DEF Start, Connect, TypeOK
<1>5. CASE Stop
  BY <1>1, <1>2, <1>5 DEF Stop, CancelRetry, Stale, TypeOK
<1>6. CASE ReconnectTimerFires
  BY <1>1, <1>2, <1>6 DEF ReconnectTimerFires, Connect, TypeOK
<1>7. CASE SocketOpens
  <2>1. ScheduleNow(EmptyBook, fetch, FALSE)
    BY <1>7 DEF SocketOpens
  <2>2. Unpublished(EmptyBook, depth) \/ fetch = "none"
    <3>1. ~EmptyBook.synchronized /\ EmptyBook.pending = NoId
      BY DEF EmptyBook
    <3>2. fetch # "none" => ~depth.synchronized
      BY <1>1
    <3>3. QED
      BY <3>1, <3>2 DEF Unpublished
  <2>3. EmptyBook \in Book
    BY EmptyBookGood, <1>2 DEF GoodBook
  <2>4. Unpublished(book', depth') /\ retryTimer' = FALSE
    BY <1>2, <2>1, <2>2, <2>3, RequestUnpublishes
  <2>5. /\ socket = "connecting" /\ socket' = "open" /\ next' = head' + 1
        /\ UNCHANGED <<head, running, reconnectTimer, fallbacks>>
    BY <1>7 DEF SocketOpens
  <2>6. QED
    BY <1>1, <2>4, <2>5 DEF Unpublished
<1>8. CASE SocketFails
  <2>1. ~depth'.synchronized
    BY <1>2, <1>8, UnsynchronizedIsMarked DEF SocketFails
  <2>2. QED
    BY <1>1, <1>2, <1>8, <2>1 DEF SocketFails, CancelRetry, Stale, TypeOK
<1>9. CASE DeliverDepth
  <2>1. /\ socket = "open" /\ next' <= head + 1
        /\ UNCHANGED <<head, running, socket, reconnectTimer, fallbacks>>
    BY <1>2, <1>9 DEF DeliverDepth
  <2>2. QED
    BY <1>1, <1>9, <2>1, DeliverShows, OpenTurn
<1>10. CASE DropMessage
  BY <1>1, <1>2, <1>10 DEF DropMessage
<1>11. CASE SnapshotArrives
  <2>1. PICK at \in SnapshotIds : SnapshotTakenAt(at)
    BY <1>11 DEF SnapshotArrives
  <2>2. /\ socket = "open" /\ next' <= head + 1
        /\ UNCHANGED <<head, running, socket, reconnectTimer, fallbacks>>
    BY <1>1, <1>2, <2>1 DEF SnapshotTakenAt, connection
  <2>3. QED
    BY <1>1, <2>1, <2>2, SnapshotShows, OpenTurn
<1>12. CASE SnapshotFails
  <2>1. /\ socket = "open" /\ next' <= head + 1
        /\ UNCHANGED <<head, running, socket, reconnectTimer, fallbacks>>
    BY <1>1, <1>2, <1>12 DEF SnapshotFails, connection
  <2>2. ScheduleRetry(book, "none", retryTimer)
    BY <1>12 DEF SnapshotFails
  <2>3. Unpublished(book', depth') /\ fetch' = "none"
    BY <1>2, <2>2, RetryUnpublishes DEF ScheduleRetry
  <2>4. Shown(book', depth')
    BY <2>3 DEF Unpublished, Shown
  <2>5. QED
    BY <1>1, <2>1, <2>3, <2>4, OpenTurn
<1>13. CASE StaleSnapshotReturns
  BY <1>1, <1>2, <1>13 DEF StaleSnapshotReturns, connection
<1>14. CASE RetryTimerFires
  BY <1>1, <1>2, <1>14 DEF RetryTimerFires, connection
<1>15. CASE RefreshFast
  BY <1>1, <1>2, <1>15 DEF RefreshFast, connection
<1>16. CASE FallbackArrives
  <2>1. ~book.synchronized => ~depth'.synchronized
    BY <1>1, <1>2, <1>16 DEF FallbackArrives, FallbackApplies, FallbackDepth, Depth
  <2>2. book.synchronized => depth' = depth
    BY <1>16 DEF FallbackArrives, FallbackApplies
  <2>3. QED
    BY <1>1, <1>2, <1>16, <2>1, <2>2 DEF FallbackArrives, connection
<1>17. CASE FallbackIsDropped
  BY <1>1, <1>2, <1>17 DEF FallbackIsDropped, connection
<1>18. CASE UNCHANGED vars
  BY <1>1, <1>18 DEF vars
<1>19. QED
  BY <1>1, <1>3, <1>4, <1>5, <1>6, <1>7, <1>8, <1>9, <1>10, <1>11, <1>12,
     <1>13, <1>14, <1>15, <1>16, <1>17, <1>18 DEF Next
-----------------------------------------------------------------------------
(***************************************************************************)
(* The theorems.                                                           *)
(***************************************************************************)
\* The invariant holds of every reachable state.
THEOREM SyncInvariance == Spec => [](IInv /\ SyncInv)
BY Invariance, SyncInit, SyncNext, PTL DEF Spec

\* What cache.depth shows as synchronized is the local book, also with REST
\* fallbacks, old requests and reconnects in between (publishOrderBook and
\* markDepthUnsynchronized leave nothing behind).
THEOREM DepthIsTheBook == Spec => []DepthMirrorsBook
<1>1. SyncInv => DepthMirrorsBook
  BY DEF SyncInv
<1>2. QED
  BY <1>1, SyncInvariance, PTL

\* A request, the retry timer and a pending snapshot exclude each other and a
\* book in use; a stopped service is at rest.
THEOREM SyncIsSingle == Spec => []OneSyncAtATime
<1>1. SyncInv => OneSyncAtATime
  BY DEF SyncInv
<1>2. QED
  BY <1>1, SyncInvariance, PTL

\* The message that does not follow the published depth unpublishes it.
THEOREM GapUnpublishes == Spec => GapDiscardsBook
<1> DEFINE Gap == DeliverDepth /\ depth.synchronized
                    /\ Previous(next) # depth.lastUpdateId
<1>1. ASSUME IInv, SyncInv, Gap
      PROVE  ~depth'.synchronized
  <2>1. /\ book.synchronized /\ book.lastUpdateId = depth.lastUpdateId
        /\ GoodBook(book, next) /\ next \in Nat /\ depth \in Depth
        /\ next >= 1
    BY <1>1 DEF SyncInv, DepthMirrorsBook, IInv, TypeOK
  <2>2. Ingest(book, next) = Outcome(Buffer(EmptyBook, next), "GAP")
    <3>1. ~(Final(next) < book.lastUpdateId)
      BY <2>1, IngestInUse DEF Previous, Final, GoodBook, Book
    <3>2. QED
      BY <1>1, <2>1, <3>1, IngestInUse
  <2>3. EmptyBook \in Book
    BY <2>1, EmptyBookGood DEF GoodBook
  <2>4. ScheduleRetry(Buffer(EmptyBook, next), fetch, retryTimer)
    BY <1>1, <2>2 DEF DeliverDepth, Outcome
  <2>5. QED
    BY <2>1, <2>3, <2>4, BufferKeeps, RetryUnpublishes DEF Unpublished
<1>2. (IInv /\ SyncInv) /\ [Next]_vars => [Gap => ~depth'.synchronized]_vars
  BY <1>1
<1>3. QED
  BY <1>2, SyncInvariance, PTL DEF Spec, GapDiscardsBook
-----------------------------------------------------------------------------
(***************************************************************************)
(* The refinement: what each kind of turn is in DepthReplica.              *)
(***************************************************************************)
shown == [synchronized |-> depth.synchronized,
          lastUpdateId |-> depth.lastUpdateId,
          levels       |-> depth.levels]

Replicas == [synchronized : BOOLEAN, lastUpdateId : Nat, levels : SUBSET Nat]

\* A replica that is marked, field by field.
LEMMA MarkedReplica ==
  ASSUME NEW r \in Replicas
  PROVE  [r EXCEPT !.synchronized = FALSE] =
           [synchronized |-> FALSE, lastUpdateId |-> r.lastUpdateId,
            levels |-> r.levels]
<1> DEFINE e == [r EXCEPT !.synchronized = FALSE]
           f == [synchronized |-> FALSE, lastUpdateId |-> r.lastUpdateId,
                 levels |-> r.levels]
<1>1. /\ e \in Replicas /\ e.synchronized = FALSE
      /\ e.lastUpdateId = r.lastUpdateId /\ e.levels = r.levels
  BY DEF Replicas
<1>2. /\ f \in Replicas /\ f.synchronized = FALSE
      /\ f.lastUpdateId = r.lastUpdateId /\ f.levels = r.levels
  BY DEF Replicas
<1> HIDE DEF e, f
<1>3. e = f
  BY <1>1, <1>2 DEF Replicas
<1>4. QED
  BY <1>3 DEF e, f

\* The replica that is not exact, field by field.
LEMMA ApproximateFields ==
  ASSUME NEW at \in Nat
  PROVE  Replica!Approximate(at) =
           [synchronized |-> FALSE, lastUpdateId |-> at, levels |-> 1 .. at]
<1> DEFINE exact == Replica!Exact(at)
<1>1. /\ exact \in Replicas
      /\ exact.lastUpdateId = at /\ exact.levels = 1 .. at
  BY DEF Replica!Exact, Replicas
<1>2. Replica!Approximate(at) = [exact EXCEPT !.synchronized = FALSE]
  BY DEF Replica!Approximate
<1> HIDE DEF exact
<1>3. QED
  BY <1>1, <1>2, MarkedReplica

\* A turn that leaves the exchange and the depth alone is a stutter, and one
\* that unpublishes the depth discards the replica.
LEMMA MarkingDiscards ==
  ASSUME depth \in Depth, head' = head, NEW state,
         depth' = depth \/ depth' = Unsynchronized(state)
  PROVE  [Replica!Next]_<<Final(head), shown>>
<1>1. CASE depth' = depth
  BY <1>1 DEF shown, Final
<1>2. CASE depth' = Unsynchronized(state)
  <2>1. /\ depth'.synchronized = FALSE
        /\ depth'.lastUpdateId = depth.lastUpdateId
        /\ depth'.levels = depth.levels
    BY <1>2 DEF Unsynchronized, Depth
  <2>2. [shown EXCEPT !.synchronized = FALSE] =
          [synchronized |-> FALSE, lastUpdateId |-> depth.lastUpdateId,
           levels |-> depth.levels]
    <3>1. /\ shown \in Replicas
          /\ shown.lastUpdateId = depth.lastUpdateId /\ shown.levels = depth.levels
      BY DEF shown, Replicas, Depth
    <3>2. QED
      BY <3>1, MarkedReplica
  <2>3. Replica!Discard
    BY <2>1, <2>2 DEF Replica!Discard, Final, shown
  <2>4. QED
    BY <2>3 DEF Replica!Next
<1>3. QED
  BY <1>1, <1>2

\* A turn that publishes the book anew synchronizes the replica.
LEMMA PublishingSynchronizes ==
  ASSUME NEW n \in Nat, n <= head + 1, head \in Nat, head' = head, NEW b, GoodBook(b, n),
         Trackable, b.synchronized, ~depth.synchronized, depth' = PublishedDepth(b)
  PROVE  Replica!Synchronize
<1>1. PICK k \in 1 .. (n - 1) : b.lastUpdateId = Final(k)
  BY DEF GoodBook
<1>2. /\ depth'.synchronized = TRUE
      /\ depth'.lastUpdateId = Final(k)
      /\ depth'.levels = 1 .. Final(k)
  BY <1>1 DEF PublishedDepth, GoodBook
<1>3. Final(k) \in 1 .. Final(head) /\ Final(k) % Final(1) = 0
  BY <1>1 DEF Final
<1>4. QED
  BY <1>2, <1>3 DEF Replica!Synchronize, Replica!Exact, Final

\* A turn that publishes the book after the event that follows advances it.
LEMMA ApplyingAdvances ==
  ASSUME NEW n \in Nat, n <= head, head \in Nat, head' = head,
         NEW b, GoodBook(b, n + 1), Trackable, b.synchronized,
         b.lastUpdateId = Final(n),
         depth.synchronized, depth.lastUpdateId = Previous(n),
         depth' = PublishedDepth(b)
  PROVE  Replica!Advance
<1>1. /\ depth'.synchronized = TRUE
      /\ depth'.lastUpdateId = Final(n)
      /\ depth'.levels = 1 .. Final(n)
  BY DEF PublishedDepth, GoodBook
<1>2. Final(n) = depth.lastUpdateId + Final(1) /\ depth.lastUpdateId < Final(head)
  BY DEF Final, Previous
<1>3. QED
  BY <1>1, <1>2 DEF Replica!Advance, Replica!Exact, Final

\* A message of the depth stream.
LEMMA DeliverRefines ==
  ASSUME Trackable, IInv, SyncInv, DeliverDepth
  PROVE  [Replica!Next]_<<Final(head), shown>>
<1> DEFINE outcome == Ingest(book, next)
           b == outcome.book
<1>1. /\ GoodBook(book, next) /\ book \in Book /\ depth \in Depth
      /\ next \in Nat /\ next >= 1 /\ socket = "open"
      /\ head \in Nat /\ next <= head /\ head' = head
  BY DEF IInv, DeliverDepth, TypeOK
<1>2. GoodBook(b, next + 1)
  BY <1>1, IngestGood DEF IInv
<1>3. \/ outcome.result = "APPLIED" /\ depth' = PublishedDepth(b)
      \/ outcome.result = "SYNCHRONIZED" /\ depth' = PublishedDepth(b)
      \/ \E state : depth' = depth \/ depth' = Unsynchronized(state)
  BY DEF DeliverDepth, Complete, ScheduleRetry, ScheduleNow
<1>4. CASE outcome.result = "APPLIED" /\ depth' = PublishedDepth(b)
  <2>1. book.synchronized
    BY <1>1, <1>4, IngestNotInUse
  <2>2. Previous(next) = book.lastUpdateId /\ b.lastUpdateId = Final(next)
    BY <1>1, <1>4, <2>1, IngestInUse DEF Outcome
  <2>3. depth.synchronized /\ depth.lastUpdateId = book.lastUpdateId
    BY <1>1, <2>1 DEF SyncInv, DepthMirrorsBook
  <2>4. b.synchronized
    BY <1>1, <1>4, PublishedIsSynchronized
  <2>5. Replica!Advance
    BY <1>1, <1>2, <1>4, <2>2, <2>3, <2>4, ApplyingAdvances
  <2>6. QED
    BY <2>5 DEF Replica!Next
<1>5. CASE outcome.result = "SYNCHRONIZED" /\ depth' = PublishedDepth(b)
  <2>1. ~book.synchronized
    BY <1>1, <1>5, IngestInUse DEF Outcome
  <2>2. ~depth.synchronized
    BY <2>1 DEF SyncInv, DepthMirrorsBook
  <2>3. b.synchronized
    BY <1>1, <1>5, PublishedIsSynchronized
  <2>4. Replica!Synchronize
    BY <1>1, <1>2, <1>5, <2>2, <2>3, PublishingSynchronizes
  <2>5. QED
    BY <2>4 DEF Replica!Next
<1>6. CASE \E state : depth' = depth \/ depth' = Unsynchronized(state)
  BY <1>1, <1>6, MarkingDiscards
<1>7. QED
  BY <1>3, <1>4, <1>5, <1>6

\* The answer of a snapshot request.
LEMMA SnapshotRefines ==
  ASSUME Trackable, IInv, SyncInv, NEW at \in SnapshotIds, SnapshotTakenAt(at)
  PROVE  [Replica!Next]_<<Final(head), shown>>
<1> DEFINE outcome == Initialize(book, at)
           b == outcome.book
<1>1. /\ GoodBook(book, next) /\ book \in Book /\ depth \in Depth
      /\ next \in Nat /\ head \in Nat /\ head' = head /\ fetch = "current"
  BY DEF IInv, SnapshotTakenAt, TypeOK
<1>2. at \in Nat /\ at >= 1 /\ (~AlignedSnapshots => \E k \in Nat : at = First(k))
  BY <1>1 DEF SnapshotIds, Final
<1>3. \/ outcome.result = "SYNCHRONIZED" /\ depth' = PublishedDepth(b)
      \/ \E state : depth' = depth \/ depth' = Unsynchronized(state)
  BY DEF SnapshotTakenAt, Complete, ScheduleRetry
<1>4. CASE outcome.result = "SYNCHRONIZED" /\ depth' = PublishedDepth(b)
  <2>1. ~depth.synchronized /\ next <= head + 1
    BY <1>1 DEF SyncInv, OneSyncAtATime, DepthMirrorsBook, RequestOfThisSocket
  <2>2. b.synchronized
    BY <1>4, PublishedIsSynchronized
  <2>3. GoodBook(b, next)
    BY <1>1, <1>2, InitializeGood
  <2>4. Replica!Synchronize
    BY <1>1, <1>4, <2>1, <2>2, <2>3, PublishingSynchronizes
  <2>5. QED
    BY <2>4 DEF Replica!Next
<1>5. CASE \E state : depth' = depth \/ depth' = Unsynchronized(state)
  BY <1>1, <1>5, MarkingDiscards
<1>6. QED
  BY <1>3, <1>4, <1>5

\* Every turn is a step of the replica, or none.
LEMMA NextRefines ==
  ASSUME Trackable, IInv, SyncInv, [Next]_vars
  PROVE  [Replica!Next]_<<Final(head), shown>>
<1>1. depth \in Depth /\ head \in Nat
  BY DEF IInv, TypeOK
<1>2. CASE ExchangeEmits
  <2>1. Final(head') = Final(head) + Final(1) /\ depth' = depth
    BY <1>1, <1>2 DEF ExchangeEmits, Final
  <2>2. Replica!Emit
    BY <2>1 DEF Replica!Emit
  <2>3. QED
    BY <2>2 DEF Replica!Next
<1>3. CASE DeliverDepth
  BY <1>3, DeliverRefines
<1>4. CASE SnapshotArrives
  BY <1>4, SnapshotRefines DEF SnapshotArrives
<1>5. CASE FallbackArrives
  <2>1. head' = head
    BY <1>5 DEF FallbackArrives
  <2>2. PICK at \in SnapshotIds :
          depth' = IF FallbackApplies THEN FallbackDepth(at) ELSE depth
    BY <1>5 DEF FallbackArrives
  <2>3. CASE ~FallbackApplies
    BY <1>1, <2>1, <2>2, <2>3, MarkingDiscards
  <2>4. CASE FallbackApplies
    <3>1. ~depth.synchronized
      BY <2>4 DEF FallbackApplies, SyncInv, DepthMirrorsBook
    <3> DEFINE ids == 1 .. at
    <3>2. depth' = [depth EXCEPT !.synchronized = FALSE,
                                 !.lastUpdateId = at, !.levels = ids]
      BY <2>2, <2>4 DEF FallbackDepth
    <3> HIDE DEF ids
    <3>3. /\ depth'.synchronized = FALSE /\ depth'.lastUpdateId = at
          /\ depth'.levels = ids
      BY <1>1, <3>2 DEF Depth
    <3>4. at \in 1 .. Final(head) /\ at \in Nat
      BY <1>1 DEF SnapshotIds, Final
    <3>5. Replica!Approximate(at) =
            [synchronized |-> FALSE, lastUpdateId |-> at, levels |-> ids]
      BY <3>4, ApproximateFields DEF ids
    <3>6. Replica!ShowFallback
      BY <2>1, <3>1, <3>3, <3>4, <3>5 DEF Replica!ShowFallback, Final
    <3>7. QED
      BY <3>6 DEF Replica!Next
  <2>5. QED
    BY <2>3, <2>4
<1>6. CASE \/ Start \/ Stop \/ ReconnectTimerFires \/ SocketOpens \/ SocketFails
           \/ DropMessage \/ SnapshotFails \/ StaleSnapshotReturns
           \/ RetryTimerFires \/ RefreshFast \/ FallbackIsDropped
           \/ UNCHANGED vars
  <2>1. head' = head /\ \E state : depth' = depth \/ depth' = Unsynchronized(state)
    BY <1>6 DEF Start, Stop, ReconnectTimerFires, SocketOpens, SocketFails,
       DropMessage, SnapshotFails, StaleSnapshotReturns, RetryTimerFires,
       RefreshFast, FallbackIsDropped, vars, ScheduleRetry, ScheduleNow
  <2>2. QED
    BY <1>1, <2>1, MarkingDiscards
<1>7. QED
  BY <1>2, <1>3, <1>4, <1>5, <1>6 DEF Next

\* The synchronization implements the replica its readers rely on, for every
\* bound and lag, on a stream on which a lost message can be noticed.
THEOREM DepthIsAReplica ==
  ASSUME Lossy => ~AlignedSnapshots
  PROVE  Spec => ImplementsReplica
<1>1. Init => Replica!Init
  BY ApproximateFields DEF Init, Replica!Init, NoId
<1>2. (IInv /\ SyncInv) /\ [Next]_vars => [Replica!Next]_<<Final(head), shown>>
  BY NextRefines DEF Trackable
<1>3. QED
  BY <1>1, <1>2, SyncInvariance, PTL
  DEF Spec, ImplementsReplica, Replica!Spec, shown
=============================================================================
