-------------------------- MODULE DecisionStoreProofs --------------------------
(***************************************************************************)
(* Proofs about DecisionStore, for any number of decisions, clients, reads *)
(* and uploads, any horizons and marks: type correctness; that what was    *)
(* acknowledged is stored and judged by; that what is filed under a        *)
(* decision is its own; that leases outlive reads; and that outcomes are   *)
(* consistent and written forward only.  Statements of requests interleave *)
(* freely, and any request may end after any of its statements.            *)
(***************************************************************************)
EXTENDS DecisionStore, FiniteSetTheorems, SequenceTheorems, WellFoundedInduction, TLAPS
-----------------------------------------------------------------------------
(***************************************************************************)
(* The longest horizon is the maximum, for any finite set of horizons.     *)
(***************************************************************************)
\* A set of numbers that is not empty has a least one: what an argument by
\* smallest counterexample rests on.
LEMMA LeastNumber ==
  ASSUME NEW T \in SUBSET Nat, T # {}
  PROVE  \E x \in T : \A y \in T : x <= y
<1> DEFINE R == OpToRel(<, Nat)
<1>1. IsWellFoundedOn(R, Nat)
  BY NatLessThanWellFounded
<1>2. \A x, y \in Nat : x < y => <<x, y>> \in R
  BY DEF OpToRel
<1> HIDE DEF R
<1>3. PICK x \in T : \A y \in T : ~ (<<y, x>> \in R)
  BY <1>1, WFMin
<1>4. ASSUME NEW y \in T
      PROVE  x <= y
  <2>1. x \in Nat /\ y \in Nat
    BY <1>3
  <2>2. ~ (y < x)
    BY <1>2, <1>3, <2>1
  <2>3. QED
    BY <2>1, <2>2
<1>5. QED
  BY <1>3, <1>4

\* Max is what its name says: a smallest set without a maximum would have one
\* after all, the larger of an element and the maximum of the rest.
LEMMA MaxOfFinite ==
  ASSUME NEW S \in SUBSET Nat, S # {}, IsFiniteSet(S)
  PROVE  Max(S) \in S /\ \A x \in S : x <= Max(S)
<1> DEFINE Unbounded(T) == T # {} /\ IsFiniteSet(T) /\ ~ \E m \in T : \A x \in T : m >= x
           sizes == {Cardinality(T) : T \in {U \in SUBSET Nat : Unbounded(U)}}
<1>1. SUFFICES ASSUME Unbounded(S)
               PROVE  FALSE
  BY DEF Max
<1>2. sizes \in SUBSET Nat /\ sizes # {}
  BY <1>1, FS_CardinalityType
<1>3. PICK n \in sizes : \A k \in sizes : n <= k
  BY <1>2, LeastNumber
<1>4. PICK T \in SUBSET Nat : Unbounded(T) /\ Cardinality(T) = n
  BY <1>3
<1>5. PICK t \in T : TRUE
  BY <1>4
<1> DEFINE U == T \ {t}
<1>6. IsFiniteSet(U) /\ Cardinality(U) = Cardinality(T) - 1
  BY <1>4, <1>5, FS_RemoveElement
<1>7. U # {}
  BY <1>4, <1>5
<1>8. ~Unbounded(U)
  <2>1. SUFFICES ASSUME Unbounded(U)
                 PROVE  FALSE
    OBVIOUS
  <2>2. Cardinality(U) \in sizes
    BY <1>4, <2>1
  <2>3. n \in Nat /\ n <= n - 1
    BY <1>2, <1>3, <1>4, <1>6, <2>2
  <2>4. QED
    BY <2>3
<1>9. PICK m \in U : \A x \in U : m >= x
  BY <1>6, <1>7, <1>8
<1>10. m >= t \/ t >= m
  BY <1>5, <1>9
<1>11. \E k \in T : \A x \in T : k >= x
  BY <1>5, <1>9, <1>10
<1>12. QED
  BY <1>4, <1>11

\* MAX_HORIZON is one of the horizons and the longest.
LEMMA LongestHorizon == MaxHorizon \in Horizons /\ \A h \in Horizons : h <= MaxHorizon
BY MaxOfFinite, DecisionStoreAssumption DEF MaxHorizon
-----------------------------------------------------------------------------
(***************************************************************************)
(* Types.                                                                  *)
(***************************************************************************)
\* Times are numbers, and none of them is Nothing.
LEMMA TimesAreNumbers ==
  /\ Times \subseteq Nat \ {0} /\ Optional \subseteq Nat /\ Nothing \notin Times
  /\ Nothing = 0 /\ TradingSpacing \in Nat /\ TradingSpacing > 0 /\ LeaseTtl \in Nat
<1>1. /\ MaxTime \in Nat /\ TradingSpacing \in Nat /\ TradingSpacing > 0
      /\ LeaseTtl \in Nat
  BY DecisionStoreAssumption
<1>2. QED
  BY <1>1 DEF Times, Optional, Nothing

\* A row is told from no row, and a request from none, by one field.
LEMMA RowsAreRows ==
  /\ \A row \in LogRows \cup CaseRows \cup OutcomeRows : row # NoRow
  /\ \A p \in Posts : p # Idle
<1>1. NoRow.snap \notin Times
  BY DecisionStoreAssumption DEF NoRow, Nothing, Times
<1>2. \A row \in LogRows : row # NoRow
  BY <1>1 DEF LogRows
<1>3. \A row \in CaseRows : row # NoRow
  BY <1>1 DEF CaseRows
<1>4. \A row \in OutcomeRows : row # NoRow
  BY <1>1 DEF OutcomeRows
<1>5. \A p \in Posts : p.pc # Idle.pc
  BY DEF Posts, Phases, Idle
<1>6. QED
  BY <1>2, <1>3, <1>4, <1>5

\* The outcome that a replay case starts with is a row.
LEMMA NewOutcomeTyped == \A s \in Times : NewOutcome(s) \in OutcomeRows
BY DecisionStoreAssumption DEF NewOutcome, OutcomeRows, Optional, Times

\* What an update leaves of each field, and that it is a row.
LEMMA FollowedFields ==
  ASSUME NEW row \in OutcomeRows, NEW s \in Times
  PROVE  LET age == s - row.snap
             new == Followed(row, s) IN
         /\ new \in OutcomeRows
         /\ new.snap = row.snap
         /\ \A h \in Horizons :
              /\ new.high[h] = IF age <= h /\ (row.high[h] = 0 \/ Mark[s] > row.high[h])
                               THEN Mark[s] ELSE row.high[h]
              /\ new.low[h] = IF age <= h /\ (row.low[h] = 0 \/ Mark[s] < row.low[h])
                              THEN Mark[s] ELSE row.low[h]
              /\ new.return[h] = IF row.return[h] = Nothing /\ age >= h
                                 THEN s ELSE row.return[h]
         /\ new.path = IF PathDue(row, s) THEN Append(row.path, s) ELSE row.path
         /\ new.final = IF FinalAge(age) THEN s ELSE row.final
<1> DEFINE age == s - row.snap
           high == [h \in Horizons |->
                      IF age <= h /\ (row.high[h] = 0 \/ Mark[s] > row.high[h])
                      THEN Mark[s] ELSE row.high[h]]
           low == [h \in Horizons |->
                     IF age <= h /\ (row.low[h] = 0 \/ Mark[s] < row.low[h])
                     THEN Mark[s] ELSE row.low[h]]
           return == [h \in Horizons |->
                        IF row.return[h] = Nothing /\ age >= h THEN s ELSE row.return[h]]
           path == IF PathDue(row, s) THEN Append(row.path, s) ELSE row.path
           final == IF FinalAge(age) THEN s ELSE row.final
<1>1. Followed(row, s) = [row EXCEPT !.high = high, !.low = low, !.return = return,
                                     !.path = path, !.final = final]
  BY DEF Followed
<1>2. /\ high \in [Horizons -> Nat] /\ low \in [Horizons -> Nat]
      /\ return \in [Horizons -> Optional]
  BY DecisionStoreAssumption DEF OutcomeRows, Optional
<1>3. path \in Seq(Times) /\ final \in Optional
  BY DEF OutcomeRows, Optional
<1>4. /\ \A h \in Horizons :
           /\ high[h] = IF age <= h /\ (row.high[h] = 0 \/ Mark[s] > row.high[h])
                        THEN Mark[s] ELSE row.high[h]
           /\ low[h] = IF age <= h /\ (row.low[h] = 0 \/ Mark[s] < row.low[h])
                       THEN Mark[s] ELSE row.low[h]
           /\ return[h] = IF row.return[h] = Nothing /\ age >= h
                          THEN s ELSE row.return[h]
      /\ path = IF PathDue(row, s) THEN Append(row.path, s) ELSE row.path
      /\ final = IF FinalAge(age) THEN s ELSE row.final
  OBVIOUS
<1> HIDE DEF age, high, low, return, path, final
<1>5. /\ Followed(row, s) \in OutcomeRows /\ Followed(row, s).snap = row.snap
      /\ Followed(row, s).high = high /\ Followed(row, s).low = low
      /\ Followed(row, s).return = return
      /\ Followed(row, s).path = path /\ Followed(row, s).final = final
  BY <1>1, <1>2, <1>3 DEF OutcomeRows
<1>6. QED
  BY <1>4, <1>5 DEF age

\* A decision is inserted with the status that was found, a replay case with
\* the lease that was found: the rows have no column that is not set.
Ready ==
  \A c \in Clients : post[c] # Idle =>
    /\ post[c].pc = "insert" => post[c].status # ""
    /\ post[c].pc = "case" => post[c].lease # Nothing

\* The empty store.
LEMMA TypeInit == Init => TypeOK /\ Ready
BY DecisionStoreAssumption DEF Init, TypeOK, Ready, Times, Optional, Nothing

\* A request that goes on is a request.
LEMMA GoesTyped ==
  ASSUME TypeOK, NEW c \in Clients, NEW p \in Posts \cup {Idle}, Goes(c, p)
  PROVE  /\ post' \in [Clients -> Posts \cup {Idle}]
         /\ post'[c] = p /\ \A other \in Clients \ {c} : post'[other] = post[other]
BY DEF TypeOK, Goes

\* A request at a phase is a request.
LEMMA AtPosts ==
  ASSUME TypeOK, NEW c \in Clients, NEW phase, At(c, phase)
  PROVE  post[c] \in Posts /\ post[c] # Idle /\ post[c].pc = phase
BY DEF TypeOK, At

\* A request that goes on is of the same decision and snapshot, at another
\* phase.
Moved(c, phase) ==
  /\ post[c] \in Posts /\ post'[c] \in Posts
  /\ post' \in [Clients -> Posts \cup {Idle}]
  /\ \A other \in Clients \ {c} : post'[other] = post[other]
  /\ post'[c].pc = phase
  /\ post'[c].decision = post[c].decision /\ post'[c].snap = post[c].snap
  /\ post'[c].acked = post[c].acked

\* Most statements only set the phase.
LEMMA PhaseMoves ==
  ASSUME TypeOK, NEW c \in Clients, post[c] \in Posts, NEW phase \in Phases,
         Goes(c, [post[c] EXCEPT !.pc = phase])
  PROVE  /\ Moved(c, phase) /\ post'[c].at = post[c].at
         /\ post'[c].status = post[c].status /\ post'[c].lease = post[c].lease
<1> DEFINE q == [post[c] EXCEPT !.pc = phase]
<1>1. /\ q \in Posts /\ q.pc = phase /\ q.decision = post[c].decision
      /\ q.snap = post[c].snap /\ q.acked = post[c].acked /\ q.at = post[c].at
      /\ q.status = post[c].status /\ q.lease = post[c].lease
  BY DEF Posts
<1>2. Goes(c, q)
  OBVIOUS
<1> HIDE DEF q
<1>3. QED
  BY <1>1, <1>2, GoesTyped DEF Moved

\* A repeated request takes the time of the logged row.
LEMMA TimeMoves ==
  ASSUME TypeOK, NEW c \in Clients, post[c] \in Posts, NEW phase \in Phases,
         NEW t \in Times, Goes(c, [post[c] EXCEPT !.pc = phase, !.at = t])
  PROVE  /\ Moved(c, phase) /\ post'[c].at = t
         /\ post'[c].status = post[c].status /\ post'[c].lease = post[c].lease
<1> DEFINE q == [post[c] EXCEPT !.pc = phase, !.at = t]
<1>1. /\ q \in Posts /\ q.pc = phase /\ q.decision = post[c].decision
      /\ q.snap = post[c].snap /\ q.acked = post[c].acked /\ q.at = t
      /\ q.status = post[c].status /\ q.lease = post[c].lease
  BY DEF Posts
<1>2. Goes(c, q)
  OBVIOUS
<1> HIDE DEF q
<1>3. QED
  BY <1>1, <1>2, GoesTyped DEF Moved

\* The statement that loads the latest snapshot sets the status.
LEMMA StatusMoves ==
  ASSUME TypeOK, NEW c \in Clients, post[c] \in Posts, NEW phase \in Phases,
         NEW status \in {"CURRENT", "SUPERSEDED"},
         Goes(c, [post[c] EXCEPT !.pc = phase, !.status = status])
  PROVE  /\ Moved(c, phase) /\ post'[c].at = post[c].at
         /\ post'[c].status = status /\ post'[c].lease = post[c].lease
<1> DEFINE q == [post[c] EXCEPT !.pc = phase, !.status = status]
<1>1. /\ q \in Posts /\ q.pc = phase /\ q.decision = post[c].decision
      /\ q.snap = post[c].snap /\ q.acked = post[c].acked /\ q.at = post[c].at
      /\ q.status = status /\ q.lease = post[c].lease
  BY DEF Posts
<1>2. Goes(c, q)
  OBVIOUS
<1> HIDE DEF q
<1>3. QED
  BY <1>1, <1>2, GoesTyped DEF Moved

\* The statement that loads the lease keeps it.
LEMMA LeaseMoves ==
  ASSUME TypeOK, NEW c \in Clients, post[c] \in Posts, NEW phase \in Phases,
         NEW t \in Optional, Goes(c, [post[c] EXCEPT !.pc = phase, !.lease = t])
  PROVE  /\ Moved(c, phase) /\ post'[c].at = post[c].at
         /\ post'[c].status = post[c].status /\ post'[c].lease = t
<1> DEFINE q == [post[c] EXCEPT !.pc = phase, !.lease = t]
<1>1. /\ q \in Posts /\ q.pc = phase /\ q.decision = post[c].decision
      /\ q.snap = post[c].snap /\ q.acked = post[c].acked /\ q.at = post[c].at
      /\ q.status = post[c].status /\ q.lease = t
  BY DEF Posts
<1>2. Goes(c, q)
  OBVIOUS
<1> HIDE DEF q
<1>3. QED
  BY <1>1, <1>2, GoesTyped DEF Moved

\* What recordDecision has read and set when it goes on after loadDecision.
LEMMA LookupMoves ==
  ASSUME TypeOK, NEW c \in Clients, Lookup(c)
  PROVE  LET row == log[post[c].decision] IN
         \/ post' = [post EXCEPT ![c] = Idle]
         \/ /\ row = NoRow /\ Moved(c, "latest") /\ post'[c].at = post[c].at
            /\ post'[c].status = post[c].status /\ post'[c].lease = post[c].lease
         \/ /\ row # NoRow /\ row.snap = post[c].snap /\ Moved(c, "fingerprint")
            /\ post'[c].at = row.at
            /\ post'[c].status = post[c].status /\ post'[c].lease = post[c].lease
<1> DEFINE row == log[post[c].decision]
<1>1. post[c] \in Posts
  BY AtPosts DEF Lookup
<1>2. row \in LogRows \cup {NoRow}
  BY <1>1 DEF TypeOK, Posts
<1>3. "latest" \in Phases /\ "fingerprint" \in Phases
  BY DEF Phases
<1>4. CASE row = NoRow
  <2>1. Goes(c, [post[c] EXCEPT !.pc = "latest"])
    BY <1>4 DEF Lookup
  <2>2. QED
    BY <1>1, <1>3, <1>4, <2>1, PhaseMoves
<1>5. CASE row # NoRow /\ row.snap = post[c].snap /\ row.body = post[c].body
  <2>1. Goes(c, [post[c] EXCEPT !.pc = "fingerprint", !.at = row.at])
    BY <1>5 DEF Lookup
  <2>2. row.at \in Times
    BY <1>2, <1>5 DEF LogRows
  <2>3. QED
    BY <1>1, <1>3, <1>5, <2>1, <2>2, TimeMoves
<1>6. CASE row # NoRow /\ ~(row.snap = post[c].snap /\ row.body = post[c].body)
  BY <1>6 DEF Lookup, Goes
<1>7. QED
  BY <1>4, <1>5, <1>6

\* ... after loadLatestSnapshot.
LEMMA LatestMoves ==
  ASSUME TypeOK, NEW c \in Clients, LoadLatest(c)
  PROVE  /\ Moved(c, "insert") /\ post'[c].at = post[c].at
         /\ post'[c].status = SnapshotStatus(latest, post[c])
         /\ post'[c].status # "" /\ post'[c].lease = post[c].lease
<1>1. post[c] \in Posts
  BY AtPosts DEF LoadLatest
<1>2. "insert" \in Phases
  BY DEF Phases
<1>3. SnapshotStatus(latest, post[c]) \in {"CURRENT", "SUPERSEDED"}
  BY DEF SnapshotStatus
<1>4. Goes(c, [post[c] EXCEPT !.pc = "insert", !.status = SnapshotStatus(latest, post[c])])
  BY DEF LoadLatest
<1>5. QED
  BY <1>1, <1>2, <1>3, <1>4, StatusMoves

\* Neither the time nor the status of a request is touched.
Untouched(c) == post'[c].at = post[c].at /\ post'[c].status = post[c].status

\* ... after the insert, the fingerprint, the lease and the replay case.
LEMMA StatementMoves ==
  ASSUME TypeOK, NEW c \in Clients
  PROVE  /\ SaveDecision(c) => /\ Moved(c, "fingerprint") /\ Untouched(c)
                               /\ post[c].pc = "insert"
         /\ AttachFingerprint(c) => /\ Moved(c, "lease") /\ Untouched(c)
                                    /\ post[c].pc = "fingerprint"
         /\ LoadLease(c) => /\ Moved(c, "case") /\ Untouched(c)
                            /\ post[c].pc = "lease" /\ post'[c].lease = leases[post[c].snap]
                            /\ post'[c].lease # Nothing
         /\ SaveCase(c) => /\ Moved(c, "outcome") /\ Untouched(c)
                           /\ post[c].pc = "case"
<1>1. "fingerprint" \in Phases /\ "lease" \in Phases /\ "case" \in Phases
      /\ "outcome" \in Phases
  BY DEF Phases
<1>2. ASSUME SaveDecision(c)
      PROVE  /\ Moved(c, "fingerprint") /\ Untouched(c)
             /\ post[c].pc = "insert"
  <2>1. Goes(c, [post[c] EXCEPT !.pc = "fingerprint"]) /\ At(c, "insert")
    BY <1>2 DEF SaveDecision
  <2>2. QED
    BY <1>1, <2>1, AtPosts, PhaseMoves DEF Untouched
<1>3. ASSUME AttachFingerprint(c)
      PROVE  /\ Moved(c, "lease") /\ Untouched(c)
             /\ post[c].pc = "fingerprint"
  <2>1. Goes(c, [post[c] EXCEPT !.pc = "lease"]) /\ At(c, "fingerprint")
    BY <1>3 DEF AttachFingerprint
  <2>2. QED
    BY <1>1, <2>1, AtPosts, PhaseMoves DEF Untouched
<1>4. ASSUME LoadLease(c)
      PROVE  /\ Moved(c, "case") /\ Untouched(c)
             /\ post[c].pc = "lease" /\ post'[c].lease = leases[post[c].snap]
             /\ post'[c].lease # Nothing
  <2>1. /\ Goes(c, [post[c] EXCEPT !.pc = "case", !.lease = leases[post[c].snap]])
        /\ At(c, "lease") /\ leases[post[c].snap] # Nothing
    BY <1>4 DEF LoadLease
  <2>2. post[c] \in Posts /\ post[c].pc = "lease"
    BY <2>1, AtPosts
  <2>3. leases[post[c].snap] \in Optional
    BY <2>2 DEF TypeOK, Posts
  <2> DEFINE lease == leases[post[c].snap]
  <2>4. lease \in Optional /\ Goes(c, [post[c] EXCEPT !.pc = "case", !.lease = lease])
    BY <2>1, <2>3
  <2> HIDE DEF lease
  <2>5. /\ Moved(c, "case") /\ post'[c].at = post[c].at
        /\ post'[c].status = post[c].status /\ post'[c].lease = lease
    BY <1>1, <2>2, <2>4, LeaseMoves
  <2>6. QED
    BY <2>1, <2>2, <2>5 DEF Untouched, lease
<1>5. ASSUME SaveCase(c)
      PROVE  /\ Moved(c, "outcome") /\ Untouched(c)
             /\ post[c].pc = "case"
  <2>1. Goes(c, [post[c] EXCEPT !.pc = "outcome"]) /\ At(c, "case")
    BY <1>5 DEF SaveCase
  <2>2. QED
    BY <1>1, <2>1, AtPosts, PhaseMoves DEF Untouched
<1>6. QED
  BY <1>2, <1>3, <1>4, <1>5

\* A new request.
LEMMA PostMoves ==
  ASSUME TypeOK, NEW c \in Clients, NEW d \in Decisions, NEW a \in answers,
         NEW body \in bound.bodies, Post(c, d, a, body)
  PROVE  /\ post' \in [Clients -> Posts \cup {Idle}] /\ post'[c] \in Posts
         /\ \A other \in Clients \ {c} : post'[other] = post[other]
         /\ post'[c].pc = "lookup" /\ post'[c].snap = a.snap /\ post'[c].acked = acked
         /\ post'[c].status = ""
<1> DEFINE p == [pc |-> "lookup", decision |-> d, snap |-> a.snap, body |-> body,
                 at |-> now, acked |-> acked, status |-> "", lease |-> Nothing]
<1>1. /\ a \in Answers /\ body \in Bodies /\ acked \in Optional /\ now \in Times
  BY DecisionStoreAssumption DEF TypeOK
<1>2. /\ p \in Posts /\ p.pc = "lookup" /\ p.snap = a.snap /\ p.acked = acked
      /\ p.status = ""
  BY <1>1 DEF Posts, Phases, Answers, Optional
<1>3. Goes(c, p)
  BY DEF Post
<1> HIDE DEF p
<1>4. QED
  BY <1>2, <1>3, GoesTyped

\* The statements of an upload leave the tables of the recorder alone.
LEMMA RanTyped ==
  ASSUME TypeOK, NEW s \in Times, NEW statement, Ran(s, statement)
  PROVE  /\ upload' \in [Times -> SUBSET Statements]
         /\ upload'[s] = upload[s] \ {statement}
         /\ \A t \in Times \ {s} : upload'[t] = upload[t]
         /\ {generated', uploading', acked'} \subseteq Optional
BY DEF TypeOK, Ran, Optional, Nothing

\* Every statement keeps the types.
LEMMA TypeNext == TypeOK /\ Ready /\ [Next]_vars => TypeOK'
<1>1. SUFFICES ASSUME TypeOK, Ready, [Next]_vars
               PROVE  TypeOK'
  OBVIOUS
<1> USE DEF app, relay, reader, recorder
<1>2. /\ bound \in [ticks : Times, uploading : Times, uploads : Nat, reads : Nat,
                    posts : Nat, bodies : SUBSET Bodies]
      /\ now \in Times /\ Times \subseteq Nat
  BY <1>1, DecisionStoreAssumption DEF TypeOK, Times
<1>3. CASE Tick
  BY <1>1, <1>2, <1>3, DecisionStoreAssumption DEF Tick, TypeOK, Times
<1>4. CASE Upload
  BY <1>1, <1>2, <1>4 DEF Upload, TypeOK, Optional
<1>5. CASE UploadTimesOut
  BY <1>1, <1>5 DEF UploadTimesOut, TypeOK, Optional
<1>6. ASSUME NEW s \in Times, UploadFails(s)
      PROVE  TypeOK'
  BY <1>1, <1>6 DEF UploadFails, TypeOK, Optional
<1>7. ASSUME NEW s \in Times, SaveSnapshot(s)
      PROVE  TypeOK'
  <2>1. latest' \in Optional
    BY <1>1, <1>7 DEF SaveSnapshot, Upserted, TypeOK, Optional
  <2>2. QED
    BY <1>1, <1>7, <2>1, RanTyped DEF SaveSnapshot, TypeOK
<1>8. ASSUME NEW s \in Times, SaveTrading(s)
      PROVE  TypeOK'
  <2>1. trading' \in Optional
    BY <1>1, <1>8 DEF SaveTrading, Upserted, TypeOK, Optional
  <2>2. QED
    BY <1>1, <1>8, <2>1, RanTyped DEF SaveTrading, TypeOK
<1>9. ASSUME NEW s \in Times, OutcomesFail(s)
      PROVE  TypeOK'
  BY <1>1, <1>9, RanTyped DEF OutcomesFail, TypeOK
<1>10. ASSUME NEW s \in Times, UpdateOutcomes(s)
       PROVE  TypeOK'
  <2>1. ASSUME NEW d \in Decisions
        PROVE  (IF Pending(outcomes[d], s) THEN Followed(outcomes[d], s) ELSE outcomes[d])
                 \in OutcomeRows \cup {NoRow}
    <3>1. outcomes[d] \in OutcomeRows \cup {NoRow}
      BY <1>1 DEF TypeOK
    <3>2. CASE Pending(outcomes[d], s)
      BY <3>1, <3>2, FollowedFields DEF Pending
    <3>3. QED
      BY <3>1, <3>2
  <2>2. outcomes' \in [Decisions -> OutcomeRows \cup {NoRow}]
    BY <1>10, <2>1 DEF UpdateOutcomes
  <2>3. QED
    BY <1>1, <1>10, <2>2, RanTyped DEF UpdateOutcomes, TypeOK
<1>11. CASE Read
  <2>1. [snap |-> latest, at |-> now, todo |-> "lease"] \in Reads
    BY <1>1, <1>2, <1>11 DEF Read, Reads, TypeOK, Optional
  <2>2. QED
    BY <1>1, <1>11, <2>1 DEF Read, TypeOK
<1>12. ASSUME NEW r \in reads, Answered(r), leases' \in [Times -> Optional]
       PROVE  TypeOK'
  <2>1. r \in Reads
    BY <1>1 DEF TypeOK
  <2> DEFINE answer == [snap |-> r.snap, at |-> r.at, leased |-> r.todo = "cleanup"]
  <2>2. answer \in Answers
    BY <2>1 DEF Reads, Answers
  <2>3. answers' = answers \cup {answer} /\ reads' = reads \ {r}
    BY <1>12 DEF Answered
  <2> HIDE DEF answer
  <2>4. QED
    BY <1>1, <1>12, <2>2, <2>3 DEF Answered, TypeOK
<1>13. ASSUME NEW r \in reads, SaveLease(r)
       PROVE  TypeOK'
  <2>1. r \in Reads /\ leases \in [Times -> Optional]
    BY <1>1 DEF TypeOK
  <2>2. leases' \in [Times -> Optional] /\ [r EXCEPT !.todo = "cleanup"] \in Reads
    BY <1>13, <2>1 DEF SaveLease, Leased, Reads, Optional
  <2>3. QED
    BY <1>1, <1>13, <2>2 DEF SaveLease, TypeOK
<1>14. ASSUME NEW r \in reads, DeleteExpiredLeases(r)
       PROVE  TypeOK'
  <2>1. leases' \in [Times -> Optional]
    BY <1>1, <1>14 DEF DeleteExpiredLeases, Unexpired, TypeOK, Optional
  <2>2. QED
    BY <1>12, <1>14, <2>1 DEF DeleteExpiredLeases
<1>15. ASSUME NEW r \in reads, LeaseFails(r)
       PROVE  TypeOK'
  BY <1>1, <1>12, <1>15 DEF LeaseFails, TypeOK
<1>16. ASSUME NEW c \in Clients, NEW d \in Decisions, NEW a \in answers,
              NEW body \in bound.bodies, Post(c, d, a, body)
       PROVE  TypeOK'
  <2>1. post' \in [Clients -> Posts \cup {Idle}]
    BY <1>1, <1>16, PostMoves
  <2>2. posted' = posted + 1 /\ posted < bound.posts /\ bound' = bound
        /\ posted \in 0 .. bound.posts /\ bound.posts \in Nat
    BY <1>1, <1>2, <1>16 DEF Post, TypeOK
  <2>3. posted' \in 0 .. bound'.posts
    BY <2>2
  <2>4. QED
    BY <1>1, <1>16, <2>1, <2>3 DEF Post, TypeOK
<1>17. ASSUME NEW c \in Clients, PostEnds(c)
       PROVE  TypeOK'
  BY <1>1, <1>17, GoesTyped DEF PostEnds, TypeOK
<1>18. ASSUME NEW c \in Clients, Lookup(c)
       PROVE  TypeOK'
  <2>1. post' \in [Clients -> Posts \cup {Idle}]
    BY <1>1, <1>18, LookupMoves DEF TypeOK, Moved
  <2>2. QED
    BY <1>1, <1>18, <2>1 DEF Lookup, TypeOK
<1>19. ASSUME NEW c \in Clients, LoadLatest(c)
       PROVE  TypeOK'
  <2>1. post' \in [Clients -> Posts \cup {Idle}]
    BY <1>1, <1>19, LatestMoves DEF Moved
  <2>2. QED
    BY <1>1, <1>19, <2>1 DEF LoadLatest, TypeOK
<1>20. ASSUME NEW c \in Clients, AttachFingerprint(c)
       PROVE  TypeOK'
  <2>1. post[c] \in Posts /\ post' \in [Clients -> Posts \cup {Idle}]
    BY <1>1, <1>20, StatementMoves DEF Moved
  <2>2. prints' \in [Decisions -> Optional]
    BY <1>1, <1>20, <2>1 DEF AttachFingerprint, TypeOK, Posts, Optional
  <2>3. QED
    BY <1>1, <1>20, <2>1, <2>2 DEF AttachFingerprint, TypeOK
<1>21. ASSUME NEW c \in Clients, LoadLease(c)
       PROVE  TypeOK'
  <2>1. post' \in [Clients -> Posts \cup {Idle}]
    BY <1>1, <1>21, StatementMoves DEF Moved
  <2>2. QED
    BY <1>1, <1>21, <2>1 DEF LoadLease, TypeOK
<1>22. ASSUME NEW c \in Clients, SaveDecision(c)
       PROVE  TypeOK'
  <2> DEFINE p == post[c]
             row == [snap |-> p.snap, body |-> p.body, at |-> p.at, acked |-> p.acked,
                     status |-> p.status]
  <2>1. p \in Posts /\ p # Idle /\ p.pc = "insert"
    BY <1>1, <1>22, AtPosts DEF SaveDecision
  <2>2. row \in LogRows
    <3>1. p.status # ""
      BY <1>1, <2>1 DEF Ready
    <3>2. QED
      BY <2>1, <3>1 DEF Posts, LogRows
  <2>3. /\ log' = [log EXCEPT ![p.decision] = row]
        /\ UNCHANGED <<bound, now, app, relay, reader, posted, prints, cases, told, outcomes>>
    BY <1>22 DEF SaveDecision
  <2> HIDE DEF row, p
  <2>4. log' \in [Decisions -> LogRows \cup {NoRow}]
    BY <1>1, <2>1, <2>2, <2>3 DEF TypeOK, Posts
  <2>5. post' \in [Clients -> Posts \cup {Idle}]
    BY <1>1, <1>22, StatementMoves DEF Moved
  <2>6. QED
    BY <1>1, <2>3, <2>4, <2>5 DEF TypeOK
<1>23. ASSUME NEW c \in Clients, SaveCase(c)
       PROVE  TypeOK'
  <2> DEFINE p == post[c]
             row == [snap |-> p.snap, leasedAt |-> p.lease, at |-> p.at]
  <2>1. p \in Posts /\ p # Idle /\ p.pc = "case"
    BY <1>1, <1>23, AtPosts DEF SaveCase
  <2>2. row \in CaseRows
    <3>1. p.lease # Nothing
      BY <1>1, <2>1 DEF Ready
    <3>2. QED
      BY <2>1, <3>1 DEF Posts, CaseRows, Optional
  <2>3. /\ cases' \in {cases, [cases EXCEPT ![p.decision] = row]}
        /\ UNCHANGED <<bound, now, app, relay, reader, posted, log, prints, told, outcomes>>
    BY <1>23 DEF SaveCase
  <2> HIDE DEF row, p
  <2>4. cases' \in [Decisions -> CaseRows \cup {NoRow}]
    BY <1>1, <2>1, <2>2, <2>3 DEF TypeOK, Posts
  <2>5. post' \in [Clients -> Posts \cup {Idle}]
    BY <1>1, <1>23, StatementMoves DEF Moved
  <2>6. QED
    BY <1>1, <2>3, <2>4, <2>5 DEF TypeOK
<1>24. ASSUME NEW c \in Clients, SaveOutcome(c)
       PROVE  TypeOK'
  <2>1. post[c] \in Posts
    BY <1>1, <1>24, AtPosts DEF SaveOutcome
  <2>2. NewOutcome(post[c].snap) \in OutcomeRows /\ post[c].decision \in Decisions
    BY <2>1, NewOutcomeTyped DEF Posts
  <2>3. outcomes' \in [Decisions -> OutcomeRows \cup {NoRow}]
    BY <1>1, <1>24, <2>2 DEF SaveOutcome, TypeOK
  <2>4. post' \in [Clients -> Posts \cup {Idle}]
    BY <1>1, <1>24, GoesTyped DEF SaveOutcome
  <2>5. QED
    BY <1>1, <1>24, <2>2, <2>3, <2>4 DEF SaveOutcome, TypeOK
<1>25. CASE ReadNothing \/ UNCHANGED vars
  BY <1>1, <1>25 DEF ReadNothing, vars, TypeOK
<1>26. QED
  BY <1>1, <1>3, <1>4, <1>5, <1>6, <1>7, <1>8, <1>9, <1>10, <1>11, <1>13, <1>14,
     <1>15, <1>16, <1>17, <1>18, <1>19, <1>20, <1>21, <1>22, <1>23, <1>24, <1>25
  DEF Next, UploadStep, PostStep

\* Only record requests write what they write.
LEMMA RecorderRests ==
  ASSUME [Next]_vars, ~ \E c \in Clients : PostStep(c)
  PROVE  UNCHANGED recorder
BY DEF Next, UploadStep, vars, Tick, Upload, UploadTimesOut, UploadFails, SaveSnapshot,
       SaveTrading, UpdateOutcomes, OutcomesFail, Read, ReadNothing, SaveLease,
       DeleteExpiredLeases, LeaseFails, Answered

\* Only record requests write what they write: the rest of the store is
\* unchanged, but for the outcome row.
LEMMA OthersRest ==
  ASSUME NEW c \in Clients, PostStep(c)
  PROVE  /\ UNCHANGED <<bound, now, app, relay, reader>>
         /\ SaveOutcome(c) \/ UNCHANGED outcomes
BY DEF PostStep, Post, PostEnds, Lookup, LoadLatest, SaveDecision, AttachFingerprint,
       LoadLease, SaveCase, SaveOutcome

\* The status is set before the insert, the lease before the replay case.
LEMMA ReadyNext == TypeOK /\ Ready /\ [Next]_vars => Ready'
<1>1. SUFFICES ASSUME TypeOK, Ready, [Next]_vars
               PROVE  Ready'
  OBVIOUS
<1>2. CASE ~ \E c \in Clients : PostStep(c)
  BY <1>1, <1>2, RecorderRests DEF Ready, recorder
<1>3. ASSUME NEW c \in Clients, PostStep(c)
      PROVE  Ready'
  <2>1. SUFFICES /\ \A other \in Clients \ {c} : post'[other] = post[other]
                 /\ post'[c] # Idle =>
                      /\ post'[c].pc = "insert" => post'[c].status # ""
                      /\ post'[c].pc = "case" => post'[c].lease # Nothing
    BY <1>1 DEF Ready
  <2>2. ASSUME NEW d \in Decisions, NEW a \in answers, NEW body \in bound.bodies,
               Post(c, d, a, body)
        PROVE  /\ \A other \in Clients \ {c} : post'[other] = post[other]
               /\ post'[c].pc \notin {"insert", "case"}
    BY <1>1, <2>2, PostMoves
  <2>3. CASE PostEnds(c) \/ SaveOutcome(c)
    BY <1>1, <2>3, GoesTyped DEF PostEnds, SaveOutcome
  <2>4. CASE Lookup(c)
    <3>1. CASE post' = [post EXCEPT ![c] = Idle]
      BY <1>1, <3>1 DEF TypeOK
    <3>2. CASE post' # [post EXCEPT ![c] = Idle]
      BY <1>1, <2>4, <3>2, LookupMoves DEF Moved
    <3>3. QED
      BY <3>1, <3>2
  <2>5. CASE LoadLatest(c)
    BY <1>1, <2>5, LatestMoves DEF Moved
  <2>6. CASE SaveDecision(c) \/ AttachFingerprint(c) \/ LoadLease(c) \/ SaveCase(c)
    BY <1>1, <2>6, StatementMoves DEF Moved
  <2>7. QED
    BY <1>3, <2>2, <2>3, <2>4, <2>5, <2>6 DEF PostStep
<1>4. QED
  BY <1>2, <1>3

\* The tables, the requests and the answers keep their types.
THEOREM TypeCorrect == Spec => []TypeOK
<1>1. TypeOK /\ Ready /\ [Next]_vars => TypeOK' /\ Ready'
  BY TypeNext, ReadyNext
<1>2. QED
  BY TypeInit, <1>1, PTL DEF Spec
-----------------------------------------------------------------------------
(***************************************************************************)
(* What was acknowledged is stored, and decisions are judged by it.        *)
(***************************************************************************)
\* The upload the app waits for has stored what its statements were to store.
UploadRan ==
  uploading # Nothing =>
    /\ "snapshot" \notin upload[uploading] => latest >= uploading
    /\ "trading" \notin upload[uploading] => trading + TradingSpacing > uploading

\* What a reader holds has been the latest snapshot.
Handed ==
  /\ \A r \in reads : r.snap <= latest
  /\ \A a \in answers : a.snap <= latest

\* A request is about a snapshot that has been the latest, and what it says of
\* its time holds as long as the latest snapshot only moves on.
Judged(p, newest) ==
  /\ p.snap <= newest /\ p.acked <= newest
  /\ p.status = "CURRENT" => p.snap >= p.acked
  /\ p.status = "SUPERSEDED" => p.snap < newest

Honoured ==
  /\ AcknowledgedIsStored /\ StatusIsTrue /\ UploadRan /\ Handed
  /\ \A c \in Clients : post[c] # Idle => Judged(post[c], latest)

\* Nothing has been uploaded.
LEMMA HonouredInit == Init => Honoured
BY RowsAreRows
DEF Init, Honoured, AcknowledgedIsStored, StatusIsTrue, UploadRan, Handed, Nothing

\* The latest snapshot and the trading state only move on.
LEMMA RelayMovesOn == TypeOK /\ [Next]_vars => latest' >= latest /\ trading' >= trading
<1>1. SUFFICES ASSUME TypeOK, [Next]_vars
               PROVE  latest' >= latest /\ trading' >= trading
  OBVIOUS
<1>2. latest \in Nat /\ trading \in Nat /\ Times \subseteq Nat /\ TradingSpacing \in Nat
  <2>1. latest \in Optional /\ trading \in Optional
    BY <1>1 DEF TypeOK
  <2>2. TradingSpacing \in Nat
    BY DecisionStoreAssumption
  <2>3. QED
    BY <2>1, <2>2, TimesAreNumbers
<1>3. ASSUME NEW s \in Times, SaveSnapshot(s)
      PROVE  latest' >= latest /\ trading' >= trading
  BY <1>2, <1>3 DEF SaveSnapshot, Upserted, Nothing
<1>4. ASSUME NEW s \in Times, SaveTrading(s)
      PROVE  latest' >= latest /\ trading' >= trading
  BY <1>2, <1>4 DEF SaveTrading, Upserted, Nothing
<1>5. CASE ~ \E s \in Times : SaveSnapshot(s) \/ SaveTrading(s)
  <2>1. UNCHANGED <<latest, trading>>
    BY <1>1, <1>5, OthersRest
    DEF Next, UploadStep, vars, relay, Tick, Upload, UploadTimesOut, UploadFails,
        UpdateOutcomes, OutcomesFail, Read, ReadNothing, SaveLease,
        DeleteExpiredLeases, LeaseFails, Answered
  <2>2. QED
    BY <1>2, <2>1
<1>6. QED
  BY <1>3, <1>4, <1>5

\* What is said of a request stays true while the latest snapshot moves on.
LEMMA JudgedStays ==
  ASSUME NEW p \in Posts, NEW old \in Nat, NEW new \in Nat, new >= old, Judged(p, old)
  PROVE  Judged(p, new)
<1>1. p.snap \in Nat /\ p.acked \in Nat
  BY TimesAreNumbers DEF Posts
<1>2. QED
  BY <1>1 DEF Judged

\* No statement, and no request that ends early, makes what was acknowledged or
\* judged untrue.
LEMMA HonouredNext == TypeOK /\ Ready /\ Honoured /\ [Next]_vars => Honoured'
<1>1. SUFFICES ASSUME TypeOK, Ready, Honoured, [Next]_vars
               PROVE  Honoured'
  OBVIOUS
<1>2. TypeOK' /\ latest' >= latest /\ trading' >= trading
  BY <1>1, TypeNext, RelayMovesOn
<1>3. /\ Times \subseteq Nat /\ Nothing \notin Times /\ Optional \subseteq Nat
      /\ TradingSpacing \in Nat /\ TradingSpacing > 0
      /\ {latest, latest', trading, trading', acked, acked', uploading, uploading'}
           \subseteq Optional
  BY <1>1, <1>2, TimesAreNumbers DEF TypeOK
<1>4. /\ {latest, latest', trading, trading', acked, acked'} \subseteq Nat
      /\ AcknowledgedIsStored /\ StatusIsTrue /\ UploadRan /\ Handed
      /\ \A c \in Clients : post[c] # Idle => Judged(post[c], latest)
  BY <1>1, <1>3 DEF Honoured
<1>5. AcknowledgedIsStored' /\ UploadRan'
  <2>1. CASE Upload
    <3>1. /\ uploading' = now /\ upload'[now] = Statements /\ acked' = acked
      BY <1>1, <2>1, DecisionStoreAssumption DEF Upload, TypeOK
    <3>2. QED
      BY <1>2, <1>3, <1>4, <3>1 DEF AcknowledgedIsStored, UploadRan, Statements
  <2>2. CASE UploadTimesOut
    BY <1>2, <1>3, <1>4, <2>2
    DEF UploadTimesOut, relay, AcknowledgedIsStored, UploadRan
  <2>3. ASSUME NEW s \in Times, UploadFails(s)
        PROVE  AcknowledgedIsStored' /\ UploadRan'
    BY <1>1, <1>3, <1>4, <2>3 DEF UploadFails, TypeOK, AcknowledgedIsStored, UploadRan
  <2>4. ASSUME NEW s \in Times, NEW statement \in Statements, statement \in upload[s],
               Ran(s, statement),
               statement = "snapshot" => latest' >= s,
               statement = "trading" => trading' + TradingSpacing > s
        PROVE  AcknowledgedIsStored' /\ UploadRan'
    <3>1. /\ upload'[s] = upload[s] \ {statement}
          /\ \A t \in Times \ {s} : upload'[t] = upload[t]
      BY <1>1, <2>4, RanTyped
    <3>2. UploadRan'
      <4>1. CASE uploading' = Nothing
        BY <4>1 DEF UploadRan
      <4>2. CASE uploading' # Nothing
        <5>1. uploading' = uploading /\ uploading \in Times
          BY <1>3, <2>4, <4>2 DEF Ran, Optional
        <5>2. CASE uploading = s
          BY <1>2, <1>3, <1>4, <2>4, <3>1, <5>1, <5>2 DEF UploadRan
        <5>3. CASE uploading # s
          BY <1>2, <1>3, <1>4, <2>4, <3>1, <5>1, <5>3 DEF UploadRan
        <5>4. QED
          BY <5>2, <5>3
      <4>3. QED
        BY <4>1, <4>2
    <3>3. AcknowledgedIsStored'
      <4>1. CASE acked' = acked
        BY <1>2, <1>3, <1>4, <4>1 DEF AcknowledgedIsStored
      <4>2. CASE acked' # acked
        <5>1. /\ acked' = s /\ uploading = s /\ upload[s] \ {statement} = {}
          BY <2>4, <4>2 DEF Ran
        <5>2. /\ "snapshot" \notin upload[s] => latest >= s
              /\ "trading" \notin upload[s] => trading + TradingSpacing > s
          BY <1>3, <1>4, <5>1 DEF UploadRan
        <5>3. latest' >= s /\ trading' + TradingSpacing > s
          BY <1>2, <1>3, <1>4, <2>4, <5>1, <5>2
        <5>4. QED
          BY <5>1, <5>3 DEF AcknowledgedIsStored
      <4>3. QED
        BY <4>1, <4>2
    <3>4. QED
      BY <3>2, <3>3
  <2>5. ASSUME NEW s \in Times, SaveSnapshot(s)
        PROVE  AcknowledgedIsStored' /\ UploadRan'
    <3>1. latest' >= s /\ Ran(s, "snapshot") /\ "snapshot" \in upload[s]
      BY <1>3, <1>4, <2>5 DEF SaveSnapshot, Upserted
    <3>2. QED
      BY <2>4, <3>1 DEF Statements
  <2>6. ASSUME NEW s \in Times, SaveTrading(s)
        PROVE  AcknowledgedIsStored' /\ UploadRan'
    <3>1. trading' + TradingSpacing > s /\ Ran(s, "trading") /\ "trading" \in upload[s]
      BY <1>3, <1>4, <2>6 DEF SaveTrading, Upserted
    <3>2. QED
      BY <2>4, <3>1 DEF Statements
  <2>7. ASSUME NEW s \in Times, UpdateOutcomes(s) \/ OutcomesFail(s)
        PROVE  AcknowledgedIsStored' /\ UploadRan'
    <3>1. Ran(s, "outcomes") /\ "outcomes" \in upload[s]
      BY <2>7 DEF UpdateOutcomes, OutcomesFail
    <3>2. QED
      BY <2>4, <3>1 DEF Statements
  <2>8. CASE UNCHANGED <<app, relay>>
    BY <1>4, <2>8 DEF app, relay, AcknowledgedIsStored, UploadRan
  <2>9. CASE Tick \/ Read \/ ReadNothing \/ (\E c \in Clients : PostStep(c)) \/ UNCHANGED vars
    BY <2>8, <2>9, OthersRest DEF Tick, Read, ReadNothing, vars
  <2>10. CASE \E r \in reads : SaveLease(r) \/ DeleteExpiredLeases(r) \/ LeaseFails(r)
    BY <2>8, <2>10 DEF SaveLease, DeleteExpiredLeases, LeaseFails, Answered
  <2>11. QED
    BY <1>1, <2>1, <2>2, <2>3, <2>5, <2>6, <2>7, <2>9, <2>10 DEF Next, UploadStep
<1>6. Handed'
  <2>1. \A r \in reads : r \in Reads /\ r.snap \in Nat
    BY <1>1, <1>3 DEF TypeOK, Reads
  <2>2. \A a \in answers : a.snap \in Nat
    BY <1>1, <1>3 DEF TypeOK, Answers
  <2>3. CASE UNCHANGED <<reads, answers>>
    BY <1>2, <1>4, <2>1, <2>2, <2>3 DEF Handed
  <2>4. CASE Read
    <3>1. /\ reads' = reads \cup {[snap |-> latest, at |-> now, todo |-> "lease"]}
          /\ UNCHANGED <<answers, latest>>
      BY <2>4 DEF Read, relay
    <3>2. QED
      BY <1>4, <3>1 DEF Handed
  <2>5. ASSUME NEW r \in reads, SaveLease(r)
        PROVE  Handed'
    <3>1. [r EXCEPT !.todo = "cleanup"].snap = r.snap
      BY <2>1 DEF Reads
    <3>2. /\ reads' = (reads \ {r}) \cup {[r EXCEPT !.todo = "cleanup"]}
          /\ UNCHANGED <<answers, latest>>
      BY <2>5 DEF SaveLease, relay
    <3>3. QED
      BY <1>4, <3>1, <3>2 DEF Handed
  <2>6. ASSUME NEW r \in reads, DeleteExpiredLeases(r) \/ LeaseFails(r)
        PROVE  Handed'
    <3>1. /\ reads' = reads \ {r} /\ UNCHANGED latest
          /\ answers' = answers \cup
                          {[snap |-> r.snap, at |-> r.at, leased |-> r.todo = "cleanup"]}
      BY <2>6 DEF DeleteExpiredLeases, LeaseFails, Answered, relay
    <3>2. QED
      BY <1>4, <3>1 DEF Handed
  <2>7. CASE \E c \in Clients : PostStep(c)
    BY <2>3, <2>7, OthersRest DEF reader
  <2>8. CASE \/ Tick \/ Upload \/ UploadTimesOut \/ (\E s \in Times : UploadStep(s))
             \/ ReadNothing \/ UNCHANGED vars
    BY <2>3, <2>8
    DEF Tick, Upload, UploadTimesOut, UploadStep, UploadFails, SaveSnapshot, SaveTrading,
        UpdateOutcomes, OutcomesFail, ReadNothing, vars, reader
  <2>9. QED
    BY <1>1, <2>4, <2>5, <2>6, <2>7, <2>8 DEF Next
<1>7. ASSUME NEW c \in Clients, post'[c] = post[c], post[c] # Idle
      PROVE  Judged(post'[c], latest')
  <2>1. post[c] \in Posts
    BY <1>1, <1>7 DEF TypeOK
  <2>2. QED
    BY <1>2, <1>4, <1>7, <2>1, JudgedStays
<1>8. CASE ~ \E c \in Clients : PostStep(c)
  <2>1. UNCHANGED recorder
    BY <1>1, <1>8, RecorderRests
  <2>2. \A d \in Decisions : log[d] # NoRow => log[d].snap \in Nat
    BY <1>1, <1>3 DEF TypeOK, LogRows
  <2>3. StatusIsTrue'
    BY <1>2, <1>4, <2>1, <2>2 DEF StatusIsTrue, recorder
  <2>4. QED
    BY <1>5, <1>6, <1>7, <2>1, <2>3 DEF Honoured, recorder
<1>9. ASSUME NEW c \in Clients, PostStep(c)
      PROVE  Honoured'
  <2>1. latest' = latest /\ acked' = acked
    BY <1>9, OthersRest DEF relay, app
  <2>2. SUFFICES /\ StatusIsTrue'
                 /\ \A other \in Clients \ {c} : post'[other] = post[other]
                 /\ post'[c] # Idle => Judged(post'[c], latest)
    BY <1>5, <1>6, <1>7, <2>1 DEF Honoured
  <2>3. ASSUME Moved(c, post'[c].pc), post[c] # Idle, post'[c].status = post[c].status
        PROVE  Judged(post'[c], latest)
    <3>1. Judged(post[c], latest)
      BY <1>4, <2>3
    <3>2. post'[c].snap = post[c].snap /\ post'[c].acked = post[c].acked
      BY <2>3 DEF Moved
    <3>3. QED
      BY <2>3, <3>1, <3>2 DEF Judged
  <2>4. ASSUME UNCHANGED log
        PROVE  StatusIsTrue'
    BY <1>4, <2>1, <2>4 DEF StatusIsTrue
  <2>5. ASSUME NEW d \in Decisions, NEW a \in answers, NEW body \in bound.bodies,
               Post(c, d, a, body)
        PROVE  /\ UNCHANGED log
               /\ \A other \in Clients \ {c} : post'[other] = post[other]
               /\ Judged(post'[c], latest)
    <3>1. acked <= latest
      BY <1>3, <1>4 DEF AcknowledgedIsStored, Nothing
    <3>2. QED
      BY <1>1, <1>4, <2>5, <3>1, PostMoves DEF Post, Judged, Handed
  <2>6. CASE PostEnds(c) \/ SaveOutcome(c)
    BY <1>1, <2>4, <2>6, GoesTyped DEF PostEnds, SaveOutcome
  <2>7. CASE Lookup(c)
    <3>1. UNCHANGED log /\ post[c] # Idle
      BY <2>7 DEF Lookup, At
    <3>2. CASE post' = [post EXCEPT ![c] = Idle]
      BY <1>1, <2>4, <3>1, <3>2 DEF TypeOK
    <3>3. CASE post' # [post EXCEPT ![c] = Idle]
      BY <1>1, <2>3, <2>4, <2>7, <3>1, <3>3, LookupMoves DEF Moved
    <3>4. QED
      BY <3>2, <3>3
  <2>8. CASE LoadLatest(c)
    <3>1. UNCHANGED log /\ post[c] # Idle
      BY <2>8 DEF LoadLatest, At
    <3>2. /\ Moved(c, "insert") /\ post'[c].status = SnapshotStatus(latest, post[c])
      BY <1>1, <2>8, LatestMoves
    <3>3. Judged(post[c], latest) /\ post[c].snap \in Nat /\ post[c].acked \in Nat
      BY <1>3, <1>4, <3>1, <3>2 DEF Moved, Posts
    <3>4. Judged(post'[c], latest)
      BY <1>4, <3>2, <3>3 DEF Moved, Judged, SnapshotStatus
    <3>5. QED
      BY <2>4, <3>1, <3>2, <3>4 DEF Moved
  <2>9. CASE AttachFingerprint(c) \/ LoadLease(c) \/ SaveCase(c)
    <3>1. UNCHANGED log /\ post[c] # Idle
      BY <2>9 DEF AttachFingerprint, LoadLease, SaveCase, At
    <3>2. Moved(c, post'[c].pc) /\ post'[c].status = post[c].status
      BY <1>1, <2>9, StatementMoves DEF Moved, Untouched
    <3>3. Judged(post'[c], latest) /\ \A other \in Clients \ {c} : post'[other] = post[other]
      BY <2>3, <3>1, <3>2 DEF Moved
    <3>4. QED
      BY <2>4, <3>1, <3>3
  <2>10. CASE SaveDecision(c)
    <3> DEFINE p == post[c]
               row == [snap |-> p.snap, body |-> p.body, at |-> p.at, acked |-> p.acked,
                       status |-> p.status]
    <3>1. /\ p # Idle /\ p \in Posts /\ log' = [log EXCEPT ![p.decision] = row]
      BY <1>1, <2>10, AtPosts DEF SaveDecision
    <3>2. Judged(p, latest) /\ row.snap = p.snap /\ row.acked = p.acked /\ row.status = p.status
      BY <1>4, <3>1
    <3>3. Moved(c, "fingerprint") /\ post'[c].status = p.status
      BY <1>1, <2>10, StatementMoves DEF Untouched
    <3> HIDE DEF row
    <3>4. StatusIsTrue'
      <4>1. ASSUME NEW d \in Decisions
            PROVE  log'[d] = IF d = p.decision THEN row ELSE log[d]
        BY <1>1, <3>1 DEF TypeOK
      <4>2. QED
        BY <1>4, <2>1, <3>2, <4>1 DEF StatusIsTrue, Judged
    <3>5. QED
      BY <2>3, <3>1, <3>3, <3>4 DEF Moved
  <2>11. QED
    BY <1>9, <2>4, <2>5, <2>6, <2>7, <2>8, <2>9, <2>10 DEF PostStep
<1>10. QED
  BY <1>8, <1>9

\* Whatever uploads are served late, fail halfway or are given up: what the app
\* was told is stored stays so, and decisions are judged by it.
THEOREM AcknowledgedIsHonoured == Spec => []UploadsAreHonoured
<1>1. Init => TypeOK /\ Ready /\ Honoured
  BY TypeInit, HonouredInit
<1>2. TypeOK /\ Ready /\ Honoured /\ [Next]_vars => TypeOK' /\ Ready' /\ Honoured'
  BY TypeNext, ReadyNext, HonouredNext
<1>3. Honoured => UploadsAreHonoured
  BY DEF Honoured, UploadsAreHonoured
<1>4. QED
  BY <1>1, <1>2, <1>3, PTL DEF Spec
-----------------------------------------------------------------------------
(***************************************************************************)
(* What is filed under a decision is its own.                              *)
(***************************************************************************)
Behind == {"fingerprint", "lease", "case", "outcome"}

\* A request behind the insert carries the logged row, also when it has been
\* repeated, and one that inserts an outcome has seen the replay case inserted.
Filed(c) ==
  LET p == post[c] IN
  p # Idle =>
    /\ p.pc \in Behind => /\ log[p.decision] # NoRow
                          /\ log[p.decision].snap = p.snap /\ log[p.decision].at = p.at
    /\ p.pc = "outcome" => cases[p.decision] # NoRow

Own == CaseIsOfDecision /\ \A c \in Clients : Filed(c)

\* Nothing is filed.
LEMMA OwnInit == Init => Own
BY RowsAreRows
DEF Init, Own, Filed, CaseIsOfDecision, CaseMatchesDecision, CapturedIsEvaluable

\* Rows of the log and replay cases are never replaced; an outcome row remains
\* and stays the outcome of its snapshot.
LEMMA RowsStay ==
  ASSUME TypeOK, [Next]_vars, NEW d \in Decisions
  PROVE  /\ log[d] # NoRow => log'[d] = log[d]
         /\ cases[d] # NoRow => cases'[d] = cases[d]
         /\ outcomes[d] # NoRow => outcomes'[d] # NoRow /\ outcomes'[d].snap = outcomes[d].snap
<1>1. CASE ~ \E c \in Clients : PostStep(c)
  <2>1. UNCHANGED <<log, cases>>
    BY <1>1, RecorderRests DEF recorder
  <2>2. ASSUME NEW s \in Times, UpdateOutcomes(s), outcomes[d] # NoRow
        PROVE  outcomes'[d] # NoRow /\ outcomes'[d].snap = outcomes[d].snap
    <3>1. outcomes[d] \in OutcomeRows
      BY <2>2 DEF TypeOK
    <3>2. Followed(outcomes[d], s) # NoRow
          /\ Followed(outcomes[d], s).snap = outcomes[d].snap
      BY <3>1, FollowedFields, RowsAreRows
    <3>3. QED
      BY <2>2, <3>2 DEF UpdateOutcomes
  <2>3. CASE ~ \E s \in Times : UpdateOutcomes(s)
    <3>1. UNCHANGED outcomes
      BY <1>1, <2>3
      DEF Next, UploadStep, vars, Tick, Upload, UploadTimesOut, UploadFails, SaveSnapshot,
          SaveTrading, OutcomesFail, Read, ReadNothing, SaveLease, DeleteExpiredLeases,
          LeaseFails, Answered
    <3>2. QED
      BY <2>1, <3>1
  <2>4. QED
    BY <2>1, <2>2, <2>3
<1>2. ASSUME NEW c \in Clients, PostStep(c)
      PROVE  /\ log[d] # NoRow => log'[d] = log[d]
             /\ cases[d] # NoRow => cases'[d] = cases[d]
             /\ outcomes[d] # NoRow => outcomes'[d] = outcomes[d]
  <2>1. CASE SaveDecision(c)
    BY <2>1 DEF SaveDecision, TypeOK
  <2>2. CASE SaveCase(c)
    BY <2>2 DEF SaveCase, TypeOK
  <2>3. CASE SaveOutcome(c)
    BY <2>3 DEF SaveOutcome, TypeOK
  <2>4. CASE ~(SaveDecision(c) \/ SaveCase(c) \/ SaveOutcome(c))
    <3>1. UNCHANGED <<log, cases, outcomes>>
      BY <1>2, <2>4
      DEF PostStep, Post, PostEnds, Lookup, LoadLatest, AttachFingerprint, LoadLease
    <3>2. QED
      BY <3>1
  <2>5. QED
    BY <2>1, <2>2, <2>3, <2>4
<1>3. QED
  BY <1>1, <1>2

\* What a request carries stays what is logged.
LEMMA FiledStays ==
  ASSUME TypeOK, [Next]_vars, NEW c \in Clients, Filed(c), post'[c] = post[c]
  PROVE  Filed(c)'
<1>1. CASE post[c] = Idle
  BY <1>1 DEF Filed
<1>2. CASE post[c] # Idle
  <2>1. post[c].decision \in Decisions
    BY <1>2 DEF TypeOK, Posts
  <2>2. /\ log[post[c].decision] # NoRow => log'[post[c].decision] = log[post[c].decision]
        /\ cases[post[c].decision] # NoRow =>
             cases'[post[c].decision] = cases[post[c].decision]
    BY <2>1, RowsStay
  <2>3. QED
    BY <1>2, <2>2 DEF Filed
<1>3. QED
  BY <1>1, <1>2

\* What is filed stays its decision's while nothing more is filed.
LEMMA MatchStays ==
  ASSUME TypeOK, [Next]_vars, CaseMatchesDecision, UNCHANGED <<cases, prints>>,
         \A d \in Decisions : outcomes'[d] # NoRow => outcomes[d] # NoRow
  PROVE  CaseMatchesDecision'
<1>1. ASSUME NEW d \in Decisions
      PROVE  /\ log[d] # NoRow => log'[d] = log[d]
             /\ outcomes'[d] # NoRow => /\ outcomes[d] # NoRow
                                        /\ outcomes'[d].snap = outcomes[d].snap
  BY <1>1, RowsStay
<1>2. QED
  BY <1>1 DEF CaseMatchesDecision

\* No interleaving of requests for one decision files what is of another one.
LEMMA OwnNext == TypeOK /\ Own /\ [Next]_vars => Own'
<1>1. SUFFICES ASSUME TypeOK, Own, [Next]_vars
               PROVE  Own'
  OBVIOUS
<1>2. /\ CaseMatchesDecision /\ CapturedIsEvaluable /\ \A c \in Clients : Filed(c)
  BY <1>1 DEF Own, CaseIsOfDecision
<1>3. ASSUME UNCHANGED told
      PROVE  CapturedIsEvaluable'
  <2>1. told \subseteq Decisions
    BY <1>1 DEF TypeOK
  <2>2. ASSUME NEW d \in told
        PROVE  cases'[d] # NoRow /\ outcomes'[d] # NoRow
    BY <1>1, <1>2, <2>1, RowsStay DEF CapturedIsEvaluable
  <2>3. QED
    BY <1>3, <2>2 DEF CapturedIsEvaluable
<1>4. CASE ~ \E c \in Clients : PostStep(c)
  <2>1. UNCHANGED recorder
    BY <1>1, <1>4, RecorderRests
  <2>2. \A d \in Decisions : outcomes'[d] # NoRow => outcomes[d] # NoRow
    <3>1. ASSUME NEW s \in Times, UpdateOutcomes(s), NEW d \in Decisions, outcomes[d] = NoRow
          PROVE  outcomes'[d] = NoRow
      BY <1>1, <3>1 DEF UpdateOutcomes, Pending, TypeOK
    <3>2. CASE ~ \E s \in Times : UpdateOutcomes(s)
      <4>1. UNCHANGED outcomes
        BY <1>1, <1>4, <3>2
        DEF Next, UploadStep, vars, Tick, Upload, UploadTimesOut, UploadFails,
            SaveSnapshot, SaveTrading, OutcomesFail, Read, ReadNothing, SaveLease,
            DeleteExpiredLeases, LeaseFails, Answered
      <4>2. QED
        BY <4>1
    <3>3. QED
      BY <3>1, <3>2
  <2>3. CaseMatchesDecision'
    BY <1>1, <1>2, <2>1, <2>2, MatchStays DEF recorder
  <2>4. CapturedIsEvaluable' /\ \A c \in Clients : Filed(c)'
    BY <1>1, <1>2, <1>3, <2>1, FiledStays DEF recorder
  <2>5. QED
    BY <2>3, <2>4 DEF Own, CaseIsOfDecision
<1>5. ASSUME NEW c \in Clients, PostStep(c)
      PROVE  Own'
  <2>1. SUFFICES /\ CaseMatchesDecision' /\ CapturedIsEvaluable' /\ Filed(c)'
                 /\ \A other \in Clients \ {c} : post'[other] = post[other]
    BY <1>1, <1>2, FiledStays DEF Own, CaseIsOfDecision
  <2>2. ASSUME UNCHANGED <<cases, prints, told, outcomes>>
        PROVE  CaseMatchesDecision' /\ CapturedIsEvaluable'
    BY <1>1, <1>2, <1>3, <2>2, MatchStays
  <2>3. ASSUME NEW d \in Decisions, NEW a \in answers, NEW body \in bound.bodies,
               Post(c, d, a, body)
        PROVE  /\ CaseMatchesDecision' /\ CapturedIsEvaluable' /\ Filed(c)'
               /\ \A other \in Clients \ {c} : post'[other] = post[other]
    <3>1. /\ post'[c].pc = "lookup"
          /\ \A other \in Clients \ {c} : post'[other] = post[other]
      BY <1>1, <2>3, PostMoves
    <3>2. Filed(c)'
      BY <3>1 DEF Filed, Behind
    <3>3. QED
      BY <2>2, <2>3, <3>1, <3>2 DEF Post
  <2>4. CASE PostEnds(c)
    <3>1. post'[c] = Idle /\ \A other \in Clients \ {c} : post'[other] = post[other]
      BY <1>1, <2>4, GoesTyped DEF PostEnds
    <3>2. QED
      BY <2>2, <2>4, <3>1 DEF PostEnds, Filed
  <2>5. CASE Lookup(c)
    <3>1. UNCHANGED <<log, cases, prints, told, outcomes>>
      BY <2>5 DEF Lookup
    <3>2. /\ Filed(c)'
          /\ \A other \in Clients \ {c} : post'[other] = post[other]
      <4>1. CASE post' = [post EXCEPT ![c] = Idle]
        BY <1>1, <4>1 DEF TypeOK, Filed
      <4>2. CASE post' # [post EXCEPT ![c] = Idle]
        BY <1>1, <2>5, <3>1, <4>2, LookupMoves DEF Moved, Filed, Behind
      <4>3. QED
        BY <4>1, <4>2
    <3>3. QED
      BY <2>2, <3>1, <3>2
  <2>6. CASE LoadLatest(c)
    <3>1. Moved(c, "insert")
      BY <1>1, <2>6, LatestMoves
    <3>2. QED
      BY <2>2, <2>6, <3>1 DEF LoadLatest, Moved, Filed, Behind
  <2>7. CASE SaveDecision(c)
    <3> DEFINE p == post[c]
               row == [snap |-> p.snap, body |-> p.body, at |-> p.at, acked |-> p.acked,
                       status |-> p.status]
    <3>1. /\ p \in Posts /\ log' = [log EXCEPT ![p.decision] = row]
          /\ UNCHANGED <<cases, prints, told, outcomes>>
      BY <1>1, <2>7, AtPosts DEF SaveDecision
    <3>2. row.snap = p.snap /\ row.at = p.at /\ row # NoRow
      <4>1. row.snap # NoRow.snap
        BY <3>1, TimesAreNumbers DEF Posts, NoRow
      <4>2. QED
        BY <4>1
    <3>3. Moved(c, "fingerprint") /\ post'[c].at = p.at
      BY <1>1, <2>7, StatementMoves DEF Untouched
    <3> HIDE DEF row
    <3>4. log'[p.decision] = row
      BY <1>1, <3>1 DEF TypeOK, Posts
    <3>5. Filed(c)'
      BY <3>2, <3>3, <3>4 DEF Filed, Moved
    <3>6. QED
      BY <2>2, <3>1, <3>3, <3>5 DEF Moved
  <2>8. CASE AttachFingerprint(c)
    <3>1. /\ Moved(c, "lease") /\ post'[c].at = post[c].at /\ post[c].pc = "fingerprint"
          /\ post[c] # Idle
      BY <1>1, <2>8, StatementMoves DEF Untouched, AttachFingerprint, At
    <3>2. /\ UNCHANGED <<log, cases, told, outcomes>>
          /\ prints' \in {prints, [prints EXCEPT ![post[c].decision] = post[c].snap]}
      BY <2>8 DEF AttachFingerprint
    <3>3. /\ log[post[c].decision] # NoRow /\ log[post[c].decision].snap = post[c].snap
          /\ log[post[c].decision].at = post[c].at
      BY <1>2, <3>1 DEF Filed, Behind
    <3>4. CaseMatchesDecision'
      BY <1>1, <1>2, <3>2, <3>3 DEF CaseMatchesDecision, TypeOK
    <3>5. Filed(c)'
      BY <3>1, <3>2, <3>3 DEF Filed, Moved
    <3>6. QED
      BY <1>3, <3>1, <3>2, <3>4, <3>5 DEF Moved
  <2>9. CASE LoadLease(c)
    <3>1. /\ Moved(c, "case") /\ post'[c].at = post[c].at /\ post[c].pc = "lease"
          /\ post[c] # Idle
      BY <1>1, <2>9, StatementMoves DEF Untouched, LoadLease, At
    <3>2. UNCHANGED <<log, cases, prints, told, outcomes>>
      BY <2>9 DEF LoadLease
    <3>3. Filed(c)'
      BY <1>2, <3>1, <3>2 DEF Filed, Moved, Behind
    <3>4. QED
      BY <2>2, <3>1, <3>2, <3>3 DEF Moved
  <2>10. CASE SaveCase(c)
    <3> DEFINE p == post[c]
               row == [snap |-> p.snap, leasedAt |-> p.lease, at |-> p.at]
    <3>1. /\ Moved(c, "outcome") /\ post'[c].at = p.at /\ p.pc = "case"
          /\ p # Idle /\ p \in Posts
      BY <1>1, <2>10, StatementMoves DEF Untouched, SaveCase, At, Moved
    <3>2. /\ UNCHANGED <<log, prints, told, outcomes>>
          /\ cases' = IF cases[p.decision] # NoRow THEN cases
                      ELSE [cases EXCEPT ![p.decision] = row]
      BY <2>10 DEF SaveCase
    <3>3. row.snap = p.snap /\ row.at = p.at /\ row # NoRow
      <4>1. row.snap # NoRow.snap
        BY <3>1, TimesAreNumbers DEF Posts, NoRow
      <4>2. QED
        BY <4>1
    <3> HIDE DEF row
    <3>4. /\ log[p.decision] # NoRow /\ log[p.decision].snap = p.snap
          /\ log[p.decision].at = p.at /\ p.decision \in Decisions
      BY <1>2, <3>1 DEF Filed, Behind, Posts
    <3>5. ASSUME NEW d \in Decisions
          PROVE  cases'[d] = IF d = p.decision /\ cases[d] = NoRow THEN row ELSE cases[d]
      BY <1>1, <3>2, <3>4 DEF TypeOK
    <3>6. CaseMatchesDecision'
      BY <1>2, <3>2, <3>3, <3>4, <3>5 DEF CaseMatchesDecision
    <3>7. Filed(c)'
      BY <3>1, <3>2, <3>3, <3>4, <3>5 DEF Filed, Moved
    <3>8. QED
      BY <1>3, <3>1, <3>2, <3>6, <3>7 DEF Moved
  <2>11. CASE SaveOutcome(c)
    <3> DEFINE p == post[c]
               row == NewOutcome(p.snap)
    <3>1. p \in Posts /\ p # Idle /\ p.pc = "outcome"
      BY <1>1, <2>11, AtPosts DEF SaveOutcome
    <3>2. post'[c] = Idle /\ \A other \in Clients \ {c} : post'[other] = post[other]
      BY <1>1, <2>11, GoesTyped DEF SaveOutcome
    <3>3. /\ UNCHANGED <<log, prints, cases>> /\ told' = told \cup {p.decision}
          /\ outcomes' = IF outcomes[p.decision] # NoRow THEN outcomes
                         ELSE [outcomes EXCEPT ![p.decision] = row]
      BY <2>11 DEF SaveOutcome
    <3>4. row.snap = p.snap /\ row # NoRow
      BY <3>1, NewOutcomeTyped, RowsAreRows DEF NewOutcome, Posts
    <3> HIDE DEF row
    <3>5. /\ log[p.decision].snap = p.snap /\ p.decision \in Decisions
          /\ cases[p.decision] # NoRow
      BY <1>2, <3>1 DEF Filed, Behind, Posts
    <3>6. cases[p.decision].snap = p.snap
      BY <1>2, <3>5 DEF CaseMatchesDecision
    <3>7. ASSUME NEW d \in Decisions
          PROVE  outcomes'[d] = IF d = p.decision /\ outcomes[d] = NoRow
                                THEN row ELSE outcomes[d]
      BY <1>1, <3>3, <3>5 DEF TypeOK
    <3>8. CaseMatchesDecision'
      BY <1>2, <3>3, <3>4, <3>5, <3>6, <3>7 DEF CaseMatchesDecision
    <3>9. CapturedIsEvaluable'
      <4>1. told \subseteq Decisions
        BY <1>1 DEF TypeOK
      <4>2. QED
        BY <1>2, <3>3, <3>4, <3>5, <3>7, <4>1 DEF CapturedIsEvaluable
    <3>10. QED
      BY <3>2, <3>8, <3>9 DEF Filed
  <2>12. QED
    BY <1>5, <2>3, <2>4, <2>5, <2>6, <2>7, <2>8, <2>9, <2>10, <2>11 DEF PostStep
<1>6. QED
  BY <1>4, <1>5

\* However many requests race for one id, and wherever each of them ends: what
\* is filed under a decision is its own, and what is told captured is all there.
THEOREM FiledIsOwn == Spec => []CaseIsOfDecision
<1>1. Init => TypeOK /\ Ready /\ Own
  BY TypeInit, OwnInit
<1>2. TypeOK /\ Ready /\ Own /\ [Next]_vars => TypeOK' /\ Ready' /\ Own'
  BY TypeNext, ReadyNext, OwnNext
<1>3. Own => CaseIsOfDecision
  BY DEF Own
<1>4. QED
  BY <1>1, <1>2, <1>3, PTL DEF Spec
-----------------------------------------------------------------------------
(***************************************************************************)
(* Leases outlive reads.                                                   *)
(***************************************************************************)
\* The lease of a read (or of an answer) is at least as late as the read, until
\* its time to live is over.
Kept(x, rows, time) == x.at + LeaseTtl < time \/ rows[x.snap] >= x.at

Leasing ==
  /\ \A r \in reads : r.at <= now /\ (r.todo = "cleanup" => Kept(r, leases, now))
  /\ \A a \in answers : a.leased => Kept(a, leases, now)

\* What a read and an answer say is a snapshot and a time.
LEMMA ReadsTyped ==
  ASSUME TypeOK
  PROVE  /\ \A r \in reads : r.snap \in Times /\ r.at \in Times
         /\ \A a \in answers : a.snap \in Times /\ a.at \in Times
         /\ now \in Times /\ leases \in [Times -> Optional]
         /\ reads \subseteq Reads
BY DEF TypeOK, Reads, Answers

\* A lease that is only ever extended is kept.
LEMMA ExtendedIsKept ==
  ASSUME NEW x, x.snap \in Times, x.at \in Times, NEW time \in Times, NEW later \in Times,
         time <= later, NEW rows \in [Times -> Optional], NEW after \in [Times -> Optional],
         Kept(x, rows, time), after[x.snap] >= rows[x.snap]
  PROVE  Kept(x, after, later)
<1>1. rows[x.snap] \in Nat /\ after[x.snap] \in Nat /\ x.at \in Nat /\ time \in Nat
      /\ later \in Nat /\ LeaseTtl \in Nat
  BY TimesAreNumbers
<1>2. QED
  BY <1>1 DEF Kept

\* The leases that are deleted at a time that has come are those of reads whose
\* time to live is over.
LEMMA UnexpiredIsKept ==
  ASSUME NEW x, x.snap \in Times, x.at \in Times, NEW time \in Times, NEW at \in Times,
         at <= time, NEW rows \in [Times -> Optional], Kept(x, rows, time)
  PROVE  Kept(x, Unexpired(rows, at), time)
<1>1. rows[x.snap] \in Nat /\ x.at \in Nat /\ time \in Nat /\ at \in Nat /\ LeaseTtl \in Nat
      /\ Nothing = 0
  BY TimesAreNumbers
<1>2. Unexpired(rows, at)[x.snap] =
        IF rows[x.snap] + LeaseTtl < at THEN Nothing ELSE rows[x.snap]
  BY DEF Unexpired
<1>3. QED
  BY <1>1, <1>2 DEF Kept

\* Nothing has been read.
LEMMA LeasingInit == Init => Leasing
BY DEF Init, Leasing

\* Leases are written and deleted in any order, and none too early.
LEMMA LeasingNext == TypeOK /\ Leasing /\ [Next]_vars => Leasing'
<1>1. SUFFICES ASSUME TypeOK, Leasing, [Next]_vars
               PROVE  Leasing'
  OBVIOUS
<1>2. /\ \A r \in reads : r.snap \in Times /\ r.at \in Times
      /\ \A a \in answers : a.snap \in Times /\ a.at \in Times
      /\ now \in Times /\ leases \in [Times -> Optional] /\ reads \subseteq Reads
  BY <1>1, ReadsTyped
<1>3. /\ now \in Nat /\ (\A r \in reads : r.at \in Nat)
      /\ Times \subseteq Nat /\ \A t \in Times : leases[t] \in Nat
  <2>1. \A t \in Times : leases[t] \in Optional
    BY <1>2
  <2>2. QED
    BY <1>2, <2>1, TimesAreNumbers
<1>4. CASE Tick
  <2>1. /\ now' = now + 1 /\ UNCHANGED <<reads, answers, leases>> /\ now < bound.ticks
        /\ bound.ticks \in Times
    <3>1. bound \in [ticks : Times, uploading : Times, uploads : Nat, reads : Nat,
                     posts : Nat, bodies : SUBSET Bodies]
      BY <1>1, DecisionStoreAssumption DEF TypeOK
    <3>2. QED
      BY <1>4, <3>1 DEF Tick, reader
  <2>2. now' \in Times /\ now <= now'
    BY <1>2, <1>3, <2>1, DecisionStoreAssumption DEF Times
  <2>3. \A t \in Times : leases[t] >= leases[t]
    BY <1>2, <1>3
  <2>4. ASSUME NEW x \in reads \cup answers, Kept(x, leases, now)
        PROVE  Kept(x, leases, now')
    BY <1>2, <2>2, <2>3, <2>4, ExtendedIsKept
  <2>5. \A r \in reads : r.at <= now => r.at <= now'
    BY <1>2, <1>3, <2>1
  <2>6. QED
    BY <1>1, <2>1, <2>4, <2>5 DEF Leasing
<1>5. CASE Read
  <2>1. /\ reads' = reads \cup {[snap |-> latest, at |-> now, todo |-> "lease"]}
        /\ UNCHANGED <<now, answers, leases>>
    BY <1>5 DEF Read
  <2>2. now <= now
    BY <1>2, <1>3
  <2>3. QED
    BY <1>1, <2>1, <2>2 DEF Leasing
<1>6. ASSUME NEW r \in reads, SaveLease(r)
      PROVE  Leasing'
  <2> DEFINE q == [r EXCEPT !.todo = "cleanup"]
  <2>1. q.snap = r.snap /\ q.at = r.at /\ q \in Reads
    BY <1>2 DEF Reads
  <2>2. /\ reads' = (reads \ {r}) \cup {q} /\ UNCHANGED <<now, answers>>
        /\ leases' = [leases EXCEPT ![r.snap] = IF r.at >= leases[r.snap] THEN r.at
                                                ELSE leases[r.snap]]
    BY <1>6 DEF SaveLease, Leased
  <2>3. leases' \in [Times -> Optional]
    BY <1>2, <2>2 DEF Optional
  <2>4. leases'[r.snap] >= r.at /\ \A t \in Times : leases'[t] >= leases[t]
    BY <1>2, <1>3, <2>2
  <2>5. now <= now
    BY <1>2, <1>3
  <2>6. ASSUME NEW x \in reads \cup answers, Kept(x, leases, now)
        PROVE  Kept(x, leases', now)
    BY <1>2, <2>3, <2>4, <2>5, <2>6, ExtendedIsKept
  <2> HIDE DEF q
  <2>7. Kept(q, leases', now)
    BY <2>1, <2>4 DEF Kept
  <2>8. QED
    BY <1>1, <2>1, <2>2, <2>6, <2>7 DEF Leasing
<1>7. ASSUME NEW r \in reads, Answered(r),
             \A x \in reads \cup answers : Kept(x, leases, now) => Kept(x, leases', now)
      PROVE  Leasing'
  <2> DEFINE a == [snap |-> r.snap, at |-> r.at, leased |-> r.todo = "cleanup"]
  <2>1. /\ reads' = reads \ {r} /\ answers' = answers \cup {a} /\ now' = now
    BY <1>7 DEF Answered
  <2>2. a.snap = r.snap /\ a.at = r.at /\ (a.leased <=> r.todo = "cleanup")
    OBVIOUS
  <2> HIDE DEF a
  <2>3. Kept(r, leases', now) => Kept(a, leases', now)
    BY <2>2 DEF Kept
  <2>4. QED
    BY <1>1, <1>7, <2>1, <2>2, <2>3 DEF Leasing
<1>8. ASSUME NEW r \in reads, DeleteExpiredLeases(r)
      PROVE  Leasing'
  <2>1. Answered(r) /\ leases' = Unexpired(leases, r.at)
    BY <1>8 DEF DeleteExpiredLeases
  <2>2. r.at <= now
    BY <1>1 DEF Leasing
  <2>3. \A x \in reads \cup answers : Kept(x, leases, now) => Kept(x, leases', now)
    BY <1>2, <2>1, <2>2, UnexpiredIsKept
  <2>4. QED
    BY <1>7, <2>1, <2>3
<1>9. ASSUME NEW r \in reads, LeaseFails(r)
      PROVE  Leasing'
  BY <1>7, <1>9 DEF LeaseFails
<1>10. CASE UNCHANGED <<now, reader>>
  BY <1>1, <1>10 DEF Leasing, reader
<1>11. CASE \/ Upload \/ UploadTimesOut \/ (\E s \in Times : UploadStep(s)) \/ ReadNothing
            \/ (\E c \in Clients : PostStep(c)) \/ UNCHANGED vars
  BY <1>10, <1>11, OthersRest
  DEF Upload, UploadTimesOut, UploadStep, UploadFails, SaveSnapshot, SaveTrading,
      UpdateOutcomes, OutcomesFail, ReadNothing, vars
<1>12. QED
  BY <1>1, <1>4, <1>5, <1>6, <1>8, <1>9, <1>11 DEF Next

\* In whatever order leases are written and expired ones deleted: a snapshot
\* that was handed out and leased can be promoted for the whole time to live.
THEOREM LeaseOutlives == Spec => []LeaseOutlivesRead
<1>1. Init => TypeOK /\ Ready /\ Leasing
  BY TypeInit, LeasingInit
<1>2. TypeOK /\ Ready /\ Leasing /\ [Next]_vars => TypeOK' /\ Ready' /\ Leasing'
  BY TypeNext, ReadyNext, LeasingNext
<1>3. TypeOK /\ Leasing => LeaseOutlivesRead
  <2>1. SUFFICES ASSUME TypeOK, Leasing, NEW a \in answers, a.leased, now <= a.at + LeaseTtl
                 PROVE  leases[a.snap] # Nothing
    BY DEF LeaseOutlivesRead
  <2>2. /\ a.snap \in Times /\ a.at \in Times /\ now \in Times
        /\ leases[a.snap] \in Optional
    BY <2>1, ReadsTyped
  <2>3. Kept(a, leases, now)
    BY <2>1 DEF Leasing
  <2>4. /\ a.at \in Nat \ {0} /\ now \in Nat /\ leases[a.snap] \in Nat
        /\ LeaseTtl \in Nat /\ Nothing = 0
    BY <2>2, TimesAreNumbers
  <2>5. QED
    BY <2>1, <2>3, <2>4 DEF Kept
<1>4. QED
  BY <1>1, <1>2, <1>3, PTL DEF Spec
-----------------------------------------------------------------------------
(***************************************************************************)
(* Outcomes.                                                               *)
(***************************************************************************)
\* The extremes of a longer horizon cover those of a shorter one.
Nested(row) ==
  \A h, k \in Horizons : h < k =>
    /\ row.high[h] <= row.high[k]
    /\ row.low[h] = 0 \/ (row.low[k] # 0 /\ row.low[k] <= row.low[h])

\* The return of a longer horizon is not observed before that of a shorter one.
Sequenced(row) ==
  \A h, k \in Horizons : h < k =>
    (row.return[k] # Nothing => row.return[h] \in 1 .. row.return[k])

\* A snapshot that was old enough for a horizon has been taken for its return,
\* if it was taken for any: why a late upload comes between no two returns.
Observed(row) ==
  \A h, k \in Horizons :
    row.return[h] # Nothing /\ row.return[h] >= row.snap + k => row.return[k] # Nothing

Ordered(row) == \A i, j \in 1 .. Len(row.path) : i < j => row.path[i] < row.path[j]

Complete(row) == row.final # Nothing => \A h \in Horizons : row.return[h] # Nothing

Consistent(row) ==
  Nested(row) /\ Sequenced(row) /\ Observed(row) /\ Ordered(row) /\ Complete(row)

Sampled == \A d \in Decisions : outcomes[d] # NoRow => Consistent(outcomes[d])

\* What the action property says of one row.
Grows(old, new) ==
  /\ new.snap = old.snap
  /\ \A h \in Horizons : old.return[h] \in {Nothing, new.return[h]}
  /\ \E n \in 0 .. 1 : SubSeq(new.path, 1, Len(new.path) - n) = old.path
  /\ old.final # Nothing => new = old

\* Horizons and marks are numbers.
LEMMA HorizonsAreNumbers ==
  /\ Horizons \subseteq Nat /\ (\A s \in Times : Mark[s] \in Nat /\ Mark[s] > 0)
BY DecisionStoreAssumption

\* Nothing has been sampled in a new outcome.
LEMMA NewIsConsistent == \A s \in Times : Consistent(NewOutcome(s))
BY DEF Consistent, Nested, Sequenced, Observed, Ordered, Complete, NewOutcome, Nothing

\* Samples that come late, or out of order, keep the rows consistent.
LEMMA FollowedConsistent ==
  ASSUME NEW row \in OutcomeRows, NEW s \in Times, row.snap < s, Consistent(row)
  PROVE  Consistent(Followed(row, s))
<1> DEFINE new == Followed(row, s)
           age == s - row.snap
<1>1. /\ new \in OutcomeRows /\ new.snap = row.snap
      /\ \A h \in Horizons :
           /\ new.high[h] = IF age <= h /\ (row.high[h] = 0 \/ Mark[s] > row.high[h])
                            THEN Mark[s] ELSE row.high[h]
           /\ new.low[h] = IF age <= h /\ (row.low[h] = 0 \/ Mark[s] < row.low[h])
                           THEN Mark[s] ELSE row.low[h]
           /\ new.return[h] = IF row.return[h] = Nothing /\ age >= h
                              THEN s ELSE row.return[h]
      /\ new.path = IF PathDue(row, s) THEN Append(row.path, s) ELSE row.path
      /\ new.final = IF FinalAge(age) THEN s ELSE row.final
  BY FollowedFields
<1>2. /\ row.snap \in Nat /\ s \in Nat /\ s > 0 /\ age \in Nat /\ age = s - row.snap
      /\ Nothing = 0 /\ Mark[s] \in Nat /\ Mark[s] > 0 /\ Horizons \subseteq Nat
      /\ \A h \in Horizons : /\ row.high[h] \in Nat /\ row.low[h] \in Nat
                             /\ row.return[h] \in Optional
      /\ row.path \in Seq(Times)
  <2>1. /\ row.snap \in Times /\ row.path \in Seq(Times)
        /\ \A h \in Horizons : /\ row.high[h] \in Nat /\ row.low[h] \in Nat
                               /\ row.return[h] \in Optional
    BY DEF OutcomeRows
  <2>2. /\ row.snap \in Nat /\ s \in Nat /\ s > 0 /\ Nothing = 0
    <3>1. \A n \in Times : n \in Nat /\ n > 0
      BY TimesAreNumbers
    <3>2. QED
      BY <2>1, <3>1 DEF Nothing
  <2>3. age \in Nat /\ age = s - row.snap
    BY <2>2
  <2>4. Mark[s] \in Nat /\ Mark[s] > 0 /\ Horizons \subseteq Nat
    BY HorizonsAreNumbers
  <2> HIDE DEF age
  <2>5. QED
    BY <2>1, <2>2, <2>3, <2>4
<1>3. \A h \in Horizons : row.return[h] \in Nat
  BY <1>2, TimesAreNumbers
<1> HIDE DEF new, age
<1>4. Nested(new)
  <2>1. SUFFICES ASSUME NEW h \in Horizons, NEW k \in Horizons, h < k
                 PROVE  /\ new.high[h] <= new.high[k]
                        /\ new.low[h] = 0 \/ (new.low[k] # 0 /\ new.low[k] <= new.low[h])
    BY DEF Nested
  <2>2. /\ row.high[h] <= row.high[k]
        /\ row.low[h] = 0 \/ (row.low[k] # 0 /\ row.low[k] <= row.low[h])
        /\ age <= h => age <= k
    BY <1>2, <2>1 DEF Consistent, Nested
  <2>3. new.high[h] <= new.high[k]
    BY <1>1, <1>2, <2>2
  <2>4. new.low[h] = 0 \/ (new.low[k] # 0 /\ new.low[k] <= new.low[h])
    BY <1>1, <1>2, <2>2
  <2>5. QED
    BY <2>3, <2>4
<1>5. Sequenced(new)
  <2>1. SUFFICES ASSUME NEW h \in Horizons, NEW k \in Horizons, h < k,
                        new.return[k] # Nothing
                 PROVE  new.return[h] \in 1 .. new.return[k]
    BY DEF Sequenced
  <2>2. h \in Nat /\ k \in Nat
    BY <1>2
  <2>3. CASE row.return[k] # Nothing
    <3>1. row.return[h] \in 1 .. row.return[k]
      BY <2>1, <2>3 DEF Consistent, Sequenced
    <3>2. row.return[h] # Nothing
      BY <1>2, <1>3, <3>1
    <3>3. new.return[k] = row.return[k] /\ new.return[h] = row.return[h]
      BY <1>1, <2>3, <3>2
    <3>4. QED
      BY <3>1, <3>3
  <2>4. CASE row.return[k] = Nothing
    <3>1. new.return[k] = s /\ age >= k /\ age >= h
      BY <1>1, <1>2, <2>1, <2>2, <2>4
    <3>2. CASE row.return[h] = Nothing
      BY <1>1, <1>2, <3>1, <3>2
    <3>3. CASE row.return[h] # Nothing
      <4>1. new.return[h] = row.return[h]
        BY <1>1, <3>3
      <4>2. ~(row.return[h] >= row.snap + k)
        BY <2>4, <3>3 DEF Consistent, Observed
      <4>3. QED
        BY <1>2, <1>3, <2>2, <3>1, <3>3, <4>1, <4>2
    <3>4. QED
      BY <3>2, <3>3
  <2>5. QED
    BY <2>3, <2>4
<1>6. Observed(new)
  <2>1. SUFFICES ASSUME NEW h \in Horizons, NEW k \in Horizons, new.return[h] # Nothing,
                        new.return[h] >= new.snap + k
                 PROVE  new.return[k] # Nothing
    BY DEF Observed
  <2>2. CASE row.return[h] # Nothing
    <3>1. new.return[h] = row.return[h] /\ row.return[h] >= row.snap + k
      BY <1>1, <2>1, <2>2
    <3>2. row.return[k] # Nothing
      BY <2>2, <3>1 DEF Consistent, Observed
    <3>3. QED
      BY <1>1, <3>2
  <2>3. CASE row.return[h] = Nothing
    <3>1. new.return[h] = s /\ s >= row.snap + k
      BY <1>1, <2>1, <2>3
    <3>2. age >= k
      BY <1>2, <3>1
    <3>3. QED
      BY <1>1, <1>2, <3>2
  <2>4. QED
    BY <2>2, <2>3
<1>7. Ordered(new)
  <2>1. CASE ~PathDue(row, s)
    BY <1>1, <2>1 DEF Consistent, Ordered
  <2>2. CASE PathDue(row, s)
    <3>1. new.path = Append(row.path, s) /\ Ordered(row)
      BY <1>1, <2>2 DEF Consistent
    <3>2. Len(row.path) \in Nat /\ \A i \in 1 .. Len(row.path) : row.path[i] \in Nat
      BY <1>2, TimesAreNumbers, ElementOfSeq
    <3>3. /\ Len(new.path) = Len(row.path) + 1
          /\ \A i \in 1 .. Len(row.path) : new.path[i] = row.path[i]
          /\ new.path[Len(row.path) + 1] = s
      BY <1>2, <3>1, AppendProperties
    <3>4. \A i \in 1 .. Len(row.path) : row.path[i] < s
      <4>1. SUFFICES ASSUME NEW i \in 1 .. Len(row.path)
                     PROVE  row.path[i] < s
        OBVIOUS
      <4>2. row.path # <<>> /\ Len(row.path) \in 1 .. Len(row.path)
        BY <3>2
      <4>3. row.path[Len(row.path)] < s
        BY <1>2, <2>2, <3>2, <4>2 DEF PathDue
      <4>4. row.path[i] <= row.path[Len(row.path)]
        BY <3>1, <3>2, <4>2 DEF Ordered
      <4>5. QED
        BY <1>2, <3>2, <4>2, <4>3, <4>4
    <3>5. QED
      BY <3>1, <3>2, <3>3, <3>4 DEF Ordered
  <2>3. QED
    BY <2>1, <2>2
<1>8. Complete(new)
  <2>1. CASE FinalAge(age)
    <3>1. \A h \in Horizons : age >= h
      BY <1>2, <2>1, LongestHorizon DEF FinalAge
    <3>2. QED
      BY <1>1, <1>2, <3>1 DEF Complete
  <2>2. CASE ~FinalAge(age)
    BY <1>1, <2>2 DEF Consistent, Complete
  <2>3. QED
    BY <2>1, <2>2
<1>9. QED
  BY <1>4, <1>5, <1>6, <1>7, <1>8 DEF Consistent, new

\* An update adds to a row that is not finalized, and takes nothing from it.
LEMMA FollowedGrows ==
  ASSUME NEW row \in OutcomeRows, NEW s \in Times, row.final = Nothing
  PROVE  Grows(row, Followed(row, s))
<1> DEFINE new == Followed(row, s)
<1>1. /\ new.snap = row.snap
      /\ \A h \in Horizons : row.return[h] \in {Nothing, new.return[h]}
      /\ new.path = IF PathDue(row, s) THEN Append(row.path, s) ELSE row.path
  BY FollowedFields
<1>2. row.path \in Seq(Times)
  BY DEF OutcomeRows
<1> HIDE DEF new
<1>3. \E n \in 0 .. 1 : SubSeq(new.path, 1, Len(new.path) - n) = row.path
  <2>1. CASE PathDue(row, s)
    <3>1. /\ new.path \in Seq(Times) /\ Len(new.path) = Len(row.path) + 1
          /\ \A i \in 1 .. Len(row.path) : new.path[i] = row.path[i]
      BY <1>1, <1>2, <2>1, AppendProperties
    <3> DEFINE before == SubSeq(new.path, 1, Len(row.path))
    <3>2. /\ before \in Seq(Times) /\ Len(before) = Len(row.path)
          /\ \A i \in 1 .. Len(row.path) : before[i] = row.path[i]
      BY <1>2, <3>1
    <3> HIDE DEF before
    <3>3. before = row.path
      BY <1>2, <3>2, SeqEqual
    <3>4. Len(new.path) - 1 = Len(row.path)
      BY <1>2, <3>1
    <3>5. SubSeq(new.path, 1, Len(new.path) - 1) = row.path
      BY <3>3, <3>4 DEF before
    <3>6. QED
      BY <3>5
  <2>2. CASE ~PathDue(row, s)
    <3>1. SubSeq(row.path, 1, Len(row.path)) = row.path
      BY <1>2, SubSeqFull
    <3>2. QED
      BY <1>1, <1>2, <2>2, <3>1
  <2>3. QED
    BY <2>1, <2>2
<1>4. QED
  BY <1>1, <1>3 DEF Grows, new

\* What a step does to the outcome row of a decision: nothing, or the row is
\* created, or a row that is not finalized follows a later snapshot.
LEMMA OutcomeMoves ==
  ASSUME TypeOK, [Next]_vars, NEW d \in Decisions
  PROVE  \/ outcomes'[d] = outcomes[d]
         \/ outcomes[d] = NoRow /\ \E s \in Times : outcomes'[d] = NewOutcome(s)
         \/ /\ outcomes[d] \in OutcomeRows /\ outcomes[d].final = Nothing
            /\ \E s \in Times : /\ outcomes[d].snap < s
                                /\ outcomes'[d] = Followed(outcomes[d], s)
<1>1. outcomes \in [Decisions -> OutcomeRows \cup {NoRow}]
  BY DEF TypeOK
<1>2. CASE UNCHANGED outcomes
  BY <1>2
<1>3. ASSUME NEW s \in Times, UpdateOutcomes(s)
      PROVE  \/ outcomes'[d] = outcomes[d]
             \/ /\ outcomes[d] \in OutcomeRows /\ outcomes[d].final = Nothing
                /\ outcomes[d].snap < s /\ outcomes'[d] = Followed(outcomes[d], s)
  <2>1. outcomes'[d] = IF Pending(outcomes[d], s) THEN Followed(outcomes[d], s)
                       ELSE outcomes[d]
    BY <1>3 DEF UpdateOutcomes
  <2>2. CASE Pending(outcomes[d], s)
    BY <1>1, <2>1, <2>2 DEF Pending
  <2>3. CASE ~Pending(outcomes[d], s)
    BY <2>1, <2>3
  <2>4. QED
    BY <2>2, <2>3
<1>4. ASSUME NEW c \in Clients, SaveOutcome(c)
      PROVE  \/ outcomes'[d] = outcomes[d]
             \/ outcomes[d] = NoRow /\ \E s \in Times : outcomes'[d] = NewOutcome(s)
  <2> DEFINE e == post[c].decision
  <2>1. post[c] \in Posts
    BY <1>4, AtPosts DEF SaveOutcome
  <2>2. post[c].snap \in Times
    BY <2>1 DEF Posts
  <2>3. outcomes' = IF outcomes[e] # NoRow THEN outcomes
                    ELSE [outcomes EXCEPT ![e] = NewOutcome(post[c].snap)]
    BY <1>4 DEF SaveOutcome
  <2> HIDE DEF e
  <2>4. CASE d = e /\ outcomes[e] = NoRow
    BY <1>1, <2>2, <2>3, <2>4
  <2>5. CASE ~ (d = e /\ outcomes[e] = NoRow)
    BY <1>1, <2>3, <2>5
  <2>6. QED
    BY <2>4, <2>5
<1>5. CASE \E s \in Times : UpdateOutcomes(s)
  BY <1>3, <1>5
<1>6. CASE \E c \in Clients : PostStep(c)
  BY <1>2, <1>4, <1>6, OthersRest
<1>7. CASE ~ \/ \E s \in Times : UpdateOutcomes(s)
             \/ \E c \in Clients : PostStep(c)
  <2>1. UNCHANGED outcomes
    BY <1>7 DEF Next, UploadStep, vars, Tick, Upload, UploadTimesOut, UploadFails,
         SaveSnapshot, SaveTrading, OutcomesFail, Read, ReadNothing, SaveLease,
         DeleteExpiredLeases, LeaseFails, Answered
  <2>2. QED
    BY <1>2, <2>1
<1>8. QED
  BY <1>5, <1>6, <1>7

LEMMA SampledInit == Init => Sampled
BY DEF Init, Sampled

LEMMA SampledNext == TypeOK /\ Sampled /\ [Next]_vars => Sampled'
<1>1. SUFFICES ASSUME TypeOK, Sampled, [Next]_vars,
                      NEW d \in Decisions, outcomes'[d] # NoRow
               PROVE  Consistent(outcomes'[d])
  BY DEF Sampled
<1>2. CASE outcomes'[d] = outcomes[d]
  BY <1>1, <1>2 DEF Sampled
<1>3. ASSUME NEW s \in Times, outcomes'[d] = NewOutcome(s)
      PROVE  Consistent(outcomes'[d])
  BY <1>3, NewIsConsistent
<1>4. ASSUME NEW s \in Times, outcomes[d] \in OutcomeRows, outcomes[d].snap < s,
             outcomes'[d] = Followed(outcomes[d], s)
      PROVE  Consistent(outcomes'[d])
  <2>1. Consistent(outcomes[d])
    BY <1>1, <1>4, RowsAreRows DEF Sampled
  <2>2. QED
    BY <1>4, <2>1, FollowedConsistent
<1>5. QED
  BY <1>1, <1>2, <1>3, <1>4, OutcomeMoves

\* The action property, for the step that is taken.
LEMMA OutcomeGrows ==
  ASSUME TypeOK, [Next]_vars, NEW d \in Decisions, outcomes[d] # NoRow
  PROVE  Grows(outcomes[d], outcomes'[d])
<1>1. outcomes[d] \in OutcomeRows
  BY DEF TypeOK
<1>2. CASE outcomes'[d] = outcomes[d]
  <2>1. outcomes[d].path \in Seq(Times)
    BY <1>1 DEF OutcomeRows
  <2>2. SubSeq(outcomes[d].path, 1, Len(outcomes[d].path) - 0) = outcomes[d].path
    BY <2>1, SubSeqFull
  <2>3. QED
    BY <1>2, <2>2 DEF Grows
<1>3. ASSUME outcomes[d].final = Nothing, NEW s \in Times,
             outcomes'[d] = Followed(outcomes[d], s)
      PROVE  Grows(outcomes[d], outcomes'[d])
  BY <1>1, <1>3, FollowedGrows
<1>4. QED
  BY <1>2, <1>3, OutcomeMoves

\* Whatever the order in which uploads are served, and whichever of them fail to
\* update the outcomes: a row is consistent, its observations are never taken
\* back, and a finalized row never changes.
THEOREM OutcomesAreSound == Spec => OutcomesHold
<1>1. Init => TypeOK /\ Ready /\ Sampled
  BY TypeInit, SampledInit
<1>2. TypeOK /\ Ready /\ Sampled /\ [Next]_vars => TypeOK' /\ Ready' /\ Sampled'
  BY TypeNext, ReadyNext, SampledNext
<1>3. Sampled => OutcomeConsistent
  BY DEF Sampled, Consistent, Nested, Sequenced, Ordered, Complete, OutcomeConsistent
<1>4. TypeOK /\ [Next]_vars =>
        [\A d \in Decisions : outcomes[d] # NoRow =>
           /\ outcomes'[d].snap = outcomes[d].snap
           /\ \A h \in Horizons :
                outcomes[d].return[h] \in {Nothing, outcomes'[d].return[h]}
           /\ \E n \in 0..1 :
                SubSeq(outcomes'[d].path, 1, Len(outcomes'[d].path) - n) = outcomes[d].path
           /\ outcomes[d].final # Nothing => outcomes'[d] = outcomes[d]]_vars
  BY OutcomeGrows DEF Grows
<1>5. QED
  BY <1>1, <1>2, <1>3, <1>4, PTL DEF Spec, OutcomesHold, OutcomeOnlyGrows
=============================================================================
