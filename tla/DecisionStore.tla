---------------------------- MODULE DecisionStore ----------------------------
(***************************************************************************)
(* The relay worker's record of decisions (worker/src/index.ts, phase13.ts,*)
(* phase15-fingerprint.ts, phase16-replay.ts) and the uploader that feeds  *)
(* it (src/main/relay/uploader.ts): the app uploads a snapshot, a reader   *)
(* gets the latest one and leases it, and a decision recorded about it is  *)
(* logged, promoted to a replay case, and followed by the mark prices of   *)
(* later snapshots.                                                        *)
(*                                                                         *)
(* Requests run concurrently and the worker has no transactions: one       *)
(* action is one statement of one request.  A snapshot is known by the     *)
(* time it was generated at; the app generates at most one per tick.       *)
(***************************************************************************)
EXTENDS Naturals, Sequences, FiniteSetsExt

CONSTANTS
  Decisions,       \* decision ids
  Bodies,          \* the rest of what a record request says
  Clients,         \* who sends record requests
  MaxTime,         \* bound: ticks
  Bounds,          \* the bounds of a behaviour, see bound
  Mark,            \* the mark price of each snapshot
  Horizons,        \* OUTCOME_HORIZONS
  Grace,           \* OUTCOME_GRACE_MS
  Early,           \* age up to which the path takes a sample every tick
  LeaseTtl,        \* SNAPSHOT_LEASE_TTL_MS
  TradingSpacing   \* the ten seconds between two saved trading states

Times == 1..MaxTime
Nothing == 0
Optional == Times \cup {Nothing}

ASSUME DecisionStoreAssumption ==
  /\ {MaxTime, Grace, Early, LeaseTtl, TradingSpacing} \subseteq Nat
  /\ MaxTime > 0 /\ TradingSpacing > 0
  /\ Horizons # {} /\ IsFiniteSet(Horizons) /\ Horizons \subseteq Nat \ {0}
  /\ Mark \in [Times -> Nat \ {0}]
  /\ Bounds \subseteq [ticks : Times, uploading : Times, uploads : Nat, reads : Nat,
                       posts : Nat, bodies : SUBSET Bodies]

VARIABLES
  bound,        \* how many ticks, ticks with uploads, uploads served at once,
                \* reads and record requests a behaviour has, and which bodies
  now,
  posted,       \* record requests so far
  generated,    \* the app: the snapshot it generated last
  uploading,    \* the app: the upload it waits for
  acked,        \* the app: lastSnapshotGeneratedAt
  upload,       \* per snapshot, the statements its PUT has still to run
  latest,       \* table latest_snapshot
  trading,      \* table latest_trading_state
  reads,        \* GETs that have loaded the snapshot and not answered
  answers,      \* what the readers have been given
  leases,       \* table replay_snapshot_lease: leased_at of each row
  post,         \* the record request of each client
  log,          \* table decision_log
  prints,       \* table decision_market_fingerprint: whose fingerprint
  cases,        \* table replay_cases
  outcomes,     \* table replay_case_outcomes
  told          \* the decisions a client was told are captured

app == <<generated, uploading, acked>>
relay == <<upload, latest, trading>>
reader == <<reads, answers, leases>>
recorder == <<posted, post, log, prints, cases, told>>
vars == <<bound, now, app, relay, reader, recorder, outcomes>>

Statements == {"snapshot", "trading", "outcomes"}
Phases == {"lookup", "latest", "insert", "fingerprint", "lease", "case", "outcome"}
MaxHorizon == Max(Horizons)
NoRow == [snap |-> Nothing]
Idle == [pc |-> "idle"]

Reads == [snap : Times, at : Times, todo : {"lease", "cleanup"}]
Answers == [snap : Times, at : Times, leased : BOOLEAN]
Posts == [pc : Phases, decision : Decisions, snap : Times, body : Bodies, at : Times,
          acked : Optional, status : {"", "CURRENT", "SUPERSEDED"}, lease : Optional]
LogRows == [snap : Times, body : Bodies, at : Times, acked : Optional,
            status : {"CURRENT", "SUPERSEDED"}]
CaseRows == [snap : Times, leasedAt : Times, at : Times]
OutcomeRows ==
  [snap : Times, high : [Horizons -> Nat], low : [Horizons -> Nat],
   return : [Horizons -> Optional], path : Seq(Times), final : Optional]

TypeOK ==
  /\ bound \in Bounds
  /\ now \in Times
  /\ {generated, uploading, acked, latest, trading} \subseteq Optional
  /\ upload \in [Times -> SUBSET Statements]
  /\ leases \in [Times -> Optional]
  /\ reads \subseteq Reads
  /\ answers \subseteq Answers
  /\ posted \in 0..bound.posts
  /\ post \in [Clients -> Posts \cup {Idle}]
  /\ log \in [Decisions -> LogRows \cup {NoRow}]
  /\ prints \in [Decisions -> Optional]
  /\ cases \in [Decisions -> CaseRows \cup {NoRow}]
  /\ outcomes \in [Decisions -> OutcomeRows \cup {NoRow}]
  /\ told \subseteq Decisions

Init ==
  /\ bound \in Bounds
  /\ now = 1
  /\ generated = Nothing /\ uploading = Nothing /\ acked = Nothing
  /\ upload = [s \in Times |-> {}]
  /\ latest = Nothing /\ trading = Nothing
  /\ reads = {} /\ answers = {}
  /\ leases = [s \in Times |-> Nothing]
  /\ posted = 0
  /\ post = [c \in Clients |-> Idle]
  /\ log = [d \in Decisions |-> NoRow]
  /\ prints = [d \in Decisions |-> Nothing]
  /\ cases = [d \in Decisions |-> NoRow]
  /\ outcomes = [d \in Decisions |-> NoRow]
  /\ told = {}

Tick ==
  /\ now < bound.ticks
  /\ now' = now + 1
  /\ UNCHANGED <<bound, app, relay, reader, recorder, outcomes>>
-----------------------------------------------------------------------------
(***************************************************************************)
(* Uploads.  The app waits for one at a time and gives up on it after a    *)
(* while; the worker may serve it all the same, and then late.             *)
(***************************************************************************)
\* uploadOnce, up to its fetch
Upload ==
  /\ uploading = Nothing
  /\ now > generated /\ now <= bound.uploading
  /\ Cardinality({s \in Times : upload[s] # {}}) < bound.uploads
  /\ generated' = now
  /\ uploading' = now
  /\ upload' = [upload EXCEPT ![now] = Statements]
  /\ UNCHANGED <<bound, now, acked, latest, trading, reader, recorder, outcomes>>

\* the request times out or its answer is lost
UploadTimesOut ==
  /\ uploading # Nothing
  /\ uploading' = Nothing
  /\ UNCHANGED <<bound, now, generated, acked, relay, reader, recorder, outcomes>>

\* The request of snapshot s has run a statement; after the last it answers.
Ran(s, statement) ==
  LET left == upload[s] \ {statement} IN
  /\ upload' = [upload EXCEPT ![s] = left]
  /\ IF left = {} /\ uploading = s
     THEN acked' = s /\ uploading' = Nothing
     ELSE UNCHANGED <<acked, uploading>>
  /\ UNCHANGED generated

\* The request never arrives, a statement of save fails, or the worker is
\* ended: the app learns no more than that it failed.
UploadFails(s) ==
  /\ upload[s] # {}
  /\ upload' = [upload EXCEPT ![s] = {}]
  /\ uploading' = IF uploading = s THEN Nothing ELSE uploading
  /\ UNCHANGED <<bound, now, generated, acked, latest, trading, reader, recorder, outcomes>>

\* Mutant: the upsert has lost its WHERE.
LastWriteWins(row, s, spacing) == s

\* The row a timed upsert leaves: a snapshot replaces one it is at least
\* spacing newer than.
Upserted(row, s, spacing) == IF row = Nothing \/ s >= row + spacing THEN s ELSE row

\* save, its first statement
SaveSnapshot(s) ==
  /\ "snapshot" \in upload[s]
  /\ latest' = Upserted(latest, s, 0)
  /\ Ran(s, "snapshot")
  /\ UNCHANGED <<bound, now, trading, reader, recorder, outcomes>>

\* save, its second statement
SaveTrading(s) ==
  /\ "snapshot" \notin upload[s] /\ "trading" \in upload[s]
  /\ trading' = Upserted(trading, s, TradingSpacing)
  /\ Ran(s, "trading")
  /\ UNCHANGED <<bound, now, latest, reader, recorder, outcomes>>

\* Promise.allSettled: the task that updates outcomes fails, which nobody
\* notices
OutcomesFail(s) ==
  /\ "trading" \notin upload[s] /\ "outcomes" \in upload[s]
  /\ Ran(s, "outcomes")
  /\ UNCHANGED <<bound, now, latest, trading, reader, recorder, outcomes>>
-----------------------------------------------------------------------------
(***************************************************************************)
(* What a later snapshot adds to the outcome of a decision.  The moves in  *)
(* basis points grow with the price, which stands for them.                *)
(***************************************************************************)
\* the row a replay case starts with
NewOutcome(s) ==
  [snap |-> s, high |-> [h \in Horizons |-> 0], low |-> [h \in Horizons |-> 0],
   return |-> [h \in Horizons |-> Nothing], path |-> <<>>, final |-> Nothing]

\* pricePathAssignments: a sample is due when enough time has passed since the
\* last; samples are sparser later.
PathDue(row, s) ==
  /\ s - row.snap <= MaxHorizon
  /\ \/ row.path = <<>>
     \/ s >= row.path[Len(row.path)] + (IF s - row.snap <= Early THEN 1 ELSE 2)

\* the age an outcome is finalized at
FinalAge(age) == age >= MaxHorizon

\* horizonAssignments and the assignments around them, for a row older than s
Followed(row, s) ==
  LET age == s - row.snap
      seen(h) == age <= h
  IN [row EXCEPT
        !.high = [h \in Horizons |->
                    IF seen(h) /\ (@[h] = 0 \/ Mark[s] > @[h]) THEN Mark[s] ELSE @[h]],
        !.low = [h \in Horizons |->
                    IF seen(h) /\ (@[h] = 0 \/ Mark[s] < @[h]) THEN Mark[s] ELSE @[h]],
        !.return = [h \in Horizons |-> IF @[h] = Nothing /\ age >= h THEN s ELSE @[h]],
        !.path = IF PathDue(row, s) THEN Append(@, s) ELSE @,
        !.final = IF FinalAge(age) THEN s ELSE @]

\* Mutant: the WHERE does not ask for rows that are not finalized.
PendingOrFinal(row, s) == row # NoRow /\ row.snap < s /\ row.snap + MaxHorizon + Grace >= s

\* the WHERE of the update
Pending(row, s) ==
  /\ row # NoRow
  /\ row.final = Nothing
  /\ row.snap < s /\ row.snap + MaxHorizon + Grace >= s

\* updateReplayOutcomesFromSnapshot
UpdateOutcomes(s) ==
  /\ "trading" \notin upload[s] /\ "outcomes" \in upload[s]
  /\ outcomes' = [d \in Decisions |->
                    IF Pending(outcomes[d], s) THEN Followed(outcomes[d], s) ELSE outcomes[d]]
  /\ Ran(s, "outcomes")
  /\ UNCHANGED <<bound, now, latest, trading, reader, recorder>>
-----------------------------------------------------------------------------
(***************************************************************************)
(* Reads: GET of the snapshot or of the decision context.                  *)
(***************************************************************************)
\* The latest snapshot is loaded and the answer is made of it; the time of
\* the lease is taken.
Read ==
  /\ latest # Nothing
  /\ Cardinality(reads) + Cardinality(answers) < bound.reads
  /\ reads' = reads \cup {[snap |-> latest, at |-> now, todo |-> "lease"]}
  /\ UNCHANGED <<bound, now, app, relay, answers, leases, recorder, outcomes>>

\* 404
ReadNothing == latest = Nothing /\ UNCHANGED vars

\* Mutant: the upsert of a lease has lost its WHERE.
OverwriteLease(r) == [leases EXCEPT ![r.snap] = r.at]

\* the upsert of a lease
Leased(r) == [leases EXCEPT ![r.snap] = IF r.at >= @ THEN r.at ELSE @]

\* saveReplaySnapshotLease, its first statement
SaveLease(r) ==
  /\ r.todo = "lease"
  /\ leases' = Leased(r)
  /\ reads' = (reads \ {r}) \cup {[r EXCEPT !.todo = "cleanup"]}
  /\ UNCHANGED <<bound, now, app, relay, answers, recorder, outcomes>>

Answered(r) ==
  /\ reads' = reads \ {r}
  /\ answers' = answers \cup {[snap |-> r.snap, at |-> r.at, leased |-> r.todo = "cleanup"]}
  /\ UNCHANGED <<bound, now, app, relay, recorder, outcomes>>

\* The leases that have not expired at a time
Unexpired(rows, time) == [s \in Times |-> IF rows[s] + LeaseTtl < time THEN Nothing ELSE rows[s]]

\* saveReplaySnapshotLease, its second statement
DeleteExpiredLeases(r) ==
  /\ r.todo = "cleanup"
  /\ leases' = Unexpired(leases, r.at)
  /\ Answered(r)

\* A failing lease never blocks the answer.
LeaseFails(r) == Answered(r) /\ UNCHANGED leases
-----------------------------------------------------------------------------
(***************************************************************************)
(* recordDecision.                                                         *)
(***************************************************************************)
\* the request goes on
Goes(c, p) == post' = [post EXCEPT ![c] = p]

\* A client decides on an answer it was given, or repeats a request it does
\* not know the end of.
Post(c, d, a, body) ==
  /\ post[c] = Idle
  /\ posted < bound.posts
  /\ posted' = posted + 1
  /\ Goes(c, [pc |-> "lookup", decision |-> d, snap |-> a.snap, body |-> body, at |-> now,
              acked |-> acked, status |-> "", lease |-> Nothing])
  /\ UNCHANGED <<bound, now, app, relay, reader, log, prints, cases, told, outcomes>>

\* a rejected or failed request, one that is captured no further, or one whose
\* worker is ended
PostEnds(c) ==
  /\ post[c] # Idle
  /\ Goes(c, Idle)
  /\ UNCHANGED <<bound, now, app, relay, reader, posted, log, prints, cases, told, outcomes>>

At(c, phase) == post[c] # Idle /\ post[c].pc = phase

\* loadDecision: another body under the id is a conflict, the same one is
\* promoted with the time it was first recorded at
Lookup(c) ==
  LET row == log[post[c].decision] IN
  /\ At(c, "lookup")
  /\ IF row = NoRow
     THEN Goes(c, [post[c] EXCEPT !.pc = "latest"])
     ELSE IF row.snap = post[c].snap /\ row.body = post[c].body
     THEN Goes(c, [post[c] EXCEPT !.pc = "fingerprint", !.at = row.at])
     ELSE Goes(c, Idle)
  /\ UNCHANGED <<bound, now, app, relay, reader, posted, log, prints, cases, told, outcomes>>

SnapshotStatus(newest, p) == IF newest = p.snap THEN "CURRENT" ELSE "SUPERSEDED"

\* loadLatestSnapshot
LoadLatest(c) ==
  /\ At(c, "latest")
  /\ Goes(c, [post[c] EXCEPT !.pc = "insert", !.status = SnapshotStatus(latest, post[c])])
  /\ UNCHANGED <<bound, now, app, relay, reader, posted, log, prints, cases, told, outcomes>>

\* Mutant: an id that is taken meanwhile is no failure.
InsertOrIgnore(c) ==
  LET p == post[c] IN
  /\ At(c, "insert")
  /\ log' = IF log[p.decision] # NoRow THEN log
            ELSE [log EXCEPT ![p.decision] = [snap |-> p.snap, body |-> p.body, at |-> p.at,
                                              acked |-> p.acked, status |-> p.status]]
  /\ Goes(c, [p EXCEPT !.pc = "fingerprint"])
  /\ UNCHANGED <<bound, now, app, relay, reader, posted, prints, cases, told, outcomes>>

\* saveDecision; when the id is taken meanwhile the statement fails (PostEnds)
SaveDecision(c) ==
  LET p == post[c] IN
  /\ At(c, "insert")
  /\ log[p.decision] = NoRow
  /\ log' = [log EXCEPT ![p.decision] = [snap |-> p.snap, body |-> p.body, at |-> p.at,
                                         acked |-> p.acked, status |-> p.status]]
  /\ Goes(c, [p EXCEPT !.pc = "fingerprint"])
  /\ UNCHANGED <<bound, now, app, relay, reader, posted, prints, cases, told, outcomes>>

\* attachMarketFingerprintToDecision: the fingerprint of the decision's snapshot
\* is attached, unless none is cached any more or a statement fails
AttachFingerprint(c) ==
  LET p == post[c] IN
  /\ At(c, "fingerprint")
  /\ \E attached \in BOOLEAN :
       prints' = IF attached THEN [prints EXCEPT ![p.decision] = p.snap] ELSE prints
  /\ Goes(c, [p EXCEPT !.pc = "lease"])
  /\ UNCHANGED <<bound, now, app, relay, reader, posted, log, cases, told, outcomes>>

\* attachReplayCaseToDecision, up to its first insert
LoadLease(c) ==
  LET p == post[c] IN
  /\ At(c, "lease")
  /\ leases[p.snap] # Nothing
  /\ Goes(c, [p EXCEPT !.pc = "case", !.lease = leases[p.snap]])
  /\ UNCHANGED <<bound, now, app, relay, reader, posted, log, prints, cases, told, outcomes>>

\* the insert of the replay case, ON CONFLICT DO NOTHING
SaveCase(c) ==
  LET p == post[c] IN
  /\ At(c, "case")
  /\ cases' = IF cases[p.decision] # NoRow THEN cases
              ELSE [cases EXCEPT ![p.decision] =
                      [snap |-> p.snap, leasedAt |-> p.lease, at |-> p.at]]
  /\ Goes(c, [p EXCEPT !.pc = "outcome"])
  /\ UNCHANGED <<bound, now, app, relay, reader, posted, log, prints, told, outcomes>>

\* the insert of its outcome, ON CONFLICT DO NOTHING, and the answer
SaveOutcome(c) ==
  LET d == post[c].decision IN
  /\ At(c, "outcome")
  /\ outcomes' = IF outcomes[d] # NoRow THEN outcomes
                 ELSE [outcomes EXCEPT ![d] = NewOutcome(post[c].snap)]
  /\ told' = told \cup {d}
  /\ Goes(c, Idle)
  /\ UNCHANGED <<bound, now, app, relay, reader, posted, log, prints, cases>>
-----------------------------------------------------------------------------
PostStep(c) ==
  \/ \E d \in Decisions, a \in answers, body \in bound.bodies : Post(c, d, a, body)
  \/ PostEnds(c)
  \/ Lookup(c) \/ LoadLatest(c) \/ SaveDecision(c) \/ AttachFingerprint(c)
  \/ LoadLease(c) \/ SaveCase(c) \/ SaveOutcome(c)

UploadStep(s) ==
  \/ UploadFails(s) \/ SaveSnapshot(s) \/ SaveTrading(s)
  \/ UpdateOutcomes(s) \/ OutcomesFail(s)

Next ==
  \/ Tick
  \/ Upload \/ UploadTimesOut
  \/ \E s \in Times : UploadStep(s)
  \/ Read \/ ReadNothing
  \/ \E r \in reads : SaveLease(r) \/ DeleteExpiredLeases(r) \/ LeaseFails(r)
  \/ \E c \in Clients : PostStep(c)

Spec == Init /\ [][Next]_vars
-----------------------------------------------------------------------------
\* What the app was told is stored, and the trading state it uploaded with it
\* is at most ten seconds behind, however late older uploads are served
\* (index.ts, save).
AcknowledgedIsStored ==
  acked # Nothing => latest >= acked /\ trading + TradingSpacing > acked

\* A decision logged as made on the current snapshot was: no newer upload had
\* been acknowledged when it was recorded.  One logged as superseded really was
\* (phase13.ts, recordDecision).
StatusIsTrue ==
  \A d \in Decisions : log[d] # NoRow =>
    /\ log[d].status = "CURRENT" => log[d].snap >= log[d].acked
    /\ log[d].status = "SUPERSEDED" => log[d].snap < latest

\* Both: what was acknowledged is stored, and decisions are judged by it.
UploadsAreHonoured == AcknowledgedIsStored /\ StatusIsTrue

\* The replay case, the outcome and the fingerprint filed under a decision are
\* of the snapshot and the time of the decision that is logged under that id,
\* even when two different ones were sent for it at once.
CaseMatchesDecision ==
  \A d \in Decisions :
    /\ cases[d] # NoRow => log[d] # NoRow /\ cases[d].snap = log[d].snap
                                          /\ cases[d].at = log[d].at
    /\ outcomes[d] # NoRow => cases[d] # NoRow /\ outcomes[d].snap = cases[d].snap
    /\ prints[d] # Nothing => log[d] # NoRow /\ prints[d] = log[d].snap

\* replayCaseCaptured in an answer is true only when the case and the outcome
\* row that later snapshots fill are both there, though an earlier try may have
\* been cut short between the two.
CapturedIsEvaluable ==
  \A d \in told : cases[d] # NoRow /\ outcomes[d] # NoRow

\* Both: what is filed under a decision is its own, and all there.
CaseIsOfDecision == CaseMatchesDecision /\ CapturedIsEvaluable

\* A snapshot that was handed out and leased can be promoted for the whole time
\* to live, though leases are written out of order and expired ones deleted.
LeaseOutlivesRead ==
  \A a \in answers : a.leased /\ now <= a.at + LeaseTtl => leases[a.snap] # Nothing

\* Samples are nested: the extremes of a longer horizon cover those of a
\* shorter one and its return is not observed earlier; the path is in order;
\* and a finalized outcome has the return of every horizon, even when snapshots
\* are served late and out of order.
OutcomeConsistent ==
  \A d \in Decisions : outcomes[d] # NoRow =>
    LET row == outcomes[d] IN
    /\ \A h, k \in Horizons : h < k =>
         /\ row.high[h] <= row.high[k]
         /\ row.low[h] = 0 \/ (row.low[k] # 0 /\ row.low[k] <= row.low[h])
         /\ row.return[k] # Nothing => row.return[h] \in 1..row.return[k]
    /\ \A i, j \in 1..Len(row.path) : i < j => row.path[i] < row.path[j]
    /\ row.final # Nothing => \A h \in Horizons : row.return[h] # Nothing

\* An outcome is written forward only: a return once observed stays, the path is
\* extended, and a finalized row never changes.
OutcomeOnlyGrows ==
  [][\A d \in Decisions : outcomes[d] # NoRow =>
       /\ outcomes'[d].snap = outcomes[d].snap
       /\ \A h \in Horizons :
            outcomes[d].return[h] \in {Nothing, outcomes'[d].return[h]}
       /\ \E n \in 0..1 :
            SubSeq(outcomes'[d].path, 1, Len(outcomes'[d].path) - n) = outcomes[d].path
       /\ outcomes[d].final # Nothing => outcomes'[d] = outcomes[d]]_vars

\* Both: outcomes are consistent, and written forward only.
OutcomesHold == []OutcomeConsistent /\ OutcomeOnlyGrows
=============================================================================
