------------------------------ MODULE CrossMarket ------------------------------
(***************************************************************************)
(* How the relay worker answers with the prices of other venues            *)
(* (worker/src/phase17-cross-market.ts): from one stored row while it is   *)
(* fresh, from the venues otherwise, and from an older row if no venue     *)
(* answers.  Requests run at the same time: each reads the row when it     *)
(* begins and writes it after it has asked the venues.                     *)
(***************************************************************************)
EXTENDS Integers, FiniteSets

CONSTANTS
  None,         \* null
  Assets,       \* ASSETS
  Outcomes,     \* bound: what the venues may answer for, as [Venues -> SUBSET Assets]
  Askers,       \* bound: requests at a time
  CacheTtl,     \* CACHE_TTL_MS
  FallbackAge,  \* FALLBACK_MAX_AGE_MS
  FetchTime,    \* twice FETCH_TIMEOUT_MS: one venue is asked after the other
  LastMoment,   \* bound: the clock
  MaxDbFaults   \* bound: statements of the database that fail

Venues == {"binanceUsdm", "coinbaseSpot"}

VARIABLES
  time,
  row,       \* cross_market_latest
  asked,     \* per asker: its request
  shown,     \* history: the latest data any request was answered with
  dbFaults   \* history: statements that failed

vars == <<time, row, asked, shown, dbFaults>>

\* buildCrossMarketContext: when the venues were asked, and what they answered for
Context == [at : 0 .. LastMoment, quotes : [Venues -> SUBSET Assets]]
Empty(at) == [at |-> at, quotes |-> [v \in Venues |-> {}]]
IsEmpty(context) == context = Empty(context.at)

\* sourceStatus, and CACHED of a stored context
SourceStatus(context, venue, cached) ==
  IF cached THEN "CACHED"
  ELSE CASE context.quotes[venue] = Assets -> "NORMAL"
         [] context.quotes[venue] = {}     -> "UNAVAILABLE"
         [] OTHER                          -> "PARTIAL"

\* crossVenueSpreadBps and the relative performances that can be computed
Spreads(context) == {a \in Assets : \A v \in Venues : a \in context.quotes[v]}
RelativeReturns(context, base) ==
  {pair \in Venues \X (Assets \ {base}) : {pair[2], base} \subseteq context.quotes[pair[1]]}

\* now: the time a request is for; cached: the row it read; since: what had been
\* shown when it began; began: when the venues were asked
Idle == [phase |-> "idle", now |-> 0, cached |-> None, since |-> None, began |-> 0,
         answer |-> None, isCached |-> FALSE]

Init ==
  /\ time = 0
  /\ row = None
  /\ asked = [r \in Askers |-> Idle]
  /\ shown = None
  /\ dbFaults = 0
-----------------------------------------------------------------------------
Later(a, b) == IF a = None THEN b ELSE IF b = None \/ a >= b THEN a ELSE b

\* A response; one without any price shows nothing.
Answer(r, context, cached) ==
  /\ asked' = [asked EXCEPT ![r].phase = "answered", ![r].answer = context,
                            ![r].isCached = cached, ![r].began = 0]
  /\ shown' = IF IsEmpty(context) THEN shown ELSE Later(shown, context.at)

\* A request begins: its time is taken before its first await.
Ask(r) ==
  /\ asked[r].phase \in {"idle", "answered"}
  /\ asked' = [asked EXCEPT ![r] = [Idle EXCEPT !.phase = "loading", !.now = time, !.since = shown]]
  /\ UNCHANGED <<time, row, shown, dbFaults>>

\* loadCached, and what is decided of it; null if the database fails
Load(r) ==
  /\ asked[r].phase = "loading"
  /\ \E cached \in {row, None} :
       /\ cached # row => dbFaults < MaxDbFaults
       /\ dbFaults' = IF cached # row THEN dbFaults + 1 ELSE dbFaults
       /\ IF cached # None /\ asked[r].now - cached.at <= CacheTtl
          THEN Answer(r, cached, TRUE)
          ELSE /\ asked' = [asked EXCEPT ![r].phase = "fetching", ![r].cached = cached,
                                         ![r].began = time]
               /\ UNCHANGED shown
  /\ UNCHANGED <<time, row>>

\* Nothing was fetched: the row that was read, if it is not too old
FallBack(r, fresh) ==
  LET cached == asked[r].cached
  IN  IF cached # None /\ asked[r].now - cached.at <= FallbackAge
      THEN Answer(r, cached, TRUE) ELSE Answer(r, fresh, FALSE)

\* Promise.allSettled, twice
FetchEnds(r) ==
  /\ asked[r].phase = "fetching"
  /\ \E quotes \in Outcomes :
       LET fresh == [at |-> asked[r].now, quotes |-> quotes]
       IN  IF IsEmpty(fresh) THEN FallBack(r, fresh)
           ELSE /\ asked' = [asked EXCEPT ![r].phase = "saving", ![r].answer = fresh]
                /\ UNCHANGED shown
  /\ UNCHANGED <<time, row, dbFaults>>

\* ON CONFLICT(id) DO UPDATE .. WHERE excluded.generated_at >= ..
Stored(old, fresh) == IF old # None /\ old.at > fresh.at THEN old ELSE fresh

\* saveCached; a failure is not told.
Save(r) ==
  /\ asked[r].phase = "saving"
  /\ \/ row' = Stored(row, asked[r].answer) /\ UNCHANGED dbFaults
     \/ dbFaults < MaxDbFaults /\ dbFaults' = dbFaults + 1 /\ UNCHANGED row
  /\ Answer(r, asked[r].answer, FALSE)
  /\ UNCHANGED time

\* The venues have their time-outs, the database has none.
TimePasses ==
  /\ time < LastMoment
  /\ \A r \in Askers : asked[r].phase = "fetching" => time < asked[r].began + FetchTime
  /\ time' = time + 1
  /\ UNCHANGED <<row, asked, shown, dbFaults>>

Next == TimePasses \/ \E r \in Askers : Ask(r) \/ Load(r) \/ FetchEnds(r) \/ Save(r)

Spec == Init /\ [][Next]_vars
-----------------------------------------------------------------------------
Answered(r) == asked[r].phase = "answered"

\* A request that began after another one was answered is not answered with
\* older data, unless the database failed in between (loadCached, saveCached).
AnswersAdvance ==
  \A r \in Askers :
    Answered(r) /\ dbFaults = 0 /\ ~IsEmpty(asked[r].answer) /\ asked[r].since # None =>
      asked[r].answer.at >= asked[r].since

\* Cached prices are told as such, and are never older than the limit when the
\* request begins; one that finds no price had none that was younger.
AnswersAreLabelled ==
  \A r \in Askers : Answered(r) =>
    LET answer == asked[r].answer
        status(v) == SourceStatus(answer, v, asked[r].isCached)
    IN  /\ asked[r].now - answer.at <= FallbackAge
        /\ answer.at # asked[r].now => \A v \in Venues : status(v) = "CACHED"
        /\ IsEmpty(answer) => asked[r].cached = None \/ asked[r].now - asked[r].cached.at > FallbackAge
        /\ \A base \in Assets : ~asked[r].isCached =>
             /\ Spreads(answer) # {} => \A v \in Venues : status(v) # "UNAVAILABLE"
             /\ \A pair \in RelativeReturns(answer, base) : status(pair[1]) \in {"NORMAL", "PARTIAL"}

\* The stored prices never go back in time.
RowAdvances == [][row # None => row' # None /\ row'.at >= row.at]_vars
=============================================================================
