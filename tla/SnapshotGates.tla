---------------------------- MODULE SnapshotGates ----------------------------
(***************************************************************************)
(* What a snapshot permits: the health of the sources in MarketCache       *)
(* (market/cache.ts), the gates that generateSnapshot derives from it      *)
(* (market/snapshot.ts), and what is left of them when the relay worker    *)
(* serves the snapshot at some age (worker/src/relay-freshness.ts, and the *)
(* same steps once more in worker/src/index.ts).                           *)
(*                                                                         *)
(* Times are whole seconds.                                                *)
(***************************************************************************)
EXTENDS Integers, FiniteSetsExt

CONSTANT None   \* null

MarketCritical == {"market", "bookTicker", "trades", "candle:1m", "candle:5m"}
EntryCritical  == MarketCritical \cup {"depth", "openInterest", "candle:15m", "candle:1h"}
Required       == EntryCritical \cup {"candle:3m", "candle:30m", "candle:4h"}
Sources        == Required \cup {"liquidations", "statistics", "candle:1d", "candle:1w"}

\* The thresholds of sourceHealth: delayed above the first, stale above the second
Threshold(source) ==
  CASE source = "market"                  -> <<2, 5>>
    [] source \in {"depth", "bookTicker"} -> <<1, 3>>
    [] source = "trades"                  -> <<3, 10>>
    [] source = "openInterest"            -> <<30, 90>>
    [] source = "liquidations"            -> <<60, 300>>
    [] source = "statistics"              -> <<300, 900>>
    [] source \in {"candle:1d", "candle:1w"} -> <<12 * 3600, 36 * 3600>>
    [] OTHER                              -> <<20, 45>>

\* sourceHealth.  state.age: per source, None before its first message;
\* state.errors: the sources whose last message or answer was refused
SourceHealth(state, source) ==
  LET age == state.age[source] IN
  IF age = None THEN "INSUFFICIENT_DATA"
  ELSE IF age > Threshold(source)[2] THEN "STALE"
  ELSE IF source \in state.errors \/ age > Threshold(source)[1] THEN "DELAYED" ELSE "NORMAL"

\* health: the worst of the required sources
Health(state) ==
  LET statuses == {SourceHealth(state, s) : s \in Required} IN
  IF ~state.history THEN "INSUFFICIENT_DATA"
  ELSE IF "STALE" \in statuses THEN "STALE"
  ELSE IF "INSUFFICIENT_DATA" \in statuses THEN "INSUFFICIENT_DATA"
  ELSE IF "DELAYED" \in statuses THEN "DELAYED" ELSE "NORMAL"

\* degradedSources is empty.
AllNormal(state) ==
  /\ \A s \in Sources : SourceHealth(state, s) = "NORMAL"
  /\ state.errors = {} /\ state.connected = {"public", "market"}
  /\ state.account.configured => state.account.stream = "CONNECTED"

Unavailable(state, source) == SourceHealth(state, source) \in {"STALE", "INSUFFICIENT_DATA"}

\* The decisionGates and the analysisGate of a snapshot.  state.missing: the fields
\* that are null or too short, split in those of the market and those of an entry
Gates(state) ==
  LET skewed  == state.skew \notin -10 .. 10
      market  == /\ state.missing.market = {} /\ ~skewed
                 /\ ~\E s \in MarketCritical : Unavailable(state, s)
      entry   == /\ state.missing.market = {} /\ state.missing.entry = {} /\ ~skewed
                 /\ ~\E s \in EntryCritical : Unavailable(state, s)
      account == \/ state.position # "BINANCE_READ_ONLY"
                 \/ state.account.connected /\ state.account.age <= 45
      managed == /\ "markPrice" \notin state.missing.market /\ account
                 /\ state.age["market"] # None /\ state.age["market"] <= 15
      quality == IF entry /\ AllNormal(state) THEN "GREEN"
                 ELSE IF market \/ managed THEN "YELLOW" ELSE "RED"
      blocked == {b \in {"MARKET_ANALYSIS_DATA_UNAVAILABLE", "ENTRY_DATA_UNAVAILABLE",
                         "POSITION_MANAGEMENT_DATA_UNAVAILABLE", "SYSTEM_CLOCK_SKEW"} :
                    CASE b = "MARKET_ANALYSIS_DATA_UNAVAILABLE" -> ~market
                      [] b = "ENTRY_DATA_UNAVAILABLE" -> ~entry
                      [] b = "POSITION_MANAGEMENT_DATA_UNAVAILABLE" ->
                           state.position # "NONE" /\ ~managed
                      [] OTHER -> skewed}
  IN  [marketAnalysisAvailable |-> market,
       entryAllowed |-> entry,
       positionManagementAvailable |-> managed,
       quality |-> quality,
       criticalBlockers |-> blocked,
       degraded |-> ~AllNormal(state),
       analysisGate |->
         [analysisAllowed |-> entry,
          overallStatus |-> CASE quality = "GREEN" -> "NORMAL"
                              [] quality = "YELLOW" -> "DELAYED"
                              [] OTHER -> Health(state)]]
-----------------------------------------------------------------------------
Delayed     == 8
EntryMaxAge == 15   \* RELAY_ENTRY_MAX_AGE_MS, and MAX_SNAPSHOT_AGE_MS of index.ts
StaleAfter  == 30

\* The age of a snapshot for the worker: generatedAt is of the clock of the app.
SeenAge(age, skew) == IF age > skew THEN age - skew ELSE 0

\* Mutant: a snapshot that is too old for an entry still allows the analysis.
AgedAnalysisGate(gates, age) ==
  IF age > StaleAfter
  THEN [analysisAllowed |-> FALSE, overallStatus |-> "STALE"]
  ELSE gates.analysisGate

AnalysisGate(gates, age) ==
  IF age > EntryMaxAge
  THEN [analysisAllowed |-> FALSE, overallStatus |-> "STALE"]
  ELSE IF age > Delayed /\ gates.analysisGate.overallStatus = "NORMAL"
  THEN [gates.analysisGate EXCEPT !.overallStatus = "DELAYED"]
  ELSE gates.analysisGate

\* applyRelayFreshness
Aged(gates, age) ==
  LET market  == gates.marketAnalysisAvailable /\ age <= EntryMaxAge
      entry   == gates.entryAllowed /\ age <= EntryMaxAge
      managed == gates.positionManagementAvailable /\ age <= StaleAfter
  IN  [marketAnalysisAvailable |-> market,
       entryAllowed |-> entry,
       positionManagementAvailable |-> managed,
       quality |-> IF age > EntryMaxAge
                   THEN (IF managed THEN "YELLOW" ELSE "RED")
                   ELSE IF age > Delayed /\ gates.quality = "GREEN" THEN "YELLOW"
                   ELSE gates.quality,
       criticalBlockers |-> gates.criticalBlockers
         \cup (IF age > StaleAfter THEN {"RELAY_SNAPSHOT_STALE"}
               ELSE IF age > EntryMaxAge THEN {"RELAY_ENTRY_SNAPSHOT_STALE"} ELSE {}),
       degraded |-> gates.degraded \/ age \in Delayed + 1 .. EntryMaxAge,
       analysisGate |-> AnalysisGate(gates, age)]
-----------------------------------------------------------------------------
Rank(quality) == CASE quality = "GREEN" -> 2 [] quality = "YELLOW" -> 1 [] quality = "RED" -> 0

\* What is served is consistent, with the older form of the gates too.  RED says
\* that nothing is available, GREEN that an entry is allowed and nothing is
\* degraded; what is not allowed has a blocker; and an entry is allowed only on
\* fields that are there and on critical sources that were not stale 15 seconds
\* ago, or as much longer as the clock of the app is ahead, ten seconds at most.
GatesAgree(state, served, age) ==
  LET late == EntryMaxAge + (IF state.skew > 0 THEN state.skew ELSE 0) IN
  /\ (served.quality = "RED") <=>
       ~served.marketAnalysisAvailable /\ ~served.positionManagementAvailable
  /\ served.quality = "GREEN" => served.entryAllowed /\ ~served.degraded
  /\ served.entryAllowed =>
       /\ served.marketAnalysisAvailable /\ late <= EntryMaxAge + 10
       /\ state.missing.market \cup state.missing.entry = {}
       /\ \A s \in EntryCritical :
            state.age[s] # None /\ state.age[s] + age <= Threshold(s)[2] + late
  /\ served.analysisGate.analysisAllowed = served.entryAllowed
  /\ served.analysisGate.overallStatus = "NORMAL" /\ served.quality # "RED"
       => served.quality = "GREEN"
  /\ ~served.entryAllowed => served.criticalBlockers # {}

\* With its age a snapshot allows less, and never more.
AgeOnlyRestricts(before, after) ==
  /\ after.marketAnalysisAvailable => before.marketAnalysisAvailable
  /\ after.entryAllowed => before.entryAllowed
  /\ after.positionManagementAvailable => before.positionManagementAvailable
  /\ Rank(after.quality) <= Rank(before.quality)

\* Both, for every age at which the snapshot may be served.
GatesHold(state, ages) ==
  LET gates == Gates(state)
      served == [age \in ages |-> Aged(gates, SeenAge(age, state.skew))]
  IN  \A age \in ages :
        /\ GatesAgree(state, served[age], age)
        /\ \A later \in ages : age <= later => AgeOnlyRestricts(served[age], served[later])
=============================================================================
