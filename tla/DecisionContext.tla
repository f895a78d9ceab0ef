---------------------------- MODULE DecisionContext ----------------------------
(***************************************************************************)
(* What the relay worker chooses for a decision besides the snapshot: the  *)
(* external items (worker/src/phase20-context-router.ts), the analogs in   *)
(* its memory (phase21-memory.ts), and how deep the decision is to be      *)
(* reasoned about (phase22-reasoning.ts).                                  *)
(*                                                                         *)
(* A similarity is a whole number, None of two fingerprints that have too  *)
(* little in common.  Times are minutes, completeness is in percent.       *)
(***************************************************************************)
EXTENDS SnapshotGates, SequencesExt

Precedes(k, l) == \E i \in DOMAIN k : k[i] < l[i] /\ \A j \in 1 .. i - 1 : k[j] = l[j]

\* The first n of a set by Key: `sort(...).slice(0, n)`, `ORDER BY ... LIMIT n`.
FirstBy(S, n, Key(_)) == {x \in S : Cardinality({y \in S : Precedes(Key(y), Key(x))}) < n}
-----------------------------------------------------------------------------
RelevanceRank == [HIGH |-> 0, MEDIUM |-> 1, LOW |-> 2, UNKNOWN |-> 3]
TrustRank == [OFFICIAL |-> 0, MULTI_SOURCE |-> 1, SINGLE_SOURCE |-> 2,
              UNVERIFIED_SOCIAL |-> 3, UNKNOWN |-> 4]

\* selectedExternalItems: the most relevant, then the most trusted, then the
\* newest; items that are alike stay in the order of the payload.
SelectedExternalItems(items, max) ==
  FirstBy(items, max, LAMBDA i :
    <<RelevanceRank[i.relevance], TrustRank[i.trust], -i.publishedAt, i.place>>)
-----------------------------------------------------------------------------
\* The outcomes the query of buildTradingMemory finds for a snapshot: those that
\* were final before it, of decisions before it, the latest first.
Candidates(rows, snapshot, max) ==
  FirstBy({r \in rows : /\ r.finalizedAt # None /\ r.finalizedAt <= snapshot.at
                        /\ r.at < snapshot.at /\ r.snapshot # snapshot.id},
          max, LAMBDA r : <<-r.at>>)

\* summarize, of one horizon; twice the median, which is None of no value
Summarize(analogs) ==
  LET known  == {a \in analogs : a.return # None}
      sorted == SetToSortSeq(known, LAMBDA a, b : a.return < b.return)
      half   == Len(sorted) \div 2
  IN  [samples  |-> Len(sorted),
       median   |-> IF sorted = <<>> THEN None
                    ELSE IF Len(sorted) % 2 = 1 THEN 2 * sorted[half + 1].return
                    ELSE sorted[half].return + sorted[half + 1].return,
       positive |-> Cardinality({a \in known : a.return > 0}),
       negative |-> Cardinality({a \in known : a.return < 0})]

MaxAnalogs == 5

\* unavailable: no database, no fingerprint, or a query that failed
NoMemory == [status |-> "UNAVAILABLE", analogs |-> {}, summary |-> Summarize({})]

\* buildTradingMemory: the most similar of the candidates, of equals the latest
TradingMemory(rows, snapshot, max) ==
  LET comparable == {r \in Candidates(rows, snapshot, max) : r.similarity # None}
      analogs    == FirstBy(comparable, MaxAnalogs, LAMBDA r : <<-r.similarity, -r.at>>)
      count      == Cardinality(analogs)
  IN  [status  |-> IF count >= 3 THEN "READY" ELSE IF count > 0 THEN "SPARSE" ELSE "NO_MATCH",
       analogs |-> analogs,
       summary |-> Summarize(analogs)]
-----------------------------------------------------------------------------
\* analogOutcomeDisagreement: three tenths of the returns are gains, and losses
Disagreement(memory) ==
  LET told == memory.summary IN
  told.samples >= 4 /\ 10 * told.positive >= 3 * told.samples /\ 10 * told.negative >= 3 * told.samples

MacroWindow == 30
MaxChecks   == 8
MinSelected == 4

\* What there may be to say of a decision, and the check it asks for; risk is
\* the riskContext of the snapshot
Concerns(gates, risk, completeness, memory) ==
  LET concern(reason, check, holds) == [reason |-> reason, check |-> check, holds |-> holds]
  IN  <<concern("HIGH_RISK_NEWS", "EVENT_RISK", risk.news),
        concern("BINANCE_CRITICAL_NOTICE", "VENUE_EVENT_RISK", risk.notice),
        concern("MACRO_EVENT_WITHIN_30M", "MACRO_EVENT_WINDOW",
                risk.macro # None /\ risk.macro \in 0 .. MacroWindow),
        concern("DATA_QUALITY_YELLOW", "SOURCE_GAPS", gates.quality = "YELLOW"),
        concern("DEGRADED_SOURCES", "EXCLUDE_DEGRADED_EVIDENCE", gates.degraded),
        concern("CROSS_MARKET_PARTIAL", "CROSS_MARKET_GAP", completeness < 67),
        concern("HISTORICAL_ANALOG_DISAGREEMENT", "ANALOG_COUNTEREXAMPLE",
                memory.status = "READY" /\ Disagreement(memory)),
        concern("HISTORICAL_MEMORY_WEAK", None, memory.status \in {"SPARSE", "NO_MATCH"})>>

\* buildAdaptiveReasoningPolicy
ReasoningPolicy(gates, risk, completeness, memory, selected) ==
  LET blocked == gates.criticalBlockers # {} \/ gates.quality = "RED"
      raised  == SelectSeq(Concerns(gates, risk, completeness, memory), LAMBDA c : c.holds)
      deep    == \/ risk.news \/ risk.notice
                 \/ risk.macro # None /\ risk.macro \in 0 .. MacroWindow
      verify  == \/ gates.quality = "YELLOW" \/ gates.degraded
                 \/ completeness < 67 \/ Disagreement(memory)
      checked == SelectSeq(raised, LAMBDA c : c.check # None)
      checks  == <<"COUNTER_THESIS">> \o [i \in DOMAIN checked |-> checked[i].check]
  IN  IF blocked
      THEN [mode |-> "FAST", reasons |-> {"DATA_BLOCKED_OR_RED"},
            checks |-> {"COUNTER_THESIS", "BLOCKER_RESOLUTION_ONLY"}, expand |-> FALSE]
      ELSE [mode    |-> IF deep THEN "DEEP" ELSE IF verify THEN "VERIFY" ELSE "FAST",
            reasons |-> {raised[i].reason : i \in DOMAIN raised},
            checks  |-> {checks[i] : i \in DOMAIN checks \cap 1 .. MaxChecks},
            expand  |-> deep /\ selected < MinSelected]
-----------------------------------------------------------------------------
\* What was known of the outcomes at a time: nothing of one that was not final
KnownAt(rows, t) ==
  {IF r.finalizedAt # None /\ r.finalizedAt <= t THEN r
   ELSE [r EXCEPT !.finalizedAt = None, !.return = None, !.similarity = None] : r \in rows}

\* The memory of a decision holds nothing that was not known before its snapshot,
\* nor the snapshot itself; its median is on the side most of the returns are on;
\* and analogs that disagree are enough of them to be relied on.
MemoryHolds(rows, snapshot, max) ==
  LET memory == TradingMemory(rows, snapshot, max)
      told   == memory.summary
  IN  /\ memory = TradingMemory(KnownAt(rows, snapshot.at), snapshot, max)
      /\ \A a \in memory.analogs : a.at < snapshot.at /\ a.snapshot # snapshot.id
      /\ Cardinality(memory.analogs) <= MaxAnalogs
      /\ 2 * told.positive > told.samples => told.median > 0
      /\ 2 * told.negative > told.samples => told.median < 0
      /\ Disagreement(memory) => memory.status = "READY"

\* As many items are kept as there is room for, and none is left out that is more
\* relevant than one that is kept, or as relevant and more trusted.
SelectionHolds(items, max) ==
  LET kept == SelectedExternalItems(items, max)
  IN  /\ Cardinality(kept) = Min({max, Cardinality(items)})
      /\ \A i \in kept, j \in items \ kept :
           /\ RelevanceRank[i.relevance] <= RelevanceRank[j.relevance]
           /\ i.relevance = j.relevance => TrustRank[i.trust] <= TrustRank[j.trust]

EventReasons == {"HIGH_RISK_NEWS", "BINANCE_CRITICAL_NOTICE", "MACRO_EVENT_WITHIN_30M"}

\* How a decision is to be reasoned about follows what the snapshot permits at the
\* age it is served: with no entry allowed the data is all there is to talk about,
\* and with one allowed only a position that cannot be managed stands before it.
\* Else the mode is told by the reasons that are given with it, an event that calls
\* for depth is never left out, and each reason keeps the check it asks for.  With
\* its age a snapshot that has stayed open is reasoned about no less deeply.
RoutingHolds(state, ages, risk, completeness, memory, selected) ==
  LET gates == Gates(state)
      served == [age \in ages |-> Aged(gates, SeenAge(age, state.skew))]
      policy == [age \in ages |->
                   ReasoningPolicy(served[age], risk, completeness, memory, selected)]
      blocked(age) == policy[age].reasons = {"DATA_BLOCKED_OR_RED"}
      depth == [FAST |-> 0, VERIFY |-> 1, DEEP |-> 2]
  IN  \A age \in ages :
        /\ ~served[age].entryAllowed => blocked(age)
        /\ blocked(age) /\ served[age].entryAllowed =>
             "POSITION_MANAGEMENT_DATA_UNAVAILABLE" \in served[age].criticalBlockers
        /\ blocked(age) => policy[age].mode = "FAST" /\ ~policy[age].expand
        /\ ~blocked(age) =>
             /\ (policy[age].mode = "DEEP") <=> (policy[age].reasons \cap EventReasons # {})
             /\ (policy[age].mode = "FAST") <=> (policy[age].reasons \subseteq {"HISTORICAL_MEMORY_WEAK"})
             /\ policy[age].mode = "FAST" => served[age].quality = "GREEN"
             /\ Cardinality(policy[age].checks) =
                  1 + Cardinality(policy[age].reasons \ {"HISTORICAL_MEMORY_WEAK"})
        /\ \A later \in ages : age <= later =>
             blocked(later) \/ (~blocked(age) /\ depth[policy[age].mode] <= depth[policy[later].mode])
=============================================================================
