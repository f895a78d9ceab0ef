--------------------------- MODULE LeadAccumulator ---------------------------
(***************************************************************************)
(* The class LeadAssetAccumulator (market/multicoin/lead-accumulator.ts):  *)
(* what is known of one lead asset from its two streams and from the polls *)
(* of its open interest.  An accumulator is a record, a method an operator *)
(* from accumulators to accumulators.                                      *)
(***************************************************************************)
EXTENDS Integers, MarketWindows

Accumulator ==
  [book : Optional, depth : Optional, mark : Optional, candle : Optional,
   lastPrice : Optional,
   tradeBuckets : SUBSET Bucket,
   liquidationEvents : Seq(Event),
   openInterestHistory : Seq(Event)]

NewAccumulator ==
  [book |-> None, depth |-> None, mark |-> None, candle |-> None,
   lastPrice |-> None, tradeBuckets |-> {}, liquidationEvents |-> <<>>,
   openInterestHistory |-> <<>>]

\* resetPublicStream
ResetPublicStream(a) == [a EXCEPT !.book = None, !.depth = None]

\* resetMarketStream
ResetMarketStream(a) ==
  [a EXCEPT !.tradeBuckets = {}, !.liquidationEvents = <<>>,
            !.lastPrice = None, !.candle = None, !.mark = None]

\* prune
Prune(a, now) ==
  [a EXCEPT
    !.tradeBuckets = {b \in @ : b.second >= now - TradeHistory},
    !.openInterestHistory = WithoutOldHead(@, now - OiHistory),
    !.liquidationEvents = WithoutOldHead(@, now - LiquidationHistory)]

\* recordTrade
RecordTrade(a, e) ==
  Prune([a EXCEPT !.tradeBuckets = Gathered(@, e), !.lastPrice = LaterPrice(@, e)],
        e.received)

\* recordClosedOneMinuteCandle
RecordCandle(a, e) == [a EXCEPT !.candle = LaterPrice(@, e)]

\* recordBookTicker, recordDepth and recordMark
RecordBookTicker(a, e) == [a EXCEPT !.book = Some(e)]
RecordDepth(a, e) == [a EXCEPT !.depth = Some(e)]
RecordMark(a, e) == [a EXCEPT !.mark = Some(e)]

\* recordLiquidation
RecordLiquidation(a, e) ==
  Prune([a EXCEPT !.liquidationEvents = Append(@, e)], e.received)

\* Mutant: an answer that was overtaken is recorded as the latest.
RecordAnyOpenInterest(a, e) ==
  Prune([a EXCEPT !.openInterestHistory = Append(@, e)], e.received)

\* recordOpenInterest
RecordOpenInterest(a, e) ==
  IF Overtaken(a.openInterestHistory, e) THEN a
  ELSE Prune([a EXCEPT !.openInterestHistory = Recorded(@, e)], e.received)
-----------------------------------------------------------------------------
(***************************************************************************)
(* snapshot(now): what is shown of a pruned accumulator.                   *)
(***************************************************************************)
\* returnBps: the prices a return over `window` may compare the current one with
ReturnReferences(a, now, window) ==
  LET second == [b \in a.tradeBuckets |-> b.second]
  IN  {b.lastPrice : b \in Closest(second, now - window, ReturnGap)}

\* tradeFlow: the trades that a flow over `window` adds up
FlowTrades(a, now, window) == TradesBetween(a.tradeBuckets, now - window, now)

\* openInterestChange: the points a change over `window` may be measured from
OiReferences(a, now, window) ==
  LET points == {a.openInterestHistory[i] : i \in DOMAIN a.openInterestHistory}
  IN  Closest([e \in points |-> e.at], now - window, OiGap)

\* liquidationWindow
WindowLiquidations(a, now, window) ==
  EventsBetween(a.liquidationEvents, now - window, now)

\* snapshot returns an observation
IsObserved(a) == a.lastPrice \cup a.mark \cup a.book # None

\* What the observation shows of the market stream, and of the public one.
MarketEvents(a, now) ==
  a.lastPrice \cup a.mark \cup a.candle
    \cup (UNION {ReturnReferences(a, now, w) : w \in ReturnWindows})
    \cup (UNION {FlowTrades(a, now, w) : w \in FlowWindows})
    \cup UNION {WindowLiquidations(a, now, w) : w \in FlowWindows}

PublicEvents(a) == a.book \cup a.depth
-----------------------------------------------------------------------------
(***************************************************************************)
(* How old evidence is rated (market/intelligence/freshness.ts and         *)
(* provenance.ts): by two age limits per class.  Ages are whole time       *)
(* units; NoAge stands for null, evidence that was never received.         *)
(***************************************************************************)
NoAge == -1

\* The limits are other numbers for every class; here, all small ones.
Threshold == {limits \in [normalMaxAge : 0 .. 1, usableMaxAge : 0 .. 2] :
                limits.normalMaxAge <= limits.usableMaxAge}

\* classifyEvidenceAge
ClassifyEvidenceAge(age, threshold) ==
  IF age < 0 THEN "UNAVAILABLE"
  ELSE IF age <= threshold.normalMaxAge THEN "NORMAL"
  ELSE IF age <= threshold.usableMaxAge THEN "DEGRADED"
  ELSE "STALE"

\* The age of what was received at the time `received`: Math.max(0, now - received)
Age(received, now) ==
  IF received = NoAge THEN NoAge ELSE IF now >= received THEN now - received ELSE 0

\* buildProvenance: when a source was last heard, which resets forget
ReceivedAt(events) ==
  IF events = None THEN NoAge ELSE Max({e.received : e \in events})

\* getEvidenceHealth: the trades and the depth of an asset are rated together,
\* its open interest by itself; nothing is rated of an asset not observed.
LeadHealth(a, now, tradeBook, openInterest) ==
  LET rated(events, threshold) ==
        ClassifyEvidenceAge(Age(IF IsObserved(a) THEN ReceivedAt(events) ELSE NoAge, now),
                            threshold)
  IN  [tradeBook    |-> rated(a.lastPrice \cup a.depth, tradeBook),
       openInterest |-> rated({e \in Range(a.openInterestHistory) :
                                 e = Last(a.openInterestHistory)}, openInterest)]
=============================================================================
