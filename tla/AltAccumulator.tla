---------------------------- MODULE AltAccumulator ----------------------------
(***************************************************************************)
(* The class AltAssetAccumulator (market/multicoin/alt-accumulator.ts):    *)
(* LeadAssetAccumulator without depth and candles, and with the tier of    *)
(* its symbol.                                                             *)
(***************************************************************************)
EXTENDS MarketWindows

Tiers == {"SENTIMENT_CORE", "DYNAMIC"}

AltAccumulator ==
  [tier : Tiers, book : Optional, mark : Optional, lastPrice : Optional,
   tradeBuckets : SUBSET Bucket, liquidations : Seq(Event),
   openInterestHistory : Seq(Event)]

NewAltAccumulator(tier) ==
  [tier |-> tier, book |-> None, mark |-> None, lastPrice |-> None,
   tradeBuckets |-> {}, liquidations |-> <<>>, openInterestHistory |-> <<>>]

\* resetPublicStream
ResetPublicStream(a) == [a EXCEPT !.book = None]

\* resetMarketStream
ResetMarketStream(a) ==
  [a EXCEPT !.tradeBuckets = {}, !.liquidations = <<>>,
            !.lastPrice = None, !.mark = None]

\* prune
Prune(a, now) ==
  [a EXCEPT
    !.tradeBuckets = {b \in @ : b.second >= now - TradeHistory},
    !.openInterestHistory = WithoutOldHead(@, now - OiHistory),
    !.liquidations = WithoutOldHead(@, now - LiquidationHistory)]

\* recordTrade
RecordTrade(a, e) ==
  Prune([a EXCEPT !.tradeBuckets = Gathered(@, e), !.lastPrice = LaterPrice(@, e)],
        e.received)

\* recordBook, recordMark
RecordBook(a, e) == [a EXCEPT !.book = Some(e)]
RecordMark(a, e) == [a EXCEPT !.mark = Some(e)]

\* recordOpenInterest
RecordOpenInterest(a, e) ==
  IF Overtaken(a.openInterestHistory, e) THEN a
  ELSE Prune([a EXCEPT !.openInterestHistory = Recorded(@, e)], e.received)

\* recordLiquidation
RecordLiquidation(a, e) ==
  Prune([a EXCEPT !.liquidations = Append(@, e)], e.received)
-----------------------------------------------------------------------------
\* snapshot returns an observation, for which it was pruned
IsObserved(a) == a.lastPrice \cup a.mark \cup a.book # None

\* returnBps, flowWindow, liquidationWindow: what they compare and add up
ReturnReferences(a, now, window) ==
  LET second == [b \in a.tradeBuckets |-> b.second]
  IN  {b.lastPrice : b \in Closest(second, now - window, ReturnGap)}

\* snapshot: the flow of this minute against the minute before
FlowTrades(a, now, window) ==
  TradesBetween(a.tradeBuckets, now - window, now)
    \cup TradesBetween(a.tradeBuckets, now - 2 * window, now - window)

WindowLiquidations(a, now, window) == EventsBetween(a.liquidations, now - window, now)

\* What the observation shows of the market stream, and of the public one.
MarketEvents(a, now) ==
  a.lastPrice \cup a.mark
    \cup (UNION {ReturnReferences(a, now, w) : w \in ReturnWindows})
    \cup UNION {FlowTrades(a, now, w) \cup WindowLiquidations(a, now, w) : w \in FlowWindows}

PublicEvents(a) == a.book

=============================================================================
