-------------------------- MODULE CoinbaseAccumulator --------------------------
(***************************************************************************)
(* CoinbaseSpotAccumulator (market/cross-venue/                            *)
(* coinbase-spot-accumulator.ts): the book, the prices and the trades of   *)
(* one product.  The book is a function from its levels to quantities;     *)
(* everything else is known by the event that brought it.                  *)
(***************************************************************************)
EXTENDS MarketWindows

CONSTANTS
  MaxHistory     \* MAX_HISTORY_MS

Levels == {0, 1}
Books == UNION {[ls -> 1 .. 2] : ls \in SUBSET Levels}
Empty == <<>>

CoinbaseAccumulator ==
  [synchronized : BOOLEAN, book : Books, level2 : Optional, shownLevel2 : Optional,
   lastPrice : Optional, ticker : Optional, trade : Optional,
   prices : Seq(Event), trades : Seq(Event)]

NewCoinbaseAccumulator ==
  [synchronized |-> FALSE, book |-> Empty, level2 |-> None, shownLevel2 |-> None,
   lastPrice |-> None, ticker |-> None, trade |-> None, prices |-> <<>>, trades |-> <<>>]

\* resetBook: the times of the last level2 event stay in the provenance.
ResetBook(a) ==
  [a EXCEPT !.book = Empty, !.synchronized = FALSE, !.shownLevel2 = None]

\* applyBookLevel for each of the updates, which give levels their quantities:
\* zero removes the level.
ApplyBookLevels(book, updates) ==
  LET removed == {l \in DOMAIN updates : updates[l] = 0}
  IN  [l \in (DOMAIN book \cup DOMAIN updates) \ removed |->
         IF l \in DOMAIN updates THEN updates[l] ELSE book[l]]

\* applyBookSnapshot and applyBookUpdate, the latter of a synchronized book only
ApplyBookSnapshot(a, updates, e) ==
  [a EXCEPT !.book = ApplyBookLevels(Empty, updates), !.synchronized = TRUE,
            !.level2 = Some(e), !.shownLevel2 = Some(e)]

ApplyBookUpdate(a, updates, e) ==
  IF ~a.synchronized THEN a
  ELSE [a EXCEPT !.book = ApplyBookLevels(@, updates),
                 !.level2 = Some(e), !.shownLevel2 = Some(e)]

\* trim
Trim(a, at) ==
  [a EXCEPT !.prices = WithoutOldHead(@, at - MaxHistory),
            !.trades = WithoutOldHead(@, at - MaxHistory)]

\* addPrice
AddPrice(a, e) == Trim([a EXCEPT !.lastPrice = Some(e), !.prices = Append(@, e)], e.at)

\* ingestTicker and ingestTrade
IngestTicker(a, e) == AddPrice([a EXCEPT !.ticker = Some(e)], e)
IngestTrade(a, e) ==
  Trim(AddPrice([a EXCEPT !.trade = Some(e), !.trades = Append(@, e)], e), e.received)
-----------------------------------------------------------------------------
\* snapshot returns an observation.
IsSeen(a) == a.lastPrice \cup a.ticker \cup a.level2 # None \/ a.synchronized

\* The best prices: of the book while it is synchronized, else of the ticker.
BestFrom(a) ==
  IF a.synchronized THEN a.shownLevel2 ELSE a.ticker
=============================================================================
