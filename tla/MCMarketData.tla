----------------------------- MODULE MCMarketData -----------------------------
(***************************************************************************)
(* MarketData for the model checker: candles of two time units, one or two *)
(* trades.  A behaviour explores candles by stream and by polls, or a      *)
(* crash, or trades, or the statistics, or the clock.  Candles are polled  *)
(* until the first of them is older than a poll of three reaches.  A trade *)
(* may be too old to be remembered before the last one is made, but none   *)
(* comes so late: NothingOldUnderWay is the constraint of the run.         *)
(***************************************************************************)
EXTENDS MarketData

Case(time, trades, runs, restarts, reqs, queue, streams, polls) ==
  [time |-> time, trades |-> trades, runs |-> runs, restarts |-> restarts,
   requests |-> reqs, queue |-> queue, streams |-> streams, polls |-> polls]

Cases == {Case(6, 1, 1, 0, 1, 1, {"kline"}, {"candles", "recover"}),
          Case(6, 1, 1, 0, 1, 0, {}, {"candles", "recover"}),
          Case(3, 2, 1, 1, 1, 1, {"kline"}, {"candles"}),
          Case(3, 2, 1, 0, 2, 2, {"aggTrade"}, {"trades"}),
          Case(2, 0, 2, 0, 2, 0, {}, {"statistics"}),
          Case(3, 0, 2, 0, 1, 0, {}, {"serverTime"})}

TwoRatios == {"global", "taker"}
=============================================================================
