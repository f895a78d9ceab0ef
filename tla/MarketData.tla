------------------------------ MODULE MarketData ------------------------------
(***************************************************************************)
(* MarketDataService (market/service.ts) apart from the order book, with   *)
(* MarketCache (market/cache.ts) and the candles of the database: candles  *)
(* and trades come from the stream of the market socket and from REST      *)
(* polls that nothing keeps in order with it.                              *)
(*                                                                         *)
(* A candle is known by the number of trades in it, one time frame stands  *)
(* for each.  A trade is known by its number; the exchange made it at      *)
(* traded[id].                                                             *)
(***************************************************************************)
EXTENDS Integers, SequencesExt

CONSTANTS
  Bounds,        \* the bounds of the behaviours explored, see the MC module
  Interval,      \* the length of a candle
  RestCandles,   \* candles asked for by refreshCandles
  RestTrades,    \* trades asked for by refreshFast
  Timeout,       \* how long a REST call may take
  TradeHistory,  \* FOUR_HOURS_MS
  Ratios,        \* the statistics that refreshStatistics asks for
  ClockOffset    \* how far the clock of the exchange is ahead

ASSUME MarketDataAssumption ==
  /\ Interval \in Nat \ {0} /\ {RestTrades, TradeHistory} \subseteq Nat /\ ClockOffset \in Int
  /\ Ratios \cap {"candle", "trades", "serverTime"} = {}

VARIABLES
  bound,         \* the bounds of this behaviour
  now,
  traded,        \* when the exchange made each trade
  service,       \* started, runGeneration, and whether the process was restarted
  market,        \* the market socket: state, reconnect timer, messages under way
  requests,      \* REST calls in flight, and the moment the exchange answered them
  cache,         \* MarketCache
  table          \* the closed candles of the database

vars == <<bound, now, traded, service, market, requests, cache, table>>

Kinds == {"recover", "candles", "trades", "statistics", "serverTime"}
Unanswered == [at |-> -1, trades |-> 0, failed |-> {}]
Request ==
  [kind : Kinds, run : Nat, asked : Nat,
   answer : [at : Int, trades : Nat, failed : SUBSET Ratios]]

NoCandle == [open |-> -1, trades |-> 0]
Never == -1

EmptyCache ==
  [closed |-> <<>>, live |-> NoCandle, tradeLog |-> <<>>, sessionCvd |-> 0,
   sentiment |-> [r \in Ratios |-> Never], errors |-> {}, offset |-> 0, roundTrip |-> Never]

Sources == {"candle", "trades", "serverTime"} \cup Ratios

TypeOK ==
  /\ bound \in Bounds
  /\ now \in 0 .. bound.time
  /\ traded \in Seq(0 .. now)
  /\ service \in [started : BOOLEAN, runGeneration : Nat, restarts : Nat]
  /\ market.socket \in {"none", "connecting", "open"}
  /\ market.reconnectTimer \in BOOLEAN
  /\ requests \subseteq Request
  /\ \A k \in DOMAIN cache.closed \cup DOMAIN table : k \in 0 .. now
  /\ cache.tradeLog \in Seq(DOMAIN traded)
  /\ cache.errors \subseteq Sources
  /\ cache.sentiment \in [Ratios -> Int]

NoStream == [socket |-> "none", reconnectTimer |-> FALSE, queue |-> <<>>]

Init ==
  /\ bound \in Bounds
  /\ now = 0
  /\ traded = <<>>
  /\ service = [started |-> FALSE, runGeneration |-> 0, restarts |-> 0]
  /\ market = NoStream
  /\ requests = {}
  /\ cache = EmptyCache
  /\ table = <<>>

\* isRunActive
IsRunActive(run) == service.started /\ service.runGeneration = run
-----------------------------------------------------------------------------
(***************************************************************************)
(* The exchange                                                            *)
(***************************************************************************)
OpenOf(t) == t \div Interval
CloseTime(k) == (k + 1) * Interval - 1

\* How many of the first n trades candle k has.
TradesIn(k, n) == Cardinality({id \in 1 .. n : OpenOf(traded[id]) = k})
Final(k) == TradesIn(k, Len(traded))

\* A message of the streams that this behaviour explores
Sent(m) == IF m.kind \in bound.streams THEN <<m>> ELSE <<>>

Emitted(messages) ==
  IF market.socket = "open" THEN [market EXCEPT !.queue = @ \o messages] ELSE market

Kline(k, n, closed) == [kind |-> "kline", open |-> k, trades |-> n, isClosed |-> closed]
AggTrade(id) == [kind |-> "aggTrade", id |-> id]

Trade ==
  /\ Len(traded) < bound.trades
  /\ traded' = Append(traded, now)
  /\ market' = Emitted(Sent(AggTrade(Len(traded) + 1)) \o
                       Sent(Kline(OpenOf(now), TradesIn(OpenOf(now), Len(traded)) + 1, FALSE)))
  /\ Len(market'.queue) <= bound.queue
  /\ UNCHANGED <<bound, now, service, requests, cache, table>>

\* A candle whose time is over is sent as closed.
Tick ==
  /\ now < bound.time
  /\ now' = now + 1
  /\ market' = IF OpenOf(now') = OpenOf(now) THEN market
               ELSE Emitted(Sent(Kline(OpenOf(now), Final(OpenOf(now)), TRUE)))
  /\ Len(market'.queue) <= bound.queue
  /\ UNCHANGED <<bound, traded, service, requests, cache, table>>

\* The exchange answers from what it knows then.
Answer(f) ==
  /\ f.answer = Unanswered
  /\ \E failed \in IF f.kind = "statistics" THEN SUBSET Ratios ELSE {{}} :
       requests' = (requests \ {f}) \cup
         {[f EXCEPT !.answer = [at |-> now, trades |-> Len(traded), failed |-> failed]]}
  /\ UNCHANGED <<bound, now, traded, service, market, cache, table>>
-----------------------------------------------------------------------------
(***************************************************************************)
(* MarketCache                                                             *)
(***************************************************************************)
With(candles, k, n) == [j \in DOMAIN candles \cup {k} |-> IF j = k THEN n ELSE candles[j]]

ClearSourceError(c, source) == [c EXCEPT !.errors = @ \ {source}]
RecordSourceError(c, source) == [c EXCEPT !.errors = @ \cup {source}]

\* upsertCandle
UpsertCandle(c, k, n, isClosed) ==
  ClearSourceError(
    IF isClosed THEN [c EXCEPT !.live = NoCandle, !.closed = With(@, k, n)]
    ELSE [c EXCEPT !.live = [open |-> k, trades |-> n]], "candle")

\* Mutant: a trade that came by both ways is counted twice.
AddEveryTrade(c, id) ==
  [c EXCEPT !.tradeLog = Append(@, id), !.sessionCvd = @ + 1]

\* addTrade, with pruneEvents
AddTrade(c, id) ==
  IF id \in Range(c.tradeLog) THEN c
  ELSE LET log   == Append(c.tradeLog, id)
           young == {i \in DOMAIN log : traded[log[i]] >= now - TradeHistory}
       IN  ClearSourceError(
             [c EXCEPT !.tradeLog = IF young = {} THEN <<>> ELSE SubSeq(log, Min(young), Len(log)),
                       !.sessionCvd = @ + 1], "trades")

\* detectCandleGaps
Gaps(candles) ==
  {k \in 0 .. now :
     /\ k \notin DOMAIN candles
     /\ \E i, j \in DOMAIN candles : i < k /\ k < j}
-----------------------------------------------------------------------------
(***************************************************************************)
(* The market socket                                                       *)
(***************************************************************************)
Ask(kinds) ==
  /\ requests' = requests \cup {[kind |-> k, run |-> service'.runGeneration, asked |-> now,
                                 answer |-> Unanswered] : k \in kinds \cap bound.polls}
  /\ Cardinality(requests') <= bound.requests

SocketOpens ==
  /\ market.socket = "connecting"
  /\ market' = [market EXCEPT !.socket = "open"]
  /\ UNCHANGED <<bound, now, traded, service, requests, cache, table>>

\* failSocket, and what was under way is lost
SocketFails ==
  /\ market.socket # "none"
  /\ market' = [socket |-> "none", reconnectTimer |-> TRUE, queue |-> <<>>]
  /\ UNCHANGED <<bound, now, traded, service, requests, cache, table>>

\* The reconnect of the market channel asks for candles as well.
ReconnectTimerFires ==
  /\ market.reconnectTimer
  /\ market' \in {[market EXCEPT !.reconnectTimer = FALSE, !.socket = "connecting"], market}
  /\ UNCHANGED <<bound, now, traded, service, cache, table>>
  /\ Ask({"candles"})

\* handleMessage
SocketDelivers ==
  /\ market.queue # <<>>
  /\ market' = [market EXCEPT !.queue = Tail(@)]
  /\ LET m == Head(market.queue)
     IN  IF m.kind = "kline"
         THEN /\ cache' = UpsertCandle(cache, m.open, m.trades, m.isClosed)
              /\ table' = IF m.isClosed THEN With(table, m.open, m.trades) ELSE table
         ELSE /\ cache' = AddTrade(cache, m.id)
              /\ UNCHANGED table
  /\ UNCHANGED <<bound, now, traded, service, requests>>
-----------------------------------------------------------------------------
(***************************************************************************)
(* start and stop                                                          *)
(***************************************************************************)
\* start: candles from the database, a socket, and bootstrap
Start ==
  /\ ~service.started
  /\ service.runGeneration \div 2 < bound.runs
  /\ service' = [service EXCEPT !.started = TRUE, !.runGeneration = @ + 1]
  /\ cache' = [cache EXCEPT !.closed = table @@ cache.closed,
                            !.live = IF table = <<>> THEN @ ELSE NoCandle,
                            !.errors = IF table = <<>> THEN @ ELSE @ \ {"candle"}]
  /\ market' \in {[market EXCEPT !.socket = "connecting"], [market EXCEPT !.reconnectTimer = TRUE]}
  /\ Ask({"recover", "statistics", "serverTime", "trades"})
  /\ UNCHANGED <<bound, now, traded, table>>

Stop ==
  /\ service.started
  /\ service' = [service EXCEPT !.started = FALSE, !.runGeneration = @ + 1]
  /\ market' = NoStream
  /\ UNCHANGED <<bound, now, traded, requests, cache, table>>

\* The process dies: the database is what is left.
Crash ==
  /\ service.restarts < bound.restarts
  /\ service' = [started |-> FALSE, runGeneration |-> 0, restarts |-> service.restarts + 1]
  /\ market' = NoStream
  /\ requests' = {}
  /\ cache' = EmptyCache
  /\ UNCHANGED <<bound, now, traded, table>>

\* The intervals that poll
TimerFires(kind) ==
  /\ service.started
  /\ kind \in bound.polls \ {"recover"}
  /\ UNCHANGED <<bound, now, traded, service, market, cache, table>>
  /\ Ask({kind})
-----------------------------------------------------------------------------
(***************************************************************************)
(* Answers to REST calls                                                   *)
(***************************************************************************)
\* normalizeRestCandle: closed by the clock of the moment it is handled
IsClosed(k) == CloseTime(k) < now

\* Mutant: what is known of a closed candle is not replaced.
ApplyNewCandles(answer, n) ==
  LET last   == OpenOf(answer.at)
      opens  == {k \in 0 .. last : k > last - n}
      closed == {k \in opens : IsClosed(k)}
      rows   == [k \in closed |-> TradesIn(k, answer.trades)]
  IN  [cache |-> ClearSourceError([cache EXCEPT !.closed = @ @@ rows], "candle"),
       table |-> table @@ rows]

\* applyRestCandles, of the last n candles that the answer knows
ApplyRestCandles(answer, n) ==
  LET last   == OpenOf(answer.at)
      opens  == {k \in 0 .. last : k > last - n}
      closed == {k \in opens : IsClosed(k)}
      rows   == [k \in closed |-> TradesIn(k, answer.trades)]
  IN  [cache |-> ClearSourceError(
                   [cache EXCEPT
                     !.closed = rows @@ @,
                     !.live = IF last \in closed THEN NoCandle
                              ELSE [open |-> last, trades |-> TradesIn(last, answer.trades)]],
                   "candle"),
       table |-> rows @@ table]

\* recoverTimeframe, when it asked for all candles
RecoverArrives(f) ==
  /\ f.kind = "recover"
  /\ LET applied == ApplyRestCandles(f.answer, now + 1)
     IN  cache' = applied.cache /\ table' = applied.table
  /\ requests' = requests \ {f}

\* refreshCandles, which recovers when the cache has gaps then
CandlesArrive(f) ==
  /\ f.kind = "candles"
  /\ LET applied == ApplyRestCandles(f.answer, RestCandles)
         recover == [f EXCEPT !.kind = "recover", !.asked = now, !.answer = Unanswered]
     IN  /\ cache' = applied.cache
         /\ table' = applied.table
         /\ requests' = (requests \ {f}) \cup
                          (IF Gaps(applied.cache.closed) # {} THEN {recover} ELSE {})

\* The cache once n trades from `first` on were added, in their order
AddTrades(c, first, n) ==
  LET added[i \in 0 .. n] == IF i = 0 THEN c ELSE AddTrade(added[i - 1], first + i - 1)
  IN  added[n]

\* The first of the trades that an answer holds, of which n is the last
FirstTrade(n) == IF n > RestTrades THEN n - RestTrades + 1 ELSE 1

\* refreshFast: the last trades, in their order
TradesArrive(f) ==
  /\ f.kind = "trades"
  /\ LET last  == f.answer.trades
         first == FirstTrade(last)
     IN  cache' = ClearSourceError(AddTrades(cache, first, last - first + 1), "trades")
  /\ requests' = requests \ {f}
  /\ UNCHANGED table

\* refreshStatistics: each part by itself fails, and keeps its old value then
StatisticsArrive(f) ==
  /\ f.kind = "statistics"
  /\ cache' = [cache EXCEPT
       !.sentiment = [r \in Ratios |-> IF r \in f.answer.failed THEN @[r] ELSE f.answer.at],
       !.errors = (@ \ Ratios) \cup f.answer.failed]
  /\ requests' = requests \ {f}
  /\ UNCHANGED table

\* Mutant: the clock was read when the answer came.
ServerTimeOnArrival(f) ==
  /\ f.kind = "serverTime"
  /\ cache' = ClearSourceError(
       [cache EXCEPT !.offset = f.answer.at + ClockOffset - now,
                     !.roundTrip = now - f.asked], "serverTime")
  /\ requests' = requests \ {f}
  /\ UNCHANGED table

\* refreshServerTime: the middle of the round trip, rounded
ServerTimeArrives(f) ==
  /\ f.kind = "serverTime"
  /\ cache' = ClearSourceError(
       [cache EXCEPT !.offset = f.answer.at + ClockOffset - (f.asked + now + 1) \div 2,
                     !.roundTrip = now - f.asked], "serverTime")
  /\ requests' = requests \ {f}
  /\ UNCHANGED table

\* An answer of a run that is over is dropped.
AnswerArrives(f) ==
  /\ f.answer # Unanswered /\ now - f.asked <= Timeout
  /\ IF IsRunActive(f.run)
     THEN \/ RecoverArrives(f) \/ CandlesArrive(f) \/ TradesArrive(f)
          \/ StatisticsArrive(f) \/ ServerTimeArrives(f)
     ELSE requests' = requests \ {f} /\ UNCHANGED <<cache, table>>
  /\ UNCHANGED <<bound, now, traded, service, market>>

SourceOf(kind) == IF kind \in {"recover", "candles"} THEN "candle" ELSE kind

\* runOptionalTask and the handlers of rejections
RequestFails(f) ==
  /\ f.kind # "statistics"
  /\ requests' = requests \ {f}
  /\ cache' = IF IsRunActive(f.run) THEN RecordSourceError(cache, SourceOf(f.kind)) ELSE cache
  /\ UNCHANGED <<bound, now, traded, service, market, table>>

Next ==
  \/ Trade \/ Tick \/ SocketOpens \/ SocketFails \/ ReconnectTimerFires \/ SocketDelivers
  \/ Start \/ Stop \/ Crash
  \/ \E kind \in Kinds : TimerFires(kind)
  \/ \E f \in requests : Answer(f) \/ AnswerArrives(f) \/ RequestFails(f)

\* Time and the timer of the candles go on, messages are handled, the exchange
\* answers, and not every answer is lost.
Fairness ==
  /\ WF_vars(Tick)
  /\ WF_vars(SocketDelivers)
  /\ WF_vars(TimerFires("candles"))
  /\ SF_vars(\E f \in requests : f.asked = bound.time /\ Answer(f))
  /\ \A kind \in {"recover", "candles"} :
       SF_vars(\E f \in requests : f.kind = kind /\ f.answer.at = bound.time /\ AnswerArrives(f))
  /\ WF_vars(\E f \in requests : f.asked < bound.time /\ RequestFails(f))

Spec == Init /\ [][Next]_vars /\ Fairness
-----------------------------------------------------------------------------
(***************************************************************************)
(* Properties                                                              *)
(***************************************************************************)
\* The candles a poll brings whose time is over
LastClosed == {k \in 0 .. OpenOf(now) - 1 : k > OpenOf(now) - RestCandles}

\* Whatever was closed too early, lost with a socket or missed by a restart, a
\* service that polls has, again and again, the last candles with all their
\* trades, none missing between two of those it keeps, and the same in the
\* database (refreshCandles, applyRestCandles, recoverTimeframe).  An older
\* candle that was closed too early is wrong until all candles are asked for
\* again: the polls do not reach it, and it leaves no gap.
CandlesBecomeExact ==
  []<>(\/ ~service.started
       \/ "candles" \notin bound.polls
       \/ /\ \A k \in LastClosed : k \in DOMAIN cache.closed /\ cache.closed[k] = Final(k)
          /\ Gaps(cache.closed) = {}
          /\ \A k \in DOMAIN cache.closed : k \in DOMAIN table /\ table[k] = cache.closed[k])

\* What addTrade relies on: no trade comes later than it is remembered, which is
\* for four hours, a hundred trades and a message being under way for seconds.
Remembered(id) == traded[id] >= now - TradeHistory

NothingOldUnderWay ==
  /\ \A i \in DOMAIN market.queue :
       market.queue[i].kind = "aggTrade" => Remembered(market.queue[i].id)
  /\ \A f \in requests :
       f.kind = "trades" => \A id \in FirstTrade(f.answer.trades) .. f.answer.trades : Remembered(id)

\* No trade counts twice in the session's delta, though it comes by the stream
\* and by several polls, before and after a reconnect (addTrade).
TradeCountsOnce ==
  /\ cache.sessionCvd <= Len(traded)
  /\ Len(cache.tradeLog) = Cardinality(Range(cache.tradeLog))
  /\ Len(cache.tradeLog) <= cache.sessionCvd

\* The ratios that carry no error are of one and the same refresh: a part that
\* failed keeps its old value, and says so (refreshStatistics).
RatiosAgree ==
  \A r, q \in Ratios \ cache.errors : cache.sentiment[r] = cache.sentiment[q]

\* The clock offset is off by no more than half of the round trip, whenever in
\* it the exchange read its clock (refreshServerTime).
OffsetIsClose ==
  cache.roundTrip # Never =>
    LET error == cache.offset - ClockOffset
    IN  2 * error \in -(cache.roundTrip + 1) .. cache.roundTrip

\* Both: what the polls of statistics and of the clock leave can be relied on.
PolledValuesHold == RatiosAgree /\ OffsetIsClose
=============================================================================
