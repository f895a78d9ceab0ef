---------------------------- MODULE LeadCollector ----------------------------
(***************************************************************************)
(* LeadCoreMarketService (market/multicoin/lead-service.ts): two streams   *)
(* that feed the accumulators of the lead assets, their reconnects, the    *)
(* polls of open interest, and start and stop, which a resume of the       *)
(* computer calls in one turn (main/index.ts).                             *)
(*                                                                         *)
(* One action is one turn of the event loop.  A socket that closes is      *)
(* forgotten once its close event was handled, and its number used again.  *)
(***************************************************************************)
EXTENDS StreamChannels, LeadAccumulator

CONSTANT Symbols       \* LEAD_SYMBOLS

Channels == {"public", "market"}

ASSUME LeadCollectorAssumption ==
  /\ BucketLength \in Nat \ {0} /\ {TradeHistory, OiHistory, LiquidationHistory} \subseteq Nat
  /\ \A b \in Bounds : b.sockets \in [Channels -> Nat]

KindsOf == [public |-> {"bookTicker", "depth20"},
            market |-> {"aggTrade", "markPrice", "kline_1m", "forceOrder"}]

VARIABLES
  bound,         \* the bounds of this behaviour
  now,
  service,       \* status.started, runGeneration, the run oiTimer polls for, and
                 \* status.streams[..].connected
  channel,       \* sockets and timers of each channel
  fetches,       \* refreshOpenInterest calls in flight
  accumulators

vars == <<bound, now, service, channel, fetches, accumulators>>

NoRun == 0
RunTag(run) == [run |-> run, generation |-> 0]

TypeOK ==
  /\ bound \in Bounds
  /\ now \in 0 .. bound.time
  /\ service \in [started : BOOLEAN, runGeneration : Nat, oiTimer : Nat,
                  connected : SUBSET Channels]
  /\ DOMAIN channel = Channels
  /\ \A c \in Channels : ChannelOk(channel[c])
  /\ fetches \subseteq [run : Nat, asked : Nat]
  /\ accumulators \in [Symbols -> Accumulator]

Init ==
  /\ bound \in Bounds
  /\ now = 0
  /\ service = [started |-> FALSE, runGeneration |-> 0, oiTimer |-> NoRun, connected |-> {}]
  /\ channel = [c \in Channels |-> NewChannel]
  /\ fetches = {}
  /\ accumulators = [s \in Symbols |-> NewAccumulator]

\* isRunActive
IsRunActive(run) == service.started /\ service.runGeneration = run

Live(c) == DOMAIN channel[c].live

\* The guard of failSocket and of the handlers of a socket
IsCurrent(c, s) ==
  s \in Live(c) /\ IsRunActive(channel[c].live[s].tag.run) /\ channel[c].current = s
-----------------------------------------------------------------------------
(***************************************************************************)
(* The life of a channel                                                   *)
(***************************************************************************)
\* connect, in an active run
Connect(c, ch, run) == Connected(ch, RunTag(run), Symbols, bound.sockets[c])

\* Mutant: a reconnect that is pending survives the stop.
StopSocketOnly(ch) == [CloseSocket(ch) EXCEPT !.current = NoSocket, !.planned = NoSocket]

\* stop, for one channel: timers cancelled, socket closed
StopChannel(ch) == Released(CloseSocket(ch))

\* failSocket, of the current socket: forgotten, the stream's data reset
FailSocket(c, closed) ==
  /\ channel' = [channel EXCEPT ![c] = Lost(closed, RunTag(service.runGeneration))]
  /\ service' = [service EXCEPT !.connected = @ \ {c}]
  /\ accumulators' = [s \in Symbols |-> IF c = "public"
                                        THEN ResetPublicStream(accumulators[s])
                                        ELSE ResetMarketStream(accumulators[s])]

\* failSocket, of a socket that the service has replaced or let go
IgnoreSocket(c, closed) ==
  /\ channel' = [channel EXCEPT ![c] = closed]
  /\ UNCHANGED <<service, accumulators>>

SocketOpens(c, s) ==
  /\ s \in Live(c) /\ channel[c].live[s].state = "connecting"
  /\ channel' = [channel EXCEPT ![c] =
       [@ EXCEPT !.live = SetState(channel[c].live, s, "open"),
                 !.planned = IF IsCurrent(c, s) THEN s ELSE channel[c].planned]]
  /\ service' = [service EXCEPT !.connected = IF IsCurrent(c, s) THEN @ \cup {c} ELSE @]
  /\ UNCHANGED <<bound, now, fetches, accumulators>>

\* 'error': failSocket(..., true)
SocketErrors(c, s) ==
  /\ s \in Live(c) /\ channel[c].live[s].state # "closing"
  /\ LET closed == [channel[c] EXCEPT !.live = SetState(@, s, "closing")]
     IN  IF IsCurrent(c, s) THEN FailSocket(c, closed) ELSE IgnoreSocket(c, closed)
  /\ UNCHANGED <<bound, now, fetches>>

\* 'close': failSocket(..., false)
SocketCloses(c, s) ==
  /\ s \in Live(c)
  /\ LET closed == [channel[c] EXCEPT !.live = Forget(@, s)]
     IN  IF IsCurrent(c, s) THEN FailSocket(c, closed) ELSE IgnoreSocket(c, closed)
  /\ UNCHANGED <<bound, now, fetches>>

\* The timer of plannedReconnectTimers
PlannedReconnect(c) ==
  /\ channel[c].planned \in Live(c)
  /\ channel[c].live[channel[c].planned].state = "open"
  /\ channel' = [channel EXCEPT ![c] =
       [@ EXCEPT !.live = SetState(channel[c].live, channel[c].planned, "closing")]]
  /\ UNCHANGED <<bound, now, service, fetches, accumulators>>

\* The timer of reconnectTimers, which scheduleReconnect has set
ReconnectTimerFires(c) ==
  /\ channel[c].reconnectTimer # NoTag
  /\ LET fired == [channel[c] EXCEPT !.reconnectTimer = NoTag]
         run   == channel[c].reconnectTimer.run
     IN  \E ch \in IF IsRunActive(run) THEN Connect(c, fired, run) ELSE {fired} :
           channel' = [channel EXCEPT ![c] = ch]
  /\ UNCHANGED <<bound, now, service, fetches, accumulators>>
-----------------------------------------------------------------------------
(***************************************************************************)
(* start and stop                                                          *)
(***************************************************************************)
\* start, from what the channels are then: connect both, poll at once
StartFrom(channels, run) ==
  /\ run \div 2 < bound.runs
  /\ Cardinality(fetches) < bound.fetches
  /\ service' = [started |-> TRUE, runGeneration |-> run, oiTimer |-> run, connected |-> {}]
  /\ fetches' = fetches \cup {[run |-> run, asked |-> now]}
  /\ \E public \in Connect("public", channels["public"], run),
        market \in Connect("market", channels["market"], run) :
       channel' = [public |-> public, market |-> market]

Start ==
  /\ ~service.started
  /\ StartFrom(channel, service.runGeneration + 1)
  /\ UNCHANGED <<bound, now, accumulators>>

Stop ==
  /\ service.started
  /\ service' = [started |-> FALSE, runGeneration |-> service.runGeneration + 1,
                 oiTimer |-> NoRun, connected |-> {}]
  /\ channel' = [c \in Channels |-> StopChannel(channel[c])]
  /\ UNCHANGED <<bound, now, fetches, accumulators>>

\* powerMonitor 'resume': stop and start in one turn
Resume ==
  /\ service.started
  /\ StartFrom([c \in Channels |-> StopChannel(channel[c])], service.runGeneration + 2)
  /\ UNCHANGED <<bound, now, accumulators>>
-----------------------------------------------------------------------------
(***************************************************************************)
(* What comes in: messages, and answers to the polls of open interest      *)
(***************************************************************************)
\* handleMessage, for a message that passes its schema
Handled(a, kind, e) ==
  CASE kind = "bookTicker" -> RecordBookTicker(a, e)
    [] kind = "depth20"    -> RecordDepth(a, e)
    [] kind = "aggTrade"   -> RecordTrade(a, e)
    [] kind = "markPrice"  -> RecordMark(a, e)
    [] kind = "kline_1m"   -> RecordCandle(a, e)
    [] kind = "forceOrder" -> RecordLiquidation(a, e)

\* How many events an accumulator remembers
Remembered(a) ==
  /\ Cardinality(a.book) + Cardinality(a.depth) + Cardinality(a.mark)
       + Cardinality(a.candle) + Cardinality(UNION {b.trades : b \in a.tradeBuckets})
       + Len(a.liquidationEvents) + Len(a.openInterestHistory) <= bound.events

\* 'message': one of the exchange's events, which may be overtaken
TakeMessage(c, s, symbol, kind, at) ==
  /\ IsCurrent(c, s)
  /\ accumulators' = [accumulators EXCEPT ![symbol] =
       Handled(@, kind, [at |-> at, received |-> now, run |-> service.runGeneration, from |-> s])]

SocketDelivers(c, s) ==
  /\ s \in Live(c) /\ channel[c].live[s].state \in {"open", "closing"}
  /\ \E symbol \in Symbols, kind \in KindsOf[c] \cap bound.kinds, at \in {now, now - 1} \cap Nat :
       TakeMessage(c, s, symbol, kind, at)
  /\ \A symbol \in Symbols : Remembered(accumulators'[symbol])
  /\ UNCHANGED <<bound, now, service, channel, fetches>>

\* The interval of oiTimer; it does not wait for the poll before.
OiTimerFires ==
  /\ service.oiTimer # NoRun
  /\ Cardinality(fetches) < bound.fetches
  /\ fetches' = fetches \cup {[run |-> service.oiTimer, asked |-> now]}
  /\ UNCHANGED <<bound, now, service, channel, accumulators>>

\* refreshOpenInterest goes on when every symbol has an answer or failed.
OiFetchEnds(fetch) ==
  /\ fetches' = fetches \ {fetch}
  /\ \E answered \in SUBSET Symbols, at \in fetch.asked .. now :
       accumulators' =
         [s \in Symbols |->
            IF IsRunActive(fetch.run) /\ s \in answered
            THEN RecordOpenInterest(accumulators[s],
                   [at |-> at, received |-> now, run |-> fetch.run, from |-> NoSocket])
            ELSE accumulators[s]]
  /\ \A s \in Symbols : Remembered(accumulators'[s])
  /\ UNCHANGED <<bound, now, service, channel>>

\* getObservations: a snapshot prunes
Observe ==
  /\ accumulators' = [s \in Symbols |-> Prune(accumulators[s], now)]
  /\ UNCHANGED <<bound, now, service, channel, fetches>>

Tick ==
  /\ now < bound.time
  /\ now' = now + 1
  /\ UNCHANGED <<bound, service, channel, fetches, accumulators>>

Next ==
  \/ Start \/ Stop \/ Resume \/ OiTimerFires \/ Observe \/ Tick
  \/ \E f \in fetches : OiFetchEnds(f)
  \/ \E c \in Channels :
       \/ PlannedReconnect(c)
       \/ ReconnectTimerFires(c)
       \/ \E s \in Live(c) : \/ SocketOpens(c, s) \/ SocketErrors(c, s)
                             \/ SocketCloses(c, s) \/ SocketDelivers(c, s)

\* Timers that are set fire, a socket that is closing closes, and one of many
\* connections in a row is created and opens.
Fairness ==
  \A c \in Channels :
    /\ WF_vars(ReconnectTimerFires(c))
    /\ SF_vars(ReconnectTimerFires(c) /\ channel'[c].current # NoSocket)
    /\ \A s \in 1 .. 2 :
         /\ SF_vars(SocketOpens(c, s) /\ channel'[c].planned = s)
         /\ WF_vars(s \in Live(c) /\ channel[c].live[s].state = "closing" /\ SocketCloses(c, s))

Spec == Init /\ [][Next]_vars /\ Fairness
-----------------------------------------------------------------------------
(***************************************************************************)
(* Properties                                                              *)
(***************************************************************************)
\* A channel of a started service has one working socket, which the service
\* knows and whose state it shows, or a reconnect pending for this run; a
\* stopped service has neither, and every other socket is closing
\* (connect, failSocket, scheduleReconnect and stop against late events).
OneStreamEach ==
  \A c \in Channels :
    LET ch == channel[c]
    IN  /\ service.started => OneStream(ch, RunTag(service.runGeneration))
        /\ ~service.started => NoStream(ch)
        /\ c \in service.connected =>
             ch.current \in Live(c) /\ ch.live[ch.current].state # "connecting"
               /\ ch.planned = ch.current

\* What an observation shows of a channel, its returns, flows and liquidations
\* included, was delivered by the current socket of the channel, unless it was
\* collected in an earlier run: nothing of a stream that was lost is shown, and
\* an asset is rated usable only if one of these brought something in time
\* (failSocket, resetPublicStream, resetMarketStream, getEvidenceHealth).
LostStreamLeavesNothing ==
  \A s \in Symbols :
    LET a == Prune(accumulators[s], now)
        IsOf(c, e) == e.run = service.runGeneration => e.from = channel[c].current
    IN  /\ \A e \in PublicEvents(a) : IsOf("public", e)
        /\ \A e \in MarketEvents(a, now) : IsOf("market", e)
        /\ \A limits \in Threshold :
             LeadHealth(a, now, limits, limits).tradeBook \in {"NORMAL", "DEGRADED"} =>
               \E e \in PublicEvents(a) \cup MarketEvents(a, now) :
                 /\ e.received >= now - limits.usableMaxAge
                 /\ \E c \in Channels : IsOf(c, e)

\* The open interest that is shown never goes back in time, whatever order the
\* polls of two runs are answered in, and its changes are measured from points
\* no later than it (recordOpenInterest, openInterestChange).
OpenInterestLater ==
  \A s \in Symbols :
    LET old == accumulators[s].openInterestHistory
        new == accumulators'[s].openInterestHistory
    IN  /\ old # <<>> /\ new # <<>> => Last(new).at >= Last(old).at
        /\ \A w \in OiWindows : \A e \in OiReferences(accumulators'[s], now', w) :
             e.at <= Last(new).at

\* A service that stays started has its streams connected again and again,
\* where sockets can be created at all.
StreamUp(c) == c \in service.connected \/ ~service.started \/ bound.sockets[c] = 0
=============================================================================
