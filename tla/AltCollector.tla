----------------------------- MODULE AltCollector -----------------------------
(***************************************************************************)
(* AltMarketService (market/multicoin/alt-service.ts): the two streams of  *)
(* the symbols followed at a time, the basket that a scan of the exchange  *)
(* changes while they run, and the polls of open interest.  A change of    *)
(* the symbols replaces both sockets under a new generation, with no reset *)
(* of the accumulators.                                                    *)
(***************************************************************************)
EXTENDS StreamChannels, AltAccumulator, DynamicBasket

CONSTANTS
  CoreSymbols,   \* SENTIMENT_CORE_SYMBOLS
  Exchanges      \* what the exchange may list when it is scanned: sets of listings

Channels == {"public", "market"}

KindsOf == [public |-> {"bookTicker"}, market |-> {"aggTrade", "markPrice", "forceOrder"}]

VARIABLES
  bound,         \* the bounds of this behaviour
  now,
  service,       \* started, the generations, the run of the timers, and basket and
                 \* candidates
  channel,       \* sockets and timers of each channel
  fetches,       \* scans and polls in flight
  accumulators   \* by symbol, for every symbol ever followed

vars == <<bound, now, service, channel, fetches, accumulators>>

NoRun == 0
CurrentTag == [run |-> service.runGeneration, generation |-> service.streamGeneration]

\* activeSymbols, which applyCandidates derives from the basket
ActiveSymbols == CoreSymbols \cup {m.symbol : m \in service.basket}

Listable == ToSet(SymbolOrder)
Fetch == [kind : {"scan", "poll"}, run : Nat, asked : Nat, symbols : SUBSET Listable]

TypeOK ==
  /\ bound \in Bounds
  /\ now \in 0 .. bound.time
  /\ service.started \in BOOLEAN
  /\ {service.runGeneration, service.streamGeneration, service.timers} \subseteq Nat
  /\ service.basket \subseteq [symbol : Listable, score : Nat, selectedAt : 0 .. now]
  /\ service.candidates \subseteq Listable
  /\ DOMAIN channel = Channels
  /\ \A c \in Channels : ChannelOk(channel[c])
  /\ fetches \subseteq Fetch
  /\ \A s \in DOMAIN accumulators : accumulators[s] \in AltAccumulator

Init ==
  /\ bound \in Bounds
  /\ now = 0
  /\ service = [started |-> FALSE, runGeneration |-> 0, streamGeneration |-> 0,
                timers |-> NoRun, basket |-> {}, candidates |-> {}]
  /\ channel = [c \in Channels |-> NewChannel]
  /\ fetches = {}
  /\ accumulators = [s \in CoreSymbols |-> NewAltAccumulator("SENTIMENT_CORE")]

\* isActive
IsActive(run) == service.started /\ service.runGeneration = run

Live(c) == DOMAIN channel[c].live

\* isCurrentSocket
IsCurrentSocket(c, s) ==
  /\ s \in Live(c)
  /\ IsActive(channel[c].live[s].tag.run)
  /\ channel[c].live[s].tag.generation = service.streamGeneration
  /\ channel[c].current = s
-----------------------------------------------------------------------------
(***************************************************************************)
(* The life of a channel                                                   *)
(***************************************************************************)
\* Mutant: the reconnect of the channel that was replaced stays pending.
RebuildKeepingTimers(tag, symbols) ==
  LET Rebuilt(c) ==
        Connected([Released(CloseSocket(channel[c]))
                     EXCEPT !.reconnectTimer = channel[c].reconnectTimer],
                  tag, symbols, bound.sockets[c])
  IN  \E public \in Rebuilt("public"), market \in Rebuilt("market") :
        channel' = [public |-> public, market |-> market]

\* rebuildStreams, for `symbols` under `tag`: both sockets are replaced.
RebuildStreams(tag, symbols) ==
  LET Rebuilt(c) == Connected(Released(CloseSocket(channel[c])), tag, symbols, bound.sockets[c])
  IN  \E public \in Rebuilt("public"), market \in Rebuilt("market") :
        channel' = [public |-> public, market |-> market]

\* failSocket, of the current socket: the symbols followed now are reset.
FailSocket(c, closed) ==
  /\ channel' = [channel EXCEPT ![c] = Lost(closed, CurrentTag)]
  /\ accumulators' = [s \in DOMAIN accumulators |->
                        IF s \notin ActiveSymbols THEN accumulators[s]
                        ELSE IF c = "public" THEN ResetPublicStream(accumulators[s])
                        ELSE ResetMarketStream(accumulators[s])]

\* failSocket, of a socket that is not current
IgnoreSocket(c, closed) ==
  /\ channel' = [channel EXCEPT ![c] = closed]
  /\ UNCHANGED accumulators

SocketOpens(c, s) ==
  /\ s \in Live(c) /\ channel[c].live[s].state = "connecting"
  /\ channel' = [channel EXCEPT ![c] =
       [@ EXCEPT !.live = SetState(channel[c].live, s, "open"),
                 !.planned = IF IsCurrentSocket(c, s) THEN s ELSE channel[c].planned]]
  /\ UNCHANGED <<bound, now, service, fetches, accumulators>>

SocketErrors(c, s) ==
  /\ s \in Live(c) /\ channel[c].live[s].state # "closing"
  /\ LET closed == [channel[c] EXCEPT !.live = SetState(@, s, "closing")]
     IN  IF IsCurrentSocket(c, s) THEN FailSocket(c, closed) ELSE IgnoreSocket(c, closed)
  /\ UNCHANGED <<bound, now, service, fetches>>

SocketCloses(c, s) ==
  /\ s \in Live(c)
  /\ LET closed == [channel[c] EXCEPT !.live = Forget(@, s)]
     IN  IF IsCurrentSocket(c, s) THEN FailSocket(c, closed) ELSE IgnoreSocket(c, closed)
  /\ UNCHANGED <<bound, now, service, fetches>>

PlannedReconnect(c) ==
  /\ channel[c].planned \in Live(c)
  /\ channel[c].live[channel[c].planned].state = "open"
  /\ channel' = [channel EXCEPT ![c] =
       [@ EXCEPT !.live = SetState(channel[c].live, channel[c].planned, "closing")]]
  /\ UNCHANGED <<bound, now, service, fetches, accumulators>>

\* The timer that scheduleReconnect has set, and connect: the socket is asked
\* for the symbols that are followed by then.
ReconnectTimerFires(c) ==
  /\ channel[c].reconnectTimer # NoTag
  /\ LET tag   == channel[c].reconnectTimer
         fired == [channel[c] EXCEPT !.reconnectTimer = NoTag]
     IN  \E ch \in IF IsActive(tag.run) /\ tag.generation = service.streamGeneration
                   THEN Connected(fired, tag, ActiveSymbols, bound.sockets[c]) ELSE {fired} :
           channel' = [channel EXCEPT ![c] = ch]
  /\ UNCHANGED <<bound, now, service, fetches, accumulators>>
-----------------------------------------------------------------------------
(***************************************************************************)
(* start, stop and the basket                                              *)
(***************************************************************************)
Scan(run) == [kind |-> "scan", run |-> run, asked |-> now, symbols |-> {}]
Poll(run) == [kind |-> "poll", run |-> run, asked |-> now, symbols |-> ActiveSymbols]

\* Only requests of the kinds that this behaviour explores
Asked(new) ==
  LET asked == fetches \cup {f \in new : f.kind \in bound.kinds}
  IN  Cardinality(asked) <= bound.fetches /\ fetches' = asked

\* start: new streams, a scan and a poll at once, and their timers
Start ==
  /\ ~service.started
  /\ service.runGeneration \div 2 < bound.runs
  /\ LET run == service.runGeneration + 1
         generation == service.streamGeneration + 1
     IN  /\ service' = [service EXCEPT !.started = TRUE, !.runGeneration = run,
                                       !.streamGeneration = generation, !.timers = run]
         /\ RebuildStreams([run |-> run, generation |-> generation], ActiveSymbols)
         /\ Asked({Scan(run), Poll(run)})
  /\ UNCHANGED <<bound, now, accumulators>>

Stop ==
  /\ service.started
  /\ service' = [service EXCEPT !.started = FALSE, !.runGeneration = @ + 1,
                                !.streamGeneration = @ + 1, !.timers = NoRun]
  /\ channel' = [c \in Channels |-> Released(CloseSocket(channel[c]))]
  /\ UNCHANGED <<bound, now, fetches, accumulators>>

\* The intervals of scanTimer and oiTimer
TimerFires ==
  /\ service.timers # NoRun
  /\ \E f \in {Scan(service.timers), Poll(service.timers)} : Asked({f})
  /\ UNCHANGED <<bound, now, service, channel, accumulators>>

\* refreshBasket has failed, or its run is over: the basket stays.
ScanFails(f) ==
  /\ f.kind = "scan"
  /\ fetches' = fetches \ {f}
  /\ UNCHANGED <<bound, now, service, channel, accumulators>>

\* applyCandidates: a new basket, accumulators for its members, and new
\* streams when the symbols have changed
ApplyCandidates(candidates) ==
  LET dynamic == {c \in candidates : c.symbol \notin CoreSymbols}
      basket  == SelectDynamicBasket(now, dynamic, service.basket)
      chosen  == {m.symbol : m \in basket}
      active  == CoreSymbols \cup chosen
      rebuild == active # ActiveSymbols
      generation == service.streamGeneration + 1
  IN  /\ accumulators' =
           [s \in DOMAIN accumulators \cup active |->
              IF s \notin DOMAIN accumulators THEN NewAltAccumulator("DYNAMIC")
              ELSE [accumulators[s] EXCEPT
                      !.tier = IF s \in CoreSymbols THEN "SENTIMENT_CORE"
                               ELSE IF s \in chosen THEN "DYNAMIC" ELSE @]]
      /\ service' = [service EXCEPT !.basket = basket,
                                    !.candidates = {c.symbol : c \in dynamic},
                                    !.streamGeneration = IF rebuild THEN generation ELSE @]
      /\ IF rebuild
         THEN /\ generation <= bound.generations
              /\ RebuildStreams([run |-> service.runGeneration, generation |-> generation], active)
         ELSE UNCHANGED channel

ScanSucceeds(f) ==
  /\ f.kind = "scan" /\ IsActive(f.run)
  /\ fetches' = fetches \ {f}
  /\ \E listings \in Exchanges, answered \in {{}, Listable} :
       ApplyCandidates(ScanDynamicBasketCandidates(listings, answered, now))
  /\ UNCHANGED <<bound, now>>
-----------------------------------------------------------------------------
(***************************************************************************)
(* Messages, and answers to the polls of open interest                     *)
(***************************************************************************)
Remembered(a) ==
  Cardinality(a.book) + Cardinality(a.mark)
    + Cardinality(UNION {b.trades : b \in a.tradeBuckets})
    + Len(a.liquidations) + Len(a.openInterestHistory) <= bound.events

\* handleMessage, for a symbol that activeAccumulator finds
Handled(a, kind, e) ==
  CASE kind = "bookTicker" -> RecordBook(a, e)
    [] kind = "aggTrade"   -> RecordTrade(a, e)
    [] kind = "markPrice"  -> RecordMark(a, e)
    [] kind = "forceOrder" -> RecordLiquidation(a, e)

SocketDelivers(c, s) ==
  /\ IsCurrentSocket(c, s) /\ channel[c].live[s].state \in {"open", "closing"}
  /\ \E symbol \in channel[c].live[s].symbols \cap ActiveSymbols,
        kind \in KindsOf[c] \cap bound.kinds :
       accumulators' = [accumulators EXCEPT ![symbol] =
         Handled(@, kind, [at |-> now, received |-> now,
                           run |-> service.streamGeneration, from |-> s])]
  /\ \A symbol \in DOMAIN accumulators : Remembered(accumulators'[symbol])
  /\ UNCHANGED <<bound, now, service, channel, fetches>>

\* refreshOpenInterest goes on when every symbol has an answer or failed.
PollEnds(f) ==
  /\ f.kind = "poll"
  /\ fetches' = fetches \ {f}
  /\ \E answered \in SUBSET f.symbols, at \in f.asked .. now :
       accumulators' =
         [s \in DOMAIN accumulators |->
            IF IsActive(f.run) /\ s \in answered
            THEN RecordOpenInterest(accumulators[s],
                   [at |-> at, received |-> now, run |-> 0, from |-> NoSocket])
            ELSE accumulators[s]]
  /\ \A s \in DOMAIN accumulators : Remembered(accumulators'[s])
  /\ UNCHANGED <<bound, now, service, channel>>

\* getObservations prunes
Observe ==
  /\ accumulators' = [s \in DOMAIN accumulators |-> Prune(accumulators[s], now)]
  /\ UNCHANGED <<bound, now, service, channel, fetches>>

Tick ==
  /\ now < bound.time
  /\ now' = now + 1
  /\ UNCHANGED <<bound, service, channel, fetches, accumulators>>

Next ==
  \/ Start \/ Stop \/ TimerFires \/ Observe \/ Tick
  \/ \E f \in fetches : ScanFails(f) \/ ScanSucceeds(f) \/ PollEnds(f)
  \/ \E c \in Channels :
       \/ PlannedReconnect(c)
       \/ ReconnectTimerFires(c)
       \/ \E s \in Live(c) : \/ SocketOpens(c, s) \/ SocketErrors(c, s)
                             \/ SocketCloses(c, s) \/ SocketDelivers(c, s)

\* As for the lead assets.
Fairness ==
  \A c \in Channels :
    /\ WF_vars(ReconnectTimerFires(c))
    /\ SF_vars(ReconnectTimerFires(c) /\ channel'[c].current # NoSocket)
    /\ \A s \in 1 .. 2 :
         /\ SF_vars(SocketOpens(c, s) /\ channel'[c].planned = s)
         /\ WF_vars(s \in Live(c) /\ channel[c].live[s].state = "closing" /\ SocketCloses(c, s))

Spec == Init /\ [][Next]_vars /\ Fairness
-----------------------------------------------------------------------------
(***************************************************************************)
(* Properties                                                              *)
(***************************************************************************)
\* A channel of a started service has one working socket of the current
\* generation, for exactly the symbols that are followed, or a reconnect
\* pending that will create it; a stopped service has neither (rebuildStreams,
\* connect and failSocket against late events).  What an observation shows of
\* the streams of this generation was delivered by these sockets; what an
\* earlier generation delivered stays, rebuildStreams resets nothing.
OneStreamEach ==
  /\ \A c \in Channels :
       LET ch == channel[c]
       IN  /\ service.started =>
                /\ OneStream(ch, CurrentTag)
                /\ ch.current \in Live(c) => ch.live[ch.current].symbols = ActiveSymbols
           /\ ~service.started => NoStream(ch)
  /\ \A s \in ActiveSymbols :
       LET a == Prune(accumulators[s], now)
           IsOf(c, e) == e.run = service.streamGeneration => e.from = channel[c].current
       IN  /\ \A e \in PublicEvents(a) : IsOf("public", e)
           /\ \A e \in MarketEvents(a, now) : IsOf("market", e)

\* A member of the basket that is still a candidate leaves it only after its
\* time of residence, however much better another symbol has become, and one
\* scan gives up no more such members than it may (selectDynamicBasket).
BasketResidence ==
  [][LET left == {m \in service.basket :
                    /\ m.symbol \in service'.candidates
                    /\ \A n \in service'.basket : n.symbol # m.symbol \/ n.selectedAt # m.selectedAt}
     IN  /\ \A m \in left : now - m.selectedAt >= MinResidence
         /\ Cardinality(left) <= MaxElectiveReplacements]_vars

\* A service that stays started has its streams connected again and again,
\* unless its symbols change for ever.
StreamsComeBack ==
  \A c \in Channels :
    []<>(channel[c].planned # NoSocket \/ ~service.started \/ bound.sockets[c] = 0)
=============================================================================
