--------------------------- MODULE CoinbaseCollector ---------------------------
(***************************************************************************)
(* CoinbaseSpotMarketService (market/cross-venue/coinbase-spot-service.ts):*)
(* one socket for each product, whose level2 messages carry a book and the *)
(* updates of it.  A gap in their numbers closes the socket; so does a     *)
(* heartbeat that stays away.                                              *)
(***************************************************************************)
EXTENDS StreamChannels, CoinbaseAccumulator

CONSTANTS
  Products,          \* COINBASE_SPOT_PRODUCTS
  HeartbeatStale     \* HEARTBEAT_STALE_MS

VARIABLES
  bound,         \* the bounds of this behaviour
  now,
  service,       \* started, runGeneration, the run of healthTimer, and by product
                 \* status.connected, lastHeartbeatAt and level2Sequences;
                 \* flawed is a history of the model, which no step reads: the
                 \* products whose book may lack what a message should have told
  channel,       \* the socket and the timer of each product
  accumulators

vars == <<bound, now, service, channel, accumulators>>

NoRun == 0
Never == -1
NoSequence == 0
RunTag(run) == [run |-> run, generation |-> 0]

TypeOK ==
  /\ bound \in Bounds
  /\ now \in 0 .. bound.time
  /\ service \in [started : BOOLEAN, runGeneration : Nat, healthTimer : Nat,
                  connected : SUBSET Products,
                  lastHeartbeatAt : [Products -> {Never} \cup Nat],
                  level2Sequence : [Products -> Nat], flawed : SUBSET Products]
  /\ DOMAIN channel = Products
  /\ \A p \in Products : ChannelOk(channel[p])
  /\ accumulators \in [Products -> CoinbaseAccumulator]

Init ==
  /\ bound \in Bounds
  /\ now = 0
  /\ service = [started |-> FALSE, runGeneration |-> 0, healthTimer |-> NoRun, connected |-> {},
                lastHeartbeatAt |-> [p \in Products |-> Never],
                level2Sequence |-> [p \in Products |-> NoSequence], flawed |-> {}]
  /\ channel = [p \in Products |-> NewChannel]
  /\ accumulators = [p \in Products |-> NewCoinbaseAccumulator]

\* isRunActive
IsRunActive(run) == service.started /\ service.runGeneration = run

Live(p) == DOMAIN channel[p].live

IsCurrent(p, s) ==
  s \in Live(p) /\ IsRunActive(channel[p].live[s].tag.run) /\ channel[p].current = s
-----------------------------------------------------------------------------
(***************************************************************************)
(* The life of a socket                                                    *)
(***************************************************************************)
\* connect, in an active run
Connect(p, ch, run) == Connected(ch, RunTag(run), {p}, bound.sockets[p])

\* fail, of the socket that the product has: its book is given up.
Fail(p, closed) ==
  /\ channel' = [channel EXCEPT ![p] = Lost(closed, RunTag(service.runGeneration))]
  /\ service' = [service EXCEPT !.connected = @ \ {p}, !.level2Sequence[p] = NoSequence,
                                !.flawed = @ \ {p}]
  /\ accumulators' = [accumulators EXCEPT ![p] = ResetBook(@)]

Ignore(p, closed) ==
  /\ channel' = [channel EXCEPT ![p] = closed]
  /\ UNCHANGED <<service, accumulators>>

SocketOpens(p, s) ==
  /\ s \in Live(p) /\ channel[p].live[s].state = "connecting"
  /\ channel' = [channel EXCEPT ![p] = [@ EXCEPT !.live = SetState(channel[p].live, s, "open")]]
  /\ IF IsCurrent(p, s)
     THEN /\ service' = [service EXCEPT !.connected = @ \cup {p},
                                        !.level2Sequence[p] = NoSequence,
                                        !.flawed = @ \ {p}]
          /\ accumulators' = [accumulators EXCEPT ![p] = ResetBook(@)]
     ELSE UNCHANGED <<service, accumulators>>
  /\ UNCHANGED <<bound, now>>

SocketErrors(p, s) ==
  /\ s \in Live(p) /\ channel[p].live[s].state # "closing"
  /\ LET closed == [channel[p] EXCEPT !.live = SetState(@, s, "closing")]
     IN  IF channel[p].current = s THEN Fail(p, closed) ELSE Ignore(p, closed)
  /\ UNCHANGED <<bound, now>>

SocketCloses(p, s) ==
  /\ s \in Live(p)
  /\ LET closed == [channel[p] EXCEPT !.live = Forget(@, s)]
     IN  IF channel[p].current = s THEN Fail(p, closed) ELSE Ignore(p, closed)
  /\ UNCHANGED <<bound, now>>

\* The timer that scheduleReconnect has set
ReconnectTimerFires(p) ==
  /\ channel[p].reconnectTimer # NoTag
  /\ LET fired == [channel[p] EXCEPT !.reconnectTimer = NoTag]
         run   == channel[p].reconnectTimer.run
     IN  \E ch \in IF IsRunActive(run) THEN Connect(p, fired, run) ELSE {fired} :
           channel' = [channel EXCEPT ![p] = ch]
  /\ UNCHANGED <<bound, now, service, accumulators>>

\* checkHealth: a connected product that was not heard of is closed.  The time
\* of the last heartbeat may be that of the socket before.
HealthTimerFires ==
  /\ service.healthTimer # NoRun
  /\ channel' =
       [p \in Products |->
          IF /\ IsRunActive(service.healthTimer)
             /\ p \in service.connected
             /\ service.lastHeartbeatAt[p] # Never
             /\ now - service.lastHeartbeatAt[p] > HeartbeatStale
          THEN CloseSocket(channel[p]) ELSE channel[p]]
  /\ UNCHANGED <<bound, now, service, accumulators>>
-----------------------------------------------------------------------------
(***************************************************************************)
(* start and stop                                                          *)
(***************************************************************************)
Start ==
  /\ ~service.started
  /\ service.runGeneration \div 2 < bound.runs
  /\ LET run == service.runGeneration + 1
     IN  /\ service' = [service EXCEPT !.started = TRUE, !.runGeneration = run, !.healthTimer = run]
         /\ channel' \in {f \in [Products -> UNION {Connect(p, channel[p], run) : p \in Products}] :
                            \A p \in Products : f[p] \in Connect(p, channel[p], run)}
  /\ UNCHANGED <<bound, now, accumulators>>

Stop ==
  /\ service.started
  /\ service' = [service EXCEPT !.started = FALSE, !.runGeneration = @ + 1,
                                !.healthTimer = NoRun, !.connected = {},
                                !.level2Sequence = [p \in Products |-> NoSequence],
                                !.flawed = {}]
  /\ channel' = [p \in Products |-> Released(CloseSocket(channel[p]))]
  /\ accumulators' = [p \in Products |-> ResetBook(accumulators[p])]
  /\ UNCHANGED <<bound, now>>
-----------------------------------------------------------------------------
(***************************************************************************)
(* handleMessage.  The exchange numbers the level2 messages of a           *)
(* connection from its snapshot; each update sets one level.  They may be  *)
(* lost (as one that is no JSON or no envelope is), repeated and           *)
(* overtaken.  What arrives may lack its number, the event in it, or       *)
(* updates of the event: whatever the schemas and toNumber let through.    *)
(***************************************************************************)
LevelOf(n) == n % 2
QuantityOf(n) == n % 3

\* What the n-th message tells, by level
UpdatesOf(n) == IF n = 1 THEN [l \in Levels |-> 1] ELSE [l \in {LevelOf(n)} |-> QuantityOf(n)]

\* The book of the exchange after its n-th message.
BookAfter[n \in Nat] ==
  IF n = 0 THEN Empty ELSE ApplyBookLevels(BookAfter[n - 1], UpdatesOf(n))

\* A message as it arrives: with or without sequence_num, and the levels that can
\* be read of an event that fits level2EventSchema, if it has one
Level2Messages ==
  [number : 1 .. bound.messages, numbered : BOOLEAN,
   event : {None} \cup {Some(ls) : ls \in SUBSET Levels}]

Whole(m) == m.numbered /\ m.event = Some(Levels)

EventFrom(s) == [at |-> now, received |-> now, run |-> service.runGeneration, from |-> s]

TakeHeartbeat(p) ==
  /\ service' = [service EXCEPT !.lastHeartbeatAt[p] = now]
  /\ UNCHANGED <<channel, accumulators>>

TakeTicker(p, s) ==
  /\ accumulators' = [accumulators EXCEPT ![p] = IngestTicker(@, EventFrom(s))]
  /\ UNCHANGED <<channel, service>>

TakeTrade(p, s) ==
  /\ accumulators' = [accumulators EXCEPT ![p] = IngestTrade(@, EventFrom(s))]
  /\ UNCHANGED <<channel, service>>

\* The events of a message: none, or one whose updates are those that parse.  An
\* event without any is applied all the same.
Applied(a, m, e) ==
  LET told    == UpdatesOf(m.number)
      updates == [l \in DOMAIN told \cap UNION m.event |-> told[l]]
  IN  IF m.event = None THEN a
      ELSE IF m.number = 1 THEN ApplyBookSnapshot(a, updates, e)
      ELSE ApplyBookUpdate(a, updates, e)

\* The history after a message was taken: a whole snapshot leaves nothing of before.
FlawedBy(p, m) ==
  IF ~Whole(m) THEN service.flawed \cup {p}
  ELSE IF m.number = 1 THEN service.flawed \ {p}
  ELSE service.flawed

\* Mutant: a message that was lost goes unnoticed.
TakeLevel2Unchecked(p, s, m) ==
  LET repeated == m.numbered /\ m.number <= service.level2Sequence[p]
  IN  /\ service' = IF repeated THEN service
                    ELSE [service EXCEPT !.level2Sequence[p] = IF m.numbered THEN m.number ELSE @,
                                         !.flawed = FlawedBy(p, m)]
      /\ accumulators' = [accumulators EXCEPT ![p] =
                            IF repeated THEN @ ELSE Applied(@, m, EventFrom(s))]
      /\ UNCHANGED channel

\* A gap closes the socket, a repeated message is left out; neither is asked of a
\* message without a number.  The number is taken before the events are looked at.
TakeLevel2(p, s, m) ==
  LET previous == service.level2Sequence[p]
      gap      == m.numbered /\ previous # NoSequence /\ m.number > previous + 1
      repeated == m.numbered /\ m.number <= previous
  IN  /\ channel' = [channel EXCEPT ![p] = IF gap THEN CloseSocket(@) ELSE @]
      /\ service' =
           IF gap THEN [service EXCEPT !.level2Sequence[p] = NoSequence, !.flawed = @ \ {p}]
           ELSE IF repeated THEN service
           ELSE [service EXCEPT !.level2Sequence[p] = IF m.numbered THEN m.number ELSE @,
                                !.flawed = FlawedBy(p, m)]
      /\ accumulators' = [accumulators EXCEPT ![p] =
                            IF gap THEN ResetBook(@)
                            ELSE IF repeated THEN @ ELSE Applied(@, m, EventFrom(s))]

Remembered(a) == Len(a.prices) + Len(a.trades) <= bound.events

SocketDelivers(p, s) ==
  /\ IsCurrent(p, s) /\ channel[p].live[s].state \in {"open", "closing"}
  /\ \/ "heartbeats" \in bound.kinds /\ TakeHeartbeat(p)
     \/ "ticker" \in bound.kinds /\ TakeTicker(p, s)
     \/ "market_trades" \in bound.kinds /\ TakeTrade(p, s)
     \/ \E m \in Level2Messages :
          ("damaged" \in bound.kinds \/ Whole(m)) /\ TakeLevel2(p, s, m)
  /\ Remembered(accumulators'[p])
  /\ UNCHANGED <<bound, now>>

\* getObservations
Observe ==
  /\ accumulators' = [p \in Products |->
       IF IsSeen(accumulators[p]) THEN Trim(accumulators[p], now) ELSE accumulators[p]]
  /\ UNCHANGED <<bound, now, service, channel>>

Tick ==
  /\ now < bound.time
  /\ now' = now + 1
  /\ UNCHANGED <<bound, service, channel, accumulators>>

Next ==
  \/ Start \/ Stop \/ HealthTimerFires \/ Observe \/ Tick
  \/ \E p \in Products :
       \/ ReconnectTimerFires(p)
       \/ \E s \in Live(p) : \/ SocketOpens(p, s) \/ SocketErrors(p, s)
                             \/ SocketCloses(p, s) \/ SocketDelivers(p, s)

\* As for the other collectors.
Fairness ==
  \A p \in Products :
    /\ WF_vars(ReconnectTimerFires(p))
    /\ SF_vars(ReconnectTimerFires(p) /\ channel'[p].current # NoSocket)
    /\ \A s \in 1 .. 2 :
         /\ SF_vars(SocketOpens(p, s) /\ p \in service'.connected)
         /\ WF_vars(s \in Live(p) /\ channel[p].live[s].state = "closing" /\ SocketCloses(p, s))

Spec == Init /\ [][Next]_vars /\ Fairness
-----------------------------------------------------------------------------
(***************************************************************************)
(* Properties                                                              *)
(***************************************************************************)
\* A product of a started service has one working socket, whose state it
\* shows, or a reconnect pending for this run; a stopped one has neither
\* (connect, fail, scheduleReconnect and stop against late events).
OneStreamEach ==
  \A p \in Products :
    LET ch == channel[p]
    IN  /\ service.started => OneStream(ch, RunTag(service.runGeneration))
        /\ ~service.started => NoStream(ch)
        /\ p \in service.connected =>
             ch.current \in Live(p) /\ ch.live[ch.current].state # "connecting"

\* A synchronized book does not outlive its connection: its best prices came by
\* the socket the product has now.  And it is the exchange's book after the message
\* that was applied last, whatever was lost, repeated or overtaken before, unless
\* since its snapshot a message had no number or could not be read whole: such a
\* message leaves the book synchronized (handleMessage, fail, resetBook).
CoinbaseBookExact ==
  \A p \in Products :
    LET a == accumulators[p]
    IN  a.synchronized =>
          /\ p \in service.connected
          /\ \A e \in BestFrom(a) :
               e.run = service.runGeneration /\ e.from = channel[p].current
          /\ \/ p \in service.flawed
             \/ /\ service.level2Sequence[p] # NoSequence
                /\ a.book = BookAfter[service.level2Sequence[p]]

\* A service that stays started has its products connected again and again.
StreamUp(p) == p \in service.connected \/ ~service.started \/ bound.sockets[p] = 0
=============================================================================
