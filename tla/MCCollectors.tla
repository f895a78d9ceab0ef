---------------------------- MODULE MCCollectors ----------------------------
(***************************************************************************)
(* LeadCollector and CoinbaseCollector for the model checker.  A behaviour *)
(* is of one venue: of the lead assets, of which there is one here, or of  *)
(* Coinbase, with two products.  It explores the sockets of all streams,   *)
(* or what one stream delivers, or the polls, not all at once.  Two        *)
(* sockets of a stream are the least that an old one can meet a new one    *)
(* with; none is a stream whose sockets cannot be created.  Four level2    *)
(* messages set each level of the book, and remove one; where they may be  *)
(* damaged, nothing else is delivered.                                     *)
(***************************************************************************)
EXTENDS LeadCollector

CONSTANTS CoinbaseBounds, Products, HeartbeatStale, MaxHistory   \* CoinbaseCollector

ASSUME CoinbaseAssumption == \A b \in CoinbaseBounds : b.sockets \in [Products -> Nat]

VARIABLE venue   \* "lead" or "coinbase"

LeadCase(public, market, runs, fetchCount, events, time, kinds) ==
  [sockets |-> [public |-> public, market |-> market], runs |-> runs,
   fetches |-> fetchCount, events |-> events, time |-> time, kinds |-> kinds]

LeadCases == {LeadCase(2, 2, 2, 1, 0, 0, {}),
              LeadCase(2, 0, 2, 1, 2, 1, {"bookTicker", "depth20"}),
              LeadCase(0, 2, 2, 1, 1, 1, {"markPrice", "kline_1m"}),
              LeadCase(0, 2, 1, 1, 2, 2, {"aggTrade", "forceOrder"}),
              LeadCase(0, 0, 2, 2, 2, 2, {})}

CoinbaseCase(btc, eth, runs, messages, events, time, kinds) ==
  [sockets |-> [BTC |-> btc, ETH |-> eth], runs |-> runs, messages |-> messages,
   events |-> events, time |-> time, kinds |-> kinds]

CoinbaseCases == {CoinbaseCase(2, 1, 2, 0, 0, 0, {}),
                  CoinbaseCase(2, 0, 2, 4, 0, 2, {"heartbeats"}),
                  CoinbaseCase(2, 0, 1, 4, 0, 0, {"damaged"}),
                  CoinbaseCase(1, 0, 1, 2, 2, 2, {"ticker", "market_trades"})}

Assets == {"ETH"}
TwoProducts == {"BTC", "ETH"}

Coinbase == INSTANCE CoinbaseCollector WITH Bounds <- CoinbaseBounds
-----------------------------------------------------------------------------
OfLead == venue = "lead"
OfCoinbase == venue = "coinbase"

MCInit ==
  \/ OfLead /\ Init
  \/ OfCoinbase /\ Coinbase!Init /\ fetches = {}

MCNext ==
  \/ OfLead /\ Next /\ UNCHANGED venue
  \/ OfCoinbase /\ Coinbase!Next /\ UNCHANGED <<venue, fetches>>

mcVars == <<venue, bound, now, service, channel, fetches, accumulators>>

\* The fairness of both modules, for the i-th stream of the venue
Stream == [lead |-> <<"public", "market">>, coinbase |-> <<"BTC", "ETH">>]
Current(i) == channel[Stream[venue][i]]

Reconnects(i) ==
  \/ OfLead /\ ReconnectTimerFires(Stream.lead[i]) /\ UNCHANGED venue
  \/ OfCoinbase /\ Coinbase!ReconnectTimerFires(Stream.coinbase[i]) /\ UNCHANGED <<venue, fetches>>

Opens(i, s) ==
  \/ OfLead /\ SocketOpens(Stream.lead[i], s) /\ UNCHANGED venue
  \/ OfCoinbase /\ Coinbase!SocketOpens(Stream.coinbase[i], s) /\ UNCHANGED <<venue, fetches>>

Closes(i, s) ==
  \/ OfLead /\ SocketCloses(Stream.lead[i], s) /\ UNCHANGED venue
  \/ OfCoinbase /\ Coinbase!SocketCloses(Stream.coinbase[i], s) /\ UNCHANGED <<venue, fetches>>

Fair ==
  \A i \in 1 .. 2 :
    /\ WF_mcVars(Reconnects(i))
    /\ SF_mcVars(Reconnects(i) /\ Current(i)'.current # NoSocket)
    /\ \A s \in 1 .. 2 :
         /\ SF_mcVars(Opens(i, s) /\ IF OfLead THEN Current(i)'.planned = s
                                     ELSE Stream.coinbase[i] \in service'.connected)
         /\ WF_mcVars(/\ s \in DOMAIN Current(i).live /\ Current(i).live[s].state = "closing"
                      /\ Closes(i, s))

MCSpec == MCInit /\ [][MCNext]_mcVars /\ Fair
-----------------------------------------------------------------------------
\* OneStreamEach and LostStreamLeavesNothing of the lead assets, OneStreamEach of
\* Coinbase: one working socket or one reconnect pending for each stream of a
\* started service, and nothing shown of a stream that was lost.
StreamsAreOne ==
  /\ OfLead => OneStreamEach /\ LostStreamLeavesNothing
  /\ OfCoinbase => Coinbase!OneStreamEach

\* A synchronized book is of the connection the product has, and the exchange's
\* whatever messages were lost, as long as those that came could be read whole.
CoinbaseBookExact == OfCoinbase => Coinbase!CoinbaseBookExact

\* Open interest that is shown never goes back in time.
OpenInterestMovesOn == [][OfLead => OpenInterestLater]_mcVars

\* The streams of a service that stays started are connected again and again.
StreamsComeBack ==
  \A i \in 1 .. 2 :
    []<>(IF OfLead THEN StreamUp(Stream.lead[i]) ELSE Coinbase!StreamUp(Stream.coinbase[i]))
=============================================================================
