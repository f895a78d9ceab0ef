---------------------------- MODULE MCAltCollector ----------------------------
(***************************************************************************)
(* AltCollector, the third venue of the collectors, for the model checker: *)
(* one symbol that is always followed and two that take turns in a basket  *)
(* of one.  A behaviour explores the sockets, or what they deliver while   *)
(* scans change the basket, or scans and polls, not all at once.           *)
(***************************************************************************)
EXTENDS MCCollectors

CONSTANTS CoreSymbols, Exchanges,                              \* AltCollector
          TargetSize, MinResidence, MinListingAge, SymbolOrder   \* DynamicBasket

Alt == INSTANCE AltCollector

\* The exchange lists a symbol once, and localeCompare orders the symbols.
ASSUME BasketAssumption ==
  /\ TargetSize \in Nat
  /\ DOMAIN SymbolOrder \subseteq Nat
  /\ \A i, j \in DOMAIN SymbolOrder : SymbolOrder[i] = SymbolOrder[j] => i = j
  /\ \A listings \in Exchanges :
       /\ IsFiniteSet(listings)
       /\ \A k, l \in listings : k.symbol = l.symbol => k = l
       /\ \A l \in listings : l.symbol \in Alt!Listable

AltCase(public, market, runs, generations, fetchCount, events, time, kinds) ==
  [sockets |-> [public |-> public, market |-> market], runs |-> runs,
   generations |-> generations, fetches |-> fetchCount, events |-> events,
   time |-> time, kinds |-> kinds]

AltCases == {AltCase(2, 1, 2, 1, 0, 0, 0, {}),
          AltCase(1, 0, 1, 3, 1, 1, 1, {"bookTicker", "scan"}),
          AltCase(2, 0, 1, 2, 1, 1, 1, {"bookTicker", "scan"}),
          AltCase(0, 1, 2, 2, 0, 2, 1, {"aggTrade", "forceOrder"}),
          AltCase(0, 1, 1, 3, 1, 1, 1, {"markPrice", "scan"}),
          AltCase(0, 0, 1, 2, 2, 1, 1, {"scan", "poll"}),
          AltCase(0, 0, 2, 1, 2, 2, 2, {"poll"}),
          AltCase(0, 0, 1, 4, 2, 1, 3, {"scan"})}

\* The onboard date of a listing that has none, Null of DynamicBasket
NoDate == -1

Listing(s, volume, oi) ==
  [symbol |-> s, traded |-> TRUE, onboard |-> NoDate, ticker |-> volume, book |-> 1,
   openInterest |-> oi]

\* X ahead of Y, Y ahead of X, and X no longer listed
Markets == {{Listing("X", 2, 2), Listing("Y", 1, 1)},
            {Listing("X", 1, 1), Listing("Y", 2, 2)},
            {Listing("Y", 1, 1)}}
Order == <<"C", "X", "Y">>
Core == {"C"}
-----------------------------------------------------------------------------
AltInit == venue = "alt" /\ Alt!Init
AltNext == Alt!Next /\ UNCHANGED venue
AltSpec == AltInit /\ [][AltNext]_mcVars /\ Alt!Fairness
-----------------------------------------------------------------------------
\* OneStreamEach of the alt symbols: one working socket of the generation, for the
\* symbols that are followed, or one reconnect pending, and none when stopped.
AltStreamsAreOne == Alt!OneStreamEach

\* Members of the basket keep their time of residence, and few leave in one scan.
BasketResidence == Alt!BasketResidence

\* The streams of a service that stays started are connected again and again.
AltStreamsComeBack == Alt!StreamsComeBack
=============================================================================
