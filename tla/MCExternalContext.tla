--------------------------- MODULE MCExternalContext ---------------------------
(***************************************************************************)
(* Three behaviours of the external context, for model checking:           *)
(* `following` the sources (ExternalContext, to which items do not         *)
(* matter), `serving` the items to the relay (ContextUpload, to which it   *)
(* does not matter how they were collected) and `quoting` other venues     *)
(* (CrossMarket).  What a behaviour is not about stays as it began.  The   *)
(* polled source is the one with credentials, whose chain, while they      *)
(* stay, is that of every feed; two sockets are an old and a new one; the  *)
(* horizons reach back over none, one and all of the items.                *)
(***************************************************************************)
EXTENDS ContextUpload

CONSTANTS Feeds, Naver, SocketIds, NoSocket, MaxChains, MaxStrays   \* ExternalContext
CONSTANTS Null, Assets, Outcomes, Askers, CacheTtl, FallbackAge, FetchTime, LastMoment,
          MaxDbFaults   \* CrossMarket
VARIABLES life, keys, chain, sockets, notices, part
VARIABLES time, row, asked, shown, dbFaults   \* CrossMarket

Service == INSTANCE ExternalContext
\* The venues answer for nothing, or one of them for all and the other for a part
Fetched == {[binanceUsdm |-> {}, coinbaseSpot |-> {}],
            [binanceUsdm |-> {"BTC", "ETH"}, coinbaseSpot |-> {"ETH"}]}
TwoAssets == {"BTC", "ETH"}
Prices == INSTANCE CrossMarket WITH None <- Null
prices == <<time, row, asked, shown, dbFaults>>
service == <<life, keys, chain, sockets, notices>>

ASSUME ExternalContextAssumption ==
  NoSocket \notin SocketIds /\ Service!Announcements \notin Service!Polled

\* What is stored of other venues is not taken for nothing.
ASSUME CrossMarketAssumption ==
  /\ {CacheTtl, FallbackAge, LastMoment} \subseteq Nat /\ CacheTtl <= FallbackAge
  /\ Outcomes \subseteq [Prices!Venues -> SUBSET Assets]
  /\ Null \notin Int /\ Null \notin Prices!Context

HorizonPast == [INTRADAY |-> 0, SWING |-> 1, MACRO |-> LastItem]

MCInit ==
  /\ Init /\ Service!Init /\ Prices!Init
  /\ part \in {"following", "serving", "quoting"}
  /\ part # "following" => keys = {}

Following == part = "following" /\ Service!Next /\ UNCHANGED <<vars, prices, part>>
Serving == part = "serving" /\ Next /\ UNCHANGED <<service, prices, part>>
Quoting == part = "quoting" /\ Prices!Next /\ UNCHANGED <<vars, service, part>>
MCNext == Following \/ Serving \/ Quoting

\* The fairness of the part that moves
MCSpec ==
  /\ MCInit /\ [][MCNext]_<<vars, service, prices, part>>
  /\ WF_service(part = "following" /\ Service!Start)
  /\ WF_service(part = "following" /\ Service!Retry)
  /\ \A p \in Service!Polled :
       /\ WF_service(part = "following" /\ Service!TimerFires(p))
       /\ SF_service(part = "following" /\ Service!CollectSucceeds(p))
  /\ \A s \in SocketIds :
       /\ SF_service(part = "following" /\ Service!Opens(s))
       /\ WF_service(part = "following" /\ sockets[s] = "closing" /\ Service!Closes(s))
  /\ WF_vars(part = "serving" /\ TimePasses)
  /\ \A u \in 1 .. Uploaders : WF_vars(part = "serving" /\ Begin(u))
  /\ WF_vars(\E r \in requests :
       Awaited(r) /\ (Answered(r) \/ Receive(r) \/ Summarize(r)))

\* An upload that was answered as done is served, unless a later one replaced it,
\* and what is served is never replaced by what is older; nor are the prices of
\* other venues, which are told to be cached when they are.
ServedInOrder ==
  /\ []CompletedUploadIsServed /\ ServedContextOnlyAdvances
  /\ [](Prices!AnswersAdvance /\ Prices!AnswersAreLabelled) /\ Prices!RowAdvances

\* The announcements are reported as followed only over an open connection, what
\* is shown of all sources is true of each, and every source with credentials is
\* followed again after failures and reloads: see ExternalContext.
SourcesFollowed ==
  /\ [](Service!NormalIsConnected /\ Service!HealthIsTrue)
  /\ part = "following" => Service!SourcesComeBack

\* Items that are kept reach the relay.
ItemsArrive == ContextArrives
=============================================================================
