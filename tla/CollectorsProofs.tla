--------------------------- MODULE CollectorsProofs ---------------------------
(***************************************************************************)
(* Proofs about LeadCollector, CoinbaseCollector and AltCollector, and     *)
(* what MCCollectors and MCAltCollector make of them, for any assets,      *)
(* products, baskets and windows of time, and for any number of sockets,   *)
(* runs, generations and messages.                                         *)
(*                                                                         *)
(* First a channel by itself: what may happen to it keeps one working      *)
(* socket or one reconnect pending while the service is started, and       *)
(* neither while it is not.  The collectors are made of such channels.     *)
(* Then what each of them shows: of a stream of this run or generation,    *)
(* what its socket has delivered; of Coinbase, the book of the connection, *)
(* and of the exchange while its messages are numbered and read whole.     *)
(* At last the basket of the alt symbols, over any members and any number  *)
(* of replacements: whom it gives up, and how many at a time.              *)
(***************************************************************************)
EXTENDS MCAltCollector, FiniteSetTheorems, FunctionTheorems, SequenceTheorems,
        WellFoundedInduction, TLAPS
-----------------------------------------------------------------------------
(***************************************************************************)
(* Channels.                                                               *)
(***************************************************************************)
SocketsOk(live) ==
  /\ DOMAIN live \subseteq Nat \ {NoSocket}
  /\ \A s \in DOMAIN live :
       live[s] \in [tag : Tag, state : SocketStates, symbols : {live[s].symbols}]

Sound(ch) ==
  /\ ch \in [current : Nat, reconnectTimer : Tag, planned : Nat, live : {ch.live}]
  /\ SocketsOk(ch.live)

AllClosing(live) == \A s \in DOMAIN live : live[s].state = "closing"

OthersClose(ch) ==
  \A s \in DOMAIN ch.live : ch.live[s].state = "closing" \/ s = ch.current

\* One socket, or one timer: a timer is only set when the socket is gone, and
\* no socket works but the current one.
Streaming(ch, tag) ==
  /\ ch.reconnectTimer = IF ch.current = NoSocket THEN tag ELSE NoTag
  /\ ch.current # NoSocket => ch.current \in DOMAIN ch.live /\ ch.live[ch.current].tag = tag
  /\ OthersClose(ch)

\* A channel of a service that is started in the run of `tag`, or stopped
ChannelInv(ch, started, tag) ==
  /\ Sound(ch) /\ started \in BOOLEAN /\ tag \in Tag
  /\ started => Streaming(ch, tag)
  /\ ~started => NoStream(ch)

\* Its current socket has opened.
Working(ch) == ch.current \in DOMAIN ch.live /\ ch.live[ch.current].state # "connecting"

\* A channel with other fields
With(ch, current, timer, planned, live) ==
  [ch EXCEPT !.current = current, !.reconnectTimer = timer,
             !.planned = planned, !.live = live]

\* Setting fields of a channel leaves the others, and leaves it sound.
LEMMA ChannelSet ==
  ASSUME NEW ch, Sound(ch), NEW current \in Nat, NEW timer \in Tag, NEW planned \in Nat, NEW live,
         SocketsOk(live)
  PROVE  /\ Sound(With(ch, current, timer, planned, live))
         /\ With(ch, current, timer, planned, live).current = current
         /\ With(ch, current, timer, planned, live).reconnectTimer = timer
         /\ With(ch, current, timer, planned, live).planned = planned
         /\ With(ch, current, timer, planned, live).live = live
<1> DEFINE r == With(ch, current, timer, planned, live)
<1>1. /\ r \in [current : Nat, reconnectTimer : Tag, planned : Nat, live : {live}]
      /\ r.current = current /\ r.reconnectTimer = timer
      /\ r.planned = planned /\ r.live = live
  BY DEF Sound, With
<1>2. QED
  BY <1>1 DEF Sound

\* The fields of a channel
LEMMA Fields ==
  ASSUME NEW ch, Sound(ch)
  PROVE  /\ ch.current \in Nat /\ ch.planned \in Nat /\ ch.reconnectTimer \in Tag
         /\ SocketsOk(ch.live) /\ NoSocket \in Nat /\ NoTag \in Tag
         /\ NoSocket \notin DOMAIN ch.live /\ DOMAIN ch.live \subseteq Nat
BY DEF Sound, SocketsOk, NoSocket, NoTag, Tag

\* Setting fewer of them
LEMMA FieldsSet ==
  ASSUME NEW ch, Sound(ch), NEW planned, NEW live
  PROVE  /\ [ch EXCEPT !.live = live]
              = With(ch, ch.current, ch.reconnectTimer, ch.planned, live)
         /\ [ch EXCEPT !.live = live, !.planned = planned]
              = With(ch, ch.current, ch.reconnectTimer, planned, live)
BY DEF Sound, With

\* Sockets of which one has got another state
OneSet(live, s, state, new) ==
  /\ SocketsOk(new)
  /\ DOMAIN new = DOMAIN live /\ s \in DOMAIN live /\ new[s].state = state
  /\ \A t \in DOMAIN live : t # s => new[t] = live[t]
  /\ \A t \in DOMAIN live : new[t].tag = live[t].tag

\* A socket that is set to another state keeps its tag.
LEMMA SocketSet ==
  ASSUME NEW live, SocketsOk(live), NEW s \in DOMAIN live, NEW state \in SocketStates
  PROVE  OneSet(live, s, state, SetState(live, s, state))
<1> DEFINE new == SetState(live, s, state)
<1>1. /\ DOMAIN new = DOMAIN live /\ new[s] = [live[s] EXCEPT !.state = state]
      /\ \A t \in DOMAIN live : t # s => new[t] = live[t]
  BY DEF SetState
<1>2. live[s] \in [tag : Tag, state : SocketStates, symbols : {live[s].symbols}]
  BY DEF SocketsOk
<1>3. /\ new[s] \in [tag : Tag, state : SocketStates, symbols : {new[s].symbols}]
      /\ new[s].state = state /\ new[s].tag = live[s].tag
  BY <1>1, <1>2
<1> HIDE DEF new
<1>4. SocketsOk(new)
  BY <1>1, <1>3 DEF SocketsOk
<1>5. QED
  BY <1>1, <1>3, <1>4 DEF OneSet, new

\* The states a socket may get
LEMMA States == {"connecting", "open", "closing"} \subseteq SocketStates
BY DEF SocketStates

\* A socket that is forgotten leaves the others.
LEMMA SocketForgotten ==
  ASSUME NEW live, SocketsOk(live), NEW s \in DOMAIN live
  PROVE  /\ DOMAIN Forget(live, s) = DOMAIN live \ {s}
         /\ \A t \in DOMAIN live \ {s} : Forget(live, s)[t] = live[t]
         /\ SocketsOk(Forget(live, s))
BY DEF Forget, SocketsOk

\* The first socket of a channel is of this run, and it does not work yet.
LEMMA AttemptStreams ==
  ASSUME NEW ch, Sound(ch), ch.current = NoSocket, ch.reconnectTimer = NoTag,
         AllClosing(ch.live), NEW tag \in Tag, NEW symbols, NEW max \in Nat,
         NEW r \in Connected(ch, tag, symbols, max)
  PROVE  ChannelInv(r, TRUE, tag) /\ ~Working(r)
<1>1. CASE r = Scheduled(ch, tag)
  <2>1. r = With(ch, NoSocket, tag, ch.planned, ch.live)
    BY <1>1 DEF Scheduled, Sound, With
  <2>2. ch.planned \in Nat /\ SocketsOk(ch.live) /\ NoSocket \in Nat
    BY Fields
  <2>3. Sound(r) /\ r.current = NoSocket /\ r.reconnectTimer = tag /\ r.live = ch.live
    BY <2>1, <2>2, ChannelSet
  <2>4. QED
    BY <2>3, Fields DEF ChannelInv, Streaming, OthersClose, AllClosing, Working
<1>2. CASE r # Scheduled(ch, tag)
  <2> DEFINE free == (1 .. max) \ DOMAIN ch.live
             Joined(s) == [t \in DOMAIN ch.live \cup {s} |->
                             IF t \in DOMAIN ch.live THEN ch.live[t]
                             ELSE [tag |-> tag, state |-> "connecting", symbols |-> symbols]]
  <2>1. PICK s \in free : r = [ch EXCEPT !.current = s, !.live = Joined(s)]
    BY <1>2 DEF Connected
  <2>2. s \in Nat /\ s # NoSocket /\ s \notin DOMAIN ch.live
    BY DEF NoSocket
  <2> DEFINE live == Joined(s)
             new == [tag |-> tag, state |-> "connecting", symbols |-> symbols]
  <2>3. /\ new \in [tag : Tag, state : SocketStates, symbols : {new.symbols}]
        /\ new.tag = tag /\ new.state = "connecting"
    BY DEF SocketStates
  <2>4. /\ DOMAIN live = DOMAIN ch.live \cup {s} /\ live[s] = new
        /\ \A t \in DOMAIN ch.live : live[t] = ch.live[t]
    BY <2>2
  <2>5. r = With(ch, s, NoTag, ch.planned, live)
    BY <2>1 DEF Sound, With
  <2> HIDE DEF live, new
  <2>6. SocketsOk(live)
    BY <2>2, <2>3, <2>4 DEF Sound, SocketsOk
  <2>7. ch.planned \in Nat /\ NoTag \in Tag
    BY Fields
  <2>8. /\ Sound(r) /\ r.current = s /\ r.reconnectTimer = NoTag /\ r.live = live
    <3>1. /\ Sound(With(ch, s, NoTag, ch.planned, live))
          /\ With(ch, s, NoTag, ch.planned, live).current = s
          /\ With(ch, s, NoTag, ch.planned, live).reconnectTimer = NoTag
          /\ With(ch, s, NoTag, ch.planned, live).live = live
      BY <2>2, <2>6, <2>7, ChannelSet
    <3>2. QED
      BY <2>5, <3>1
  <2>9. live[s].tag = tag /\ live[s].state = "connecting" /\ s \in DOMAIN live
    BY <2>3, <2>4
  <2>10. \A t \in DOMAIN live : live[t].state = "closing" \/ t = s
    BY <2>4 DEF AllClosing
  <2>11. Streaming(r, tag)
    BY <2>2, <2>8, <2>9, <2>10 DEF Streaming, OthersClose
  <2>12. ChannelInv(r, TRUE, tag)
    BY <2>8, <2>11 DEF ChannelInv
  <2>13. QED
    BY <2>8, <2>9, <2>12 DEF Working
<1>3. QED
  BY <1>1, <1>2

\* start of a service: its channels are at rest until then.
LEMMA StartStreams ==
  ASSUME NEW ch, NEW old, ChannelInv(ch, FALSE, old), NEW tag \in Tag, NEW symbols,
         NEW max \in Nat, NEW r \in Connected(ch, tag, symbols, max)
  PROVE  ChannelInv(r, TRUE, tag) /\ ~Working(r)
<1>1. Sound(ch) /\ ch.current = NoSocket /\ ch.reconnectTimer = NoTag /\ AllClosing(ch.live)
  BY DEF ChannelInv, NoStream, AllClosing
<1>2. QED
  BY <1>1, AttemptStreams

\* The timer that fires is of this run, and no socket has taken its place.
LEMMA TimerStreams ==
  ASSUME NEW ch, NEW started, NEW tag, ChannelInv(ch, started, tag), ch.reconnectTimer # NoTag
  PROVE  /\ started /\ ch.reconnectTimer = tag /\ ch.current = NoSocket /\ ~Working(ch)
         /\ \A symbols : \A max \in Nat :
              \A r \in Connected([ch EXCEPT !.reconnectTimer = NoTag], tag, symbols, max) :
                ChannelInv(r, started, tag) /\ ~Working(r)
<1>1. started /\ Streaming(ch, tag) /\ Sound(ch) /\ tag \in Tag
  BY DEF ChannelInv, NoStream
<1>2. ch.reconnectTimer = tag /\ ch.current = NoSocket
  BY <1>1 DEF Streaming
<1> DEFINE fired == [ch EXCEPT !.reconnectTimer = NoTag]
<1>3. fired = With(ch, NoSocket, NoTag, ch.planned, ch.live)
  BY <1>1, <1>2 DEF Sound, With
<1>4. Sound(fired) /\ fired.current = NoSocket /\ fired.reconnectTimer = NoTag /\ fired.live = ch.live
  <2>1. ch.planned \in Nat /\ SocketsOk(ch.live) /\ NoSocket \in Nat /\ NoTag \in Tag
    BY <1>1, Fields
  <2> HIDE DEF fired
  <2>2. QED
    BY <1>1, <1>3, <2>1, ChannelSet
<1>5. AllClosing(ch.live) /\ ~Working(ch)
  BY <1>1, <1>2, Fields DEF Streaming, OthersClose, AllClosing, Working
<1>6. AllClosing(fired.live)
  BY <1>4, <1>5
<1> HIDE DEF fired
<1>7. \A symbols : \A max \in Nat : \A r \in Connected(fired, tag, symbols, max) :
        ChannelInv(r, TRUE, tag) /\ ~Working(r)
  BY <1>1, <1>4, <1>6, AttemptStreams
<1>8. started = TRUE
  BY <1>1 DEF ChannelInv
<1>9. QED
  BY <1>1, <1>2, <1>5, <1>7, <1>8 DEF fired

\* Other sockets, and the same socket and timer
WithSockets(ch, planned, live) == With(ch, ch.current, ch.reconnectTimer, planned, live)

\* Sockets of a channel that have closed or were told to, or the current one,
\* in another state
Remains(ch, live) ==
  /\ SocketsOk(live)
  /\ DOMAIN live \subseteq DOMAIN ch.live
  /\ ch.current \in DOMAIN ch.live => ch.current \in DOMAIN live
  /\ \A s \in DOMAIN live :
       /\ live[s].tag = ch.live[s].tag
       /\ live[s].state = "closing" \/ s = ch.current \/ live[s] = ch.live[s]

\* What happens to sockets that do not lose the current one leaves the channel
\* as it is.
LEMMA KeptStreams ==
  ASSUME NEW ch, NEW started, NEW tag, ChannelInv(ch, started, tag), NEW planned \in Nat,
         ~started => planned = NoSocket, NEW live, Remains(ch, live)
  PROVE  /\ ChannelInv(WithSockets(ch, planned, live), started, tag)
         /\ WithSockets(ch, planned, live).current = ch.current
         /\ WithSockets(ch, planned, live).planned = planned
         /\ WithSockets(ch, planned, live).live = live
<1> DEFINE r == WithSockets(ch, planned, live)
<1>1. Sound(ch) /\ started \in BOOLEAN /\ tag \in Tag /\ SocketsOk(live)
  BY DEF ChannelInv, Remains
<1>2. ch.current \in Nat /\ ch.reconnectTimer \in Tag /\ NoSocket \notin DOMAIN ch.live
  BY <1>1, Fields
<1>3. r = With(ch, ch.current, ch.reconnectTimer, planned, live)
  BY DEF WithSockets
<1> HIDE DEF r
<1>4. /\ Sound(r) /\ r.current = ch.current /\ r.reconnectTimer = ch.reconnectTimer
      /\ r.planned = planned /\ r.live = live
  BY <1>1, <1>2, <1>3, ChannelSet
<1>5. ASSUME started PROVE Streaming(r, tag)
  BY <1>4, <1>5 DEF ChannelInv, Streaming, OthersClose, Remains
<1>6. ASSUME ~started PROVE NoStream(r)
  BY <1>2, <1>4, <1>6 DEF ChannelInv, NoStream, Remains
<1>7. QED
  BY <1>1, <1>4, <1>5, <1>6 DEF ChannelInv, r

\* A socket that opens is the current one: no other is still connecting.
LEMMA OpeningStreams ==
  ASSUME NEW ch, NEW started, NEW tag, ChannelInv(ch, started, tag),
         NEW s \in DOMAIN ch.live, ch.live[s].state = "connecting", NEW planned \in Nat
  PROVE  /\ started /\ s = ch.current /\ s \in Nat
         /\ ChannelInv(WithSockets(ch, planned, SetState(ch.live, s, "open")), started, tag)
         /\ WithSockets(ch, planned, SetState(ch.live, s, "open")).current = s
         /\ WithSockets(ch, planned, SetState(ch.live, s, "open")).planned = planned
         /\ Working(WithSockets(ch, planned, SetState(ch.live, s, "open")))
<1> DEFINE live == SetState(ch.live, s, "open")
<1>1. /\ started /\ s = ch.current /\ SocketsOk(ch.live) /\ s \in Nat
  BY Fields DEF ChannelInv, NoStream, Streaming, OthersClose
<1>2. OneSet(ch.live, s, "open", live)
  BY <1>1, States, SocketSet
<1> HIDE DEF live
<1>3. Remains(ch, live) /\ (~started => planned = NoSocket)
  BY <1>1, <1>2 DEF OneSet, Remains
<1>4. /\ ChannelInv(WithSockets(ch, planned, live), started, tag)
      /\ WithSockets(ch, planned, live).current = ch.current
      /\ WithSockets(ch, planned, live).planned = planned
      /\ WithSockets(ch, planned, live).live = live
  BY <1>3, KeptStreams
<1>5. Working(WithSockets(ch, planned, live))
  BY <1>1, <1>2, <1>4 DEF OneSet, Working
<1>6. QED
  BY <1>1, <1>4, <1>5 DEF live

\* A socket that is told to close stays the current one, if it was.
LEMMA ClosingStreams ==
  ASSUME NEW ch, NEW started, NEW tag, ChannelInv(ch, started, tag),
         NEW s \in DOMAIN ch.live, s # ch.current \/ Working(ch)
  PROVE  /\ ChannelInv(WithSockets(ch, ch.planned, SetState(ch.live, s, "closing")), started, tag)
         /\ WithSockets(ch, ch.planned, SetState(ch.live, s, "closing")).current = ch.current
         /\ WithSockets(ch, ch.planned, SetState(ch.live, s, "closing")).planned = ch.planned
         /\ Working(WithSockets(ch, ch.planned, SetState(ch.live, s, "closing"))) <=> Working(ch)
<1> DEFINE live == SetState(ch.live, s, "closing")
           planned == ch.planned
<1>1. /\ SocketsOk(ch.live) /\ planned \in Nat /\ (~started => planned = NoSocket)
  BY Fields DEF ChannelInv, NoStream
<1>2. OneSet(ch.live, s, "closing", live)
  BY <1>1, States, SocketSet
<1> HIDE DEF live, planned
<1>3. Remains(ch, live)
  BY <1>1, <1>2 DEF OneSet, Remains
<1>4. /\ ChannelInv(WithSockets(ch, planned, live), started, tag)
      /\ WithSockets(ch, planned, live).current = ch.current
      /\ WithSockets(ch, planned, live).planned = planned
      /\ WithSockets(ch, planned, live).live = live
  BY <1>1, <1>3, KeptStreams
<1>5. Working(WithSockets(ch, planned, live)) <=> Working(ch)
  BY <1>2, <1>4 DEF OneSet, Working
<1>6. QED
  BY <1>4, <1>5 DEF live, planned

\* So does one that has closed, if it was not the current one.
LEMMA ForgettingStreams ==
  ASSUME NEW ch, NEW started, NEW tag, ChannelInv(ch, started, tag),
         NEW s \in DOMAIN ch.live, s # ch.current
  PROVE  /\ ChannelInv(WithSockets(ch, ch.planned, Forget(ch.live, s)), started, tag)
         /\ WithSockets(ch, ch.planned, Forget(ch.live, s)).current = ch.current
         /\ WithSockets(ch, ch.planned, Forget(ch.live, s)).planned = ch.planned
         /\ Working(WithSockets(ch, ch.planned, Forget(ch.live, s))) <=> Working(ch)
<1> DEFINE live == Forget(ch.live, s)
           planned == ch.planned
<1>1. /\ SocketsOk(ch.live) /\ planned \in Nat /\ (~started => planned = NoSocket)
  BY Fields DEF ChannelInv, NoStream
<1>2. /\ DOMAIN live = DOMAIN ch.live \ {s} /\ SocketsOk(live)
      /\ \A t \in DOMAIN live : live[t] = ch.live[t]
  BY <1>1, SocketForgotten
<1> HIDE DEF live, planned
<1>3. Remains(ch, live)
  BY <1>1, <1>2 DEF Remains
<1>4. /\ ChannelInv(WithSockets(ch, planned, live), started, tag)
      /\ WithSockets(ch, planned, live).current = ch.current
      /\ WithSockets(ch, planned, live).planned = planned
      /\ WithSockets(ch, planned, live).live = live
  BY <1>1, <1>3, KeptStreams
<1>5. Working(WithSockets(ch, planned, live)) <=> Working(ch)
  BY <1>2, <1>4 DEF Working
<1>6. QED
  BY <1>4, <1>5 DEF live, planned

\* When the current socket is lost the timer takes its place.
LEMMA LostStreams ==
  ASSUME NEW ch, NEW started, NEW tag, ChannelInv(ch, started, tag), started,
         ch.current # NoSocket, NEW live, SocketsOk(live), AllClosing(live)
  PROVE  /\ ChannelInv(Lost([ch EXCEPT !.live = live], tag), started, tag)
         /\ Lost([ch EXCEPT !.live = live], tag).current = NoSocket
         /\ ~Working(Lost([ch EXCEPT !.live = live], tag))
<1> DEFINE r == Lost([ch EXCEPT !.live = live], tag)
<1>1. ch.reconnectTimer = NoTag /\ Sound(ch) /\ started \in BOOLEAN /\ tag \in Tag
  BY DEF ChannelInv, Streaming
<1>2. r = With(ch, NoSocket, tag, NoSocket, live)
  BY <1>1 DEF Lost, Scheduled, Sound, With
<1>3. NoSocket \in Nat /\ NoSocket \notin DOMAIN live
  BY <1>1, Fields DEF SocketsOk
<1> HIDE DEF r
<1>4. /\ Sound(r) /\ r.current = NoSocket /\ r.reconnectTimer = tag
      /\ r.planned = NoSocket /\ r.live = live
  BY <1>1, <1>2, <1>3, ChannelSet
<1>5. Streaming(r, tag)
  BY <1>4 DEF Streaming, OthersClose, AllClosing
<1>6. QED
  BY <1>1, <1>3, <1>4, <1>5 DEF ChannelInv, Working, r

\* The current socket of a channel that is lost: what is left is closing.
LEMMA LeftClosing ==
  ASSUME NEW ch, NEW started, NEW tag, ChannelInv(ch, started, tag),
         NEW s \in DOMAIN ch.live, s = ch.current
  PROVE  /\ SocketsOk(SetState(ch.live, s, "closing")) /\ AllClosing(SetState(ch.live, s, "closing"))
         /\ SocketsOk(Forget(ch.live, s)) /\ AllClosing(Forget(ch.live, s))
<1>1. SocketsOk(ch.live) /\ OthersClose(ch)
  BY Fields DEF ChannelInv, NoStream, Streaming, OthersClose
<1>2. SocketsOk(SetState(ch.live, s, "closing")) /\ AllClosing(SetState(ch.live, s, "closing"))
  <2> DEFINE live == SetState(ch.live, s, "closing")
  <2>1. OneSet(ch.live, s, "closing", live)
    BY <1>1, States, SocketSet
  <2> HIDE DEF live
  <2>2. SocketsOk(live) /\ AllClosing(live)
    BY <1>1, <2>1 DEF OneSet, OthersClose, AllClosing
  <2>3. QED
    BY <2>2 DEF live
<1>3. SocketsOk(Forget(ch.live, s)) /\ AllClosing(Forget(ch.live, s))
  <2> DEFINE live == Forget(ch.live, s)
  <2>1. /\ DOMAIN live = DOMAIN ch.live \ {s} /\ SocketsOk(live)
        /\ \A t \in DOMAIN live : live[t] = ch.live[t]
    BY <1>1, SocketForgotten
  <2> HIDE DEF live
  <2>2. SocketsOk(live) /\ AllClosing(live)
    BY <1>1, <2>1 DEF OthersClose, AllClosing
  <2>3. QED
    BY <2>2 DEF live
<1>4. QED
  BY <1>2, <1>3

\* A channel that is released is at rest.
LEMMA ReleasedStreams ==
  ASSUME NEW ch, NEW started, NEW old, ChannelInv(ch, started, old), NEW tag \in Tag
  PROVE  /\ ChannelInv(Released(CloseSocket(ch)), FALSE, tag)
         /\ ~Working(Released(CloseSocket(ch)))
<1> DEFINE live == IF ch.current \in DOMAIN ch.live
                   THEN SetState(ch.live, ch.current, "closing") ELSE ch.live
           r == Released(CloseSocket(ch))
<1>1. SocketsOk(live) /\ AllClosing(live) /\ Sound(ch)
  <2>1. SocketsOk(ch.live) /\ OthersClose(ch) /\ Sound(ch)
    BY Fields DEF ChannelInv, NoStream, Streaming, OthersClose
  <2>2. QED
    BY <2>1, LeftClosing DEF OthersClose, AllClosing
<1>2. r = With(ch, NoSocket, NoTag, NoSocket, live)
  BY <1>1 DEF Released, CloseSocket, Sound, With
<1>3. NoSocket \in Nat /\ NoTag \in Tag /\ NoSocket \notin DOMAIN live
  BY <1>1, Fields DEF SocketsOk
<1> HIDE DEF live, r
<1>4. /\ Sound(r) /\ r.current = NoSocket /\ r.reconnectTimer = NoTag
      /\ r.planned = NoSocket /\ r.live = live
  BY <1>1, <1>2, <1>3, ChannelSet
<1>5. QED
  BY <1>1, <1>3, <1>4 DEF ChannelInv, NoStream, AllClosing, Working, r
-----------------------------------------------------------------------------
(***************************************************************************)
(* What an accumulator of a lead asset holds.                              *)
(***************************************************************************)
Elements(events) == {events[i] : i \in DOMAIN events}
InBuckets(buckets) == UNION {b.trades \cup {b.lastPrice} : b \in buckets}
PublicOf(a) == a.book \cup a.depth
MarketOf(a) ==
  a.lastPrice \cup a.mark \cup a.candle
    \cup InBuckets(a.tradeBuckets) \cup Elements(a.liquidationEvents)
Holds(c, a) == IF c = "public" THEN PublicOf(a) ELSE MarketOf(a)

AtMostOne(events) == \A e, f \in events : e = f
InOrder(events) == \A i, j \in DOMAIN events : i <= j => events[i].at <= events[j].at

AccumulatorOk(a) ==
  /\ a \in Accumulator
  /\ AtMostOne(a.lastPrice) /\ AtMostOne(a.depth) /\ InOrder(a.openInterestHistory)

\* The last of `new` is no earlier than that of `old`.
Passes(old, new) == old # <<>> /\ new # <<>> => Last(new).at >= Last(old).at

\* `r` holds nothing that `a` does not.
Kept(a, r) ==
  /\ AccumulatorOk(r) /\ Passes(a.openInterestHistory, r.openInterestHistory)
  /\ \A c \in Channels : Holds(c, r) \subseteq Holds(c, a)

\* `r` holds `e` besides, of the channel `c`.
Added(a, r, c, e) ==
  /\ AccumulatorOk(r) /\ Passes(a.openInterestHistory, r.openInterestHistory)
  /\ Holds(c, r) \subseteq Holds(c, a) \cup {e}
  /\ \A d \in Channels \ {c} : Holds(d, r) \subseteq Holds(d, a)

\* A set of numbers that is not empty has a minimum.
LEMMA LeastNumber ==
  ASSUME NEW S \in SUBSET Nat, S # {}
  PROVE  Min(S) \in S /\ \A n \in S : Min(S) <= n
<1> DEFINE R == OpToRel(<, Nat)
<1>1. IsWellFoundedOn(R, Nat)
  BY NatLessThanWellFounded
<1>2. \A x, y \in Nat : x < y => <<x, y>> \in R
  BY DEF OpToRel
<1> HIDE DEF R
<1>3. PICK m \in S : \A n \in S : ~ (<<n, m>> \in R)
  BY <1>1, WFMin
<1>4. \A n \in S : m <= n
  <2>1. \A n \in S : n \in Nat /\ m \in Nat /\ ~(n < m)
    BY <1>2, <1>3
  <2>2. QED
    BY <2>1
<1>5. QED
  BY <1>4 DEF Min

\* What is left of a list without its head was in it, in the same order, and
\* ends with the same.
LEMMA HeadCut ==
  ASSUME NEW events \in Seq(Event), NEW cutoff
  PROVE  /\ WithoutOldHead(events, cutoff) \in Seq(Event)
         /\ Elements(WithoutOldHead(events, cutoff)) \subseteq Elements(events)
         /\ InOrder(events) => InOrder(WithoutOldHead(events, cutoff))
         /\ WithoutOldHead(events, cutoff) # <<>> =>
              events # <<>> /\ Last(WithoutOldHead(events, cutoff)) = Last(events)
<1> DEFINE young == {i \in DOMAIN events : events[i].at >= cutoff}
           m == Min(young)
           n == Len(events)
           left == SubSeq(events, m, n)
<1>1. CASE young = {}
  <2>1. WithoutOldHead(events, cutoff) = <<>>
    BY <1>1 DEF WithoutOldHead
  <2>2. <<>> \in Seq(Event) /\ Elements(<<>>) = {} /\ InOrder(<<>>)
    BY DEF Elements, InOrder
  <2>3. QED
    BY <2>1, <2>2
<1>2. CASE young # {}
  <2>1. n \in Nat /\ DOMAIN events = 1 .. n
    OBVIOUS
  <2>2. m \in 1 .. n
    <3>1. young \in SUBSET Nat /\ young \subseteq 1 .. n
      BY <2>1
    <3>2. QED
      BY <1>2, <3>1, LeastNumber
  <2>3. WithoutOldHead(events, cutoff) = left
    BY <1>2 DEF WithoutOldHead
  <2> HIDE DEF m
  <2>4. \A i \in m .. n : events[i] \in Event /\ events[i] \in Elements(events)
    BY <2>1, <2>2 DEF Elements
  <2>5. /\ left \in Seq(Event) /\ Len(left) = n - m + 1
        /\ \A i \in 1 .. n - m + 1 : left[i] = events[m + i - 1]
    BY <2>1, <2>2, <2>4, SubSeqProperties
  <2>6. left \in Seq(Elements(events))
    BY <2>1, <2>2, <2>4, SubSeqProperties
  <2> HIDE DEF left, n, young
  <2>7. Elements(left) \subseteq Elements(events)
    <3>1. \A i \in DOMAIN left : left[i] \in Elements(events)
      BY <2>6
    <3>2. QED
      BY <3>1 DEF Elements
  <2>8. ASSUME InOrder(events) PROVE InOrder(left)
    <3>1. DOMAIN left = 1 .. n - m + 1
      BY <2>5
    <3>2. SUFFICES ASSUME NEW i \in DOMAIN left, NEW j \in DOMAIN left, i <= j
                   PROVE  left[i].at <= left[j].at
      BY DEF InOrder
    <3>3. /\ m + i - 1 \in DOMAIN events /\ m + j - 1 \in DOMAIN events
          /\ m + i - 1 <= m + j - 1
      BY <2>1, <2>2, <3>1, <3>2
    <3>4. events[m + i - 1].at <= events[m + j - 1].at
      BY <2>8, <3>3 DEF InOrder
    <3>5. QED
      BY <2>5, <3>1, <3>4
  <2>9. events # <<>> /\ Last(left) = Last(events)
    <3>1. n - m + 1 \in 1 .. n - m + 1 /\ m + (n - m + 1) - 1 = n
      BY <2>1, <2>2
    <3>2. left[n - m + 1] = events[n]
      BY <2>5, <3>1
    <3>3. events # <<>>
      BY <2>1, <2>2 DEF n
    <3>4. QED
      BY <2>5, <3>2, <3>3 DEF Last, n
  <2>10. QED
    BY <2>3, <2>5, <2>7, <2>8, <2>9
<1>3. QED
  BY <1>1, <1>2

\* Everything an accumulator holds is an event.
LEMMA HoldsEvents ==
  ASSUME NEW a \in Accumulator, NEW c \in Channels
  PROVE  Holds(c, a) \subseteq Event
<1>1. /\ a.book \subseteq Event /\ a.depth \subseteq Event /\ a.lastPrice \subseteq Event
      /\ a.mark \subseteq Event /\ a.candle \subseteq Event
      /\ a.tradeBuckets \subseteq Bucket /\ a.liquidationEvents \in Seq(Event)
  BY DEF Accumulator, Optional
<1>2. InBuckets(a.tradeBuckets) \subseteq Event
  BY <1>1 DEF InBuckets, Bucket
<1>3. Elements(a.liquidationEvents) \subseteq Event
  BY <1>1 DEF Elements
<1>4. MarketOf(a) \subseteq Event
  BY <1>1, <1>2, <1>3 DEF MarketOf
<1>5. QED
  BY <1>1, <1>4 DEF Holds, PublicOf

\* The last point of open interest is not before itself.
LEMMA PassesItself ==
  ASSUME NEW events \in Seq(Event)
  PROVE  Passes(events, events)
<1>1. events # <<>> => Last(events) \in Event
  BY EmptySeq, ElementOfSeq DEF Last
<1>2. QED
  BY <1>1 DEF Passes, Event

\* An accumulator that does not change
LEMMA KeptItself ==
  ASSUME NEW a, AccumulatorOk(a)
  PROVE  Kept(a, a)
<1>1. a.openInterestHistory \in Seq(Event)
  BY DEF AccumulatorOk, Accumulator
<1>2. QED
  BY <1>1, PassesItself DEF Kept
\* `r` is what pruning has left of `a`.
Cut(a, r) ==
  /\ AccumulatorOk(r) /\ r.lastPrice = a.lastPrice /\ r.depth = a.depth
  /\ r.openInterestHistory # <<>> =>
       a.openInterestHistory # <<>> /\ Last(r.openInterestHistory) = Last(a.openInterestHistory)
  /\ PublicOf(r) = PublicOf(a) /\ MarketOf(r) \subseteq MarketOf(a)

\* Pruning only takes away, and nothing from the public stream.
LEMMA PruneCuts ==
  ASSUME NEW a, AccumulatorOk(a), NEW n
  PROVE  Cut(a, Prune(a, n))
<1> DEFINE r == Prune(a, n)
           buckets == {b \in a.tradeBuckets : b.second >= n - TradeHistory}
           interest == WithoutOldHead(a.openInterestHistory, n - OiHistory)
           liquidations == WithoutOldHead(a.liquidationEvents, n - LiquidationHistory)
<1>1. r = [a EXCEPT !.tradeBuckets = buckets, !.openInterestHistory = interest,
                    !.liquidationEvents = liquidations]
  BY DEF Prune
<1>2. a \in Accumulator /\ InOrder(a.openInterestHistory)
  BY DEF AccumulatorOk
<1>3. /\ buckets \subseteq a.tradeBuckets
      /\ interest \in Seq(Event) /\ liquidations \in Seq(Event)
      /\ Elements(liquidations) \subseteq Elements(a.liquidationEvents)
      /\ InOrder(interest)
      /\ interest # <<>> =>
           a.openInterestHistory # <<>> /\ Last(interest) = Last(a.openInterestHistory)
  BY <1>2, HeadCut DEF Accumulator
<1> HIDE DEF buckets, interest, liquidations
<1>4. /\ r \in Accumulator /\ r.book = a.book /\ r.depth = a.depth /\ r.lastPrice = a.lastPrice
      /\ r.mark = a.mark /\ r.candle = a.candle
      /\ r.tradeBuckets = buckets /\ r.liquidationEvents = liquidations
      /\ r.openInterestHistory = interest
  BY <1>1, <1>2, <1>3 DEF Accumulator
<1>5. InBuckets(buckets) \subseteq InBuckets(a.tradeBuckets)
  BY <1>3 DEF InBuckets
<1> HIDE DEF r
<1>6. AccumulatorOk(r)
  BY <1>3, <1>4 DEF AccumulatorOk
<1>7. PublicOf(r) = PublicOf(a) /\ MarketOf(r) \subseteq MarketOf(a)
  BY <1>3, <1>4, <1>5 DEF PublicOf, MarketOf
<1>8. QED
  BY <1>3, <1>4, <1>6, <1>7 DEF Cut, r

\* What is cut after something was added, or not
LEMMA CutAfter ==
  ASSUME NEW a, NEW b, NEW r, Cut(b, r)
  PROVE  /\ Kept(a, b) => Kept(a, r)
         /\ \A c \in Channels : \A e : Added(a, b, c, e) => Added(a, r, c, e)
<1>1. /\ AccumulatorOk(r)
      /\ Passes(a.openInterestHistory, b.openInterestHistory)
           => Passes(a.openInterestHistory, r.openInterestHistory)
      /\ \A c \in Channels : Holds(c, r) \subseteq Holds(c, b)
  BY DEF Cut, Passes, Holds
<1>2. QED
  BY <1>1 DEF Kept, Added

\* An observation prunes.
LEMMA PruneKeeps ==
  ASSUME NEW a, AccumulatorOk(a), NEW n
  PROVE  Kept(a, Prune(a, n))
<1> DEFINE r == Prune(a, n)
<1>1. Cut(a, r) /\ Kept(a, a)
  BY PruneCuts, KeptItself
<1> HIDE DEF r
<1>2. Kept(a, r)
  BY <1>1, CutAfter
<1>3. QED
  BY <1>2 DEF r

\* Without events
LEMMA NothingHeld ==
  /\ <<>> \in Seq(Event) /\ Elements(<<>>) = {} /\ InBuckets({}) = {}
  /\ AtMostOne({}) /\ InOrder(<<>>) /\ None = {}
BY DEF Elements, InBuckets, AtMostOne, InOrder, None

\* The streams are forgotten each for its own.
LEMMA ResetForgets ==
  ASSUME NEW a, AccumulatorOk(a)
  PROVE  /\ Kept(a, ResetPublicStream(a)) /\ PublicOf(ResetPublicStream(a)) = {}
         /\ Kept(a, ResetMarketStream(a)) /\ MarketOf(ResetMarketStream(a)) = {}
<1> DEFINE p == ResetPublicStream(a)
           m == ResetMarketStream(a)
<1>1. a \in Accumulator /\ a.openInterestHistory \in Seq(Event)
  BY DEF AccumulatorOk, Accumulator
<1>2. /\ p \in Accumulator /\ p.book = {} /\ p.depth = {} /\ p.lastPrice = a.lastPrice
      /\ p.mark = a.mark /\ p.candle = a.candle /\ p.tradeBuckets = a.tradeBuckets
      /\ p.liquidationEvents = a.liquidationEvents
      /\ p.openInterestHistory = a.openInterestHistory
  BY <1>1, NothingHeld DEF ResetPublicStream, Accumulator, Optional
<1>3. /\ m \in Accumulator /\ m.book = a.book /\ m.depth = a.depth /\ m.lastPrice = {}
      /\ m.mark = {} /\ m.candle = {} /\ m.tradeBuckets = {} /\ m.liquidationEvents = <<>>
      /\ m.openInterestHistory = a.openInterestHistory
  BY <1>1, NothingHeld DEF ResetMarketStream, Accumulator, Optional
<1> HIDE DEF p, m
<1>4. Passes(a.openInterestHistory, a.openInterestHistory)
  BY <1>1, PassesItself
<1>5. Kept(a, p) /\ PublicOf(p) = {}
  <2>1. AccumulatorOk(p)
    BY <1>2, NothingHeld DEF AccumulatorOk
  <2>2. PublicOf(p) = {} /\ MarketOf(p) = MarketOf(a)
    BY <1>2 DEF PublicOf, MarketOf
  <2>3. QED
    BY <1>2, <1>4, <2>1, <2>2 DEF Kept, Holds
<1>6. Kept(a, m) /\ MarketOf(m) = {}
  <2>1. AccumulatorOk(m)
    BY <1>3, NothingHeld DEF AccumulatorOk
  <2>2. PublicOf(m) = PublicOf(a) /\ MarketOf(m) = {}
    BY <1>3, NothingHeld DEF PublicOf, MarketOf
  <2>3. QED
    BY <1>3, <1>4, <2>1, <2>2 DEF Kept, Holds
<1>7. QED
  BY <1>5, <1>6 DEF p, m

\* An asset of which nothing is known
LEMMA NewHoldsNothing ==
  AccumulatorOk(NewAccumulator) /\ \A c \in Channels : Holds(c, NewAccumulator) = {}
<1> DEFINE a == NewAccumulator
<1>1. /\ a \in Accumulator /\ a.book = {} /\ a.depth = {} /\ a.lastPrice = {}
      /\ a.mark = {} /\ a.candle = {} /\ a.tradeBuckets = {} /\ a.liquidationEvents = <<>>
      /\ a.openInterestHistory = <<>>
  BY NothingHeld DEF NewAccumulator, Accumulator, Optional
<1> HIDE DEF a
<1>2. AccumulatorOk(a) /\ \A c \in Channels : Holds(c, a) = {}
  BY <1>1, NothingHeld DEF AccumulatorOk, Holds, PublicOf, MarketOf
<1>3. QED
  BY <1>2 DEF a
\* A price is replaced by one event, or stays.
LEMMA PriceLater ==
  ASSUME NEW old \in Optional, NEW e \in Event
  PROVE  /\ LaterPrice(old, e) \in Optional /\ LaterPrice(old, e) \subseteq old \cup {e}
         /\ AtMostOne(old) => AtMostOne(LaterPrice(old, e))
BY DEF LaterPrice, Some, Optional, AtMostOne

\* A trade is put into the bucket of its second.
LEMMA GatheredAdds ==
  ASSUME NEW buckets \in SUBSET Bucket, NEW e \in Event
  PROVE  /\ Gathered(buckets, e) \subseteq Bucket
         /\ InBuckets(Gathered(buckets, e)) \subseteq InBuckets(buckets) \cup {e}
<1> DEFINE second == (e.at \div BucketLength) * BucketLength
           known == {b \in buckets : b.second = second}
           sum == {e} \cup UNION {b.trades : b \in known}
           new == [second |-> second, lastPrice |-> e, trades |-> sum]
           gathered == Gathered(buckets, e)
<1>1. second \in Nat
  BY LeadCollectorAssumption DEF Event
<1>2. gathered = (buckets \ known) \cup {new}
  BY DEF Gathered
<1> HIDE DEF second
<1>3. known \subseteq buckets
  OBVIOUS
<1> HIDE DEF known, gathered
<1>4. sum \subseteq Event /\ sum \subseteq InBuckets(buckets) \cup {e}
  BY <1>3 DEF Bucket, InBuckets
<1> HIDE DEF sum
<1>5. new \in Bucket /\ new.trades = sum /\ new.lastPrice = e
  BY <1>1, <1>4 DEF Bucket
<1> HIDE DEF new
<1>6. gathered \subseteq Bucket /\ InBuckets(gathered) \subseteq InBuckets(buckets) \cup {e}
  BY <1>2, <1>3, <1>4, <1>5 DEF InBuckets
<1>7. QED
  BY <1>6 DEF gathered

\* The messages of the public stream
LEMMA PublicAdds ==
  ASSUME NEW a, AccumulatorOk(a), NEW e \in Event
  PROVE  /\ Added(a, RecordBookTicker(a, e), "public", e)
         /\ Added(a, RecordDepth(a, e), "public", e)
<1> DEFINE b == RecordBookTicker(a, e)
           d == RecordDepth(a, e)
<1>1. a \in Accumulator /\ a.openInterestHistory \in Seq(Event)
  BY DEF AccumulatorOk, Accumulator
<1>2. {e} \in Optional /\ AtMostOne({e})
  BY DEF Optional, AtMostOne
<1>3. /\ b \in Accumulator /\ b.book = {e} /\ b.depth = a.depth /\ b.lastPrice = a.lastPrice
      /\ b.mark = a.mark /\ b.candle = a.candle /\ b.tradeBuckets = a.tradeBuckets
      /\ b.liquidationEvents = a.liquidationEvents
      /\ b.openInterestHistory = a.openInterestHistory
  BY <1>1, <1>2 DEF RecordBookTicker, Some, Accumulator
<1>4. /\ d \in Accumulator /\ d.book = a.book /\ d.depth = {e} /\ d.lastPrice = a.lastPrice
      /\ d.mark = a.mark /\ d.candle = a.candle /\ d.tradeBuckets = a.tradeBuckets
      /\ d.liquidationEvents = a.liquidationEvents
      /\ d.openInterestHistory = a.openInterestHistory
  BY <1>1, <1>2 DEF RecordDepth, Some, Accumulator
<1>5. Passes(a.openInterestHistory, a.openInterestHistory)
  BY <1>1, PassesItself
<1> HIDE DEF b, d
<1>6. AccumulatorOk(b) /\ AccumulatorOk(d)
  BY <1>2, <1>3, <1>4 DEF AccumulatorOk
<1>7. /\ PublicOf(b) \subseteq PublicOf(a) \cup {e} /\ MarketOf(b) = MarketOf(a)
      /\ PublicOf(d) \subseteq PublicOf(a) \cup {e} /\ MarketOf(d) = MarketOf(a)
  BY <1>3, <1>4 DEF PublicOf, MarketOf
<1>8. Added(a, b, "public", e) /\ Added(a, d, "public", e)
  BY <1>3, <1>4, <1>5, <1>6, <1>7 DEF Added, Holds
<1>9. QED
  BY <1>8 DEF b, d

\* What of the market stream is set, and kept
MarketSet(a, r, price, mark, candle, buckets, liquidations) ==
  /\ r \in Accumulator /\ r.book = a.book /\ r.depth = a.depth /\ r.lastPrice = price
  /\ r.mark = mark /\ r.candle = candle /\ r.tradeBuckets = buckets
  /\ r.liquidationEvents = liquidations /\ r.openInterestHistory = a.openInterestHistory

LEMMA MarketSetAdds ==
  ASSUME NEW a, AccumulatorOk(a), NEW e \in Event, NEW r, NEW price, NEW mark, NEW candle,
         NEW buckets, NEW liquidations,
         MarketSet(a, r, price, mark, candle, buckets, liquidations),
         AtMostOne(price), price \subseteq a.lastPrice \cup {e}, mark \subseteq a.mark \cup {e},
         candle \subseteq a.candle \cup {e},
         InBuckets(buckets) \subseteq InBuckets(a.tradeBuckets) \cup {e},
         Elements(liquidations) \subseteq Elements(a.liquidationEvents) \cup {e}
  PROVE  Added(a, r, "market", e)
<1>1. AccumulatorOk(r)
  BY DEF MarketSet, AccumulatorOk
<1>2. Passes(a.openInterestHistory, r.openInterestHistory)
  BY PassesItself DEF MarketSet, AccumulatorOk, Accumulator
<1>3. PublicOf(r) = PublicOf(a) /\ MarketOf(r) \subseteq MarketOf(a) \cup {e}
  BY DEF MarketSet, PublicOf, MarketOf
<1>4. \A d \in Channels \ {"market"} : d = "public"
  BY DEF Channels
<1>5. QED
  BY <1>1, <1>2, <1>3, <1>4 DEF Added, Holds

\* The messages of the market stream, before what is old is pruned
LEMMA MarketAdds ==
  ASSUME NEW a, AccumulatorOk(a), NEW e \in Event
  PROVE  /\ Added(a, [a EXCEPT !.tradeBuckets = Gathered(@, e), !.lastPrice = LaterPrice(@, e)],
                  "market", e)
         /\ Added(a, RecordMark(a, e), "market", e)
         /\ Added(a, RecordCandle(a, e), "market", e)
         /\ Added(a, [a EXCEPT !.liquidationEvents = Append(@, e)], "market", e)
<1> DEFINE buckets == Gathered(a.tradeBuckets, e)
           price == LaterPrice(a.lastPrice, e)
           candle == LaterPrice(a.candle, e)
           liquidations == Append(a.liquidationEvents, e)
           t == [a EXCEPT !.tradeBuckets = buckets, !.lastPrice = price]
           m == RecordMark(a, e)
           c == RecordCandle(a, e)
           l == [a EXCEPT !.liquidationEvents = liquidations]
<1>1. /\ a \in Accumulator /\ AtMostOne(a.lastPrice) /\ a.lastPrice \in Optional
      /\ a.candle \in Optional /\ a.tradeBuckets \in SUBSET Bucket
      /\ a.liquidationEvents \in Seq(Event)
  BY DEF AccumulatorOk, Accumulator
<1>2. /\ price \in Optional /\ price \subseteq a.lastPrice \cup {e} /\ AtMostOne(price)
      /\ candle \in Optional /\ candle \subseteq a.candle \cup {e}
      /\ buckets \subseteq Bucket
      /\ InBuckets(buckets) \subseteq InBuckets(a.tradeBuckets) \cup {e}
      /\ {e} \in Optional
  BY <1>1, PriceLater, GatheredAdds DEF Optional
<1>3. /\ liquidations \in Seq(Event)
      /\ Elements(liquidations) \subseteq Elements(a.liquidationEvents) \cup {e}
  BY <1>1 DEF Elements
<1>4. m = [a EXCEPT !.mark = {e}] /\ c = [a EXCEPT !.candle = candle]
  BY DEF RecordMark, RecordCandle, Some
<1> HIDE DEF buckets, price, candle, liquidations
<1>5. /\ MarketSet(a, t, price, a.mark, a.candle, buckets, a.liquidationEvents)
      /\ MarketSet(a, l, a.lastPrice, a.mark, a.candle, a.tradeBuckets, liquidations)
  BY <1>1, <1>2, <1>3 DEF MarketSet, Accumulator
<1>6. /\ MarketSet(a, m, a.lastPrice, {e}, a.candle, a.tradeBuckets, a.liquidationEvents)
      /\ MarketSet(a, c, a.lastPrice, a.mark, candle, a.tradeBuckets, a.liquidationEvents)
  BY <1>1, <1>2, <1>4 DEF MarketSet, Accumulator
<1> HIDE DEF t, m, c, l
<1>7. Added(a, t, "market", e) /\ Added(a, l, "market", e)
  BY <1>1, <1>2, <1>3, <1>5, MarketSetAdds
<1>8. Added(a, m, "market", e) /\ Added(a, c, "market", e)
  BY <1>1, <1>2, <1>6, MarketSetAdds
<1>9. QED
  BY <1>7, <1>8 DEF t, m, c, l, buckets, price, liquidations

\* A message adds what it says to the stream it came over, and nothing else.
LEMMA HandledAdds ==
  ASSUME NEW a, AccumulatorOk(a), NEW e \in Event, NEW c \in Channels, NEW kind \in KindsOf[c]
  PROVE  Added(a, Handled(a, kind, e), c, e)
<1> DEFINE t == [a EXCEPT !.tradeBuckets = Gathered(@, e), !.lastPrice = LaterPrice(@, e)]
           l == [a EXCEPT !.liquidationEvents = Append(@, e)]
<1>1. Added(a, t, "market", e) /\ Added(a, l, "market", e)
  BY MarketAdds
<1>2. RecordTrade(a, e) = Prune(t, e.received) /\ RecordLiquidation(a, e) = Prune(l, e.received)
  BY DEF RecordTrade, RecordLiquidation
<1> HIDE DEF t, l
<1>3. Cut(t, Prune(t, e.received)) /\ Cut(l, Prune(l, e.received))
  BY <1>1, PruneCuts DEF Added
<1>4. "market" \in Channels
  BY DEF Channels
<1>5. /\ Added(a, Prune(t, e.received), "market", e)
      /\ Added(a, Prune(l, e.received), "market", e)
  BY <1>1, <1>3, <1>4, CutAfter
<1>6. CASE c = "public"
  BY <1>6, PublicAdds DEF KindsOf, Handled
<1>7. CASE c = "market"
  <2>1. kind \in {"aggTrade", "markPrice", "kline_1m", "forceOrder"}
    BY <1>7 DEF KindsOf
  <2>2. CASE kind \in {"aggTrade", "forceOrder"}
    <3>1. Handled(a, kind, e) \in {RecordTrade(a, e), RecordLiquidation(a, e)}
      BY <2>2 DEF Handled
    <3>2. QED
      BY <1>2, <1>5, <1>7, <3>1
  <2>3. CASE kind \in {"markPrice", "kline_1m"}
    <3>1. Handled(a, kind, e) \in {RecordMark(a, e), RecordCandle(a, e)}
      BY <2>3 DEF Handled
    <3>2. Added(a, RecordMark(a, e), "market", e) /\ Added(a, RecordCandle(a, e), "market", e)
      BY MarketAdds
    <3>3. QED
      BY <1>7, <3>1, <3>2
  <2>4. QED
    BY <2>1, <2>2, <2>3
<1>8. QED
  BY <1>6, <1>7 DEF Channels

\* A point that was not overtaken comes last.
LEMMA RecordedLater ==
  ASSUME NEW points \in Seq(Event), InOrder(points), NEW e \in Event, ~Overtaken(points, e)
  PROVE  /\ Recorded(points, e) \in Seq(Event) /\ InOrder(Recorded(points, e))
         /\ Passes(points, Recorded(points, e))
<1> DEFINE r == Recorded(points, e)
           n == Len(points)
<1>1. n \in Nat /\ DOMAIN points = 1 .. n /\ \A i \in 1 .. n : points[i] \in Event
  OBVIOUS
<1>2. ASSUME points # <<>>
      PROVE  n \in 1 .. n /\ Last(points) = points[n] /\ points[n].at <= e.at
  <2>1. n # 0
    BY <1>2, EmptySeq
  <2>2. n \in 1 .. n /\ points[n] \in Event
    BY <1>1, <2>1
  <2>3. Last(points) = points[n] /\ ~(e.at < Last(points).at)
    BY <1>2 DEF Overtaken, Last
  <2>4. points[n].at \in Nat /\ e.at \in Nat
    BY <2>2 DEF Event
  <2>5. QED
    BY <2>2, <2>3, <2>4
<1>3. \A i \in 1 .. n : points[i].at <= e.at
  <2> SUFFICES ASSUME NEW i \in 1 .. n PROVE points[i].at <= e.at
    OBVIOUS
  <2>1. points # <<>> /\ i <= n
    BY <1>1
  <2>2. points[i].at <= points[n].at /\ points[n].at <= e.at
    BY <1>1, <1>2, <2>1 DEF InOrder
  <2>3. points[i].at \in Nat /\ points[n].at \in Nat /\ e.at \in Nat
    BY <1>1, <1>2, <2>1 DEF Event
  <2>4. QED
    BY <2>2, <2>3
<1>4. CASE points # <<>> /\ e.at = Last(points).at
  <2>1. r = [points EXCEPT ![n] = e]
    BY <1>4 DEF Recorded
  <2>2. /\ r \in Seq(Event) /\ Len(r) = n
        /\ \A j \in 1 .. n : r[j] = IF j = n THEN e ELSE points[j]
    BY <1>1, <1>2, <1>4, <2>1, ExceptSeq
  <2> HIDE DEF r, n
  <2>3. DOMAIN r = 1 .. n
    BY <2>2
  <2>4. InOrder(r)
    BY <1>1, <1>2, <1>3, <1>4, <2>2, <2>3 DEF InOrder, Event
  <2>5. Last(r) = e
    BY <1>2, <1>4, <2>2 DEF Last
  <2>6. Passes(points, r)
    BY <1>2, <1>4, <2>5 DEF Passes
  <2>7. QED
    BY <2>2, <2>4, <2>6 DEF r
<1>5. CASE ~(points # <<>> /\ e.at = Last(points).at)
  <2>1. r = Append(points, e)
    BY <1>5 DEF Recorded
  <2>2. /\ r \in Seq(Event) /\ Len(r) = n + 1 /\ r[n + 1] = e
        /\ \A j \in 1 .. n : r[j] = points[j]
    BY <2>1, AppendProperties
  <2> HIDE DEF r, n
  <2>3. DOMAIN r = 1 .. n + 1
    BY <2>2
  <2>4. InOrder(r)
    <3> SUFFICES ASSUME NEW i \in 1 .. n + 1, NEW j \in 1 .. n + 1, i <= j
                 PROVE  r[i].at <= r[j].at
      BY <2>3 DEF InOrder
    <3>1. CASE j = n + 1 /\ i = n + 1
      BY <2>2, <3>1 DEF Event
    <3>2. CASE j = n + 1 /\ i \in 1 .. n
      BY <1>3, <2>2, <3>2
    <3>3. CASE i \in 1 .. n /\ j \in 1 .. n
      BY <1>1, <2>2, <3>3 DEF InOrder
    <3>4. QED
      BY <1>1, <3>1, <3>2, <3>3
  <2>5. Last(r) = e
    BY <2>2 DEF Last
  <2>6. Passes(points, r)
    BY <1>2, <2>5 DEF Passes, Event
  <2>7. QED
    BY <2>2, <2>4, <2>6 DEF r
<1>6. QED
  BY <1>4, <1>5

\* Open interest is of no stream.
LEMMA InterestKept ==
  ASSUME NEW a, AccumulatorOk(a), NEW e \in Event
  PROVE  Kept(a, RecordOpenInterest(a, e))
<1> DEFINE points == Recorded(a.openInterestHistory, e)
           b == [a EXCEPT !.openInterestHistory = points]
<1>1. CASE Overtaken(a.openInterestHistory, e)
  BY <1>1, KeptItself DEF RecordOpenInterest
<1>2. CASE ~Overtaken(a.openInterestHistory, e)
  <2>1. RecordOpenInterest(a, e) = Prune(b, e.received)
    BY <1>2 DEF RecordOpenInterest
  <2>2. /\ a \in Accumulator /\ a.openInterestHistory \in Seq(Event)
        /\ InOrder(a.openInterestHistory)
    BY DEF AccumulatorOk, Accumulator
  <2>3. /\ points \in Seq(Event) /\ InOrder(points)
        /\ Passes(a.openInterestHistory, points)
    BY <1>2, <2>2, RecordedLater
  <2> HIDE DEF points
  <2>4. /\ b \in Accumulator /\ b.book = a.book /\ b.depth = a.depth
        /\ b.lastPrice = a.lastPrice /\ b.mark = a.mark /\ b.candle = a.candle
        /\ b.tradeBuckets = a.tradeBuckets /\ b.liquidationEvents = a.liquidationEvents
        /\ b.openInterestHistory = points
    BY <2>2, <2>3 DEF Accumulator
  <2> HIDE DEF b
  <2>5. AccumulatorOk(b)
    BY <2>3, <2>4 DEF AccumulatorOk
  <2>6. PublicOf(b) = PublicOf(a) /\ MarketOf(b) = MarketOf(a)
    BY <2>4 DEF PublicOf, MarketOf
  <2>7. Kept(a, b)
    BY <2>3, <2>4, <2>5, <2>6 DEF Kept, Holds
  <2>8. Cut(b, Prune(b, e.received))
    BY <2>5, PruneCuts
  <2>9. Kept(a, Prune(b, e.received))
    BY <2>7, <2>8, CutAfter
  <2>10. QED
    BY <2>1, <2>9
<1>3. QED
  BY <1>1, <1>2
\* An observation shows no more than the accumulator holds.
LEMMA ObservationHeld ==
  ASSUME NEW a, NEW n
  PROVE  PublicEvents(a) = PublicOf(a) /\ MarketEvents(a, n) \subseteq MarketOf(a)
<1>1. ASSUME NEW w
      PROVE  ReturnReferences(a, n, w) \subseteq InBuckets(a.tradeBuckets)
  <2> DEFINE second == [b \in a.tradeBuckets |-> b.second]
             closest == Closest(second, n - w, ReturnGap)
  <2>1. closest \subseteq a.tradeBuckets
    <3>1. DOMAIN second = a.tradeBuckets
      OBVIOUS
    <3> HIDE DEF second
    <3>2. QED
      BY <3>1 DEF Closest
  <2>2. ReturnReferences(a, n, w) = {b.lastPrice : b \in closest}
    BY DEF ReturnReferences
  <2> HIDE DEF closest
  <2>3. QED
    BY <2>1, <2>2 DEF InBuckets
<1>2. ASSUME NEW w
      PROVE  FlowTrades(a, n, w) \subseteq InBuckets(a.tradeBuckets)
  <2> DEFINE chosen == {b \in a.tradeBuckets : Max({e.at : e \in b.trades}) \in (n - w) .. n}
  <2>1. FlowTrades(a, n, w) = UNION {b.trades : b \in chosen}
    BY DEF FlowTrades, TradesBetween
  <2>2. chosen \subseteq a.tradeBuckets
    OBVIOUS
  <2> HIDE DEF chosen
  <2>3. QED
    BY <2>1, <2>2 DEF InBuckets
<1>3. ASSUME NEW w
      PROVE  WindowLiquidations(a, n, w) \subseteq Elements(a.liquidationEvents)
  BY DEF WindowLiquidations, EventsBetween, Elements
<1>4. PublicEvents(a) = PublicOf(a)
  BY DEF PublicEvents, PublicOf
<1>5. MarketEvents(a, n) \subseteq MarketOf(a)
  <2>1. ASSUME NEW e \in MarketEvents(a, n)
        PROVE  \/ e \in a.lastPrice \/ e \in a.mark \/ e \in a.candle
               \/ \E w \in ReturnWindows : e \in ReturnReferences(a, n, w)
               \/ \E w \in FlowWindows :
                    e \in FlowTrades(a, n, w) \/ e \in WindowLiquidations(a, n, w)
    BY DEF MarketEvents
  <2>2. QED
    BY <1>1, <1>2, <1>3, <2>1 DEF MarketOf
<1>6. QED
  BY <1>4, <1>5

\* The greatest of one or two
LEMMA GreatestOfTwo ==
  ASSUME NEW m \in Nat, NEW n \in Nat
  PROVE  Max({m, n}) \in {m, n}
<1>1. \E k \in {m, n} : \A l \in {m, n} : k >= l
  OBVIOUS
<1>2. QED
  BY <1>1 DEF Max

\* An asset that is rated usable has a trade or a depth that is no older.
LEMMA UsableWasHeard ==
  ASSUME NEW a, AccumulatorOk(a), NEW n \in Nat, NEW limits \in Threshold,
         LeadHealth(a, n, limits, limits).tradeBook \in {"NORMAL", "DEGRADED"}
  PROVE  \E e \in a.lastPrice \cup a.depth : e.received >= n - limits.usableMaxAge
<1> DEFINE events == a.lastPrice \cup a.depth
           received == IF IsObserved(a) THEN ReceivedAt(events) ELSE NoAge
           age == Age(received, n)
<1>1. /\ limits.usableMaxAge \in Nat /\ limits.normalMaxAge \in Nat
      /\ limits.normalMaxAge <= limits.usableMaxAge
  BY DEF Threshold
<1>2. LeadHealth(a, n, limits, limits).tradeBook = ClassifyEvidenceAge(age, limits)
  BY DEF LeadHealth
<1>3. a.lastPrice \in Optional /\ a.depth \in Optional /\ AtMostOne(a.lastPrice) /\ AtMostOne(a.depth)
  BY DEF AccumulatorOk, Accumulator
<1>4. ASSUME events # {}
      PROVE  /\ ReceivedAt(events) \in Nat
             /\ \E e \in events : e.received = ReceivedAt(events)
  <2> DEFINE times == {e.received : e \in events}
  <2>1. \E e, f \in events : times = {e.received, f.received}
    BY <1>3, <1>4 DEF AtMostOne
  <2>2. \A e \in events : e.received \in Nat
    BY <1>3 DEF Optional, Event
  <2>3. Max(times) \in times
    BY <2>1, <2>2, GreatestOfTwo
  <2>4. ReceivedAt(events) = Max(times)
    BY <1>4 DEF ReceivedAt, None
  <2> HIDE DEF events
  <2>5. QED
    BY <2>2, <2>3, <2>4
<1>5. CASE received = NoAge
  <2>1. age = NoAge
    BY <1>5 DEF Age
  <2> HIDE DEF age
  <2>2. ClassifyEvidenceAge(age, limits) = "UNAVAILABLE"
    BY <2>1 DEF ClassifyEvidenceAge, NoAge
  <2>3. QED
    BY <1>2, <2>2
<1>6. CASE received # NoAge
  <2>1. received = ReceivedAt(events) /\ events # {}
    BY <1>6 DEF ReceivedAt, None
  <2>2. PICK e \in events : e.received = received /\ received \in Nat
    BY <1>4, <2>1
  <2> HIDE DEF received, events
  <2>3. age = IF n >= received THEN n - received ELSE 0
    BY <1>6 DEF Age
  <2>4. age \in Nat
    BY <2>2, <2>3
  <2>5. age <= limits.usableMaxAge
    <3> HIDE DEF age
    <3>1. ClassifyEvidenceAge(age, limits) \in {"NORMAL", "DEGRADED"}
      BY <1>2
    <3>2. QED
      BY <1>1, <2>4, <3>1 DEF ClassifyEvidenceAge
  <2>6. received >= n - limits.usableMaxAge
    <3> HIDE DEF age
    <3>1. n \in Nat /\ received \in Nat /\ limits.usableMaxAge \in Nat
      BY <1>1, <2>2
    <3>2. QED
      BY <2>3, <2>4, <2>5, <3>1
  <2>7. QED
    BY <2>2, <2>6 DEF events
<1>7. QED
  BY <1>5, <1>6

\* Open interest is compared with points that came before the last.
LEMMA ReferencesEarlier ==
  ASSUME NEW a, AccumulatorOk(a), NEW n, NEW w, NEW e \in OiReferences(a, n, w)
  PROVE  e.at <= Last(a.openInterestHistory).at
<1> DEFINE events == a.openInterestHistory
           points == {events[i] : i \in DOMAIN events}
           time == [f \in points |-> f.at]
<1>1. e \in Closest(time, n - w, OiGap)
  BY DEF OiReferences
<1>2. e \in points
  <2>1. DOMAIN time = points
    OBVIOUS
  <2> HIDE DEF time
  <2>2. QED
    BY <1>1, <2>1 DEF Closest
<1>3. PICK i \in DOMAIN events : e = events[i]
  BY <1>2
<1>4. events \in Seq(Event) /\ InOrder(events)
  BY DEF AccumulatorOk, Accumulator
<1> HIDE DEF events
<1>5. i \in DOMAIN events /\ Len(events) \in DOMAIN events /\ i <= Len(events)
  BY <1>3, <1>4
<1>6. QED
  BY <1>3, <1>4, <1>5 DEF InOrder, Last, events
-----------------------------------------------------------------------------
(***************************************************************************)
(* The channels of the lead assets.                                        *)
(***************************************************************************)
CurrentTag == RunTag(service.runGeneration)

LeadService ==
  service \in [started : BOOLEAN, runGeneration : Nat, oiTimer : Nat, connected : SUBSET Channels]

\* A channel, what the service shows of it, and its planned reconnect
LeadStreamOk(ch, started, tag, shown) ==
  /\ ChannelInv(ch, started, tag)
  /\ shown \in BOOLEAN /\ (shown <=> Working(ch))
  /\ Working(ch) => ch.planned = ch.current

LeadChannels ==
  /\ bound \in Bounds /\ LeadService /\ DOMAIN channel = Channels
  /\ \A c \in Channels :
       LeadStreamOk(channel[c], service.started, CurrentTag, c \in service.connected)

Delivered(e) == e.run <= service.runGeneration /\ e.from # NoSocket
OfThisSocket(c, e) == e.run = service.runGeneration => e.from = channel[c].current

LeadEvents ==
  /\ now \in Nat /\ fetches \subseteq [run : Nat, asked : Nat]
  /\ DOMAIN accumulators = Symbols
  /\ \A s \in Symbols :
       /\ AccumulatorOk(accumulators[s])
       /\ \A c \in Channels : \A e \in Holds(c, accumulators[s]) :
            Delivered(e) /\ OfThisSocket(c, e)

\* Each channel is of one stream; what is held of this run came by its socket.
LeadInv == LeadChannels /\ LeadEvents

\* What CurrentTag is made of.
LEMMA TagOk ==
  ASSUME LeadChannels
  PROVE  /\ CurrentTag \in Tag /\ CurrentTag.run = service.runGeneration
         /\ service.runGeneration \in Nat /\ service.started \in BOOLEAN
         /\ \A c \in Channels : bound.sockets[c] \in Nat
BY LeadCollectorAssumption DEF LeadChannels, LeadService, CurrentTag, RunTag, Tag

\* Every channel is in the state of the service.
LEMMA ChannelFacts ==
  ASSUME LeadChannels, NEW c \in Channels
  PROVE  /\ ChannelInv(channel[c], service.started, CurrentTag)
         /\ c \in service.connected <=> Working(channel[c])
         /\ Working(channel[c]) => channel[c].planned = channel[c].current
         /\ Sound(channel[c]) /\ OthersClose(channel[c])
<1>1. LeadStreamOk(channel[c], service.started, CurrentTag, c \in service.connected)
  BY DEF LeadChannels
<1>2. ChannelInv(channel[c], service.started, CurrentTag)
  BY <1>1 DEF LeadStreamOk
<1>3. Sound(channel[c]) /\ OthersClose(channel[c])
  BY <1>2 DEF ChannelInv, NoStream, Streaming, OthersClose
<1>4. QED
  BY <1>1, <1>2, <1>3 DEF LeadStreamOk

\* The socket that the service takes for its own
LEMMA CurrentSocket ==
  ASSUME LeadChannels, NEW c \in Channels, NEW s \in Live(c)
  PROVE  /\ IsCurrent(c, s) <=> service.started /\ s = channel[c].current
         /\ s \in DOMAIN channel[c].live /\ s \in Nat /\ s # NoSocket
<1>1. s \in DOMAIN channel[c].live /\ s \in Nat /\ s # NoSocket
  BY ChannelFacts DEF Sound, SocketsOk, Live
<1>2. ASSUME service.started, s = channel[c].current
      PROVE  channel[c].live[s].tag = CurrentTag
  BY <1>1, <1>2, ChannelFacts DEF ChannelInv, Streaming
<1>3. QED
  BY <1>1, <1>2, TagOk DEF IsCurrent, IsRunActive, Live

\* Only a started service has a current socket.
LEMMA CurrentWhileStarted ==
  ASSUME LeadChannels, NEW c \in Channels, channel[c].current # NoSocket
  PROVE  service.started
BY ChannelFacts DEF ChannelInv, NoStream

\* A step of one channel, in the same run
LEMMA LeadFrame ==
  ASSUME LeadChannels, NEW c \in Channels, NEW r, UNCHANGED bound, LeadService',
         channel' = [channel EXCEPT ![c] = r],
         service'.started = service.started, service'.runGeneration = service.runGeneration,
         \A d \in Channels \ {c} : d \in service'.connected <=> d \in service.connected,
         ChannelInv(r, service.started, CurrentTag),
         c \in service'.connected <=> Working(r), Working(r) => r.planned = r.current
  PROVE  /\ LeadChannels' /\ channel'[c] = r
         /\ \A d \in Channels \ {c} : channel'[d] = channel[d]
<1>1. /\ DOMAIN channel' = Channels /\ channel'[c] = r
      /\ \A d \in Channels \ {c} : channel'[d] = channel[d]
  BY DEF LeadChannels
<1>2. CurrentTag' = CurrentTag
  BY DEF CurrentTag
<1>3. \A d \in Channels : (d \in service'.connected) \in BOOLEAN
  OBVIOUS
<1>4. LeadStreamOk(channel[c], service.started, CurrentTag, c \in service.connected)'
  BY <1>1, <1>2, <1>3 DEF LeadStreamOk
<1>5. ASSUME NEW d \in Channels \ {c}
      PROVE  LeadStreamOk(channel[d], service.started, CurrentTag, d \in service.connected)'
  <2>1. /\ ChannelInv(channel[d], service.started, CurrentTag)
        /\ d \in service.connected <=> Working(channel[d])
        /\ Working(channel[d]) => channel[d].planned = channel[d].current
    BY ChannelFacts
  <2>2. /\ ChannelInv(channel'[d], service'.started, CurrentTag')
        /\ d \in service'.connected <=> Working(channel'[d])
        /\ Working(channel'[d]) => channel'[d].planned = channel'[d].current
    BY <1>1, <1>2, <2>1
  <2>3. QED
    BY <1>3, <2>2 DEF LeadStreamOk
<1>6. bound' \in Bounds
  BY DEF LeadChannels
<1>7. QED
  BY <1>1, <1>4, <1>5, <1>6 DEF LeadChannels

\* What a channel does to its socket, and to what it has delivered
Keeps == \A d \in Channels : channel'[d].current = channel[d].current

Resets(c) ==
  /\ \A d \in Channels \ {c} : channel'[d] = channel[d]
  /\ accumulators' = [s \in Symbols |-> IF c = "public" THEN ResetPublicStream(accumulators[s])
                                        ELSE ResetMarketStream(accumulators[s])]

\* A socket that opens is shown.
LEMMA SocketOpensChannel ==
  ASSUME LeadChannels, NEW c \in Channels, NEW s \in Live(c), SocketOpens(c, s)
  PROVE  LeadChannels' /\ Keeps /\ service'.runGeneration = service.runGeneration
<1> DEFINE ch == channel[c]
           live == SetState(ch.live, s, "open")
           r == WithSockets(ch, s, live)
<1>1. /\ ChannelInv(ch, service.started, CurrentTag) /\ Sound(ch)
      /\ s \in DOMAIN ch.live /\ ch.live[s].state = "connecting" /\ s \in Nat
  BY ChannelFacts, CurrentSocket DEF SocketOpens, Live
<1>2. /\ service.started /\ s = ch.current
      /\ ChannelInv(r, service.started, CurrentTag)
      /\ r.current = s /\ r.planned = s /\ Working(r)
  <2> HIDE DEF ch
  <2> QED
    BY <1>1, OpeningStreams
<1>3. IsCurrent(c, s)
  BY <1>2, CurrentSocket
<1>4. channel' = [channel EXCEPT ![c] = [ch EXCEPT !.live = live, !.planned = s]]
  BY <1>3 DEF SocketOpens
<1>5. [ch EXCEPT !.live = live, !.planned = s] = r
  <2> HIDE DEF ch, live
  <2> QED
    BY <1>1 DEF WithSockets, With, Sound
<1>6. /\ service' = [service EXCEPT !.connected = @ \cup {c}] /\ UNCHANGED bound
  BY <1>3 DEF SocketOpens
<1>7. /\ LeadService' /\ service'.started = service.started
      /\ service'.runGeneration = service.runGeneration
      /\ service'.connected = service.connected \cup {c}
  BY <1>6 DEF LeadChannels, LeadService
<1> HIDE DEF r, ch, live
<1>8. channel' = [channel EXCEPT ![c] = r]
  BY <1>4, <1>5
<1>9. /\ LeadChannels' /\ channel'[c] = r
      /\ \A d \in Channels \ {c} : channel'[d] = channel[d]
  BY <1>2, <1>6, <1>7, <1>8, LeadFrame
<1>10. QED
  BY <1>2, <1>7, <1>9 DEF Keeps, ch

\* A channel that stays as it is but for other sockets
LEMMA IgnoredFrame ==
  ASSUME LeadChannels, NEW c \in Channels, NEW live, UNCHANGED <<bound, service>>,
         channel' = [channel EXCEPT ![c] = [channel[c] EXCEPT !.live = live]],
         ChannelInv(WithSockets(channel[c], channel[c].planned, live), service.started, CurrentTag),
         WithSockets(channel[c], channel[c].planned, live).current = channel[c].current,
         WithSockets(channel[c], channel[c].planned, live).planned = channel[c].planned,
         Working(WithSockets(channel[c], channel[c].planned, live)) <=> Working(channel[c])
  PROVE  LeadChannels' /\ Keeps
<1> DEFINE ch == channel[c]
           r == WithSockets(ch, ch.planned, live)
<1>1. /\ Sound(ch) /\ (c \in service.connected <=> Working(ch))
      /\ Working(ch) => ch.planned = ch.current
  BY ChannelFacts
<1>2. [ch EXCEPT !.live = live] = r
  <2> HIDE DEF ch
  <2> QED
    BY <1>1, FieldsSet DEF WithSockets
<1>3. LeadService'
  BY DEF LeadChannels, LeadService
<1>4. channel' = [channel EXCEPT ![c] = r]
  BY <1>2
<1>5. /\ ChannelInv(r, service.started, CurrentTag)
      /\ r.current = ch.current /\ r.planned = ch.planned /\ (Working(r) <=> Working(ch))
  OBVIOUS
<1> HIDE DEF r
<1>6. /\ c \in service'.connected <=> Working(r)
      /\ Working(r) => r.planned = r.current
  BY <1>1, <1>5
<1>7. /\ LeadChannels' /\ channel'[c] = r
      /\ \A d \in Channels \ {c} : channel'[d] = channel[d]
  BY <1>3, <1>4, <1>5, <1>6, LeadFrame
<1>8. QED
  BY <1>5, <1>7 DEF Keeps, ch

\* failSocket of the current socket
LEMMA LostFrame ==
  ASSUME LeadChannels, NEW c \in Channels, NEW live, UNCHANGED bound, service.started,
         channel[c].current # NoSocket, SocketsOk(live), AllClosing(live),
         FailSocket(c, [channel[c] EXCEPT !.live = live])
  PROVE  LeadChannels' /\ Resets(c) /\ service'.runGeneration = service.runGeneration
<1> DEFINE ch == channel[c]
           tag == CurrentTag
           r == Lost([ch EXCEPT !.live = live], tag)
<1>1. ChannelInv(ch, service.started, tag)
  BY ChannelFacts
<1>2. ChannelInv(r, service.started, tag) /\ r.current = NoSocket /\ ~Working(r)
  <2> HIDE DEF ch, tag
  <2> QED
    BY <1>1, LostStreams DEF ch
<1>3. /\ channel' = [channel EXCEPT ![c] = r]
      /\ service' = [service EXCEPT !.connected = @ \ {c}]
      /\ accumulators' = [s \in Symbols |-> IF c = "public"
                                            THEN ResetPublicStream(accumulators[s])
                                            ELSE ResetMarketStream(accumulators[s])]
  BY DEF FailSocket, CurrentTag
<1>4. /\ LeadService' /\ service'.started = service.started
      /\ service'.runGeneration = service.runGeneration
      /\ service'.connected = service.connected \ {c}
  BY <1>3 DEF LeadChannels, LeadService
<1> HIDE DEF r
<1>5. LeadChannels' /\ \A d \in Channels \ {c} : channel'[d] = channel[d]
  BY <1>2, <1>3, <1>4, LeadFrame
<1>6. QED
  BY <1>3, <1>4, <1>5 DEF Resets

\* What an end of a socket leads to
Ended(c) ==
  /\ LeadChannels' /\ service'.runGeneration = service.runGeneration
  /\ Resets(c) \/ (Keeps /\ UNCHANGED accumulators)

\* An error closes the socket.
LEMMA SocketErrorsChannel ==
  ASSUME LeadChannels, NEW c \in Channels, NEW s \in Live(c), SocketErrors(c, s)
  PROVE  Ended(c)
<1> DEFINE ch == channel[c]
           live == SetState(ch.live, s, "closing")
<1>1. /\ ChannelInv(ch, service.started, CurrentTag) /\ s \in DOMAIN ch.live /\ UNCHANGED bound
      /\ s # NoSocket
  BY ChannelFacts, CurrentSocket DEF SocketErrors
<1>2. CASE IsCurrent(c, s)
  <2>1. service.started /\ s = ch.current
    BY <1>2, CurrentSocket
  <2>2. FailSocket(c, [ch EXCEPT !.live = live])
    BY <1>2 DEF SocketErrors
  <2>3. SocketsOk(live) /\ AllClosing(live)
    <3> HIDE DEF ch
    <3> QED
      BY <1>1, <2>1, LeftClosing
  <2> HIDE DEF live
  <2>4. QED
    BY <1>1, <2>1, <2>2, <2>3, LostFrame DEF Ended
<1>3. CASE ~IsCurrent(c, s)
  <2>1. s # ch.current
    BY <1>1, <1>3, CurrentSocket, CurrentWhileStarted
  <2>2. IgnoreSocket(c, [ch EXCEPT !.live = live])
    BY <1>3 DEF SocketErrors
  <2>3. /\ ChannelInv(WithSockets(ch, ch.planned, live), service.started, CurrentTag)
        /\ WithSockets(ch, ch.planned, live).current = ch.current
        /\ WithSockets(ch, ch.planned, live).planned = ch.planned
        /\ Working(WithSockets(ch, ch.planned, live)) <=> Working(ch)
    <3> HIDE DEF ch
    <3> QED
      BY <1>1, <2>1, ClosingStreams
  <2> HIDE DEF live
  <2>4. /\ channel' = [channel EXCEPT ![c] = [ch EXCEPT !.live = live]]
        /\ UNCHANGED <<bound, service, accumulators>>
    BY <1>1, <2>2 DEF IgnoreSocket
  <2>5. LeadChannels' /\ Keeps
    BY <2>3, <2>4, IgnoredFrame
  <2>6. QED
    BY <2>4, <2>5 DEF Ended
<1>4. QED
  BY <1>2, <1>3

\* A close event takes the socket away.
LEMMA SocketClosesChannel ==
  ASSUME LeadChannels, NEW c \in Channels, NEW s \in Live(c), SocketCloses(c, s)
  PROVE  Ended(c)
<1> DEFINE ch == channel[c]
           live == Forget(ch.live, s)
<1>1. /\ ChannelInv(ch, service.started, CurrentTag) /\ s \in DOMAIN ch.live /\ UNCHANGED bound
      /\ s # NoSocket
  BY ChannelFacts, CurrentSocket DEF SocketCloses
<1>2. CASE IsCurrent(c, s)
  <2>1. service.started /\ s = ch.current
    BY <1>2, CurrentSocket
  <2>2. FailSocket(c, [ch EXCEPT !.live = live])
    BY <1>2 DEF SocketCloses
  <2>3. SocketsOk(live) /\ AllClosing(live)
    <3> HIDE DEF ch
    <3> QED
      BY <1>1, <2>1, LeftClosing
  <2> HIDE DEF live
  <2>4. QED
    BY <1>1, <2>1, <2>2, <2>3, LostFrame DEF Ended
<1>3. CASE ~IsCurrent(c, s)
  <2>1. s # ch.current
    BY <1>1, <1>3, CurrentSocket, CurrentWhileStarted
  <2>2. IgnoreSocket(c, [ch EXCEPT !.live = live])
    BY <1>3 DEF SocketCloses
  <2>3. /\ ChannelInv(WithSockets(ch, ch.planned, live), service.started, CurrentTag)
        /\ WithSockets(ch, ch.planned, live).current = ch.current
        /\ WithSockets(ch, ch.planned, live).planned = ch.planned
        /\ Working(WithSockets(ch, ch.planned, live)) <=> Working(ch)
    <3> HIDE DEF ch
    <3> QED
      BY <1>1, <2>1, ForgettingStreams
  <2> HIDE DEF live
  <2>4. /\ channel' = [channel EXCEPT ![c] = [ch EXCEPT !.live = live]]
        /\ UNCHANGED <<bound, service, accumulators>>
    BY <1>1, <2>2 DEF IgnoreSocket
  <2>5. LeadChannels' /\ Keeps
    BY <2>3, <2>4, IgnoredFrame
  <2>6. QED
    BY <2>4, <2>5 DEF Ended
<1>4. QED
  BY <1>2, <1>3

\* The planned reconnect only tells the socket to close.
LEMMA PlannedReconnectChannel ==
  ASSUME LeadChannels, NEW c \in Channels, PlannedReconnect(c)
  PROVE  LeadChannels' /\ Keeps
<1> DEFINE ch == channel[c]
           s == ch.planned
           live == SetState(ch.live, s, "closing")
<1>1. /\ ChannelInv(ch, service.started, CurrentTag) /\ OthersClose(ch)
      /\ s \in DOMAIN ch.live /\ ch.live[s].state = "open"
      /\ UNCHANGED <<bound, service>>
  BY ChannelFacts DEF PlannedReconnect, Live
<1>2. s = ch.current /\ Working(ch)
  BY <1>1 DEF OthersClose, Working
<1>3. /\ ChannelInv(WithSockets(ch, ch.planned, live), service.started, CurrentTag)
      /\ WithSockets(ch, ch.planned, live).current = ch.current
      /\ WithSockets(ch, ch.planned, live).planned = ch.planned
      /\ Working(WithSockets(ch, ch.planned, live)) <=> Working(ch)
  <2> HIDE DEF ch, s
  <2> QED
    BY <1>1, <1>2, ClosingStreams
<1>4. channel' = [channel EXCEPT ![c] = [ch EXCEPT !.live = live]]
  BY DEF PlannedReconnect
<1> HIDE DEF live
<1>5. QED
  BY <1>1, <1>3, <1>4, IgnoredFrame

\* The timer that fires is of this run.
LEMMA ReconnectTimerFiresChannel ==
  ASSUME LeadChannels, NEW c \in Channels, ReconnectTimerFires(c)
  PROVE  /\ LeadChannels' /\ channel[c].current = NoSocket
         /\ \A d \in Channels \ {c} : channel'[d] = channel[d]
<1> DEFINE ch == channel[c]
           tag == CurrentTag
           started == service.started
           fired == [ch EXCEPT !.reconnectTimer = NoTag]
           max == bound.sockets[c]
<1>1. /\ ChannelInv(ch, started, tag) /\ ch.reconnectTimer # NoTag /\ max \in Nat
      /\ UNCHANGED <<bound, service>> /\ (c \in service.connected <=> Working(ch))
  BY ChannelFacts, TagOk DEF ReconnectTimerFires
<1>2. /\ started /\ ch.reconnectTimer = tag /\ ch.current = NoSocket /\ ~Working(ch)
      /\ \A symbols : \A n \in Nat : \A r \in Connected(fired, tag, symbols, n) :
           ChannelInv(r, started, tag) /\ ~Working(r)
  <2> HIDE DEF ch, tag, started
  <2> QED
    BY <1>1, TimerStreams
<1>3. IsRunActive(ch.reconnectTimer.run) /\ RunTag(ch.reconnectTimer.run) = tag
  BY <1>2, TagOk DEF IsRunActive, CurrentTag
<1>4. PICK r \in Connected(fired, tag, Symbols, max) : channel' = [channel EXCEPT ![c] = r]
  BY <1>3 DEF ReconnectTimerFires, Connect
<1> HIDE DEF fired, max
<1>5. ChannelInv(r, started, tag) /\ ~Working(r)
  BY <1>1, <1>2, <1>4
<1>6. LeadService' /\ ~(c \in service'.connected)
  BY <1>1, <1>2 DEF LeadChannels, LeadService
<1>7. LeadChannels' /\ \A d \in Channels \ {c} : channel'[d] = channel[d]
  BY <1>1, <1>4, <1>5, <1>6, LeadFrame
<1>8. QED
  BY <1>2, <1>7
\* start, from channels at rest: each has a socket or a timer again.
LEMMA StartedChannels ==
  ASSUME LeadChannels, UNCHANGED bound, NEW channels, NEW old, NEW run \in Nat,
         \A c \in Channels : ChannelInv(channels[c], FALSE, old), StartFrom(channels, run)
  PROVE  LeadChannels' /\ service'.runGeneration = run
<1> DEFINE tag == RunTag(run)
<1>1. tag \in Tag /\ \A c \in Channels : bound.sockets[c] \in Nat
  BY TagOk DEF RunTag, Tag
<1>2. service' = [started |-> TRUE, runGeneration |-> run, oiTimer |-> run, connected |-> {}]
  BY DEF StartFrom
<1>3. /\ LeadService' /\ service'.started /\ service'.runGeneration = run
      /\ service'.connected = {} /\ CurrentTag' = tag /\ service'.started = TRUE
  BY <1>2 DEF LeadService, CurrentTag
<1> HIDE DEF tag
<1>4. PICK public \in Connected(channels["public"], tag, Symbols, bound.sockets["public"]),
           market \in Connected(channels["market"], tag, Symbols, bound.sockets["market"]) :
        channel' = [public |-> public, market |-> market]
  BY DEF StartFrom, Connect, tag
<1>5. /\ ChannelInv(public, TRUE, tag) /\ ~Working(public)
      /\ ChannelInv(market, TRUE, tag) /\ ~Working(market)
  <2>1. {"public", "market"} \subseteq Channels
    BY DEF Channels
  <2>2. /\ ChannelInv(channels["public"], FALSE, old) /\ bound.sockets["public"] \in Nat
        /\ ChannelInv(channels["market"], FALSE, old) /\ bound.sockets["market"] \in Nat
    BY <1>1, <2>1
  <2>3. QED
    BY <1>1, <1>4, <2>2, StartStreams
<1>6. /\ DOMAIN channel' = Channels
      /\ \A c \in Channels : ChannelInv(channel'[c], TRUE, tag) /\ ~Working(channel'[c])
  <2>1. /\ DOMAIN channel' = Channels
        /\ channel'["public"] = public /\ channel'["market"] = market
    BY <1>4 DEF Channels
  <2>2. \A c \in Channels : channel'[c] = public \/ channel'[c] = market
    BY <2>1 DEF Channels
  <2>3. QED
    BY <1>5, <2>1, <2>2
<1>7. ASSUME NEW c \in Channels
      PROVE  LeadStreamOk(channel[c], service.started, CurrentTag, c \in service.connected)'
  <2>1. ChannelInv(channel'[c], service'.started, CurrentTag') /\ ~Working(channel'[c])
    BY <1>3, <1>6
  <2>2. (c \in service'.connected) \in BOOLEAN /\ ~(c \in service'.connected)
    BY <1>3
  <2>3. QED
    BY <2>1, <2>2 DEF LeadStreamOk
<1>8. QED
  BY <1>3, <1>6, <1>7 DEF LeadChannels

\* stop leaves every channel at rest.
LEMMA StoppedChannels ==
  ASSUME LeadChannels, NEW tag \in Tag, NEW c \in Channels
  PROVE  ChannelInv(StopChannel(channel[c]), FALSE, tag) /\ ~Working(StopChannel(channel[c]))
<1>1. ChannelInv(channel[c], service.started, CurrentTag)
  BY ChannelFacts
<1>2. QED
  BY <1>1, ReleasedStreams DEF StopChannel

LEMMA StartChannels ==
  ASSUME LeadChannels, Start
  PROVE  LeadChannels' /\ service'.runGeneration > service.runGeneration
<1> DEFINE run == service.runGeneration + 1
<1>1. run \in Nat /\ run > service.runGeneration /\ service.started = FALSE
  BY TagOk DEF Start
<1>2. \A c \in Channels : ChannelInv(channel[c], FALSE, CurrentTag)
  BY <1>1, ChannelFacts
<1>3. StartFrom(channel, run) /\ UNCHANGED bound
  BY DEF Start
<1> HIDE DEF run
<1>4. LeadChannels' /\ service'.runGeneration = run
  BY <1>1, <1>2, <1>3, StartedChannels
<1>5. QED
  BY <1>1, <1>4

LEMMA StopChannels ==
  ASSUME LeadChannels, Stop
  PROVE  LeadChannels' /\ service'.runGeneration > service.runGeneration
<1> DEFINE run == service.runGeneration + 1
<1>1. run \in Nat /\ run > service.runGeneration
  BY TagOk
<1>2. service' = [started |-> FALSE, runGeneration |-> run, oiTimer |-> NoRun, connected |-> {}]
  BY DEF Stop
<1> HIDE DEF run
<1>3. /\ LeadService' /\ service'.started = FALSE /\ service'.runGeneration = run
      /\ service'.connected = {} /\ CurrentTag' = RunTag(run) /\ RunTag(run) \in Tag
  BY <1>1, <1>2 DEF LeadService, CurrentTag, NoRun, RunTag, Tag
<1>4. /\ DOMAIN channel' = Channels
      /\ \A c \in Channels : channel'[c] = StopChannel(channel[c])
  BY DEF Stop
<1>5. \A c \in Channels : ChannelInv(channel'[c], FALSE, RunTag(run)) /\ ~Working(channel'[c])
  BY <1>3, <1>4, StoppedChannels
<1>6. ASSUME NEW c \in Channels
      PROVE  LeadStreamOk(channel[c], service.started, CurrentTag, c \in service.connected)'
  <2>1. ChannelInv(channel'[c], service'.started, CurrentTag') /\ ~Working(channel'[c])
    BY <1>3, <1>5
  <2>2. (c \in service'.connected) \in BOOLEAN /\ ~(c \in service'.connected)
    BY <1>3
  <2>3. QED
    BY <2>1, <2>2 DEF LeadStreamOk
<1>7. bound' \in Bounds
  BY DEF Stop, LeadChannels
<1>8. QED
  BY <1>1, <1>3, <1>4, <1>6, <1>7 DEF LeadChannels

LEMMA ResumeChannels ==
  ASSUME LeadChannels, Resume
  PROVE  LeadChannels' /\ service'.runGeneration > service.runGeneration
<1> DEFINE run == service.runGeneration + 2
           channels == [c \in Channels |-> StopChannel(channel[c])]
<1>1. run \in Nat /\ run > service.runGeneration /\ CurrentTag \in Tag
  BY TagOk
<1>2. \A c \in Channels : ChannelInv(channels[c], FALSE, CurrentTag)
  BY <1>1, StoppedChannels
<1>3. StartFrom(channels, run) /\ UNCHANGED bound
  BY DEF Resume
<1> HIDE DEF run, channels
<1>4. LeadChannels' /\ service'.runGeneration = run
  BY <1>1, <1>2, <1>3, StartedChannels
<1>5. QED
  BY <1>1, <1>4

\* The channels of a service to which nothing happens, its polls aside
LEMMA ChannelsStay ==
  ASSUME LeadChannels, UNCHANGED <<bound, service, channel>>
  PROVE  LeadChannels' /\ Keeps /\ service'.runGeneration = service.runGeneration
BY DEF LeadChannels, LeadService, LeadStreamOk, Keeps, CurrentTag
-----------------------------------------------------------------------------
(***************************************************************************)
(* What the accumulators of the lead assets hold after a step.             *)
(***************************************************************************)
\* What a step has to show: the invariant, and that no open interest goes back
LeadStep ==
  /\ LeadInv'
  /\ \A s \in Symbols : Passes(accumulators[s].openInterestHistory,
                               accumulators'[s].openInterestHistory)

Clocked == now \in Nat /\ fetches \subseteq [run : Nat, asked : Nat]

\* Nothing is added to what accumulators hold.
Shrinks ==
  DOMAIN accumulators' = Symbols /\ \A s \in Symbols : Kept(accumulators[s], accumulators'[s])

\* A channel keeps its socket, gets one when nothing of this run is left, or
\* loses it with all that it has delivered.
Continues ==
  /\ service'.runGeneration = service.runGeneration
  /\ \A c \in Channels :
       \/ channel'[c].current = channel[c].current \/ channel[c].current = NoSocket
       \/ \A s \in Symbols : Holds(c, accumulators'[s]) = {}

\* Where nothing is added, the invariant rests on what happens to the sockets.
LEMMA EventFrame ==
  ASSUME LeadInv, LeadChannels', Clocked', Shrinks,
         service'.runGeneration > service.runGeneration \/ Continues
  PROVE  LeadStep
<1>1. /\ service.runGeneration \in Nat /\ service'.runGeneration \in Nat
      /\ service'.runGeneration >= service.runGeneration
  <2>1. service'.runGeneration \in Nat
    BY DEF LeadChannels, LeadService
  <2>2. QED
    BY <2>1, TagOk DEF LeadInv, Continues
<1>2. ASSUME NEW s \in Symbols, NEW c \in Channels, NEW e \in Holds(c, accumulators'[s])
      PROVE  Delivered(e)' /\ OfThisSocket(c, e)'
  <2>1. e \in Holds(c, accumulators[s])
    BY DEF Shrinks, Kept
  <2>2. /\ e.run <= service.runGeneration /\ e.from # NoSocket
        /\ e.run = service.runGeneration => e.from = channel[c].current
    BY <2>1 DEF LeadInv, LeadEvents, Delivered, OfThisSocket
  <2>3. e.run \in Nat
    BY <2>1, HoldsEvents DEF LeadInv, LeadEvents, AccumulatorOk, Event
  <2>4. Delivered(e)'
    BY <1>1, <2>2, <2>3 DEF Delivered
  <2>5. CASE service'.runGeneration > service.runGeneration
    BY <1>1, <2>2, <2>3, <2>4, <2>5 DEF OfThisSocket
  <2>6. CASE Continues
    BY <2>2, <2>4, <2>6 DEF OfThisSocket, Continues
  <2>7. QED
    BY <2>5, <2>6
<1>3. /\ \A s \in Symbols : AccumulatorOk(accumulators'[s])
      /\ \A s \in Symbols : Passes(accumulators[s].openInterestHistory,
                                   accumulators'[s].openInterestHistory)
      /\ DOMAIN accumulators' = Symbols
  BY DEF Shrinks, Kept
<1>4. LeadEvents'
  BY <1>2, <1>3 DEF LeadEvents, Clocked
<1>5. QED
  BY <1>3, <1>4 DEF LeadStep, LeadInv

\* Accumulators that do not change
LEMMA UntouchedShrinks ==
  ASSUME LeadInv, UNCHANGED accumulators
  PROVE  Shrinks
BY KeptItself DEF Shrinks, LeadInv, LeadEvents

\* Times of requests, when none is made
LEMMA ClockedNow ==
  ASSUME LeadInv
  PROVE  /\ Clocked /\ (UNCHANGED <<now, fetches>> => Clocked')
         /\ \A f : UNCHANGED now /\ fetches' = fetches \ {f} => Clocked'
BY DEF LeadInv, LeadEvents, Clocked

\* A step that leaves the accumulators alone
LEMMA UntouchedFrame ==
  ASSUME LeadInv, LeadChannels', Clocked', UNCHANGED accumulators,
         \/ service'.runGeneration > service.runGeneration
         \/ /\ service'.runGeneration = service.runGeneration
            /\ \A c \in Channels :
                 channel'[c].current = channel[c].current \/ channel[c].current = NoSocket
  PROVE  LeadStep
<1>1. Shrinks
  BY UntouchedShrinks
<1>2. service'.runGeneration > service.runGeneration \/ Continues
  BY DEF Continues
<1>3. QED
  BY <1>1, <1>2, EventFrame

\* failSocket of the current socket
LEMMA ResetShrinks ==
  ASSUME LeadInv, NEW c \in Channels, Resets(c), service'.runGeneration = service.runGeneration
  PROVE  Shrinks /\ Continues
<1>1. ASSUME NEW s \in Symbols
      PROVE  Kept(accumulators[s], accumulators'[s]) /\ Holds(c, accumulators'[s]) = {}
  <2> DEFINE a == accumulators[s]
  <2>1. AccumulatorOk(a)
    BY DEF LeadInv, LeadEvents
  <2>2. accumulators'[s] = IF c = "public" THEN ResetPublicStream(a) ELSE ResetMarketStream(a)
    BY DEF Resets
  <2> HIDE DEF a
  <2>3. /\ Kept(a, ResetPublicStream(a)) /\ PublicOf(ResetPublicStream(a)) = {}
        /\ Kept(a, ResetMarketStream(a)) /\ MarketOf(ResetMarketStream(a)) = {}
    BY <2>1, ResetForgets
  <2>4. QED
    BY <2>2, <2>3 DEF Holds, Channels, a
<1>2. DOMAIN accumulators' = Symbols
  BY DEF Resets
<1>3. QED
  BY <1>1, <1>2 DEF Shrinks, Continues, Resets

\* Each action of the lead assets
LEMMA StartKeeps == LeadInv /\ Start => LeadStep
<1> SUFFICES ASSUME LeadInv, Start PROVE LeadStep
  OBVIOUS
<1>1. Clocked'
  BY ClockedNow, TagOk DEF Start, StartFrom, Clocked, LeadInv
<1>2. UNCHANGED accumulators
  BY DEF Start
<1>3. QED
  BY <1>1, <1>2, StartChannels, UntouchedFrame DEF LeadInv

LEMMA StopKeeps == LeadInv /\ Stop => LeadStep
BY ClockedNow, StopChannels, UntouchedFrame DEF Stop, LeadInv

LEMMA ResumeKeeps == LeadInv /\ Resume => LeadStep
<1> SUFFICES ASSUME LeadInv, Resume PROVE LeadStep
  OBVIOUS
<1>1. Clocked'
  BY ClockedNow, TagOk DEF Resume, StartFrom, Clocked, LeadInv
<1>2. UNCHANGED accumulators
  BY DEF Resume
<1>3. QED
  BY <1>1, <1>2, ResumeChannels, UntouchedFrame DEF LeadInv

\* The timer asks for the time it is; time passes.
LEMMA ClockKeeps == LeadInv /\ (OiTimerFires \/ Tick) => LeadStep
<1> SUFFICES ASSUME LeadInv, OiTimerFires \/ Tick PROVE LeadStep
  OBVIOUS
<1>1. service.oiTimer \in Nat
  BY DEF LeadInv, LeadChannels, LeadService
<1>2. Clocked'
  BY <1>1, ClockedNow DEF OiTimerFires, Tick, Clocked
<1>3. UNCHANGED <<bound, service, channel, accumulators>>
  BY DEF OiTimerFires, Tick
<1>4. QED
  BY <1>2, <1>3, ChannelsStay, UntouchedFrame DEF LeadInv, Keeps

LEMMA ObserveKeeps == LeadInv /\ Observe => LeadStep
<1> SUFFICES ASSUME LeadInv, Observe PROVE LeadStep
  OBVIOUS
<1>1. UNCHANGED <<bound, service, channel>> /\ Clocked'
  BY ClockedNow DEF Observe
<1>2. DOMAIN accumulators' = Symbols
      /\ \A s \in Symbols : accumulators'[s] = Prune(accumulators[s], now)
  BY DEF Observe
<1>3. \A s \in Symbols : Kept(accumulators[s], Prune(accumulators[s], now))
  BY PruneKeeps DEF LeadInv, LeadEvents
<1>4. Shrinks
  BY <1>2, <1>3 DEF Shrinks
<1>5. LeadChannels' /\ Continues
  BY <1>1, ChannelsStay DEF LeadInv, Keeps, Continues
<1>6. QED
  BY <1>1, <1>4, <1>5, EventFrame

\* Open interest is recorded aside from the streams.
LEMMA OiFetchEndsKeeps ==
  ASSUME LeadInv, NEW f \in fetches, OiFetchEnds(f)
  PROVE  LeadStep
<1>1. UNCHANGED <<bound, service, channel>> /\ Clocked'
  BY ClockedNow DEF OiFetchEnds
<1>2. PICK answered \in SUBSET Symbols, at \in f.asked .. now :
        accumulators' =
          [s \in Symbols |->
             IF IsRunActive(f.run) /\ s \in answered
             THEN RecordOpenInterest(accumulators[s],
                    [at |-> at, received |-> now, run |-> f.run, from |-> NoSocket])
             ELSE accumulators[s]]
  BY DEF OiFetchEnds
<1> DEFINE e == [at |-> at, received |-> now, run |-> f.run, from |-> NoSocket]
<1>3. e \in Event
  BY ClockedNow DEF Clocked, Event, NoSocket
<1>4. /\ DOMAIN accumulators' = Symbols
      /\ \A s \in Symbols :
           \/ accumulators'[s] = RecordOpenInterest(accumulators[s], e)
           \/ accumulators'[s] = accumulators[s]
  BY <1>2
<1> HIDE DEF e
<1>5. \A s \in Symbols :
        /\ Kept(accumulators[s], RecordOpenInterest(accumulators[s], e))
        /\ Kept(accumulators[s], accumulators[s])
  BY <1>3, InterestKept, KeptItself DEF LeadInv, LeadEvents
<1>6. Shrinks
  BY <1>4, <1>5 DEF Shrinks
<1>7. LeadChannels' /\ Continues
  BY <1>1, ChannelsStay DEF LeadInv, Keeps, Continues
<1>8. QED
  BY <1>1, <1>6, <1>7, EventFrame

\* What is delivered is of this run and its socket.
LEMMA SocketDeliversKeeps ==
  ASSUME LeadInv, NEW c \in Channels, NEW s \in Live(c), SocketDelivers(c, s)
  PROVE  LeadStep
<1> DEFINE Of(at) == [at |-> at, received |-> now, run |-> service.runGeneration, from |-> s]
<1>1. UNCHANGED <<bound, service, channel>> /\ Clocked'
  BY ClockedNow DEF SocketDelivers
<1>2. PICK symbol \in Symbols, kind \in KindsOf[c], at \in Nat :
        /\ IsCurrent(c, s)
        /\ accumulators' = [accumulators EXCEPT ![symbol] = Handled(@, kind, Of(at))]
  BY DEF SocketDelivers, TakeMessage
<1> DEFINE e == Of(at)
<1>3. s = channel[c].current /\ s \in Nat /\ s # NoSocket
  BY <1>2, CurrentSocket DEF LeadInv
<1>4. e \in Event /\ e.run = service.runGeneration /\ e.from = s
  BY <1>3, ClockedNow, TagOk DEF Event, Clocked, LeadInv
<1> DEFINE a == accumulators[symbol]
           r == Handled(a, kind, e)
<1>5. /\ DOMAIN accumulators' = Symbols /\ accumulators'[symbol] = r
      /\ \A t \in Symbols \ {symbol} : accumulators'[t] = accumulators[t]
  BY <1>2 DEF LeadInv, LeadEvents
<1> HIDE DEF e
<1>6. AccumulatorOk(a) /\ \A t \in Symbols : Kept(accumulators[t], accumulators[t])
  BY KeptItself DEF LeadInv, LeadEvents
<1> HIDE DEF a
<1>7. Added(a, r, c, e)
  BY <1>4, <1>6, HandledAdds
<1> HIDE DEF r
<1>8. ASSUME NEW t \in Symbols, NEW d \in Channels, NEW g \in Holds(d, accumulators'[t])
      PROVE  Delivered(g)' /\ OfThisSocket(d, g)'
  <2>1. g \in Holds(d, accumulators[t]) \/ (g = e /\ d = c)
    BY <1>5, <1>7 DEF Added, a
  <2>2. CASE g = e /\ d = c
    <3>1. e.run <= service.runGeneration
      BY <1>4, TagOk DEF LeadInv
    <3>2. QED
      BY <1>1, <1>3, <1>4, <2>2, <3>1 DEF Delivered, OfThisSocket
  <2>3. CASE g \in Holds(d, accumulators[t])
    BY <1>1, <2>3 DEF LeadInv, LeadEvents, Delivered, OfThisSocket
  <2>4. QED
    BY <2>1, <2>2, <2>3
<1>9. ASSUME NEW t \in Symbols
      PROVE  /\ AccumulatorOk(accumulators'[t])
             /\ Passes(accumulators[t].openInterestHistory, accumulators'[t].openInterestHistory)
  BY <1>5, <1>6, <1>7 DEF Added, Kept, a
<1>10. LeadEvents'
  BY <1>1, <1>5, <1>8, <1>9 DEF LeadEvents, Clocked
<1>11. LeadChannels'
  BY <1>1, ChannelsStay DEF LeadInv
<1>12. QED
  BY <1>9, <1>10, <1>11 DEF LeadStep, LeadInv

\* A socket that opens or ends: it stays current, or what it delivered goes too.
LEMMA SocketKeeps ==
  ASSUME LeadInv, NEW c \in Channels, NEW s \in Live(c),
         SocketOpens(c, s) \/ SocketErrors(c, s) \/ SocketCloses(c, s)
  PROVE  LeadStep
<1>1. Clocked'
  BY ClockedNow DEF SocketOpens, SocketErrors, SocketCloses
<1>2. /\ LeadChannels' /\ service'.runGeneration = service.runGeneration
      /\ Resets(c) \/ (Keeps /\ UNCHANGED accumulators)
  BY SocketOpensChannel, SocketErrorsChannel, SocketClosesChannel
  DEF LeadInv, SocketOpens, Ended
<1>3. CASE Resets(c)
  BY <1>1, <1>2, <1>3, ResetShrinks, EventFrame
<1>4. CASE Keeps /\ UNCHANGED accumulators
  BY <1>1, <1>2, <1>4, UntouchedFrame DEF Keeps
<1>5. QED
  BY <1>2, <1>3, <1>4

\* A reconnect: a new socket finds nothing of this run.
LEMMA ChannelKeeps ==
  ASSUME LeadInv, NEW c \in Channels, PlannedReconnect(c) \/ ReconnectTimerFires(c)
  PROVE  LeadStep
<1>1. UNCHANGED <<bound, service, accumulators>> /\ Clocked'
  BY ClockedNow DEF PlannedReconnect, ReconnectTimerFires
<1>2. /\ LeadChannels'
      /\ \A d \in Channels :
           channel'[d].current = channel[d].current \/ channel[d].current = NoSocket
  BY PlannedReconnectChannel, ReconnectTimerFiresChannel DEF LeadInv, Keeps
<1>3. QED
  BY <1>1, <1>2, UntouchedFrame

\* Every step keeps the invariant, and takes no open interest back.
LEMMA LeadNext == LeadInv /\ [Next]_vars => LeadStep
<1> SUFFICES ASSUME LeadInv, [Next]_vars PROVE LeadStep
  OBVIOUS
<1>1. CASE UNCHANGED vars
  BY <1>1, ClockedNow, ChannelsStay, UntouchedFrame DEF vars, LeadInv, Keeps
<1>2. CASE Start \/ Stop \/ Resume \/ OiTimerFires \/ Observe \/ Tick
  BY <1>2, StartKeeps, StopKeeps, ResumeKeeps, ClockKeeps, ObserveKeeps
<1>3. ASSUME NEW f \in fetches, OiFetchEnds(f)
      PROVE  LeadStep
  BY <1>3, OiFetchEndsKeeps
<1>4. ASSUME NEW c \in Channels, PlannedReconnect(c) \/ ReconnectTimerFires(c)
      PROVE  LeadStep
  BY <1>4, ChannelKeeps
<1>5. ASSUME NEW c \in Channels, NEW s \in Live(c),
             \/ SocketOpens(c, s) \/ SocketErrors(c, s)
             \/ SocketCloses(c, s) \/ SocketDelivers(c, s)
      PROVE  LeadStep
  BY <1>5, SocketKeeps, SocketDeliversKeeps
<1>6. QED
  BY <1>1, <1>2, <1>3, <1>4, <1>5 DEF Next

\* A service before its first start has channels at rest.
LEMMA NewChannelRests ==
  ASSUME NEW tag \in Tag
  PROVE  ChannelInv(NewChannel, FALSE, tag) /\ ~Working(NewChannel)
<1>1. Sound(NewChannel) /\ NoStream(NewChannel)
  BY DEF NewChannel, Sound, SocketsOk, NoStream, NoSocket, NoTag, Tag
<1>2. QED
  BY <1>1 DEF ChannelInv, Working, NewChannel

LEMMA LeadInit == Init => LeadInv
<1> SUFFICES ASSUME Init PROVE LeadInv
  OBVIOUS
<1>1. /\ LeadService /\ service.started = FALSE /\ service.connected = {} /\ CurrentTag \in Tag
  BY DEF Init, LeadService, NoRun, CurrentTag, RunTag, Tag
<1>2. DOMAIN channel = Channels /\ \A c \in Channels : channel[c] = NewChannel
  BY DEF Init
<1>3. ChannelInv(NewChannel, FALSE, CurrentTag) /\ ~Working(NewChannel)
  BY <1>1, NewChannelRests
<1>4. ASSUME NEW c \in Channels
      PROVE  LeadStreamOk(channel[c], service.started, CurrentTag, c \in service.connected)
  <2>1. ChannelInv(channel[c], service.started, CurrentTag) /\ ~Working(channel[c])
    BY <1>1, <1>2, <1>3
  <2>2. (c \in service.connected) \in BOOLEAN /\ ~(c \in service.connected)
    BY <1>1
  <2>3. QED
    BY <2>1, <2>2 DEF LeadStreamOk
<1>5. LeadChannels
  BY <1>1, <1>2, <1>4 DEF LeadChannels, Init
<1>6. DOMAIN accumulators = Symbols /\ \A s \in Symbols : accumulators[s] = NewAccumulator
  BY DEF Init
<1>7. LeadEvents
  BY <1>6, NewHoldsNothing DEF LeadEvents, Init
<1>8. QED
  BY <1>5, <1>7 DEF LeadInv

\* What is shown of an asset is what pruning leaves.
LEMMA LeadImplies == LeadInv => OneStreamEach /\ LostStreamLeavesNothing
<1> SUFFICES ASSUME LeadInv PROVE OneStreamEach /\ LostStreamLeavesNothing
  OBVIOUS
<1>1. ASSUME NEW c \in Channels
      PROVE  LET ch == channel[c]
             IN  /\ service.started => OneStream(ch, RunTag(service.runGeneration))
                 /\ ~service.started => NoStream(ch)
                 /\ c \in service.connected =>
                      /\ ch.current \in Live(c) /\ ch.live[ch.current].state # "connecting"
                      /\ ch.planned = ch.current
  <2>1. /\ ChannelInv(channel[c], service.started, CurrentTag)
        /\ c \in service.connected <=> Working(channel[c])
        /\ Working(channel[c]) => channel[c].planned = channel[c].current
    BY ChannelFacts DEF LeadInv
  <2>2. service.started => OneStream(channel[c], CurrentTag)
    BY <2>1 DEF ChannelInv, Streaming, OthersClose, OneStream
  <2>3. ~service.started => NoStream(channel[c])
    BY <2>1 DEF ChannelInv
  <2>4. QED
    BY <2>1, <2>2, <2>3 DEF CurrentTag, Working, Live
<1>2. OneStreamEach
  BY <1>1 DEF OneStreamEach
<1>3. ASSUME NEW s \in Symbols
      PROVE  LET a == Prune(accumulators[s], now)
                 IsOf(c, e) == e.run = service.runGeneration => e.from = channel[c].current
             IN  /\ \A e \in PublicEvents(a) : IsOf("public", e)
                 /\ \A e \in MarketEvents(a, now) : IsOf("market", e)
                 /\ \A limits \in Threshold :
                      LeadHealth(a, now, limits, limits).tradeBook \in {"NORMAL", "DEGRADED"} =>
                        \E e \in PublicEvents(a) \cup MarketEvents(a, now) :
                          /\ e.received >= now - limits.usableMaxAge
                          /\ \E c \in Channels : IsOf(c, e)
  <2> DEFINE a == Prune(accumulators[s], now)
  <2>1. /\ AccumulatorOk(accumulators[s]) /\ now \in Nat
        /\ \A e \in PublicOf(accumulators[s]) : OfThisSocket("public", e)
        /\ \A e \in MarketOf(accumulators[s]) : OfThisSocket("market", e)
    BY DEF LeadInv, LeadEvents, Holds, Channels
  <2>2. Cut(accumulators[s], a)
    BY <2>1, PruneCuts
  <2> HIDE DEF a
  <2>3. PublicEvents(a) = PublicOf(a) /\ MarketEvents(a, now) \subseteq MarketOf(a)
    BY ObservationHeld
  <2>4. /\ \A e \in PublicEvents(a) : OfThisSocket("public", e)
        /\ \A e \in MarketEvents(a, now) : OfThisSocket("market", e)
        /\ AccumulatorOk(a)
    BY <2>1, <2>2, <2>3 DEF Cut
  <2>5. ASSUME NEW limits \in Threshold,
               LeadHealth(a, now, limits, limits).tradeBook \in {"NORMAL", "DEGRADED"}
        PROVE  \E e \in PublicEvents(a) \cup MarketEvents(a, now) :
                 /\ e.received >= now - limits.usableMaxAge
                 /\ \E c \in Channels : OfThisSocket(c, e)
    <3>1. PICK e \in a.lastPrice \cup a.depth : e.received >= now - limits.usableMaxAge
      BY <2>1, <2>4, <2>5, UsableWasHeard
    <3>2. a.depth \subseteq PublicEvents(a) /\ a.lastPrice \subseteq MarketEvents(a, now)
      BY DEF PublicEvents, MarketEvents
    <3>3. QED
      BY <2>4, <3>1, <3>2 DEF Channels
  <2>6. QED
    BY <2>4, <2>5 DEF OfThisSocket, a
<1>4. LostStreamLeavesNothing
  BY <1>3 DEF LostStreamLeavesNothing
<1>5. QED
  BY <1>2, <1>4

\* What is compared with the last point of open interest came before it.
LEMMA LeadLater == LeadStep => OpenInterestLater
<1> SUFFICES ASSUME LeadStep PROVE OpenInterestLater
  OBVIOUS
<1>1. ASSUME NEW s \in Symbols
      PROVE  LET old == accumulators[s].openInterestHistory
                 new == accumulators'[s].openInterestHistory
             IN  /\ old # <<>> /\ new # <<>> => Last(new).at >= Last(old).at
                 /\ \A w \in OiWindows : \A e \in OiReferences(accumulators'[s], now', w) :
                      e.at <= Last(new).at
  <2>1. AccumulatorOk(accumulators'[s])
    BY DEF LeadStep, LeadInv, LeadEvents
  <2>2. Passes(accumulators[s].openInterestHistory, accumulators'[s].openInterestHistory)
    BY DEF LeadStep
  <2>3. \A w \in OiWindows : \A e \in OiReferences(accumulators'[s], now', w) :
          e.at <= Last(accumulators'[s].openInterestHistory).at
    BY <2>1, ReferencesEarlier
  <2>4. QED
    BY <2>2, <2>3 DEF Passes
<1>2. QED
  BY <1>1 DEF OpenInterestLater
-----------------------------------------------------------------------------
(***************************************************************************)
(* The book of the exchange.                                               *)
(***************************************************************************)
\* The book after the n-th message, from the books after those before it
NextBook(g, n) ==
  IF n = 0 THEN Coinbase!Empty
  ELSE Coinbase!ApplyBookLevels(g[n - 1], Coinbase!UpdatesOf(n))

\* The books after the first n messages
Books(g, n) == DOMAIN g = 0 .. n /\ \A m \in 0 .. n : g[m] = NextBook(g, m)

\* What holds of a number if it holds of those before holds of all.
LEMMA AllNumbers ==
  ASSUME NEW S \in SUBSET Nat, \A n \in Nat : (\A m \in Nat : m < n => m \in S) => n \in S
  PROVE  S = Nat
<1> DEFINE rest == Nat \ S
<1>1. SUFFICES ASSUME rest # {} PROVE FALSE
  OBVIOUS
<1>2. rest \in SUBSET Nat
  OBVIOUS
<1>3. Min(rest) \in rest /\ \A n \in rest : Min(rest) <= n
  <2> HIDE DEF rest
  <2> QED
    BY <1>1, <1>2, LeastNumber
<1> DEFINE n == Min(rest)
<1>4. n \in Nat /\ n \notin S
  BY <1>3
<1>5. \A m \in Nat : m < n => m \in S
  <2> SUFFICES ASSUME NEW m \in Nat, m < n, m \notin S PROVE FALSE
    OBVIOUS
  <2>1. n <= m
    BY <1>3
  <2> HIDE DEF n
  <2>2. QED
    BY <1>4, <2>1
<1>6. QED
  BY <1>4, <1>5

\* Books of longer and shorter runs agree.
LEMMA BooksAgree ==
  ASSUME NEW g, NEW h, NEW n \in Nat, NEW k \in Nat, Books(g, n), Books(h, k)
  PROVE  \A m \in Nat : m <= n /\ m <= k => g[m] = h[m]
<1> DEFINE S == {m \in Nat : m <= n /\ m <= k => g[m] = h[m]}
<1>1. ASSUME NEW m \in Nat, \A l \in Nat : l < m => l \in S
      PROVE  m \in S
  <2> SUFFICES ASSUME m <= n, m <= k PROVE g[m] = h[m]
    OBVIOUS
  <2>1. g[m] = NextBook(g, m) /\ h[m] = NextBook(h, m)
    BY DEF Books
  <2>2. CASE m = 0
    BY <2>1, <2>2 DEF NextBook
  <2>3. CASE m # 0
    <3>1. m - 1 \in Nat /\ m - 1 < m /\ m - 1 <= n /\ m - 1 <= k
      BY <2>3
    <3>2. g[m - 1] = h[m - 1]
      BY <1>1, <3>1
    <3>3. QED
      BY <2>1, <2>3, <3>2 DEF NextBook
  <2>4. QED
    BY <2>2, <2>3
<1>2. S = Nat
  <2>1. S \in SUBSET Nat
    OBVIOUS
  <2> HIDE DEF S
  <2>2. QED
    BY <1>1, <2>1, AllNumbers
<1>3. QED
  BY <1>2

\* There are books after any number of messages.
LEMMA BooksExist == \A n \in Nat : \E g : Books(g, n)
<1> DEFINE S == {n \in Nat : \E g : Books(g, n)}
<1>1. ASSUME NEW n \in Nat, \A l \in Nat : l < n => l \in S
      PROVE  n \in S
  <2>1. CASE n = 0
    <3> DEFINE g == [m \in 0 .. 0 |-> Coinbase!Empty]
    <3>1. DOMAIN g = 0 .. n /\ \A m \in 0 .. n : g[m] = Coinbase!Empty /\ m = 0
      BY <2>1
    <3> HIDE DEF g
    <3>2. Books(g, n)
      BY <3>1 DEF Books, NextBook
    <3>3. QED
      BY <3>2
  <2>2. CASE n # 0
    <3>1. n - 1 \in Nat /\ n - 1 < n
      BY <2>2
    <3>2. PICK h : Books(h, n - 1)
      BY <1>1, <3>1
    <3> DEFINE g == [m \in 0 .. n |-> IF m = n THEN NextBook(h, n) ELSE h[m]]
    <3>3. /\ DOMAIN g = 0 .. n /\ g[n] = NextBook(h, n)
          /\ \A m \in 0 .. n - 1 : g[m] = h[m]
      BY <3>1
    <3> HIDE DEF g
    <3>4. \A m \in 0 .. n : NextBook(g, m) = NextBook(h, m)
      <4> SUFFICES ASSUME NEW m \in 0 .. n PROVE NextBook(g, m) = NextBook(h, m)
        OBVIOUS
      <4>1. CASE m = 0
        BY <4>1 DEF NextBook
      <4>2. CASE m # 0
        <5>1. m - 1 \in 0 .. n - 1
          BY <4>2
        <5>2. QED
          BY <3>3, <5>1 DEF NextBook
      <4>3. QED
        BY <4>1, <4>2
    <3>5. \A m \in 0 .. n : g[m] = NextBook(g, m)
      <4> SUFFICES ASSUME NEW m \in 0 .. n PROVE g[m] = NextBook(g, m)
        OBVIOUS
      <4>1. CASE m = n
        BY <3>3, <3>4, <4>1
      <4>2. CASE m # n
        <5>1. m \in 0 .. n - 1
          BY <4>2
        <5>2. h[m] = NextBook(h, m)
          BY <3>2, <5>1 DEF Books
        <5>3. QED
          BY <3>3, <3>4, <5>1, <5>2
      <4>3. QED
        BY <4>1, <4>2
    <3>6. Books(g, n)
      BY <3>3, <3>5 DEF Books
    <3>7. QED
      BY <3>6
  <2>3. QED
    BY <2>1, <2>2
<1>2. S = Nat
  <2>1. S \in SUBSET Nat
    OBVIOUS
  <2> HIDE DEF S
  <2>2. QED
    BY <1>1, <2>1, AllNumbers
<1>3. QED
  BY <1>2

\* BookAfter is what its definition says.
LEMMA BookAfterIs ==
  \A n \in Nat : Coinbase!BookAfter[n] = NextBook(Coinbase!BookAfter, n)
<1> DEFINE G(n) == CHOOSE g : Books(g, n)
           f == [n \in Nat |-> G(n)[n]]
           Is(b) == b = [n \in Nat |->
                           IF n = 0 THEN Coinbase!Empty
                           ELSE Coinbase!ApplyBookLevels(b[n - 1], Coinbase!UpdatesOf(n))]
<1>1. \A n \in Nat : Books(G(n), n)
  BY BooksExist
<1> HIDE DEF G
<1>2. \A n \in Nat : f[n] = G(n)[n]
  OBVIOUS
<1>3. ASSUME NEW n \in Nat
      PROVE  f[n] = NextBook(f, n)
  <2>1. f[n] = NextBook(G(n), n)
    BY <1>1, <1>2 DEF Books
  <2> HIDE DEF f
  <2>2. CASE n = 0
    BY <2>1, <2>2 DEF NextBook
  <2>3. CASE n # 0
    <3>1. n - 1 \in Nat /\ n - 1 <= n
      BY <2>3
    <3>2. Books(G(n), n) /\ Books(G(n - 1), n - 1)
      BY <1>1, <3>1
    <3>3. G(n)[n - 1] = G(n - 1)[n - 1]
      BY <3>1, <3>2, BooksAgree
    <3>4. G(n)[n - 1] = f[n - 1]
      BY <1>2, <3>1, <3>3
    <3>5. QED
      BY <2>1, <2>3, <3>4 DEF NextBook
  <2>4. QED
    BY <2>2, <2>3
<1>4. Is(f)
  <2> DEFINE h == [n \in Nat |-> IF n = 0 THEN Coinbase!Empty
                                 ELSE Coinbase!ApplyBookLevels(f[n - 1], Coinbase!UpdatesOf(n))]
  <2>1. \A n \in Nat : h[n] = NextBook(f, n)
    <3> HIDE DEF f
    <3> QED
      BY DEF NextBook
  <2>2. \A n \in Nat : f[n] = h[n]
    BY <1>3, <2>1
  <2>3. f = [n \in Nat |-> f[n]] /\ h = [n \in Nat |-> h[n]]
    OBVIOUS
  <2> HIDE DEF f, h
  <2>4. f = h
    BY <2>2, <2>3
  <2>5. QED
    BY <2>4 DEF h
<1>5. Coinbase!BookAfter = CHOOSE b : Is(b)
  BY DEF Coinbase!BookAfter
<1> HIDE DEF f
<1>6. Is(CHOOSE b : Is(b))
  BY <1>4
<1>7. Is(Coinbase!BookAfter)
  BY <1>5, <1>6
<1>8. QED
  BY <1>7 DEF NextBook
-----------------------------------------------------------------------------
(***************************************************************************)
(* The channels of Coinbase.                                               *)
(***************************************************************************)
\* Both collectors treat a channel alike.
LEMMA SameChannels ==
  /\ Coinbase!NoSocket = NoSocket /\ Coinbase!NoTag = NoTag
  /\ Coinbase!NewChannel = NewChannel
  /\ \A run : Coinbase!RunTag(run) = RunTag(run)
  /\ \A live, s : Coinbase!Forget(live, s) = Forget(live, s)
  /\ \A live, s, state : Coinbase!SetState(live, s, state) = SetState(live, s, state)
  /\ \A ch : Coinbase!CloseSocket(ch) = CloseSocket(ch)
  /\ \A ch : Coinbase!Released(ch) = Released(ch)
  /\ \A ch, tag : Coinbase!Lost(ch, tag) = Lost(ch, tag)
  /\ \A ch, tag, symbols, max :
       Coinbase!Connected(ch, tag, symbols, max) = Connected(ch, tag, symbols, max)
  /\ \A ch, tag : Coinbase!OneStream(ch, tag) <=> OneStream(ch, tag)
  /\ \A ch : Coinbase!NoStream(ch) <=> NoStream(ch)
BY DEF Coinbase!NoSocket, NoSocket, Coinbase!NoTag, NoTag, Coinbase!NewChannel, NewChannel,
       Coinbase!RunTag, RunTag, Coinbase!Forget, Forget, Coinbase!SetState, SetState,
       Coinbase!CloseSocket, CloseSocket, Coinbase!Released, Released, Coinbase!Lost, Lost,
       Coinbase!Scheduled, Scheduled, Coinbase!Connected, Connected,
       Coinbase!OneStream, OneStream, Coinbase!NoStream, NoStream
\* A socket that works is told to close: it stays the current one.
LEMMA ClosedStreams ==
  ASSUME NEW ch, NEW started, NEW tag, ChannelInv(ch, started, tag), Working(ch)
  PROVE  /\ ChannelInv(CloseSocket(ch), started, tag) /\ Working(CloseSocket(ch))
         /\ CloseSocket(ch).current = ch.current
<1> DEFINE live == SetState(ch.live, ch.current, "closing")
<1>1. Sound(ch) /\ ch.current \in DOMAIN ch.live
  BY DEF ChannelInv, Working
<1>2. /\ ChannelInv(WithSockets(ch, ch.planned, live), started, tag)
      /\ WithSockets(ch, ch.planned, live).current = ch.current
      /\ Working(WithSockets(ch, ch.planned, live)) <=> Working(ch)
  BY <1>1, ClosingStreams
<1>3. CloseSocket(ch) = [ch EXCEPT !.live = live]
  BY <1>1 DEF CloseSocket
<1> HIDE DEF live
<1>4. CloseSocket(ch) = WithSockets(ch, ch.planned, live)
  BY <1>1, <1>3 DEF WithSockets, With, Sound
<1>5. QED
  BY <1>2, <1>4

CoinbaseService ==
  service \in [started : BOOLEAN, runGeneration : Nat, healthTimer : Nat,
               connected : SUBSET Products, lastHeartbeatAt : {service.lastHeartbeatAt},
               level2Sequence : [Products -> Nat], flawed : SUBSET Products]

\* An accumulator, whatever is in it
BookFields(a) ==
  a \in [synchronized : BOOLEAN, book : {a.book}, level2 : {a.level2},
         shownLevel2 : {a.shownLevel2}, lastPrice : {a.lastPrice}, ticker : {a.ticker},
         trade : {a.trade}, prices : {a.prices}, trades : {a.trades}]

\* A synchronized book is of the socket that works, and the exchange's unless it
\* is flawed.
BookOk(p, a, sequence, flawed, ch, run) ==
  /\ BookFields(a)
  /\ a.synchronized =>
       /\ Working(ch) /\ \A e \in a.shownLevel2 : e.run = run /\ e.from = ch.current
       /\ \/ p \in flawed
          \/ sequence # Coinbase!NoSequence /\ a.book = Coinbase!BookAfter[sequence]

ProductOk(p) ==
  /\ ChannelInv(channel[p], service.started, CurrentTag)
  /\ p \in service.connected <=> Working(channel[p])
  /\ BookOk(p, accumulators[p], service.level2Sequence[p], service.flawed, channel[p],
            service.runGeneration)

\* Each product is of one stream, and its book that of the stream.
CoinbaseInv ==
  /\ bound \in CoinbaseBounds /\ CoinbaseService
  /\ DOMAIN channel = Products /\ DOMAIN accumulators = Products
  /\ \A p \in Products : ProductOk(p)

LEMMA ProductFacts ==
  ASSUME CoinbaseInv
  PROVE  /\ CurrentTag \in Tag /\ CurrentTag.run = service.runGeneration
         /\ service.runGeneration \in Nat /\ service.started \in BOOLEAN
         /\ \A p \in Products : /\ bound.sockets[p] \in Nat /\ service.level2Sequence[p] \in Nat
                                /\ ProductOk(p) /\ BookFields(accumulators[p])
                                /\ Sound(channel[p]) /\ OthersClose(channel[p])
<1>1. /\ CurrentTag \in Tag /\ CurrentTag.run = service.runGeneration
      /\ service.runGeneration \in Nat /\ service.started \in BOOLEAN
  BY DEF CoinbaseInv, CoinbaseService, CurrentTag, RunTag, Tag
<1>2. ASSUME NEW p \in Products
      PROVE  /\ bound.sockets[p] \in Nat /\ service.level2Sequence[p] \in Nat
             /\ ProductOk(p) /\ BookFields(accumulators[p])
             /\ Sound(channel[p]) /\ OthersClose(channel[p])
  <2>1. ProductOk(p) /\ bound.sockets[p] \in Nat /\ service.level2Sequence[p] \in Nat
    BY CoinbaseAssumption DEF CoinbaseInv, CoinbaseService
  <2>2. ChannelInv(channel[p], service.started, CurrentTag) /\ BookFields(accumulators[p])
    BY <2>1 DEF ProductOk, BookOk
  <2>3. Sound(channel[p]) /\ OthersClose(channel[p])
    BY <2>2 DEF ChannelInv, NoStream, Streaming, OthersClose
  <2>4. QED
    BY <2>1, <2>2, <2>3
<1>3. QED
  BY <1>1, <1>2

\* The socket a product has
LEMMA ProductSocket ==
  ASSUME CoinbaseInv, NEW p \in Products, NEW s \in Coinbase!Live(p)
  PROVE  /\ Coinbase!IsCurrent(p, s) <=> service.started /\ s = channel[p].current
         /\ s = channel[p].current => service.started
         /\ s \in DOMAIN channel[p].live /\ s \in Nat /\ s # NoSocket
<1>1. s \in DOMAIN channel[p].live /\ s \in Nat /\ s # NoSocket
  BY ProductFacts DEF Sound, SocketsOk, Coinbase!Live
<1>2. ChannelInv(channel[p], service.started, CurrentTag)
  BY ProductFacts DEF ProductOk
<1>3. s = channel[p].current => service.started
  BY <1>1, <1>2 DEF ChannelInv, NoStream
<1>4. ASSUME service.started, s = channel[p].current
      PROVE  channel[p].live[s].tag = CurrentTag
  BY <1>1, <1>2, <1>4 DEF ChannelInv, Streaming
<1>5. QED
  BY <1>1, <1>3, <1>4, ProductFacts DEF Coinbase!IsCurrent, Coinbase!IsRunActive, Coinbase!Live

ChannelBecomes(p, r) ==
  \/ channel' = [channel EXCEPT ![p] = r]
  \/ UNCHANGED channel /\ r = channel[p]

AccumulatorBecomes(p, a) ==
  \/ accumulators' = [accumulators EXCEPT ![p] = a]
  \/ UNCHANGED accumulators /\ a = accumulators[p]

\* A step of one product, in the same run
LEMMA ProductFrame ==
  ASSUME CoinbaseInv, NEW p \in Products, NEW r, NEW a, UNCHANGED bound, CoinbaseService',
         ChannelBecomes(p, r), AccumulatorBecomes(p, a),
         service'.started = service.started, service'.runGeneration = service.runGeneration,
         \A q \in Products \ {p} :
           /\ q \in service'.connected <=> q \in service.connected
           /\ service'.level2Sequence[q] = service.level2Sequence[q]
           /\ q \in service'.flawed <=> q \in service.flawed,
         ChannelInv(r, service.started, CurrentTag), p \in service'.connected <=> Working(r),
         BookOk(p, a, service'.level2Sequence[p], service'.flawed, r, service.runGeneration)
  PROVE  CoinbaseInv'
<1>1. /\ DOMAIN channel' = Products /\ channel'[p] = r
      /\ \A q \in Products \ {p} : channel'[q] = channel[q]
      /\ DOMAIN accumulators' = Products /\ accumulators'[p] = a
      /\ \A q \in Products \ {p} : accumulators'[q] = accumulators[q]
  BY DEF CoinbaseInv, ChannelBecomes, AccumulatorBecomes
<1>2. CurrentTag' = CurrentTag
  BY DEF CurrentTag
<1>3. ProductOk(p)'
  BY <1>1, <1>2 DEF ProductOk
<1>4. ASSUME NEW q \in Products \ {p} PROVE ProductOk(q)'
  <2>1. ProductOk(q)
    BY ProductFacts
  <2>2. QED
    BY <1>1, <1>2, <2>1 DEF ProductOk, BookOk
<1>5. QED
  BY <1>1, <1>3, <1>4 DEF CoinbaseInv

\* A book that is given up
LEMMA ResetBookOk ==
  ASSUME NEW a, BookFields(a)
  PROVE  \A p, sequence, flawed, ch, run :
           BookOk(p, Coinbase!ResetBook(a), sequence, flawed, ch, run)
<1> DEFINE r == Coinbase!ResetBook(a)
<1>1. BookFields(r) /\ r.synchronized = FALSE
  BY DEF Coinbase!ResetBook, BookFields
<1> HIDE DEF r
<1>2. \A p, sequence, flawed, ch, run : BookOk(p, r, sequence, flawed, ch, run)
  BY <1>1 DEF BookOk
<1>3. QED
  BY <1>2 DEF r

\* A channel in another state, with the same socket
LEMMA SameBookOk ==
  ASSUME NEW p, NEW a, NEW sequence, NEW flawed, NEW ch, NEW r, NEW run,
         BookOk(p, a, sequence, flawed, ch, run),
         r.current = ch.current, Working(r) <=> Working(ch)
  PROVE  BookOk(p, a, sequence, flawed, r, run)
BY DEF BookOk
-----------------------------------------------------------------------------
(***************************************************************************)
(* Steps of Coinbase.                                                      *)
(***************************************************************************)
\* A product that is neither connected nor numbered any more
Unheard(p) ==
  /\ CoinbaseService' /\ service'.started = service.started
  /\ service'.runGeneration = service.runGeneration
  /\ \A q \in Products \ {p} :
       /\ q \in service'.connected <=> q \in service.connected
       /\ service'.level2Sequence[q] = service.level2Sequence[q]
       /\ q \in service'.flawed <=> q \in service.flawed

\* open: a new book is waited for.
LEMMA ProductOpens ==
  ASSUME CoinbaseInv, NEW p \in Products, NEW s \in Coinbase!Live(p), Coinbase!SocketOpens(p, s)
  PROVE  CoinbaseInv'
<1> DEFINE ch == channel[p]
           live == SetState(ch.live, s, "open")
           r == WithSockets(ch, ch.planned, live)
           a == Coinbase!ResetBook(accumulators[p])
<1>1. /\ ChannelInv(ch, service.started, CurrentTag) /\ Sound(ch) /\ BookFields(accumulators[p])
      /\ s \in DOMAIN ch.live /\ ch.live[s].state = "connecting" /\ ch.planned \in Nat
  <2>1. ChannelInv(ch, service.started, CurrentTag) /\ Sound(ch) /\ BookFields(accumulators[p])
    BY ProductFacts DEF ProductOk
  <2>2. s \in DOMAIN ch.live /\ ch.live[s].state = "connecting"
    BY ProductSocket DEF Coinbase!SocketOpens
  <2>3. QED
    BY <2>1, <2>2, Fields
<1>2. /\ service.started /\ s = ch.current
      /\ ChannelInv(r, service.started, CurrentTag) /\ Working(r)
  <2> HIDE DEF ch
  <2> QED
    BY <1>1, OpeningStreams
<1>3. Coinbase!IsCurrent(p, s)
  BY <1>2, ProductSocket
<1>4. /\ channel' = [channel EXCEPT ![p] = [ch EXCEPT !.live = live]]
      /\ service' = [service EXCEPT !.connected = @ \cup {p}, !.level2Sequence[p] = 0,
                                    !.flawed = @ \ {p}]
      /\ accumulators' = [accumulators EXCEPT ![p] = a] /\ UNCHANGED bound
  BY <1>3, SameChannels DEF Coinbase!SocketOpens, Coinbase!NoSequence
<1>5. [ch EXCEPT !.live = live] = r
  <2> HIDE DEF ch, live
  <2> QED
    BY <1>1 DEF WithSockets, With, Sound
<1>6. Unheard(p) /\ p \in service'.connected
  BY <1>4 DEF CoinbaseInv, CoinbaseService, Unheard
<1>7. BookOk(p, a, service'.level2Sequence[p], service'.flawed, r, service.runGeneration)
  BY <1>1, ResetBookOk
<1> HIDE DEF r, a, ch, live
<1>8. ChannelBecomes(p, r) /\ AccumulatorBecomes(p, a)
  BY <1>4, <1>5 DEF ChannelBecomes, AccumulatorBecomes
<1>9. QED
  BY <1>2, <1>4, <1>6, <1>7, <1>8, ProductFrame DEF Unheard

\* fail: the socket is given up, and the book with it.
LEMMA FailKeeps ==
  ASSUME CoinbaseInv, NEW p \in Products, NEW live, UNCHANGED bound, service.started,
         channel[p].current # NoSocket, SocketsOk(live), AllClosing(live),
         Coinbase!Fail(p, [channel[p] EXCEPT !.live = live])
  PROVE  CoinbaseInv'
<1> DEFINE ch == channel[p]
           tag == CurrentTag
           r == Lost([ch EXCEPT !.live = live], tag)
           a == Coinbase!ResetBook(accumulators[p])
<1>1. ChannelInv(ch, service.started, tag) /\ BookFields(accumulators[p])
  BY ProductFacts DEF ProductOk
<1>2. ChannelInv(r, service.started, tag) /\ ~Working(r)
  <2> HIDE DEF ch, tag
  <2> QED
    BY <1>1, LostStreams DEF ch
<1>3. /\ channel' = [channel EXCEPT ![p] = r]
      /\ service' = [service EXCEPT !.connected = @ \ {p}, !.level2Sequence[p] = 0,
                                    !.flawed = @ \ {p}]
      /\ accumulators' = [accumulators EXCEPT ![p] = a]
  BY SameChannels DEF Coinbase!Fail, Coinbase!NoSequence, CurrentTag
<1>4. Unheard(p) /\ ~(p \in service'.connected)
  BY <1>3 DEF CoinbaseInv, CoinbaseService, Unheard
<1>5. BookOk(p, a, service'.level2Sequence[p], service'.flawed, r, service.runGeneration)
  BY <1>1, ResetBookOk
<1> HIDE DEF r, a, ch
<1>6. ChannelBecomes(p, r) /\ AccumulatorBecomes(p, a)
  BY <1>3 DEF ChannelBecomes, AccumulatorBecomes
<1>7. QED
  BY <1>2, <1>4, <1>5, <1>6, ProductFrame DEF Unheard

\* Another socket than the one the product has
LEMMA IgnoreKeeps ==
  ASSUME CoinbaseInv, NEW p \in Products, NEW live, UNCHANGED bound,
         Coinbase!Ignore(p, [channel[p] EXCEPT !.live = live]),
         ChannelInv(WithSockets(channel[p], channel[p].planned, live), service.started, CurrentTag),
         WithSockets(channel[p], channel[p].planned, live).current = channel[p].current,
         Working(WithSockets(channel[p], channel[p].planned, live)) <=> Working(channel[p])
  PROVE  CoinbaseInv'
<1> DEFINE ch == channel[p]
           r == WithSockets(ch, ch.planned, live)
           a == accumulators[p]
<1>1. /\ Sound(ch) /\ (p \in service.connected <=> Working(ch))
      /\ BookOk(p, a, service.level2Sequence[p], service.flawed, ch,
                service.runGeneration)
  BY ProductFacts DEF ProductOk
<1>2. [ch EXCEPT !.live = live] = r
  <2> HIDE DEF ch
  <2> QED
    BY <1>1 DEF WithSockets, With, Sound
<1>3. ChannelBecomes(p, r) /\ UNCHANGED <<service, accumulators>> /\ AccumulatorBecomes(p, a)
  BY <1>2 DEF Coinbase!Ignore, ChannelBecomes, AccumulatorBecomes
<1>4. Unheard(p)
  BY <1>3 DEF CoinbaseInv, CoinbaseService, Unheard
<1>5. ChannelInv(r, service.started, CurrentTag) /\ r.current = ch.current
      /\ (Working(r) <=> Working(ch))
  OBVIOUS
<1> HIDE DEF r, ch, a
<1>6. BookOk(p, a, service'.level2Sequence[p], service'.flawed, r, service.runGeneration)
  BY <1>1, <1>3, <1>5, SameBookOk
<1>7. p \in service'.connected <=> Working(r)
  BY <1>1, <1>3, <1>5
<1>8. QED
  BY <1>3, <1>4, <1>5, <1>6, <1>7, ProductFrame DEF Unheard

\* An error, or a close event, of any socket
LEMMA ProductEnds ==
  ASSUME CoinbaseInv, NEW p \in Products, NEW s \in Coinbase!Live(p),
         Coinbase!SocketErrors(p, s) \/ Coinbase!SocketCloses(p, s)
  PROVE  CoinbaseInv'
<1> DEFINE ch == channel[p]
           closed == SetState(ch.live, s, "closing")
           gone == Forget(ch.live, s)
<1>1. /\ ChannelInv(ch, service.started, CurrentTag)
      /\ s \in DOMAIN ch.live /\ s # NoSocket /\ (s = ch.current => service.started)
  BY ProductFacts, ProductSocket DEF ProductOk
<1>2. /\ UNCHANGED bound
      /\ \E live \in {closed, gone} :
           IF ch.current = s THEN Coinbase!Fail(p, [ch EXCEPT !.live = live])
           ELSE Coinbase!Ignore(p, [ch EXCEPT !.live = live])
  BY SameChannels DEF Coinbase!SocketErrors, Coinbase!SocketCloses
<1>3. CASE s = ch.current
  <2>1. SocketsOk(closed) /\ AllClosing(closed) /\ SocketsOk(gone) /\ AllClosing(gone)
    <3> HIDE DEF ch
    <3> QED
      BY <1>1, <1>3, LeftClosing
  <2> HIDE DEF closed, gone
  <2>2. PICK live \in {closed, gone} : Coinbase!Fail(p, [ch EXCEPT !.live = live])
    BY <1>2, <1>3
  <2>3. SocketsOk(live) /\ AllClosing(live)
    BY <2>1
  <2>4. QED
    BY <1>1, <1>2, <1>3, <2>2, <2>3, FailKeeps
<1>4. CASE s # ch.current
  <2> DEFINE Stays(live) ==
               /\ ChannelInv(WithSockets(ch, ch.planned, live), service.started, CurrentTag)
               /\ WithSockets(ch, ch.planned, live).current = ch.current
               /\ Working(WithSockets(ch, ch.planned, live)) <=> Working(ch)
  <2>1. Stays(closed) /\ Stays(gone)
    <3> HIDE DEF ch
    <3> QED
      BY <1>1, <1>4, ClosingStreams, ForgettingStreams
  <2> HIDE DEF closed, gone
  <2>2. PICK live \in {closed, gone} : Coinbase!Ignore(p, [ch EXCEPT !.live = live])
    BY <1>2, <1>4
  <2>3. Stays(live)
    BY <2>1
  <2>4. QED
    BY <1>2, <2>2, <2>3, IgnoreKeeps
<1>5. QED
  BY <1>3, <1>4

\* The timer that fires is of this run.
LEMMA ProductReconnects ==
  ASSUME CoinbaseInv, NEW p \in Products, Coinbase!ReconnectTimerFires(p)
  PROVE  CoinbaseInv'
<1> DEFINE ch == channel[p]
           tag == CurrentTag
           started == service.started
           fired == [ch EXCEPT !.reconnectTimer = NoTag]
           max == bound.sockets[p]
           a == accumulators[p]
<1>1. /\ ChannelInv(ch, started, tag) /\ ch.reconnectTimer # NoTag /\ max \in Nat
      /\ UNCHANGED <<bound, service, accumulators>> /\ (p \in service.connected <=> Working(ch))
      /\ BookOk(p, a, service.level2Sequence[p], service.flawed, ch,
                service.runGeneration)
  BY ProductFacts, SameChannels DEF ProductOk, Coinbase!ReconnectTimerFires
<1>2. /\ started /\ ch.reconnectTimer = tag /\ ch.current = NoSocket /\ ~Working(ch)
      /\ \A symbols : \A n \in Nat : \A r \in Connected(fired, tag, symbols, n) :
           ChannelInv(r, started, tag) /\ ~Working(r)
  <2> HIDE DEF ch, tag, started
  <2> QED
    BY <1>1, TimerStreams
<1>3. Coinbase!IsRunActive(ch.reconnectTimer.run) /\ RunTag(ch.reconnectTimer.run) = tag
  BY <1>2, ProductFacts DEF Coinbase!IsRunActive, CurrentTag
<1>4. PICK r \in Connected(fired, tag, {p}, max) : channel' = [channel EXCEPT ![p] = r]
  BY <1>3, SameChannels DEF Coinbase!ReconnectTimerFires, Coinbase!Connect
<1> HIDE DEF fired, max
<1>5. ChannelInv(r, started, tag) /\ ~Working(r)
  BY <1>1, <1>2, <1>4
<1>6. Unheard(p) /\ ~(p \in service'.connected) /\ AccumulatorBecomes(p, a)
  BY <1>1, <1>2 DEF CoinbaseInv, CoinbaseService, Unheard, AccumulatorBecomes
<1> HIDE DEF a, ch
<1>7. BookOk(p, a, service'.level2Sequence[p], service'.flawed, r, service.runGeneration)
  BY <1>1, <1>2 DEF BookOk
<1>8. ChannelBecomes(p, r)
  BY <1>4 DEF ChannelBecomes
<1>9. QED
  BY <1>1, <1>5, <1>6, <1>7, <1>8, ProductFrame DEF Unheard

\* checkHealth tells sockets to close that work.
LEMMA HealthKeeps ==
  ASSUME CoinbaseInv, Coinbase!HealthTimerFires
  PROVE  CoinbaseInv'
<1>1. /\ UNCHANGED <<bound, service, accumulators>> /\ DOMAIN channel' = Products
      /\ \A p \in Products :
           \/ channel'[p] = channel[p]
           \/ p \in service.connected /\ channel'[p] = CloseSocket(channel[p])
  BY SameChannels DEF Coinbase!HealthTimerFires
<1>2. CurrentTag' = CurrentTag
  BY <1>1 DEF CurrentTag
<1>3. ASSUME NEW p \in Products
      PROVE  ProductOk(p)'
  <2>1. ProductOk(p)
    BY ProductFacts
  <2>2. CASE channel'[p] = channel[p]
    BY <1>1, <1>2, <2>1, <2>2 DEF ProductOk
  <2>3. CASE p \in service.connected /\ channel'[p] = CloseSocket(channel[p])
    <3> DEFINE ch == channel[p]
               r == CloseSocket(ch)
    <3>1. /\ ChannelInv(ch, service.started, CurrentTag) /\ Working(ch)
          /\ BookOk(p, accumulators[p], service.level2Sequence[p], service.flawed, ch,
                    service.runGeneration)
      BY <2>1, <2>3 DEF ProductOk
    <3> HIDE DEF ch
    <3>2. /\ ChannelInv(r, service.started, CurrentTag) /\ Working(r) /\ r.current = ch.current
      BY <3>1, ClosedStreams
    <3> HIDE DEF r
    <3>3. BookOk(p, accumulators[p], service.level2Sequence[p], service.flawed, r,
                 service.runGeneration)
      BY <3>1, <3>2, SameBookOk
    <3>4. channel'[p] = r
      BY <2>3 DEF r, ch
    <3>5. QED
      BY <1>1, <1>2, <2>3, <3>2, <3>3, <3>4 DEF ProductOk
  <2>4. QED
    BY <1>1, <2>2, <2>3
<1>4. QED
  BY <1>1, <1>3 DEF CoinbaseInv, CoinbaseService

LEMMA CoinbaseStarts ==
  ASSUME CoinbaseInv, Coinbase!Start
  PROVE  CoinbaseInv'
<1> DEFINE run == service.runGeneration + 1
           tag == RunTag(run)
<1>1. run \in Nat /\ service.started = FALSE /\ tag \in Tag
  BY ProductFacts DEF Coinbase!Start, RunTag, Tag
<1>2. /\ service' = [service EXCEPT !.started = TRUE, !.runGeneration = run, !.healthTimer = run]
      /\ UNCHANGED <<bound, accumulators>> /\ DOMAIN channel' = Products
      /\ \A p \in Products : channel'[p] \in Connected(channel[p], tag, {p}, bound.sockets[p])
  BY SameChannels DEF Coinbase!Start, Coinbase!Connect
<1> HIDE DEF run
<1>3. /\ CoinbaseService' /\ service'.started = TRUE /\ service'.runGeneration = run
      /\ service'.connected = service.connected
      /\ service'.level2Sequence = service.level2Sequence
      /\ service'.flawed = service.flawed
  BY <1>1, <1>2 DEF CoinbaseInv, CoinbaseService
<1>4. CurrentTag' = tag
  BY <1>3 DEF CurrentTag
<1> HIDE DEF tag
<1>5. ASSUME NEW p \in Products
      PROVE  ProductOk(p)'
  <2>1. /\ ChannelInv(channel[p], service.started, CurrentTag) /\ Sound(channel[p])
        /\ p \in service.connected <=> Working(channel[p])
        /\ BookOk(p, accumulators[p], service.level2Sequence[p], service.flawed, channel[p],
                  service.runGeneration)
        /\ bound.sockets[p] \in Nat
    BY ProductFacts DEF ProductOk
  <2>2. ~Working(channel[p])
    BY <1>1, <2>1, Fields DEF ChannelInv, NoStream, Working
  <2>3. ChannelInv(channel[p], FALSE, CurrentTag)
    BY <1>1, <2>1
  <2>4. ChannelInv(channel'[p], TRUE, tag) /\ ~Working(channel'[p])
    BY <1>1, <1>2, <2>1, <2>3, StartStreams
  <2>5. BookOk(p, accumulators[p], service.level2Sequence[p], service.flawed, channel'[p], run)
    BY <2>1, <2>2 DEF BookOk
  <2>6. QED
    BY <1>2, <1>3, <1>4, <2>1, <2>2, <2>4, <2>5 DEF ProductOk
<1>6. QED
  BY <1>2, <1>3, <1>5 DEF CoinbaseInv

LEMMA CoinbaseStops ==
  ASSUME CoinbaseInv, Coinbase!Stop
  PROVE  CoinbaseInv'
<1> DEFINE run == service.runGeneration + 1
           tag == RunTag(run)
           none == [p \in Products |-> 0]
<1>1. run \in Nat /\ tag \in Tag /\ none \in [Products -> Nat]
  BY ProductFacts DEF RunTag, Tag
<1>2. /\ service' = [service EXCEPT !.started = FALSE, !.runGeneration = run, !.healthTimer = 0,
                                    !.connected = {}, !.level2Sequence = none, !.flawed = {}]
      /\ UNCHANGED bound /\ DOMAIN channel' = Products /\ DOMAIN accumulators' = Products
      /\ \A p \in Products : /\ channel'[p] = Released(CloseSocket(channel[p]))
                             /\ accumulators'[p] = Coinbase!ResetBook(accumulators[p])
  BY SameChannels DEF Coinbase!Stop, Coinbase!NoRun, Coinbase!NoSequence
<1> HIDE DEF run, none
<1>3. /\ CoinbaseService' /\ service'.started = FALSE /\ service'.runGeneration = run
      /\ service'.connected = {}
  BY <1>1, <1>2 DEF CoinbaseInv, CoinbaseService
<1>4. CurrentTag' = tag
  BY <1>3 DEF CurrentTag
<1> HIDE DEF tag
<1>5. ASSUME NEW p \in Products
      PROVE  ProductOk(p)'
  <2>1. ChannelInv(channel[p], service.started, CurrentTag) /\ BookFields(accumulators[p])
    BY ProductFacts DEF ProductOk
  <2>2. ChannelInv(channel'[p], FALSE, tag) /\ ~Working(channel'[p])
    BY <1>1, <1>2, <2>1, ReleasedStreams
  <2>3. BookOk(p, accumulators'[p], service'.level2Sequence[p], service'.flawed, channel'[p], run)
    BY <1>2, <2>1, ResetBookOk
  <2>4. QED
    BY <1>3, <1>4, <2>2, <2>3 DEF ProductOk
<1>6. QED
  BY <1>2, <1>3, <1>5 DEF CoinbaseInv
-----------------------------------------------------------------------------
(***************************************************************************)
(* What the socket of a product delivers.                                  *)
(***************************************************************************)
\* A step that leaves what the book is made of
KeepsBook(a, b) ==
  /\ BookFields(a) => BookFields(b)
  /\ b.synchronized = a.synchronized /\ b.book = a.book /\ b.shownLevel2 = a.shownLevel2

LEMMA TrimKeepsBook ==
  ASSUME NEW a, BookFields(a)
  PROVE  \A at : KeepsBook(a, Coinbase!Trim(a, at))
<1> SUFFICES ASSUME NEW at PROVE KeepsBook(a, Coinbase!Trim(a, at))
  OBVIOUS
<1> DEFINE prices == Coinbase!WithoutOldHead(a.prices, at - MaxHistory)
           trades == Coinbase!WithoutOldHead(a.trades, at - MaxHistory)
           b == [a EXCEPT !.prices = prices, !.trades = trades]
<1>1. Coinbase!Trim(a, at) = b
  BY DEF Coinbase!Trim
<1> HIDE DEF prices, trades
<1>2. KeepsBook(a, b)
  BY DEF KeepsBook, BookFields
<1>3. QED
  BY <1>1, <1>2

\* A price or a trade is no part of the book.
LEMMA IngestKeepsBook ==
  ASSUME NEW a, BookFields(a)
  PROVE  \A e : KeepsBook(a, Coinbase!IngestTicker(a, e)) /\ KeepsBook(a, Coinbase!IngestTrade(a, e))
<1>1. \A b, e : BookFields(b) => KeepsBook(b, Coinbase!AddPrice(b, e))
  <2> SUFFICES ASSUME NEW b, NEW e, BookFields(b) PROVE KeepsBook(b, Coinbase!AddPrice(b, e))
    OBVIOUS
  <2> DEFINE prices == Append(b.prices, e)
             last == Coinbase!Some(e)
             c == [b EXCEPT !.lastPrice = last, !.prices = prices]
  <2>1. Coinbase!AddPrice(b, e) = Coinbase!Trim(c, e.at)
    BY DEF Coinbase!AddPrice
  <2> HIDE DEF prices, last
  <2>2. KeepsBook(b, c) /\ BookFields(c)
    BY DEF KeepsBook, BookFields
  <2> HIDE DEF c
  <2>3. KeepsBook(c, Coinbase!Trim(c, e.at))
    BY <2>2, TrimKeepsBook
  <2>4. QED
    BY <2>1, <2>2, <2>3 DEF KeepsBook
<1> SUFFICES ASSUME NEW e
             PROVE  /\ KeepsBook(a, Coinbase!IngestTicker(a, e))
                    /\ KeepsBook(a, Coinbase!IngestTrade(a, e))
  OBVIOUS
<1> DEFINE last == Coinbase!Some(e)
           b == [a EXCEPT !.ticker = last]
           trades == Append(a.trades, e)
           c == [a EXCEPT !.trade = last, !.trades = trades]
           d == Coinbase!AddPrice(c, e)
<1>2. Coinbase!IngestTicker(a, e) = Coinbase!AddPrice(b, e)
  BY DEF Coinbase!IngestTicker
<1>3. Coinbase!IngestTrade(a, e) = Coinbase!Trim(d, e.received)
  BY DEF Coinbase!IngestTrade
<1> HIDE DEF last, trades, d
<1>4. KeepsBook(a, b) /\ BookFields(b) /\ KeepsBook(a, c) /\ BookFields(c)
  BY DEF KeepsBook, BookFields
<1> HIDE DEF b, c
<1>5. KeepsBook(b, Coinbase!AddPrice(b, e)) /\ KeepsBook(c, d)
  BY <1>1, <1>4 DEF d
<1>6. BookFields(d)
  BY <1>4, <1>5 DEF KeepsBook
<1>7. KeepsBook(d, Coinbase!Trim(d, e.received))
  BY <1>6, TrimKeepsBook
<1>8. QED
  BY <1>2, <1>3, <1>4, <1>5, <1>7 DEF KeepsBook

LEMMA KeptBookOk ==
  ASSUME NEW p, NEW a, NEW b, NEW sequence, NEW flawed, NEW ch, NEW run,
         BookOk(p, a, sequence, flawed, ch, run), KeepsBook(a, b)
  PROVE  BookOk(p, b, sequence, flawed, ch, run)
BY DEF BookOk, KeepsBook

\* What is applied of a message, by its events
LEMMA AppliedIs ==
  ASSUME NEW a, BookFields(a), NEW m, NEW e
  PROVE  LET b == Coinbase!Applied(a, m, e)
         IN  /\ BookFields(b)
             /\ \/ b = a
                \/ b.synchronized /\ b.shownLevel2 = {e} /\ (a.synchronized \/ m.number = 1)
<1> DEFINE told == Coinbase!UpdatesOf(m.number)
           updates == [l \in DOMAIN told \cap UNION m.event |-> told[l]]
           first == Coinbase!ApplyBookLevels(Coinbase!Empty, updates)
           updated == Coinbase!ApplyBookLevels(a.book, updates)
           seen == {e}
           Set(book) == [a EXCEPT !.book = book, !.synchronized = TRUE,
                                  !.level2 = seen, !.shownLevel2 = seen]
           Updated(book) == [a EXCEPT !.book = book, !.level2 = seen, !.shownLevel2 = seen]
<1>1. Coinbase!Applied(a, m, e) =
        IF m.event = Coinbase!None THEN a
        ELSE IF m.number = 1 THEN Set(first)
        ELSE IF ~a.synchronized THEN a ELSE Updated(updated)
  BY DEF Coinbase!Applied, Coinbase!ApplyBookSnapshot, Coinbase!ApplyBookUpdate, Coinbase!Some
<1> HIDE DEF first, updated, seen
<1>2. \A book : BookFields(Set(book)) /\ Set(book).synchronized /\ Set(book).shownLevel2 = seen
  BY DEF BookFields
<1>3. \A book : /\ BookFields(Updated(book)) /\ Updated(book).shownLevel2 = seen
                /\ Updated(book).synchronized <=> a.synchronized
  BY DEF BookFields
<1> HIDE DEF Set, Updated
<1>4. QED
  BY <1>1, <1>2, <1>3 DEF seen

\* A whole message brings the whole of what the exchange tells with it.
LEMMA WholeApplied ==
  ASSUME NEW a, BookFields(a), NEW m, NEW e, Coinbase!Whole(m), m.number \in Nat
  PROVE  Coinbase!Applied(a, m, e).synchronized =>
           Coinbase!Applied(a, m, e).book =
             Coinbase!ApplyBookLevels(IF m.number = 1 THEN Coinbase!Empty ELSE a.book,
                                      Coinbase!UpdatesOf(m.number))
<1> DEFINE told == Coinbase!UpdatesOf(m.number)
           updates == [l \in DOMAIN told \cap UNION m.event |-> told[l]]
           first == Coinbase!ApplyBookLevels(Coinbase!Empty, told)
           updated == Coinbase!ApplyBookLevels(a.book, told)
           seen == Coinbase!Some(e)
<1>1. m.event # Coinbase!None /\ UNION m.event = Coinbase!Levels
  BY DEF Coinbase!Whole, Coinbase!Some, Coinbase!None
<1>2. DOMAIN told \subseteq Coinbase!Levels /\ told = [l \in DOMAIN told |-> told[l]]
  BY DEF Coinbase!UpdatesOf, Coinbase!Levels, Coinbase!LevelOf
<1>3. updates = told
  <2> HIDE DEF told
  <2>1. DOMAIN told \cap UNION m.event = DOMAIN told
    BY <1>1, <1>2
  <2>2. QED
    BY <1>2, <2>1
<1>4. Coinbase!Applied(a, m, e) =
        IF m.event = Coinbase!None THEN a
        ELSE IF m.number = 1 THEN Coinbase!ApplyBookSnapshot(a, updates, e)
        ELSE Coinbase!ApplyBookUpdate(a, updates, e)
  BY DEF Coinbase!Applied
<1> HIDE DEF updates, told
<1>5. Coinbase!Applied(a, m, e) =
        IF m.number = 1 THEN [a EXCEPT !.book = first, !.synchronized = TRUE,
                                       !.level2 = seen, !.shownLevel2 = seen]
        ELSE IF ~a.synchronized THEN a
        ELSE [a EXCEPT !.book = updated, !.level2 = seen, !.shownLevel2 = seen]
  BY <1>1, <1>3, <1>4 DEF Coinbase!ApplyBookSnapshot, Coinbase!ApplyBookUpdate
<1> HIDE DEF first, updated, seen
<1>6. Coinbase!Applied(a, m, e).synchronized =>
        Coinbase!Applied(a, m, e).book = IF m.number = 1 THEN first ELSE updated
  BY <1>5 DEF BookFields
<1>7. QED
  BY <1>6 DEF first, updated, told

\* The next message of the numbering brings the next book, or a flawed one.
LEMMA AppliedBookOk ==
  ASSUME NEW p, NEW a, NEW previous \in Nat, NEW flawed, NEW m \in Coinbase!Level2Messages,
         NEW ch, NEW run, NEW e,
         BookOk(p, a, previous, flawed, ch, run), Working(ch), e.run = run, e.from = ch.current,
         m.numbered => m.number > previous /\ (previous # 0 => m.number = previous + 1),
         NEW sequence, sequence = (IF m.numbered THEN m.number ELSE previous),
         NEW flaws, (p \in flaws) <=> (~Coinbase!Whole(m) \/ (p \in flawed /\ m.number # 1))
  PROVE  BookOk(p, Coinbase!Applied(a, m, e), sequence, flaws, ch, run)
<1> DEFINE b == Coinbase!Applied(a, m, e)
           n == m.number
<1>1. BookFields(a) /\ n \in Nat /\ (m.numbered => n # Coinbase!NoSequence)
  BY DEF BookOk, Coinbase!Level2Messages, Coinbase!NoSequence
<1>2. /\ BookFields(b)
      /\ b = a \/ (b.synchronized /\ b.shownLevel2 = {e} /\ (a.synchronized \/ n = 1))
  BY <1>1, AppliedIs
<1>3. Coinbase!Whole(m) /\ b.synchronized =>
        b.book = Coinbase!ApplyBookLevels(IF n = 1 THEN Coinbase!Empty ELSE a.book,
                                          Coinbase!UpdatesOf(n))
  BY <1>1, WholeApplied
<1> HIDE DEF b, n
<1>4. b.synchronized => \A x \in b.shownLevel2 : x.run = run /\ x.from = ch.current
  BY <1>2 DEF BookOk
<1>5. ASSUME b.synchronized, p \notin flaws
      PROVE  sequence # Coinbase!NoSequence /\ b.book = Coinbase!BookAfter[sequence]
  <2>1. /\ Coinbase!Whole(m) /\ m.numbered /\ sequence = n /\ n > previous
        /\ n = 1 \/ p \notin flawed
    BY <1>5 DEF Coinbase!Whole, n
  <2>2. n \in Nat /\ n # 0
    BY <1>1, <2>1
  <2>3. Coinbase!BookAfter[n] = Coinbase!ApplyBookLevels(Coinbase!BookAfter[n - 1],
                                                         Coinbase!UpdatesOf(n))
    BY <2>2, BookAfterIs DEF NextBook
  <2>4. CASE n = 1
    <3>1. Coinbase!BookAfter[n - 1] = Coinbase!Empty
      BY <2>4, BookAfterIs DEF NextBook
    <3>2. QED
      BY <1>1, <1>3, <1>5, <2>1, <2>3, <2>4, <3>1
  <2>5. CASE n # 1
    <3>1. a.synchronized
      BY <1>2, <1>5, <2>5
    <3>2. previous # 0 /\ a.book = Coinbase!BookAfter[previous]
      BY <2>1, <2>5, <3>1 DEF BookOk, Coinbase!NoSequence
    <3>3. n - 1 = previous
      BY <2>1, <2>2, <3>2 DEF n
    <3>4. QED
      BY <1>1, <1>3, <1>5, <2>1, <2>3, <2>5, <3>2, <3>3
  <2>6. QED
    BY <2>4, <2>5
<1>6. QED
  BY <1>2, <1>4, <1>5 DEF BookOk, b
\* Whatever the socket of a product delivers, its channel stays of one stream.
LEMMA SocketWorks ==
  ASSUME CoinbaseInv, NEW p \in Products, NEW s \in Coinbase!Live(p), Coinbase!SocketDelivers(p, s)
  PROVE  /\ service.started /\ s = channel[p].current /\ Working(channel[p])
         /\ Coinbase!EventFrom(s).run = service.runGeneration
         /\ Coinbase!EventFrom(s).from = channel[p].current
<1>1. /\ Coinbase!IsCurrent(p, s) /\ s \in DOMAIN channel[p].live
      /\ channel[p].live[s].state \in {"open", "closing"}
  BY ProductSocket DEF Coinbase!SocketDelivers
<1>2. service.started /\ s = channel[p].current
  BY <1>1, ProductSocket
<1>3. QED
  BY <1>1, <1>2 DEF Working, Coinbase!EventFrom

\* A heartbeat, a ticker or a trade
LEMMA PriceKeeps ==
  ASSUME CoinbaseInv, NEW p \in Products, NEW b, UNCHANGED <<bound, channel>>, CoinbaseService',
         service'.started = service.started, service'.runGeneration = service.runGeneration,
         service'.connected = service.connected, service'.level2Sequence = service.level2Sequence,
         service'.flawed = service.flawed,
         KeepsBook(accumulators[p], b), AccumulatorBecomes(p, b)
  PROVE  CoinbaseInv'
<1>1. /\ BookOk(p, accumulators[p], service.level2Sequence[p], service.flawed, channel[p],
                service.runGeneration)
      /\ ChannelInv(channel[p], service.started, CurrentTag)
      /\ p \in service.connected <=> Working(channel[p])
  BY ProductFacts DEF ProductOk
<1>2. BookOk(p, b, service.level2Sequence[p], service.flawed, channel[p],
             service.runGeneration)
  BY <1>1, KeptBookOk
<1>3. \A q \in Products \ {p} :
        /\ q \in service'.connected <=> q \in service.connected
        /\ service'.level2Sequence[q] = service.level2Sequence[q]
        /\ q \in service'.flawed <=> q \in service.flawed
  OBVIOUS
<1>4. BookOk(p, b, service'.level2Sequence[p], service'.flawed, channel[p], service.runGeneration)
  BY <1>2
<1>5. p \in service'.connected <=> Working(channel[p])
  BY <1>1
<1>6. ChannelBecomes(p, channel[p])
  BY DEF ChannelBecomes
<1>7. QED
  BY <1>1, <1>3, <1>4, <1>5, <1>6, ProductFrame

\* A level2 message: a gap closes the socket and gives the book up.
LEMMA Level2Keeps ==
  ASSUME CoinbaseInv, NEW p \in Products, NEW s, NEW m \in Coinbase!Level2Messages,
         UNCHANGED bound, Coinbase!TakeLevel2(p, s, m), Working(channel[p]),
         Coinbase!EventFrom(s).run = service.runGeneration,
         Coinbase!EventFrom(s).from = channel[p].current
  PROVE  CoinbaseInv'
<1> DEFINE ch == channel[p]
           a == accumulators[p]
           previous == service.level2Sequence[p]
           flawed == service.flawed
           n == m.number
           gap == m.numbered /\ previous # 0 /\ n > previous + 1
           repeated == m.numbered /\ n <= previous
           e == Coinbase!EventFrom(s)
           run == service.runGeneration
<1>1. /\ ChannelInv(ch, service.started, CurrentTag) /\ BookFields(a) /\ previous \in Nat
      /\ BookOk(p, a, previous, flawed, ch, run) /\ p \in service.connected
      /\ n \in Nat /\ m.numbered \in BOOLEAN
  BY ProductFacts DEF ProductOk, Coinbase!Level2Messages
<1>2. CASE gap
  <2> DEFINE r == CloseSocket(ch)
             b == Coinbase!ResetBook(a)
  <2>1. /\ channel' = [channel EXCEPT ![p] = r]
        /\ accumulators' = [accumulators EXCEPT ![p] = b]
        /\ service' = [service EXCEPT !.level2Sequence[p] = 0, !.flawed = @ \ {p}]
    BY <1>2, SameChannels DEF Coinbase!TakeLevel2, Coinbase!NoSequence
  <2> HIDE DEF gap
  <2>2. ChannelInv(r, service.started, CurrentTag) /\ Working(r)
    <3> HIDE DEF ch
    <3> QED
      BY <1>1, ClosedStreams DEF ch
  <2>3. BookOk(p, b, service'.level2Sequence[p], service'.flawed, r, run)
    BY <1>1, ResetBookOk
  <2>4. Unheard(p) /\ p \in service'.connected
    BY <1>1, <2>1 DEF CoinbaseInv, CoinbaseService, Unheard
  <2>5. ChannelBecomes(p, r) /\ AccumulatorBecomes(p, b)
    BY <2>1 DEF ChannelBecomes, AccumulatorBecomes
  <2> HIDE DEF r, b
  <2>6. QED
    BY <2>2, <2>3, <2>4, <2>5, ProductFrame DEF Unheard
<1>3. CASE ~gap /\ ~repeated
  <2> DEFINE b == Coinbase!Applied(a, m, e)
             sequence == IF m.numbered THEN n ELSE previous
             flaws == Coinbase!FlawedBy(p, m)
  <2>1. /\ channel' = [channel EXCEPT ![p] = ch]
        /\ accumulators' = [accumulators EXCEPT ![p] = b]
        /\ service' = [service EXCEPT !.level2Sequence[p] = sequence, !.flawed = flaws]
    BY <1>3 DEF Coinbase!TakeLevel2, Coinbase!NoSequence
  <2>2. m.numbered => n > previous /\ (previous # 0 => n = previous + 1)
    BY <1>1, <1>3
  <2> HIDE DEF gap, repeated
  <2>3. e.run = run /\ e.from = ch.current /\ Working(ch)
    OBVIOUS
  <2>4. flawed \in SUBSET Products
    BY DEF CoinbaseInv, CoinbaseService
  <2>5. /\ flaws \in SUBSET Products /\ sequence \in Nat
        /\ (p \in flaws) <=> (~Coinbase!Whole(m) \/ (p \in flawed /\ n # 1))
        /\ \A q \in Products \ {p} : q \in flaws <=> q \in flawed
    BY <1>1, <2>4 DEF Coinbase!FlawedBy
  <2>6. sequence = (IF m.numbered THEN m.number ELSE previous)
    OBVIOUS
  <2> HIDE DEF a, ch, e, run, previous, flawed, flaws, sequence
  <2>7. BookOk(p, b, sequence, flaws, ch, run)
    BY <1>1, <2>2, <2>3, <2>5, <2>6, AppliedBookOk
  <2>8. Unheard(p) /\ p \in service'.connected /\ service'.level2Sequence[p] = sequence
        /\ service'.flawed = flaws
    BY <1>1, <2>1, <2>5 DEF CoinbaseInv, CoinbaseService, Unheard, flawed
  <2>9. ChannelBecomes(p, ch) /\ AccumulatorBecomes(p, b)
    BY <2>1 DEF ChannelBecomes, AccumulatorBecomes
  <2>10. BookOk(p, b, service'.level2Sequence[p], service'.flawed, ch, service.runGeneration)
    BY <2>7, <2>8 DEF run
  <2>11. p \in service'.connected <=> Working(ch)
    BY <2>3, <2>8
  <2> HIDE DEF b
  <2>12. QED
    BY <1>1, <2>8, <2>9, <2>10, <2>11, ProductFrame DEF Unheard
<1>4. CASE ~gap /\ repeated
  <2>1. /\ channel' = [channel EXCEPT ![p] = ch]
        /\ accumulators' = [accumulators EXCEPT ![p] = a] /\ service' = service
    BY <1>1, <1>4 DEF Coinbase!TakeLevel2, Coinbase!NoSequence
  <2> HIDE DEF gap, repeated
  <2>2. Unheard(p) /\ p \in service'.connected
    BY <1>1, <2>1 DEF CoinbaseInv, CoinbaseService, Unheard
  <2>3. ChannelBecomes(p, ch) /\ AccumulatorBecomes(p, a)
    BY <2>1 DEF ChannelBecomes, AccumulatorBecomes
  <2>4. BookOk(p, a, service'.level2Sequence[p], service'.flawed, ch, service.runGeneration)
    BY <1>1, <2>1
  <2>5. p \in service'.connected <=> Working(ch)
    BY <2>2
  <2> HIDE DEF a, ch, e, run, previous, flawed
  <2>6. QED
    BY <1>1, <2>2, <2>3, <2>4, <2>5, ProductFrame DEF Unheard
<1>5. QED
  BY <1>2, <1>3, <1>4

LEMMA ProductDelivers ==
  ASSUME CoinbaseInv, NEW p \in Products, NEW s \in Coinbase!Live(p), Coinbase!SocketDelivers(p, s)
  PROVE  CoinbaseInv'
<1> DEFINE a == accumulators[p]
           e == Coinbase!EventFrom(s)
<1>1. /\ Working(channel[p]) /\ e.run = service.runGeneration /\ e.from = channel[p].current
      /\ BookFields(a)
  BY SocketWorks, ProductFacts
<1>2. /\ UNCHANGED bound
      /\ \/ Coinbase!TakeHeartbeat(p) \/ Coinbase!TakeTicker(p, s) \/ Coinbase!TakeTrade(p, s)
         \/ \E m \in Coinbase!Level2Messages : Coinbase!TakeLevel2(p, s, m)
  BY DEF Coinbase!SocketDelivers
<1>3. CASE Coinbase!TakeHeartbeat(p)
  <2>1. /\ UNCHANGED <<bound, channel>> /\ CoinbaseService'
        /\ service'.started = service.started /\ service'.runGeneration = service.runGeneration
        /\ service'.connected = service.connected
        /\ service'.level2Sequence = service.level2Sequence /\ service'.flawed = service.flawed
    BY <1>2, <1>3 DEF Coinbase!TakeHeartbeat, CoinbaseInv, CoinbaseService
  <2>2. AccumulatorBecomes(p, a) /\ KeepsBook(a, a)
    BY <1>3 DEF Coinbase!TakeHeartbeat, AccumulatorBecomes, KeepsBook
  <2>3. QED
    BY <2>1, <2>2, PriceKeeps
<1>4. ASSUME NEW b, KeepsBook(a, b), accumulators' = [accumulators EXCEPT ![p] = b],
             UNCHANGED <<channel, service>>
      PROVE  CoinbaseInv'
  <2>1. CoinbaseService' /\ AccumulatorBecomes(p, b)
    BY <1>4 DEF CoinbaseInv, CoinbaseService, AccumulatorBecomes
  <2>2. /\ UNCHANGED <<bound, channel>>
        /\ service'.started = service.started /\ service'.runGeneration = service.runGeneration
        /\ service'.connected = service.connected
        /\ service'.level2Sequence = service.level2Sequence /\ service'.flawed = service.flawed
    BY <1>2, <1>4
  <2>3. QED
    BY <1>4, <2>1, <2>2, PriceKeeps
<1>5. CASE Coinbase!TakeTicker(p, s)
  <2>1. KeepsBook(a, Coinbase!IngestTicker(a, e))
    BY <1>1, IngestKeepsBook
  <2>2. QED
    BY <1>4, <1>5, <2>1 DEF Coinbase!TakeTicker
<1>6. CASE Coinbase!TakeTrade(p, s)
  <2>1. KeepsBook(a, Coinbase!IngestTrade(a, e))
    BY <1>1, IngestKeepsBook
  <2>2. QED
    BY <1>4, <1>6, <2>1 DEF Coinbase!TakeTrade
<1>7. CASE \E m \in Coinbase!Level2Messages : Coinbase!TakeLevel2(p, s, m)
  BY <1>1, <1>2, <1>7, Level2Keeps
<1>8. QED
  BY <1>2, <1>3, <1>5, <1>6, <1>7

\* A step that leaves the channels alone, and of the books what they are made of
LEMMA RestKeeps ==
  ASSUME CoinbaseInv, UNCHANGED <<bound, service, channel>>, DOMAIN accumulators' = Products,
         \A p \in Products : KeepsBook(accumulators[p], accumulators'[p])
  PROVE  CoinbaseInv'
<1>1. CoinbaseService' /\ CurrentTag' = CurrentTag
  BY DEF CoinbaseInv, CoinbaseService, CurrentTag
<1>2. ASSUME NEW p \in Products PROVE ProductOk(p)'
  <2>1. ProductOk(p) /\ KeepsBook(accumulators[p], accumulators'[p])
    BY ProductFacts
  <2>2. BookOk(p, accumulators'[p], service.level2Sequence[p], service.flawed, channel[p],
               service.runGeneration)
    BY <2>1, KeptBookOk DEF ProductOk
  <2>3. QED
    BY <1>1, <2>1, <2>2 DEF ProductOk
<1>3. QED
  BY <1>1, <1>2 DEF CoinbaseInv

LEMMA CoinbaseNext ==
  ASSUME CoinbaseInv, Coinbase!Next \/ UNCHANGED Coinbase!vars
  PROVE  CoinbaseInv'
<1>1. CASE Coinbase!Start
  BY <1>1, CoinbaseStarts
<1>2. CASE Coinbase!Stop
  BY <1>2, CoinbaseStops
<1>3. CASE Coinbase!HealthTimerFires
  BY <1>3, HealthKeeps
<1>4. CASE Coinbase!Observe
  <2>1. ASSUME NEW p \in Products PROVE KeepsBook(accumulators[p], accumulators'[p])
    <3>1. /\ KeepsBook(accumulators[p], accumulators[p])
          /\ \A at : KeepsBook(accumulators[p], Coinbase!Trim(accumulators[p], at))
      BY ProductFacts, TrimKeepsBook DEF KeepsBook
    <3>2. \/ accumulators'[p] = accumulators[p]
          \/ accumulators'[p] = Coinbase!Trim(accumulators[p], now)
      BY <1>4 DEF Coinbase!Observe
    <3>3. QED
      BY <3>1, <3>2
  <2>2. UNCHANGED <<bound, service, channel>> /\ DOMAIN accumulators' = Products
    BY <1>4 DEF Coinbase!Observe
  <2>3. QED
    BY <2>1, <2>2, RestKeeps
<1>5. CASE Coinbase!Tick \/ UNCHANGED Coinbase!vars
  <2>1. UNCHANGED <<bound, service, channel, accumulators>> /\ DOMAIN accumulators' = Products
    BY <1>5 DEF Coinbase!Tick, Coinbase!vars, CoinbaseInv
  <2>2. ASSUME NEW p \in Products PROVE KeepsBook(accumulators[p], accumulators'[p])
    BY <2>1 DEF KeepsBook
  <2>3. QED
    BY <2>1, <2>2, RestKeeps
<1>6. CASE \E p \in Products : Coinbase!ReconnectTimerFires(p)
  BY <1>6, ProductReconnects
<1>7. ASSUME NEW p \in Products, NEW s \in Coinbase!Live(p),
             \/ Coinbase!SocketOpens(p, s) \/ Coinbase!SocketErrors(p, s)
             \/ Coinbase!SocketCloses(p, s) \/ Coinbase!SocketDelivers(p, s)
      PROVE  CoinbaseInv'
  BY <1>7, ProductOpens, ProductEnds, ProductDelivers
<1>8. QED
  BY <1>1, <1>2, <1>3, <1>4, <1>5, <1>6, <1>7 DEF Coinbase!Next

LEMMA CoinbaseInit ==
  ASSUME Coinbase!Init
  PROVE  CoinbaseInv
<1>1. /\ bound \in CoinbaseBounds /\ CoinbaseService
      /\ service.started = FALSE /\ service.connected = {} /\ CurrentTag \in Tag
  BY DEF Coinbase!Init, Coinbase!NoRun, Coinbase!NoSequence, CoinbaseService, CurrentTag, RunTag, Tag
<1>2. /\ DOMAIN channel = Products /\ DOMAIN accumulators = Products
      /\ \A p \in Products : /\ channel[p] = NewChannel
                             /\ accumulators[p] = Coinbase!NewCoinbaseAccumulator
  BY SameChannels DEF Coinbase!Init
<1>3. /\ BookFields(Coinbase!NewCoinbaseAccumulator)
      /\ Coinbase!NewCoinbaseAccumulator.synchronized = FALSE
  BY DEF BookFields, Coinbase!NewCoinbaseAccumulator
<1>4. ASSUME NEW p \in Products PROVE ProductOk(p)
  <2>1. ChannelInv(channel[p], FALSE, CurrentTag) /\ ~Working(channel[p])
    BY <1>1, <1>2, NewChannelRests
  <2>2. BookOk(p, accumulators[p], service.level2Sequence[p], service.flawed, channel[p],
               service.runGeneration)
    BY <1>2, <1>3 DEF BookOk
  <2>3. QED
    BY <1>1, <2>1, <2>2 DEF ProductOk
<1>5. QED
  BY <1>1, <1>2, <1>4 DEF CoinbaseInv

LEMMA CoinbaseImplies ==
  ASSUME CoinbaseInv
  PROVE  Coinbase!OneStreamEach /\ Coinbase!CoinbaseBookExact
<1>1. ASSUME NEW p \in Products
      PROVE  LET ch == channel[p]
             IN  /\ service.started => Coinbase!OneStream(ch, Coinbase!RunTag(service.runGeneration))
                 /\ ~service.started => Coinbase!NoStream(ch)
                 /\ p \in service.connected =>
                      ch.current \in Coinbase!Live(p) /\ ch.live[ch.current].state # "connecting"
  <2>1. ChannelInv(channel[p], service.started, CurrentTag)
    BY ProductFacts DEF ProductOk
  <2>2. service.started => OneStream(channel[p], CurrentTag)
    BY <2>1 DEF ChannelInv, Streaming, OneStream, OthersClose
  <2>3. ~service.started => NoStream(channel[p])
    BY <2>1 DEF ChannelInv
  <2>4. p \in service.connected => Working(channel[p])
    BY ProductFacts DEF ProductOk
  <2>5. QED
    BY <2>2, <2>3, <2>4, SameChannels DEF CurrentTag, Working, Coinbase!Live
<1>2. ASSUME NEW p \in Products, accumulators[p].synchronized
      PROVE  /\ p \in service.connected
             /\ \A e \in Coinbase!BestFrom(accumulators[p]) :
                  e.run = service.runGeneration /\ e.from = channel[p].current
             /\ \/ p \in service.flawed
                \/ /\ service.level2Sequence[p] # Coinbase!NoSequence
                   /\ accumulators[p].book = Coinbase!BookAfter[service.level2Sequence[p]]
  BY <1>2, ProductFacts DEF ProductOk, BookOk, Coinbase!BestFrom
<1>3. QED
  BY <1>1, <1>2 DEF Coinbase!OneStreamEach, Coinbase!CoinbaseBookExact
-----------------------------------------------------------------------------
(***************************************************************************)
(* The venues together.                                                    *)
(***************************************************************************)
MCInv ==
  /\ venue \in {"lead", "coinbase"}
  /\ OfLead => LeadInv
  /\ OfCoinbase => CoinbaseInv

LEMMA VenuesInit == MCInit => MCInv
BY LeadInit, CoinbaseInit DEF MCInit, MCInv, OfLead, OfCoinbase

\* The lead assets take a step that LeadStep speaks of, or the behaviour is of Coinbase.
VenueStep == UNCHANGED venue /\ MCInv' /\ (OfLead => LeadStep)

LEMMA VenuesNext == MCInv /\ [MCNext]_mcVars => VenueStep
<1> SUFFICES ASSUME MCInv, [MCNext]_mcVars PROVE VenueStep
  OBVIOUS
<1>1. /\ UNCHANGED venue
      /\ OfLead => [Next]_vars
      /\ OfCoinbase => Coinbase!Next \/ UNCHANGED Coinbase!vars
  BY DEF MCInv, MCNext, mcVars, vars, Coinbase!vars, OfLead, OfCoinbase
<1>2. CASE OfLead
  <2>1. LeadStep
    BY <1>1, <1>2, LeadNext DEF MCInv
  <2>2. LeadInv'
    BY <2>1 DEF LeadStep
  <2>3. QED
    BY <1>1, <1>2, <2>1, <2>2 DEF VenueStep, MCInv, OfLead, OfCoinbase
<1>3. CASE OfCoinbase
  <2>1. CoinbaseInv
    BY <1>3 DEF MCInv
  <2>2. CoinbaseInv'
    BY <1>1, <1>3, <2>1, CoinbaseNext
  <2>3. QED
    BY <1>1, <1>3, <2>2 DEF VenueStep, MCInv, OfLead, OfCoinbase
<1>4. QED
  BY <1>2, <1>3 DEF MCInv, OfLead, OfCoinbase
-----------------------------------------------------------------------------
(***************************************************************************)
(* Theorems.                                                               *)
(***************************************************************************)
\* A channel of the lead assets has, while the service is started, one working
\* socket of this run or one reconnect pending, and neither while it is
\* stopped; what an observation shows of this run was delivered by the socket
\* the channel has now, the evidence rated usable included: for any symbols,
\* windows of time and numbers of sockets, runs and requests
\* (LeadCoreMarketService, connect to stop, against late events of old sockets).
THEOREM LeadStreamsAreOne == Spec => [](OneStreamEach /\ LostStreamLeavesNothing)
<1>1. Init => LeadInv
  BY LeadInit
<1>2. LeadInv /\ [Next]_vars => LeadInv'
  BY LeadNext DEF LeadStep
<1>3. LeadInv => OneStreamEach /\ LostStreamLeavesNothing
  BY LeadImplies
<1>4. QED
  BY <1>1, <1>2, <1>3, PTL DEF Spec

\* The open interest of a lead asset never goes back in time: an answer that
\* was overtaken by a later one, of this run or of the one before, changes
\* nothing (pollOpenInterest and ingestOpenInterest).
THEOREM LeadInterestLater == Spec => [][OpenInterestLater]_vars
<1>1. Init => LeadInv
  BY LeadInit
<1>2. LeadInv /\ [Next]_vars => LeadInv'
  BY LeadNext DEF LeadStep
<1>3. LeadInv /\ [Next]_vars => OpenInterestLater
  BY LeadNext, LeadLater
<1>4. QED
  BY <1>1, <1>2, <1>3, PTL DEF Spec

\* A product of Coinbase has one working socket or one reconnect pending while
\* the service is started, and neither while it is stopped.  A book that is shown
\* as synchronized came by the socket that the product has now, and it is the book
\* of the exchange after exactly the messages up to the last number, whatever was
\* lost, repeated or overtaken, as long as no message since its snapshot lacked
\* its number, its event or an update: for any products and number of sockets,
\* runs and messages (CoinbaseSpotMarketService and its handleMessage).
THEOREM CoinbaseBooksAreExact ==
  Coinbase!Spec => [](Coinbase!OneStreamEach /\ Coinbase!CoinbaseBookExact)
<1>1. Coinbase!Init => CoinbaseInv
  BY CoinbaseInit
<1>2. CoinbaseInv /\ [Coinbase!Next]_(Coinbase!vars) => CoinbaseInv'
  BY CoinbaseNext
<1>3. CoinbaseInv => Coinbase!OneStreamEach /\ Coinbase!CoinbaseBookExact
  BY CoinbaseImplies
<1>4. QED
  BY <1>1, <1>2, <1>3, PTL DEF Coinbase!Spec

\* What the run of MCCollectors checks of both venues: one stream each, and
\* nothing shown of a lead stream that was lost (connect, fail,
\* scheduleReconnect and stop of both services).
THEOREM VenueStreamsAreOne == MCSpec => []StreamsAreOne
<1>1. MCInit => MCInv
  BY VenuesInit
<1>2. MCInv /\ [MCNext]_mcVars => MCInv'
  BY VenuesNext DEF VenueStep
<1>3. MCInv => StreamsAreOne
  BY LeadImplies, CoinbaseImplies DEF MCInv, StreamsAreOne
<1>4. QED
  BY <1>1, <1>2, <1>3, PTL DEF MCSpec

\* The same for the book of Coinbase (applyBookSnapshot, applyBookUpdate and
\* the numbers that handleMessage compares).
THEOREM VenueBookIsExact == MCSpec => []CoinbaseBookExact
<1>1. MCInit => MCInv
  BY VenuesInit
<1>2. MCInv /\ [MCNext]_mcVars => MCInv'
  BY VenuesNext DEF VenueStep
<1>3. MCInv => CoinbaseBookExact
  BY CoinbaseImplies DEF MCInv, CoinbaseBookExact
<1>4. QED
  BY <1>1, <1>2, <1>3, PTL DEF MCSpec

\* The same for the open interest of the lead assets (ingestOpenInterest).
THEOREM VenueInterestMovesOn == MCSpec => OpenInterestMovesOn
<1>1. MCInit => MCInv
  BY VenuesInit
<1>2. MCInv /\ [MCNext]_mcVars => MCInv'
  BY VenuesNext DEF VenueStep
<1>3. MCInv /\ [MCNext]_mcVars => (OfLead => OpenInterestLater)
  BY VenuesNext, LeadLater DEF VenueStep
<1>4. QED
  BY <1>1, <1>2, <1>3, PTL DEF MCSpec, OpenInterestMovesOn
-----------------------------------------------------------------------------
(***************************************************************************)
(* The alt collector, whose channels carry the symbols that are followed:  *)
(* what the basket is does not matter, only that sockets are replaced when *)
(* its symbols change.                                                     *)
(***************************************************************************)
SocketOf(tag, state, symbols) == [tag |-> tag, state |-> state, symbols |-> symbols]

\* Sockets and a channel, whatever symbols the sockets were asked for
AltSocketsOk(live) ==
  /\ DOMAIN live \subseteq Nat \ {Alt!NoSocket}
  /\ \A s \in DOMAIN live :
       live[s] \in [tag : Alt!Tag, state : Alt!SocketStates, symbols : {live[s].symbols}]

AltSound(ch) ==
  /\ ch \in [current : Nat, reconnectTimer : Alt!Tag, planned : Nat, live : {ch.live}]
  /\ AltSocketsOk(ch.live)

AltAllClosing(ch) == \A s \in DOMAIN ch.live : ch.live[s].state = "closing"

AltOthersClose(ch) ==
  \A s \in DOMAIN ch.live : ch.live[s].state = "closing" \/ s = ch.current

\* One socket, or one timer: a timer is only set when the socket is gone, and
\* no socket works but the current one.
AltStreaming(ch, tag, symbols) ==
  /\ ch.reconnectTimer = IF ch.current = Alt!NoSocket THEN tag ELSE Alt!NoTag
  /\ ch.current # Alt!NoSocket =>
       /\ ch.current \in DOMAIN ch.live
       /\ ch.live[ch.current].tag = tag /\ ch.live[ch.current].symbols = symbols
  /\ AltOthersClose(ch)

\* Neither socket nor timer
Vacated(ch) == ch.current = Alt!NoSocket /\ ch.reconnectTimer = Alt!NoTag /\ AltAllClosing(ch)

AltServiceOk ==
  service \in [started : BOOLEAN, runGeneration : Nat, streamGeneration : Nat, timers : Nat,
               basket : {service.basket}, candidates : {service.candidates}]

AltChannelInv(c) ==
  /\ AltSound(channel[c])
  /\ service.started => AltStreaming(channel[c], Alt!CurrentTag, Alt!ActiveSymbols)
  /\ ~service.started => Alt!NoStream(channel[c])

\* What an accumulator holds of each stream
AltPublicOf(a) == a.book
AltElements(events) == {events[i] : i \in DOMAIN events}
AltInBuckets(buckets) == UNION {b.trades \cup {b.lastPrice} : b \in buckets}
AltMarketOf(a) ==
  a.lastPrice \cup a.mark \cup AltInBuckets(a.tradeBuckets) \cup AltElements(a.liquidations)
AltHolds(c, a) == IF c = "public" THEN AltPublicOf(a) ELSE AltMarketOf(a)

AltDelivered(e) == e.run <= service.streamGeneration /\ e.from # Alt!NoSocket
AltOfThisSocket(c, e) == e.run = service.streamGeneration => e.from = channel[c].current

AltEventInv ==
  /\ now \in Nat /\ \A f \in fetches : f.asked \in Nat
  /\ Alt!ActiveSymbols \subseteq DOMAIN accumulators
  /\ \A s \in DOMAIN accumulators :
       /\ accumulators[s] \in Alt!AltAccumulator
       /\ \A c \in Alt!Channels : \A e \in AltHolds(c, accumulators[s]) :
            AltDelivered(e) /\ (s \in Alt!ActiveSymbols => AltOfThisSocket(c, e))

AltChannelsInv ==
  /\ bound \in Bounds /\ AltServiceOk
  /\ DOMAIN channel = Alt!Channels /\ \A c \in Alt!Channels : AltChannelInv(c)

AltInv == AltChannelsInv /\ AltEventInv
-----------------------------------------------------------------------------
\* A channel with other fields
AltWith(ch, current, timer, planned, live) ==
  [ch EXCEPT !.current = current, !.reconnectTimer = timer,
             !.planned = planned, !.live = live]

\* Setting fields of a channel leaves the others, and leaves it sound.
LEMMA AltChannelSet ==
  ASSUME NEW ch, AltSound(ch), NEW current \in Nat, NEW timer \in Alt!Tag, NEW planned \in Nat, NEW live,
         AltSocketsOk(live)
  PROVE  /\ AltSound(AltWith(ch, current, timer, planned, live))
         /\ AltWith(ch, current, timer, planned, live).current = current
         /\ AltWith(ch, current, timer, planned, live).reconnectTimer = timer
         /\ AltWith(ch, current, timer, planned, live).planned = planned
         /\ AltWith(ch, current, timer, planned, live).live = live
<1> DEFINE r == AltWith(ch, current, timer, planned, live)
<1>1. /\ r \in [current : Nat, reconnectTimer : Alt!Tag, planned : Nat, live : {live}]
      /\ r.current = current /\ r.reconnectTimer = timer
      /\ r.planned = planned /\ r.live = live
  BY DEF AltSound, AltWith
<1>2. QED
  BY <1>1 DEF AltSound

\* A channel that takes a new socket has no timer.
LEMMA AltChannelJoined ==
  ASSUME NEW ch, AltSound(ch), NEW s \in Nat, NEW live, AltSocketsOk(live),
         NEW r, r = AltWith(ch, s, Alt!NoTag, ch.planned, live)
  PROVE  AltSound(r) /\ r.current = s /\ r.reconnectTimer = Alt!NoTag /\ r.live = live
<1>1. ch.planned \in Nat /\ Alt!NoTag \in Alt!Tag
  BY DEF AltSound, Alt!NoTag, Alt!Tag
<1>2. QED
  BY <1>1, AltChannelSet

\* A socket that is told to close keeps its tag and symbols.
LEMMA AltSocketSet ==
  ASSUME NEW ch, AltSound(ch), NEW s \in DOMAIN ch.live, NEW state \in Alt!SocketStates,
         NEW live, live = Alt!SetState(ch.live, s, state)
  PROVE  /\ DOMAIN live = DOMAIN ch.live /\ live[s].state = state
         /\ \A t \in DOMAIN live : t # s => live[t] = ch.live[t]
         /\ \A t \in DOMAIN live :
              /\ live[t].tag = ch.live[t].tag /\ live[t].symbols = ch.live[t].symbols
              /\ live[t] \in [tag : Alt!Tag, state : Alt!SocketStates, symbols : {live[t].symbols}]
         /\ AltSocketsOk(live)
<1>1. /\ DOMAIN live = DOMAIN ch.live
      /\ live[s] = [ch.live[s] EXCEPT !.state = state]
      /\ \A t \in DOMAIN live : t # s => live[t] = ch.live[t]
  BY DEF Alt!SetState
<1>2. ch.live[s] \in [tag : Alt!Tag, state : Alt!SocketStates, symbols : {ch.live[s].symbols}]
  BY DEF AltSound, AltSocketsOk
<1>3. /\ live[s] \in [tag : Alt!Tag, state : Alt!SocketStates, symbols : {ch.live[s].symbols}]
      /\ live[s].state = state /\ live[s].tag = ch.live[s].tag
      /\ live[s].symbols = ch.live[s].symbols
  BY <1>1, <1>2
<1>4. QED
  BY <1>1, <1>3 DEF AltSound, AltSocketsOk

\* An attempt to connect makes one socket, or sets the timer.
LEMMA ConnectedStreams ==
  ASSUME NEW ch, AltSound(ch), Vacated(ch), NEW tag \in Alt!Tag, NEW symbols, NEW max \in Nat,
         NEW r \in Alt!Connected(ch, tag, symbols, max)
  PROVE  AltSound(r) /\ AltStreaming(r, tag, symbols)
<1>1. /\ ch.current = Alt!NoSocket /\ ch.reconnectTimer = Alt!NoTag /\ AltAllClosing(ch)
      /\ ch.planned \in Nat /\ ch.current \in Nat /\ ch.reconnectTimer \in Alt!Tag
  BY DEF Vacated, AltSound
<1>2. CASE r = Alt!Scheduled(ch, tag)
  <2>1. r = [ch EXCEPT !.reconnectTimer = tag]
    BY <1>1, <1>2 DEF Alt!Scheduled
  <2>2. r = AltWith(ch, ch.current, tag, ch.planned, ch.live)
    BY <2>1 DEF AltSound, AltWith
  <2>3. /\ AltSound(r) /\ r.current = Alt!NoSocket /\ r.reconnectTimer = tag /\ r.live = ch.live
    <3>1. ch.planned \in Nat /\ ch.current \in Nat /\ AltSocketsOk(ch.live) /\ AltSound(ch)
      BY <1>1 DEF AltSound
    <3> DEFINE w == AltWith(ch, ch.current, tag, ch.planned, ch.live)
    <3>2. /\ AltSound(w) /\ w.current = ch.current /\ w.reconnectTimer = tag
          /\ w.live = ch.live
      BY <3>1, AltChannelSet
    <3> HIDE DEF w
    <3>3. QED
      BY <1>1, <2>2, <3>2 DEF w
  <2>4. QED
    BY <1>1, <2>3 DEF AltStreaming, AltOthersClose, AltAllClosing
<1>3. CASE r # Alt!Scheduled(ch, tag)
  <2> DEFINE free == (1 .. max) \ DOMAIN ch.live
             Joined(s) == [t \in DOMAIN ch.live \cup {s} |->
                            IF t \in DOMAIN ch.live THEN ch.live[t]
                            ELSE [tag |-> tag, state |-> "connecting", symbols |-> symbols]]
  <2>1. PICK s \in free : r = [ch EXCEPT !.current = s, !.live = Joined(s)]
    BY <1>3 DEF Alt!Connected
  <2>2. s \in Nat /\ s # Alt!NoSocket /\ s \notin DOMAIN ch.live
    BY DEF Alt!NoSocket
  <2> DEFINE live == Joined(s)
             new == [tag |-> tag, state |-> "connecting", symbols |-> symbols]
  <2>3. /\ new \in [tag : Alt!Tag, state : Alt!SocketStates, symbols : {new.symbols}]
        /\ new.tag = tag /\ new.symbols = symbols
    BY DEF Alt!SocketStates
  <2>4. /\ DOMAIN live = DOMAIN ch.live \cup {s} /\ live[s] = new
        /\ \A t \in DOMAIN ch.live : live[t] = ch.live[t]
    BY <2>2
  <2>5. r = AltWith(ch, s, Alt!NoTag, ch.planned, live)
    BY <1>1, <2>1 DEF AltSound, AltWith
  <2> HIDE DEF live, new
  <2>6. AltSocketsOk(live)
    BY <2>2, <2>3, <2>4 DEF AltSound, AltSocketsOk
  <2>7. /\ AltSound(r) /\ r.current = s /\ r.reconnectTimer = Alt!NoTag /\ r.live = live
    BY <2>2, <2>5, <2>6, AltChannelJoined
  <2>8. \A t \in DOMAIN live : live[t].state = "closing" \/ t = s
    BY <1>1, <2>4 DEF AltAllClosing
  <2>9. AltOthersClose(r)
    BY <2>7, <2>8 DEF AltOthersClose
  <2>10. s \in DOMAIN live /\ live[s].tag = tag /\ live[s].symbols = symbols
    BY <2>3, <2>4
  <2>11. QED
    BY <2>2, <2>7, <2>9, <2>10 DEF AltStreaming
<1>4. QED
  BY <1>2, <1>3

\* A channel that is released has neither, and nothing works any more.
LEMMA ReleasedVacates ==
  ASSUME NEW ch, AltSound(ch), AltOthersClose(ch), NEW r, r = Alt!Released(Alt!CloseSocket(ch))
  PROVE  AltSound(r) /\ Vacated(r) /\ r.planned = Alt!NoSocket
<1> DEFINE live == IF ch.current \in DOMAIN ch.live
                   THEN Alt!SetState(ch.live, ch.current, "closing") ELSE ch.live
<1>1. /\ DOMAIN live = DOMAIN ch.live
      /\ \A t \in DOMAIN live :
           live[t].state = "closing"
      /\ AltSocketsOk(live)
  BY AltSocketSet DEF AltSound, Alt!SocketStates, AltOthersClose
<1>2. r = AltWith(ch, Alt!NoSocket, Alt!NoTag, Alt!NoSocket, live)
  BY DEF Alt!Released, Alt!CloseSocket, AltSound, AltWith
<1> HIDE DEF live
<1>3. Alt!NoSocket \in Nat /\ Alt!NoTag \in Alt!Tag
  BY DEF Alt!NoSocket, Alt!NoTag, Alt!Tag
<1>4. /\ AltSound(r) /\ r.current = Alt!NoSocket /\ r.reconnectTimer = Alt!NoTag
      /\ r.planned = Alt!NoSocket /\ r.live = live
  BY <1>1, <1>2, <1>3, AltChannelSet
<1>5. QED
  BY <1>1, <1>4 DEF Vacated, AltAllClosing

\* A channel whose stream is replaced has one again.
LEMMA RebuiltStreams ==
  ASSUME NEW ch, AltSound(ch), AltOthersClose(ch), NEW tag \in Alt!Tag, NEW symbols, NEW max \in Nat,
         NEW r \in Alt!Connected(Alt!Released(Alt!CloseSocket(ch)), tag, symbols, max)
  PROVE  AltSound(r) /\ AltStreaming(r, tag, symbols)
<1> DEFINE released == Alt!Released(Alt!CloseSocket(ch))
<1>1. AltSound(released) /\ Vacated(released)
  BY ReleasedVacates
<1> HIDE DEF released
<1>2. r \in Alt!Connected(released, tag, symbols, max)
  BY DEF released
<1>3. QED
  BY <1>1, <1>2, ConnectedStreams

\* Sockets of a channel that have closed or were told to, or the current one,
\* in another state
AltRemains(ch, live) ==
  /\ AltSocketsOk(live)
  /\ DOMAIN live \subseteq DOMAIN ch.live
  /\ ch.current \in DOMAIN ch.live => ch.current \in DOMAIN live
  /\ \A s \in DOMAIN live :
       /\ live[s].tag = ch.live[s].tag /\ live[s].symbols = ch.live[s].symbols
       /\ live[s].state = "closing" \/ s = ch.current \/ live[s] = ch.live[s]

\* What happens to sockets that do not lose the current one leaves the
\* channel as it is.
LEMMA AltKeptStreams ==
  ASSUME NEW ch, AltSound(ch), NEW planned \in Nat, NEW live, AltRemains(ch, live),
         NEW r, r = AltWith(ch, ch.current, ch.reconnectTimer, planned, live)
  PROVE  /\ AltSound(r) /\ r.current = ch.current
         /\ \A tag, symbols : AltStreaming(ch, tag, symbols) => AltStreaming(r, tag, symbols)
         /\ Alt!NoStream(ch) /\ planned = Alt!NoSocket => Alt!NoStream(r)
<1>1. ch.current \in Nat /\ ch.reconnectTimer \in Alt!Tag
  BY DEF AltSound
<1>2. /\ AltSound(r) /\ r.current = ch.current /\ r.reconnectTimer = ch.reconnectTimer
      /\ r.planned = planned /\ r.live = live
  BY <1>1, AltChannelSet DEF AltRemains
<1>3. \A tag, symbols : AltStreaming(ch, tag, symbols) => AltStreaming(r, tag, symbols)
  BY <1>2 DEF AltStreaming, AltOthersClose, AltRemains
<1>4. Alt!NoStream(ch) /\ planned = Alt!NoSocket => Alt!NoStream(r)
  BY <1>2 DEF Alt!NoStream, AltSound, AltSocketsOk, AltRemains
<1>5. QED
  BY <1>2, <1>3, <1>4

\* When the current socket is lost the timer takes its place.
LEMMA AltLostStreams ==
  ASSUME NEW ch, AltSound(ch), NEW tag \in Alt!Tag, NEW symbols, AltStreaming(ch, tag, symbols),
         ch.current # Alt!NoSocket, NEW live, AltSocketsOk(live),
         \A s \in DOMAIN live : live[s].state = "closing",
         NEW r, r = Alt!Lost([ch EXCEPT !.live = live], tag)
  PROVE  AltSound(r) /\ r.current = Alt!NoSocket /\ AltStreaming(r, tag, symbols)
<1>1. ch.reconnectTimer = Alt!NoTag
  BY DEF AltStreaming
<1>2. r = AltWith(ch, Alt!NoSocket, tag, Alt!NoSocket, live)
  BY <1>1 DEF Alt!Lost, Alt!Scheduled, AltSound, AltWith
<1>3. Alt!NoSocket \in Nat
  BY DEF Alt!NoSocket
<1>4. /\ AltSound(r) /\ r.current = Alt!NoSocket /\ r.reconnectTimer = tag
      /\ r.planned = Alt!NoSocket /\ r.live = live
  BY <1>2, <1>3, AltChannelSet
<1>5. QED
  BY <1>4 DEF AltStreaming, AltOthersClose
-----------------------------------------------------------------------------
(***************************************************************************)
(* Steps of a channel.                                                     *)
(***************************************************************************)
\* What CurrentTag is made of.
LEMMA AltTagOk ==
  ASSUME AltChannelsInv
  PROVE  /\ Alt!CurrentTag \in Alt!Tag
         /\ Alt!CurrentTag.run = service.runGeneration
         /\ Alt!CurrentTag.generation = service.streamGeneration
         /\ service.runGeneration \in Nat /\ service.streamGeneration \in Nat
         /\ service.started \in BOOLEAN
         /\ \A c \in Alt!Channels : bound.sockets[c] \in Nat
BY LeadCollectorAssumption DEF Channels, Alt!Channels, AltChannelsInv, AltServiceOk, Alt!CurrentTag, Alt!Tag

\* What an event of a socket does to its channel
AltKeeps == \A d \in Alt!Channels : channel'[d].current = channel[d].current

AltResets(c) ==
  /\ channel'[c].current = Alt!NoSocket
  /\ \A d \in Alt!Channels \ {c} : channel'[d] = channel[d]
  /\ accumulators' = [s \in DOMAIN accumulators |->
                        IF s \notin Alt!ActiveSymbols THEN accumulators[s]
                        ELSE IF c = "public" THEN Alt!ResetPublicStream(accumulators[s])
                        ELSE Alt!ResetMarketStream(accumulators[s])]

\* A channel of a service that does not change
LEMMA ChannelFrame ==
  ASSUME AltChannelsInv, NEW c \in Alt!Channels, UNCHANGED <<bound, service>>,
         channel' = [channel EXCEPT ![c] = channel'[c]], AltSound(channel[c])',
         service.started => AltStreaming(channel[c]', Alt!CurrentTag, Alt!ActiveSymbols),
         ~service.started => Alt!NoStream(channel[c])'
  PROVE  AltChannelsInv' /\ \A d \in Alt!Channels \ {c} : channel'[d] = channel[d]
<1>1. /\ DOMAIN channel' = Alt!Channels
      /\ \A d \in Alt!Channels \ {c} : channel'[d] = channel[d]
  BY DEF AltChannelsInv
<1>2. Alt!CurrentTag' = Alt!CurrentTag /\ Alt!ActiveSymbols' = Alt!ActiveSymbols
  BY DEF Alt!CurrentTag, Alt!ActiveSymbols
<1>3. AltChannelInv(c)'
  BY <1>2 DEF AltChannelInv
<1>4. \A d \in Alt!Channels \ {c} : AltChannelInv(d)'
  BY <1>1, <1>2 DEF AltChannelInv, AltChannelsInv
<1>5. QED
  BY <1>1, <1>3, <1>4 DEF AltChannelsInv, AltServiceOk

\* The socket that is current is the one this.sockets names.
LEMMA AltCurrentSocket ==
  ASSUME AltChannelsInv, NEW c \in Alt!Channels, NEW s \in Alt!Live(c)
  PROVE  Alt!IsCurrentSocket(c, s) <=> service.started /\ s = channel[c].current
<1>1. s \in Nat /\ s # Alt!NoSocket
  BY DEF AltChannelsInv, AltChannelInv, AltSound, AltSocketsOk, Alt!Live
<1>2. ASSUME service.started, s = channel[c].current
      PROVE  channel[c].live[s].tag = Alt!CurrentTag
  BY <1>1, <1>2 DEF AltChannelsInv, AltChannelInv, AltStreaming
<1>3. QED
  BY <1>2, AltTagOk DEF Alt!IsCurrentSocket, Alt!IsActive, Alt!Live

\* In either state of the service the channel is sound, and only its current
\* socket is not closing.
LEMMA AltChannelFacts ==
  ASSUME AltChannelsInv, NEW c \in Alt!Channels
  PROVE  /\ AltSound(channel[c]) /\ AltOthersClose(channel[c])
         /\ service.started => AltStreaming(channel[c], Alt!CurrentTag, Alt!ActiveSymbols)
         /\ ~service.started => Alt!NoStream(channel[c])
         /\ service.started \in BOOLEAN
BY AltTagOk DEF AltChannelsInv, AltChannelInv, AltStreaming, Alt!NoStream, AltOthersClose

\* The sockets change, the current one stays.
LEMMA SocketsFrame ==
  ASSUME AltChannelsInv, NEW c \in Alt!Channels, UNCHANGED <<bound, service>>,
         NEW planned \in Nat, NEW live, AltRemains(channel[c], live),
         ~service.started => planned = Alt!NoSocket,
         channel' = [channel EXCEPT ![c] = [@ EXCEPT !.live = live, !.planned = planned]]
  PROVE  AltChannelsInv' /\ AltKeeps
<1> DEFINE ch == channel[c]
           r == [ch EXCEPT !.live = live, !.planned = planned]
<1>1. /\ AltSound(ch) /\ service.started \in BOOLEAN
      /\ service.started => AltStreaming(ch, Alt!CurrentTag, Alt!ActiveSymbols)
      /\ ~service.started => Alt!NoStream(ch)
  BY AltChannelFacts
<1>2. channel'[c] = r /\ channel' = [channel EXCEPT ![c] = channel'[c]]
  BY DEF AltChannelsInv
<1>3. r = AltWith(ch, ch.current, ch.reconnectTimer, planned, live)
  BY <1>1 DEF AltSound, AltWith
<1> HIDE DEF r
<1>4. /\ AltSound(r) /\ r.current = ch.current
      /\ \A tag, symbols : AltStreaming(ch, tag, symbols) => AltStreaming(r, tag, symbols)
      /\ Alt!NoStream(ch) /\ planned = Alt!NoSocket => Alt!NoStream(r)
  <2> HIDE DEF ch
  <2> QED
    BY <1>1, <1>3, AltKeptStreams DEF ch
<1>5. /\ service.started => AltStreaming(channel'[c], Alt!CurrentTag, Alt!ActiveSymbols)
      /\ ~service.started => Alt!NoStream(channel'[c])
  BY <1>1, <1>2, <1>4
<1>6. AltChannelsInv' /\ \A d \in Alt!Channels \ {c} : channel'[d] = channel[d]
  BY <1>2, <1>4, <1>5, ChannelFrame
<1>7. QED
  BY <1>2, <1>4, <1>6 DEF AltKeeps

\* A socket that opens is the current one: no other is still connecting.
LEMMA AltSocketOpensChannel ==
  ASSUME AltChannelsInv, NEW c \in Alt!Channels, NEW s \in Alt!Live(c), Alt!SocketOpens(c, s)
  PROVE  AltChannelsInv' /\ AltKeeps
<1> DEFINE ch == channel[c]
           live == Alt!SetState(ch.live, s, "open")
           planned == IF Alt!IsCurrentSocket(c, s) THEN s ELSE ch.planned
<1>1. /\ AltSound(ch) /\ AltOthersClose(ch) /\ service.started \in BOOLEAN
      /\ ~service.started => Alt!NoStream(ch)
      /\ s \in DOMAIN ch.live /\ ch.live[s].state = "connecting"
  BY AltChannelFacts DEF Alt!SocketOpens, Alt!Live
<1>2. s = ch.current /\ service.started
  BY <1>1 DEF AltOthersClose, Alt!NoStream
<1>3. planned \in Nat
  BY <1>1 DEF AltSound, AltSocketsOk
<1>4. AltRemains(ch, live)
  BY <1>1, <1>2, AltSocketSet DEF Alt!SocketStates, AltRemains
<1>5. channel' = [channel EXCEPT ![c] = [@ EXCEPT !.live = live, !.planned = planned]]
  BY DEF Alt!SocketOpens
<1>6. UNCHANGED <<bound, service>>
  BY DEF Alt!SocketOpens
<1> HIDE DEF live, planned
<1>7. QED
  BY <1>1, <1>2, <1>3, <1>4, <1>5, <1>6, SocketsFrame

\* A socket that is told to close, whichever it is
LEMMA ClosedRemains ==
  ASSUME NEW ch, AltSound(ch), NEW s \in DOMAIN ch.live, AltOthersClose(ch)
  PROVE  /\ AltRemains(ch, Alt!SetState(ch.live, s, "closing"))
         /\ s # ch.current => AltRemains(ch, Alt!Forget(ch.live, s))
         /\ AltSocketsOk(Alt!SetState(ch.live, s, "closing")) /\ AltSocketsOk(Alt!Forget(ch.live, s))
         /\ s = ch.current =>
              /\ \A t \in DOMAIN Alt!SetState(ch.live, s, "closing") :
                   Alt!SetState(ch.live, s, "closing")[t].state = "closing"
              /\ \A t \in DOMAIN Alt!Forget(ch.live, s) :
                   Alt!Forget(ch.live, s)[t].state = "closing"
<1> DEFINE closed == Alt!SetState(ch.live, s, "closing")
           gone == Alt!Forget(ch.live, s)
<1>1. /\ DOMAIN closed = DOMAIN ch.live /\ closed[s].state = "closing"
      /\ \A t \in DOMAIN closed : t # s => closed[t] = ch.live[t]
      /\ \A t \in DOMAIN closed :
           closed[t].tag = ch.live[t].tag /\ closed[t].symbols = ch.live[t].symbols
      /\ AltSocketsOk(closed)
  BY AltSocketSet DEF Alt!SocketStates
<1>2. /\ DOMAIN gone = DOMAIN ch.live \ {s}
      /\ \A t \in DOMAIN gone : gone[t] = ch.live[t]
  BY DEF Alt!Forget
<1> HIDE DEF closed, gone
<1>3. AltSocketsOk(gone)
  BY <1>2 DEF AltSound, AltSocketsOk
<1>4. AltRemains(ch, closed)
  BY <1>1 DEF AltRemains
<1>5. s # ch.current => AltRemains(ch, gone)
  BY <1>2, <1>3 DEF AltRemains
<1>6. s = ch.current => /\ \A t \in DOMAIN closed : closed[t].state = "closing"
                        /\ \A t \in DOMAIN gone : gone[t].state = "closing"
  BY <1>1, <1>2 DEF AltOthersClose
<1>7. QED
  BY <1>1, <1>3, <1>4, <1>5, <1>6 DEF closed, gone

\* The planned reconnect only tells a socket to close.
LEMMA AltPlannedReconnectChannel ==
  ASSUME AltChannelsInv, NEW c \in Alt!Channels, Alt!PlannedReconnect(c)
  PROVE  AltChannelsInv' /\ AltKeeps
<1> DEFINE ch == channel[c]
           live == Alt!SetState(ch.live, ch.planned, "closing")
           planned == ch.planned
<1>1. /\ AltSound(ch) /\ AltOthersClose(ch)
      /\ ~service.started => planned = Alt!NoSocket
      /\ planned \in DOMAIN ch.live /\ planned \in Nat
  BY AltChannelFacts DEF Alt!PlannedReconnect, Alt!Live, AltSound, Alt!NoStream
<1>2. AltRemains(ch, live)
  BY <1>1, ClosedRemains
<1>3. channel' = [channel EXCEPT ![c] = [@ EXCEPT !.live = live]]
  BY DEF Alt!PlannedReconnect
<1>4. [ch EXCEPT !.live = live] = [ch EXCEPT !.live = live, !.planned = planned]
  BY <1>1 DEF AltSound
<1>5. UNCHANGED <<bound, service>>
  BY DEF Alt!PlannedReconnect
<1> HIDE DEF live, planned
<1>6. channel' = [channel EXCEPT ![c] = [@ EXCEPT !.live = live, !.planned = planned]]
  BY <1>3, <1>4
<1>7. QED
  BY <1>1, <1>2, <1>5, <1>6, SocketsFrame

\* failSocket of the current socket
LEMMA AltLostFrame ==
  ASSUME AltChannelsInv, NEW c \in Alt!Channels, UNCHANGED <<bound, service>>, service.started,
         channel[c].current # Alt!NoSocket, NEW live, AltSocketsOk(live),
         \A t \in DOMAIN live : live[t].state = "closing",
         channel' = [channel EXCEPT ![c] = Alt!Lost([channel[c] EXCEPT !.live = live], Alt!CurrentTag)]
  PROVE  /\ AltChannelsInv' /\ channel'[c].current = Alt!NoSocket
         /\ \A d \in Alt!Channels \ {c} : channel'[d] = channel[d]
<1> DEFINE ch == channel[c]
           r == Alt!Lost([ch EXCEPT !.live = live], Alt!CurrentTag)
           tag == Alt!CurrentTag
           symbols == Alt!ActiveSymbols
<1>1. AltSound(ch) /\ AltStreaming(ch, tag, symbols) /\ tag \in Alt!Tag
  BY AltChannelFacts, AltTagOk
<1>2. channel'[c] = r /\ channel' = [channel EXCEPT ![c] = channel'[c]]
  BY DEF AltChannelsInv
<1>3. AltSound(r) /\ r.current = Alt!NoSocket /\ AltStreaming(r, tag, symbols)
  <2> HIDE DEF ch, tag, symbols
  <2>1. r = Alt!Lost([ch EXCEPT !.live = live], tag)
    BY DEF tag
  <2> HIDE DEF r
  <2> QED
    BY <1>1, <2>1, AltLostStreams DEF ch
<1> HIDE DEF r
<1>4. QED
  BY <1>2, <1>3, ChannelFrame

\* failSocket of another socket
LEMMA AltIgnoredFrame ==
  ASSUME AltChannelsInv, NEW c \in Alt!Channels, UNCHANGED <<bound, service>>,
         NEW live, AltRemains(channel[c], live),
         channel' = [channel EXCEPT ![c] = [channel[c] EXCEPT !.live = live]]
  PROVE  AltChannelsInv' /\ AltKeeps
<1> DEFINE ch == channel[c]
           planned == ch.planned
<1>1. /\ AltSound(ch) /\ planned \in Nat
      /\ ~service.started => planned = Alt!NoSocket
  BY AltChannelFacts DEF AltSound, Alt!NoStream
<1>2. [ch EXCEPT !.live = live] = [ch EXCEPT !.live = live, !.planned = planned]
  BY <1>1 DEF AltSound
<1>3. channel' = [channel EXCEPT ![c] = [@ EXCEPT !.live = live, !.planned = planned]]
  BY <1>2
<1> HIDE DEF planned
<1>4. QED
  BY <1>1, <1>3, SocketsFrame

\* failSocket, with the sockets that are left
LEMMA EndedFrame ==
  ASSUME AltChannelsInv, NEW c \in Alt!Channels, NEW s \in Alt!Live(c), UNCHANGED <<bound, service>>,
         NEW live, AltSocketsOk(live), s # channel[c].current => AltRemains(channel[c], live),
         s = channel[c].current => \A t \in DOMAIN live : live[t].state = "closing",
         ~service.started => AltRemains(channel[c], live),
         IF Alt!IsCurrentSocket(c, s) THEN Alt!FailSocket(c, [channel[c] EXCEPT !.live = live])
         ELSE Alt!IgnoreSocket(c, [channel[c] EXCEPT !.live = live])
  PROVE  AltChannelsInv' /\ (AltResets(c) \/ (AltKeeps /\ UNCHANGED accumulators))
<1>1. CASE Alt!IsCurrentSocket(c, s)
  <2>1. service.started /\ s = channel[c].current /\ s # Alt!NoSocket
    BY <1>1, AltCurrentSocket, AltChannelFacts DEF AltSound, AltSocketsOk, Alt!Live
  <2>2. /\ channel' = [channel EXCEPT ![c] = Alt!Lost([channel[c] EXCEPT !.live = live], Alt!CurrentTag)]
        /\ accumulators' = [t \in DOMAIN accumulators |->
                              IF t \notin Alt!ActiveSymbols THEN accumulators[t]
                              ELSE IF c = "public" THEN Alt!ResetPublicStream(accumulators[t])
                              ELSE Alt!ResetMarketStream(accumulators[t])]
    BY <1>1 DEF Alt!FailSocket
  <2>3. QED
    BY <2>1, <2>2, AltLostFrame DEF AltResets
<1>2. CASE ~Alt!IsCurrentSocket(c, s)
  <2>1. channel' = [channel EXCEPT ![c] = [channel[c] EXCEPT !.live = live]]
        /\ UNCHANGED accumulators
    BY <1>2 DEF Alt!IgnoreSocket
  <2>2. AltRemains(channel[c], live)
    BY <1>2, AltCurrentSocket, AltTagOk
  <2>3. QED
    BY <2>1, <2>2, AltIgnoredFrame
<1>3. QED
  BY <1>1, <1>2

\* An error closes the socket.
LEMMA AltSocketErrorsChannel ==
  ASSUME AltChannelsInv, NEW c \in Alt!Channels, NEW s \in Alt!Live(c), Alt!SocketErrors(c, s)
  PROVE  AltChannelsInv' /\ (AltResets(c) \/ (AltKeeps /\ UNCHANGED accumulators))
<1> DEFINE live == Alt!SetState(channel[c].live, s, "closing")
<1>1. /\ AltRemains(channel[c], live) /\ AltSocketsOk(live)
      /\ s = channel[c].current => \A t \in DOMAIN live : live[t].state = "closing"
  BY AltChannelFacts, ClosedRemains DEF Alt!Live
<1>2. IF Alt!IsCurrentSocket(c, s) THEN Alt!FailSocket(c, [channel[c] EXCEPT !.live = live])
      ELSE Alt!IgnoreSocket(c, [channel[c] EXCEPT !.live = live])
  BY DEF Alt!SocketErrors
<1>3. UNCHANGED <<bound, service>>
  BY DEF Alt!SocketErrors
<1> HIDE DEF live
<1>4. QED
  BY <1>1, <1>2, <1>3, EndedFrame

\* A close event takes the socket away.
LEMMA AltSocketClosesChannel ==
  ASSUME AltChannelsInv, NEW c \in Alt!Channels, NEW s \in Alt!Live(c), Alt!SocketCloses(c, s)
  PROVE  AltChannelsInv' /\ (AltResets(c) \/ (AltKeeps /\ UNCHANGED accumulators))
<1> DEFINE live == Alt!Forget(channel[c].live, s)
<1>1. /\ AltSocketsOk(live) /\ (s # channel[c].current => AltRemains(channel[c], live))
      /\ s = channel[c].current => \A t \in DOMAIN live : live[t].state = "closing"
  BY AltChannelFacts, ClosedRemains DEF Alt!Live
<1>2. ~service.started => s # channel[c].current
  BY AltChannelFacts DEF Alt!NoStream, AltSound, AltSocketsOk, Alt!Live
<1>3. IF Alt!IsCurrentSocket(c, s) THEN Alt!FailSocket(c, [channel[c] EXCEPT !.live = live])
      ELSE Alt!IgnoreSocket(c, [channel[c] EXCEPT !.live = live])
  BY DEF Alt!SocketCloses
<1>4. UNCHANGED <<bound, service>>
  BY DEF Alt!SocketCloses
<1> HIDE DEF live
<1>5. QED
  BY <1>1, <1>2, <1>3, <1>4, EndedFrame

\* The timer that fires is of this generation, and no socket has taken its
\* place.
LEMMA AltReconnectTimerFiresChannel ==
  ASSUME AltChannelsInv, NEW c \in Alt!Channels, Alt!ReconnectTimerFires(c)
  PROVE  /\ AltChannelsInv' /\ channel[c].current = Alt!NoSocket
         /\ \A d \in Alt!Channels \ {c} : channel'[d] = channel[d]
<1> DEFINE ch == channel[c]
           tag == Alt!CurrentTag
           symbols == Alt!ActiveSymbols
           fired == [ch EXCEPT !.reconnectTimer = Alt!NoTag]
           max == bound.sockets[c]
<1>1. /\ AltSound(ch) /\ AltOthersClose(ch) /\ tag \in Alt!Tag /\ max \in Nat
      /\ UNCHANGED <<bound, service>>
      /\ ch.reconnectTimer # Alt!NoTag
  BY AltChannelFacts, AltTagOk DEF Alt!ReconnectTimerFires
<1>2. service.started /\ AltStreaming(ch, tag, symbols)
  BY <1>1, AltChannelFacts DEF Alt!NoStream
<1>3. ch.reconnectTimer = tag /\ ch.current = Alt!NoSocket
  BY <1>1, <1>2 DEF AltStreaming
<1>4. Alt!IsActive(tag.run) /\ tag.generation = service.streamGeneration
  BY <1>2, AltTagOk DEF Alt!IsActive
<1>5. PICK r \in Alt!Connected(fired, tag, symbols, max) : channel' = [channel EXCEPT ![c] = r]
  BY <1>3, <1>4 DEF Alt!ReconnectTimerFires
<1>6. AltSound(fired) /\ Vacated(fired)
  <2>1. fired = AltWith(ch, ch.current, Alt!NoTag, ch.planned, ch.live)
    BY <1>1 DEF AltSound, AltWith
  <2>2. ch.current \in Nat /\ ch.planned \in Nat /\ AltSocketsOk(ch.live) /\ Alt!NoTag \in Alt!Tag
    BY <1>1 DEF AltSound, Alt!Tag, Alt!NoTag
  <2>3. /\ AltSound(fired) /\ fired.current = Alt!NoSocket /\ fired.reconnectTimer = Alt!NoTag
        /\ fired.live = ch.live
    BY <1>1, <1>3, <2>1, <2>2, AltChannelSet
  <2>4. AltAllClosing(ch)
    BY <1>1, <1>3 DEF AltOthersClose, AltAllClosing, AltSound, AltSocketsOk
  <2>5. QED
    BY <2>3, <2>4 DEF Vacated, AltAllClosing
<1> HIDE DEF fired, max, tag, symbols
<1>7. AltSound(r) /\ AltStreaming(r, tag, symbols)
  BY <1>1, <1>5, <1>6, ConnectedStreams
<1>8. channel'[c] = r /\ channel' = [channel EXCEPT ![c] = channel'[c]]
  BY <1>5 DEF AltChannelsInv
<1>9. QED
  BY <1>1, <1>2, <1>3, <1>7, <1>8, ChannelFrame DEF tag, symbols
-----------------------------------------------------------------------------
(***************************************************************************)
(* start, stop and the basket.                                             *)
(***************************************************************************)
\* New streams for `symbols` under `tag`
LEMMA RebuildStreamsChannels ==
  ASSUME AltChannelsInv, NEW tag \in Alt!Tag, NEW symbols, Alt!RebuildStreams(tag, symbols)
  PROVE  /\ DOMAIN channel' = Alt!Channels
         /\ \A c \in Alt!Channels : AltSound(channel'[c]) /\ AltStreaming(channel'[c], tag, symbols)
<1> DEFINE Rebuilt(c) == Alt!Connected(Alt!Released(Alt!CloseSocket(channel[c])), tag, symbols, bound.sockets[c])
<1>1. PICK public \in Rebuilt("public"), market \in Rebuilt("market") :
        channel' = [public |-> public, market |-> market]
  BY DEF Alt!RebuildStreams
<1>2. \A c \in Alt!Channels : bound.sockets[c] \in Nat /\ AltSound(channel[c]) /\ AltOthersClose(channel[c])
  BY AltTagOk, AltChannelFacts
<1>3. \A c \in Alt!Channels : \A r \in Rebuilt(c) : AltSound(r) /\ AltStreaming(r, tag, symbols)
  BY <1>2, RebuiltStreams
<1> HIDE DEF Rebuilt
<1>4. QED
  BY <1>1, <1>3 DEF Alt!Channels

\* start: streams of a new generation
LEMMA AltStartChannels ==
  ASSUME AltChannelsInv, Alt!Start
  PROVE  /\ AltChannelsInv' /\ service'.streamGeneration > service.streamGeneration
         /\ Alt!ActiveSymbols' = Alt!ActiveSymbols
<1> DEFINE run == service.runGeneration + 1
           generation == service.streamGeneration + 1
           tag == [run |-> run, generation |-> generation]
<1>1. tag \in Alt!Tag /\ run \in Nat /\ generation \in Nat
  BY AltTagOk DEF Alt!Tag
<1>2. /\ service'.started /\ service'.runGeneration = run
      /\ service'.streamGeneration = generation
      /\ service'.basket = service.basket
      /\ AltServiceOk'
  BY <1>1 DEF Alt!Start, AltChannelsInv, AltServiceOk
<1>3. Alt!CurrentTag' = tag /\ Alt!ActiveSymbols' = Alt!ActiveSymbols
  BY <1>2 DEF Alt!CurrentTag, Alt!ActiveSymbols
<1>4. Alt!RebuildStreams(tag, Alt!ActiveSymbols)
  BY DEF Alt!Start
<1>5. /\ DOMAIN channel' = Alt!Channels
      /\ \A c \in Alt!Channels : AltSound(channel'[c]) /\ AltStreaming(channel'[c], tag, Alt!ActiveSymbols)
  BY <1>1, <1>4, RebuildStreamsChannels
<1>6. \A c \in Alt!Channels : AltChannelInv(c)'
  BY <1>2, <1>3, <1>5 DEF AltChannelInv
<1>7. QED
  BY <1>2, <1>3, <1>5, <1>6, AltTagOk DEF AltChannelsInv, Alt!Start

\* stop: every channel at rest, and a new generation
LEMMA AltStopChannels ==
  ASSUME AltChannelsInv, Alt!Stop
  PROVE  /\ AltChannelsInv' /\ service'.streamGeneration > service.streamGeneration
         /\ Alt!ActiveSymbols' = Alt!ActiveSymbols
<1>1. /\ ~service'.started /\ service'.basket = service.basket
      /\ service'.streamGeneration = service.streamGeneration + 1
      /\ AltServiceOk'
  <2> DEFINE run == service.runGeneration + 1
             generation == service.streamGeneration + 1
  <2>1. run \in Nat /\ generation \in Nat /\ 0 \in Nat /\ FALSE \in BOOLEAN
    BY AltTagOk
  <2>2. service' = [service EXCEPT !.started = FALSE, !.runGeneration = run,
                                   !.streamGeneration = generation, !.timers = 0]
    BY DEF Alt!Stop, Alt!NoRun
  <2> HIDE DEF run
  <2>3. QED
    BY <2>1, <2>2 DEF AltChannelsInv, AltServiceOk
<1>2. \A c \in Alt!Channels : AltSound(channel[c]) /\ AltOthersClose(channel[c])
  BY AltChannelFacts
<1>3. /\ DOMAIN channel' = Alt!Channels
      /\ \A c \in Alt!Channels : channel'[c] = Alt!Released(Alt!CloseSocket(channel[c]))
  BY DEF Alt!Stop
<1>4. \A c \in Alt!Channels : /\ AltSound(channel'[c]) /\ Vacated(channel'[c])
                               /\ channel'[c].planned = Alt!NoSocket
  BY <1>2, <1>3, ReleasedVacates
<1>5. \A c \in Alt!Channels : AltChannelInv(c)'
  BY <1>1, <1>4 DEF AltChannelInv, Vacated, AltAllClosing, Alt!NoStream
<1>6. QED
  BY <1>1, <1>3, <1>5, AltTagOk DEF AltChannelsInv, Alt!Stop, Alt!ActiveSymbols

\* Whatever the basket becomes: other symbols mean new streams.
LEMMA ApplyCandidatesChannels ==
  ASSUME AltChannelsInv, service.started, UNCHANGED bound, NEW candidates,
         Alt!ApplyCandidates(candidates)
  PROVE  /\ AltChannelsInv'
         /\ \/ service'.streamGeneration > service.streamGeneration
            \/ /\ service'.streamGeneration = service.streamGeneration
               /\ Alt!ActiveSymbols' = Alt!ActiveSymbols /\ UNCHANGED channel
         /\ DOMAIN accumulators' = DOMAIN accumulators \cup Alt!ActiveSymbols'
         /\ \A s \in DOMAIN accumulators' :
              IF s \notin DOMAIN accumulators
              THEN accumulators'[s] = Alt!NewAltAccumulator("DYNAMIC")
              ELSE \E tier \in Alt!Tiers \cup {accumulators[s].tier} :
                     accumulators'[s] = [accumulators[s] EXCEPT !.tier = tier]
<1> DEFINE dynamic == {c \in candidates : c.symbol \notin CoreSymbols}
           basket  == Alt!SelectDynamicBasket(now, dynamic, service.basket)
           chosen  == {m.symbol : m \in basket}
           active  == CoreSymbols \cup chosen
           rebuild == active # Alt!ActiveSymbols
           found   == {c.symbol : c \in dynamic}
           next    == IF rebuild THEN service.streamGeneration + 1 ELSE service.streamGeneration
           tag     == [run |-> service.runGeneration, generation |-> next]
<1> HIDE DEF basket
<1>1. /\ service' = [service EXCEPT !.basket = basket, !.candidates = found,
                                   !.streamGeneration = next]
      /\ IF rebuild THEN Alt!RebuildStreams(tag, active) ELSE UNCHANGED channel
      /\ accumulators' =
           [s \in DOMAIN accumulators \cup active |->
              IF s \notin DOMAIN accumulators THEN Alt!NewAltAccumulator("DYNAMIC")
              ELSE [accumulators[s] EXCEPT
                      !.tier = IF s \in CoreSymbols THEN "SENTIMENT_CORE"
                               ELSE IF s \in chosen THEN "DYNAMIC"
                               ELSE accumulators[s].tier]]
  BY DEF Alt!ApplyCandidates, basket
<1>2. /\ next \in Nat /\ tag \in Alt!Tag
      /\ rebuild => next > service.streamGeneration
      /\ ~rebuild => next = service.streamGeneration
  BY AltTagOk DEF Alt!Tag
<1> HIDE DEF found, next
<1>3. /\ service'.basket = basket /\ service'.started = service.started
      /\ service'.runGeneration = service.runGeneration /\ service'.streamGeneration = next
      /\ AltServiceOk'
  BY <1>1, <1>2 DEF AltChannelsInv, AltServiceOk
<1>4. Alt!ActiveSymbols' = active /\ Alt!CurrentTag' = tag
  BY <1>3 DEF Alt!ActiveSymbols, Alt!CurrentTag
<1> HIDE DEF chosen
<1>5. /\ DOMAIN channel' = Alt!Channels
      /\ \A c \in Alt!Channels : AltSound(channel'[c]) /\ AltStreaming(channel'[c], tag, active)
  <2>1. CASE rebuild
    BY <1>1, <1>2, <2>1, RebuildStreamsChannels
  <2>2. CASE ~rebuild
    <3>1. channel' = channel /\ tag = Alt!CurrentTag /\ active = Alt!ActiveSymbols
      BY <1>1, <1>2, <2>2 DEF Alt!CurrentTag
    <3>2. QED
      BY <3>1, AltChannelFacts DEF AltChannelsInv
  <2>3. QED
    BY <2>1, <2>2
<1>6. \A c \in Alt!Channels : AltChannelInv(c)'
  BY <1>3, <1>4, <1>5 DEF AltChannelInv
<1>7. AltChannelsInv'
  BY <1>3, <1>5, <1>6 DEF AltChannelsInv
<1>8. \/ service'.streamGeneration > service.streamGeneration
      \/ /\ service'.streamGeneration = service.streamGeneration
         /\ Alt!ActiveSymbols' = Alt!ActiveSymbols /\ UNCHANGED channel
  BY <1>1, <1>2, <1>3, <1>4
<1>9. /\ DOMAIN accumulators' = DOMAIN accumulators \cup Alt!ActiveSymbols'
      /\ \A s \in DOMAIN accumulators' :
           IF s \notin DOMAIN accumulators
           THEN accumulators'[s] = Alt!NewAltAccumulator("DYNAMIC")
           ELSE \E tier \in Alt!Tiers \cup {accumulators[s].tier} :
                  accumulators'[s] = [accumulators[s] EXCEPT !.tier = tier]
  BY <1>1, <1>4 DEF Alt!Tiers
<1>10. QED
  BY <1>7, <1>8, <1>9

\* The channels of a service that does nothing to them
LEMMA AltChannelsStay ==
  ASSUME AltChannelsInv, UNCHANGED <<bound, service, channel>>
  PROVE  /\ AltChannelsInv' /\ AltKeeps
         /\ Alt!ActiveSymbols' = Alt!ActiveSymbols
         /\ service'.streamGeneration = service.streamGeneration
BY DEF AltChannelsInv, AltServiceOk, AltChannelInv, AltKeeps, Alt!ActiveSymbols, Alt!CurrentTag
-----------------------------------------------------------------------------
(***************************************************************************)
(* What an accumulator holds.                                              *)
(***************************************************************************)
\* A set of numbers that is not empty has a minimum.
LEMMA AltLeastNumber ==
  ASSUME NEW S \in SUBSET Nat, S # {}
  PROVE  Alt!Min(S) \in S
BY LeastNumber DEF Alt!Min, Min

\* What is left of a list without its head was in it.
LEMMA AltHeadCut ==
  ASSUME NEW events \in Seq(Alt!Event), NEW cutoff
  PROVE  /\ Alt!WithoutOldHead(events, cutoff) \in Seq(Alt!Event)
         /\ AltElements(Alt!WithoutOldHead(events, cutoff)) \subseteq AltElements(events)
<1> DEFINE young == {i \in DOMAIN events : events[i].at >= cutoff}
           m == Alt!Min(young)
           n == Len(events)
           left == SubSeq(events, m, n)
<1>1. CASE young = {}
  <2>1. Alt!WithoutOldHead(events, cutoff) = <<>>
    BY <1>1 DEF Alt!WithoutOldHead
  <2>2. <<>> \in Seq(Alt!Event) /\ AltElements(<<>>) = {}
    BY DEF AltElements
  <2>3. QED
    BY <2>1, <2>2
<1>2. CASE young # {}
  <2>1. n \in Nat /\ DOMAIN events = 1 .. n
    OBVIOUS
  <2>2. m \in 1 .. n
    <3>1. young \in SUBSET Nat /\ young \subseteq 1 .. n
      BY <2>1
    <3>2. QED
      BY <1>2, <3>1, AltLeastNumber
  <2>3. Alt!WithoutOldHead(events, cutoff) = left
    BY <1>2 DEF Alt!WithoutOldHead
  <2> HIDE DEF m
  <2>4. \A i \in m .. n : events[i] \in Alt!Event /\ events[i] \in AltElements(events)
    BY <2>1, <2>2 DEF AltElements
  <2>5. left \in Seq(Alt!Event)
    BY <2>1, <2>2, <2>4, SubSeqProperties
  <2>6. left \in Seq(AltElements(events))
    BY <2>1, <2>2, <2>4, SubSeqProperties
  <2>7. AltElements(left) \subseteq AltElements(events)
    <3> HIDE DEF left
    <3>1. \A i \in DOMAIN left : left[i] \in AltElements(events)
      BY <2>6
    <3>2. QED
      BY <3>1 DEF AltElements
  <2>8. QED
    BY <2>3, <2>5, <2>7
<1>3. QED
  BY <1>1, <1>2

\* Everything an accumulator holds is an event.
LEMMA AltHoldsEvents ==
  ASSUME NEW a \in Alt!AltAccumulator, NEW c \in Alt!Channels
  PROVE  AltHolds(c, a) \subseteq Alt!Event
<1>1. /\ a.book \subseteq Alt!Event /\ a.lastPrice \subseteq Alt!Event /\ a.mark \subseteq Alt!Event
      /\ a.tradeBuckets \subseteq Alt!Bucket /\ a.liquidations \in Seq(Alt!Event)
  BY DEF Alt!AltAccumulator, Alt!Optional
<1>2. AltInBuckets(a.tradeBuckets) \subseteq Alt!Event
  BY <1>1 DEF AltInBuckets, Alt!Bucket
<1>3. AltElements(a.liquidations) \subseteq Alt!Event
  BY <1>1 DEF AltElements
<1>4. AltMarketOf(a) \subseteq Alt!Event
  BY <1>1, <1>2, <1>3 DEF AltMarketOf
<1>5. QED
  BY <1>1, <1>4 DEF AltHolds, AltPublicOf

\* Pruning only takes away, and nothing from the public stream.
LEMMA PruneShrinks ==
  ASSUME NEW a \in Alt!AltAccumulator, NEW n, NEW r, r = Alt!Prune(a, n)
  PROVE  /\ r \in Alt!AltAccumulator /\ AltPublicOf(r) = AltPublicOf(a)
         /\ AltMarketOf(r) \subseteq AltMarketOf(a)
<1> DEFINE buckets == {b \in a.tradeBuckets : b.second >= n - TradeHistory}
           interest == Alt!WithoutOldHead(a.openInterestHistory, n - OiHistory)
           liquidations == Alt!WithoutOldHead(a.liquidations, n - LiquidationHistory)
<1>1. r = [a EXCEPT !.tradeBuckets = buckets, !.openInterestHistory = interest,
                    !.liquidations = liquidations]
  BY DEF Alt!Prune
<1>2. /\ buckets \subseteq a.tradeBuckets
      /\ interest \in Seq(Alt!Event) /\ liquidations \in Seq(Alt!Event)
      /\ AltElements(liquidations) \subseteq AltElements(a.liquidations)
  BY AltHeadCut DEF Alt!AltAccumulator
<1> HIDE DEF buckets, interest, liquidations
<1>3. /\ r \in Alt!AltAccumulator /\ r.book = a.book /\ r.lastPrice = a.lastPrice
      /\ r.mark = a.mark /\ r.tradeBuckets = buckets /\ r.liquidations = liquidations
  BY <1>1, <1>2 DEF Alt!AltAccumulator
<1>4. AltInBuckets(buckets) \subseteq AltInBuckets(a.tradeBuckets)
  BY <1>2 DEF AltInBuckets
<1>5. QED
  BY <1>2, <1>3, <1>4 DEF AltPublicOf, AltMarketOf

\* The streams are forgotten each for its own.
LEMMA AltResetForgets ==
  ASSUME NEW a \in Alt!AltAccumulator
  PROVE  /\ Alt!ResetPublicStream(a) \in Alt!AltAccumulator
         /\ AltPublicOf(Alt!ResetPublicStream(a)) = {}
         /\ AltMarketOf(Alt!ResetPublicStream(a)) = AltMarketOf(a)
         /\ Alt!ResetMarketStream(a) \in Alt!AltAccumulator
         /\ AltPublicOf(Alt!ResetMarketStream(a)) = AltPublicOf(a)
         /\ AltMarketOf(Alt!ResetMarketStream(a)) = {}
<1> DEFINE p == Alt!ResetPublicStream(a)
           m == Alt!ResetMarketStream(a)
<1>1. /\ p \in Alt!AltAccumulator /\ p.book = {} /\ p.lastPrice = a.lastPrice /\ p.mark = a.mark
      /\ p.tradeBuckets = a.tradeBuckets /\ p.liquidations = a.liquidations
  BY DEF Alt!ResetPublicStream, Alt!AltAccumulator, Alt!Optional, Alt!None
<1>2. <<>> \in Seq(Alt!Event) /\ AltElements(<<>>) = {} /\ AltInBuckets({}) = {}
  BY DEF AltElements, AltInBuckets
<1>3. /\ m \in Alt!AltAccumulator /\ m.book = a.book /\ m.lastPrice = {} /\ m.mark = {}
      /\ m.tradeBuckets = {} /\ m.liquidations = <<>>
  BY <1>2 DEF Alt!ResetMarketStream, Alt!AltAccumulator, Alt!Optional, Alt!None
<1> HIDE DEF p, m
<1>4. QED
  BY <1>1, <1>2, <1>3 DEF AltPublicOf, AltMarketOf, p, m

\* A symbol that is new holds nothing.
LEMMA AltNewHoldsNothing ==
  ASSUME NEW tier \in Alt!Tiers
  PROVE  /\ Alt!NewAltAccumulator(tier) \in Alt!AltAccumulator
         /\ \A c \in Alt!Channels : AltHolds(c, Alt!NewAltAccumulator(tier)) = {}
<1>1. <<>> \in Seq(Alt!Event) /\ AltElements(<<>>) = {} /\ AltInBuckets({}) = {}
  BY DEF AltElements, AltInBuckets
<1>2. Alt!NewAltAccumulator(tier) \in Alt!AltAccumulator
  BY <1>1 DEF Alt!NewAltAccumulator, Alt!AltAccumulator, Alt!Optional, Alt!None
<1>3. QED
  BY <1>1, <1>2 DEF Alt!NewAltAccumulator, AltHolds, AltPublicOf, AltMarketOf, Alt!None

\* A message adds what it says to the stream it came over, and nothing else.
LEMMA AltHandledAdds ==
  ASSUME NEW a \in Alt!AltAccumulator, NEW e \in Alt!Event, NEW c \in Alt!Channels,
         NEW kind \in Alt!KindsOf[c], NEW r, r = Alt!Handled(a, kind, e)
  PROVE  /\ r \in Alt!AltAccumulator
         /\ AltHolds(c, r) \subseteq AltHolds(c, a) \cup {e}
         /\ \A d \in Alt!Channels \ {c} : AltHolds(d, r) \subseteq AltHolds(d, a)
<1>1. CASE c = "public"
  <2>1. r = [a EXCEPT !.book = {e}]
    BY <1>1 DEF Alt!KindsOf, Alt!Handled, Alt!RecordBook, Alt!Some
  <2>2. /\ r \in Alt!AltAccumulator /\ r.book = {e} /\ r.lastPrice = a.lastPrice
        /\ r.mark = a.mark /\ r.tradeBuckets = a.tradeBuckets
        /\ r.liquidations = a.liquidations
    BY <2>1 DEF Alt!AltAccumulator, Alt!Optional
  <2>3. QED
    BY <1>1, <2>2 DEF AltHolds, AltPublicOf, AltMarketOf, Alt!Channels
<1>2. CASE c = "market"
  <2> DEFINE buckets == Alt!Gathered(a.tradeBuckets, e)
             price == Alt!LaterPrice(a.lastPrice, e)
             traded == [a EXCEPT !.tradeBuckets = buckets, !.lastPrice = price]
             liquidated == [a EXCEPT !.liquidations = Append(a.liquidations, e)]
             marked == [a EXCEPT !.mark = {e}]
             Adds(b) == /\ b \in Alt!AltAccumulator /\ AltPublicOf(b) = AltPublicOf(a)
                        /\ AltMarketOf(b) \subseteq AltMarketOf(a) \cup {e}
  <2>1. Adds(traded)
    <3>1. buckets \subseteq Alt!Bucket /\ AltInBuckets(buckets) \subseteq AltInBuckets(a.tradeBuckets) \cup {e}
      <4> DEFINE second == (e.at \div BucketLength) * BucketLength
                 known == {b \in a.tradeBuckets : b.second = second}
                 sum == {e} \cup UNION {b.trades : b \in known}
                 new == [second |-> second, lastPrice |-> e, trades |-> sum]
      <4>1. second \in Nat
        BY LeadCollectorAssumption DEF Alt!Event
      <4> HIDE DEF second
      <4>2. known \subseteq a.tradeBuckets /\ a.tradeBuckets \subseteq Alt!Bucket
        BY DEF Alt!AltAccumulator
      <4> HIDE DEF known
      <4>3. sum \subseteq Alt!Event /\ sum \subseteq AltInBuckets(a.tradeBuckets) \cup {e}
        BY <4>2 DEF Alt!Bucket, AltInBuckets
      <4> HIDE DEF sum
      <4>4. new \in Alt!Bucket /\ new.trades = sum /\ new.lastPrice = e
        BY <4>1, <4>3 DEF Alt!Bucket
      <4>5. buckets = (a.tradeBuckets \ known) \cup {new}
        BY DEF Alt!Gathered, known, second, sum
      <4> HIDE DEF new, buckets
      <4>6. QED
        BY <4>2, <4>3, <4>4, <4>5 DEF AltInBuckets
    <3>2. price \subseteq Alt!Event /\ price \subseteq a.lastPrice \cup {e}
      BY DEF Alt!LaterPrice, Alt!Some, Alt!AltAccumulator, Alt!Optional
    <3> HIDE DEF buckets, price
    <3>3. /\ traded \in Alt!AltAccumulator /\ traded.book = a.book /\ traded.lastPrice = price
          /\ traded.mark = a.mark /\ traded.tradeBuckets = buckets
          /\ traded.liquidations = a.liquidations
      BY <3>1, <3>2 DEF Alt!AltAccumulator, Alt!Optional
    <3> HIDE DEF traded
    <3>4. QED
      BY <3>1, <3>2, <3>3 DEF AltPublicOf, AltMarketOf
  <2>2. Adds(liquidated)
    <3> DEFINE events == Append(a.liquidations, e)
    <3>1. /\ events \in Seq(Alt!Event)
          /\ AltElements(events) \subseteq AltElements(a.liquidations) \cup {e}
      BY DEF Alt!AltAccumulator, AltElements
    <3> HIDE DEF events
    <3>2. /\ liquidated \in Alt!AltAccumulator /\ liquidated.book = a.book
          /\ liquidated.lastPrice = a.lastPrice /\ liquidated.mark = a.mark
          /\ liquidated.tradeBuckets = a.tradeBuckets /\ liquidated.liquidations = events
      BY <3>1 DEF Alt!AltAccumulator, events
    <3> HIDE DEF liquidated
    <3>3. QED
      BY <3>1, <3>2 DEF AltPublicOf, AltMarketOf
  <2>3. Adds(marked)
    <3>1. /\ marked \in Alt!AltAccumulator /\ marked.book = a.book
          /\ marked.lastPrice = a.lastPrice /\ marked.mark = {e}
          /\ marked.tradeBuckets = a.tradeBuckets /\ marked.liquidations = a.liquidations
      BY DEF Alt!AltAccumulator, Alt!Optional
    <3> HIDE DEF marked
    <3>2. QED
      BY <3>1 DEF AltPublicOf, AltMarketOf
  <2>4. \/ r = Alt!Prune(traded, e.received) \/ r = marked \/ r = Alt!Prune(liquidated, e.received)
    BY <1>2 DEF Alt!KindsOf, Alt!Handled, Alt!RecordTrade, Alt!RecordMark, Alt!RecordLiquidation, Alt!Some
  <2> HIDE DEF traded, liquidated, marked
  <2>5. Adds(r)
    BY <2>1, <2>2, <2>3, <2>4, PruneShrinks
  <2>6. QED
    BY <1>2, <2>5 DEF AltHolds, Alt!Channels
<1>3. QED
  BY <1>1, <1>2 DEF Alt!Channels

\* Open interest is of no stream.
LEMMA InterestAdds ==
  ASSUME NEW a \in Alt!AltAccumulator, NEW e \in Alt!Event, NEW r, r = Alt!RecordOpenInterest(a, e)
  PROVE  /\ r \in Alt!AltAccumulator /\ AltPublicOf(r) = AltPublicOf(a)
         /\ AltMarketOf(r) \subseteq AltMarketOf(a)
<1> DEFINE points == Alt!Recorded(a.openInterestHistory, e)
           b == [a EXCEPT !.openInterestHistory = points]
<1>1. points \in Seq(Alt!Event)
  BY DEF Alt!Recorded, Alt!AltAccumulator
<1>2. r = a \/ r = Alt!Prune(b, e.received)
  BY DEF Alt!RecordOpenInterest
<1> HIDE DEF points
<1>3. /\ b \in Alt!AltAccumulator /\ b.book = a.book /\ b.lastPrice = a.lastPrice
      /\ b.mark = a.mark /\ b.tradeBuckets = a.tradeBuckets /\ b.liquidations = a.liquidations
  BY <1>1 DEF Alt!AltAccumulator
<1> HIDE DEF b
<1>4. AltPublicOf(b) = AltPublicOf(a) /\ AltMarketOf(b) = AltMarketOf(a)
  BY <1>3 DEF AltPublicOf, AltMarketOf
<1>5. QED
  BY <1>2, <1>3, <1>4, PruneShrinks

\* What a window of time adds up is in the buckets.
LEMMA WindowHeld ==
  ASSUME NEW buckets, NEW start, NEW end
  PROVE  Alt!TradesBetween(buckets, start, end) \subseteq AltInBuckets(buckets)
<1> DEFINE chosen == {b \in buckets : Alt!Max({e.at : e \in b.trades}) \in start .. end}
<1>1. Alt!TradesBetween(buckets, start, end) = UNION {b.trades : b \in chosen}
  BY DEF Alt!TradesBetween
<1>2. chosen \subseteq buckets
  OBVIOUS
<1> HIDE DEF chosen
<1>3. QED
  BY <1>1, <1>2 DEF AltInBuckets

\* An observation shows no more than the accumulator holds.
LEMMA AltObservationHeld ==
  ASSUME NEW a, NEW n
  PROVE  Alt!PublicEvents(a) \subseteq AltPublicOf(a) /\ Alt!MarketEvents(a, n) \subseteq AltMarketOf(a)
<1>1. ASSUME NEW w
      PROVE  Alt!ReturnReferences(a, n, w) \subseteq AltInBuckets(a.tradeBuckets)
  <2> DEFINE second == [b \in a.tradeBuckets |-> b.second]
             closest == Alt!Closest(second, n - w, ReturnGap)
  <2>1. closest \subseteq a.tradeBuckets
    <3>1. DOMAIN second = a.tradeBuckets
      OBVIOUS
    <3> HIDE DEF second
    <3>2. QED
      BY <3>1 DEF Alt!Closest
  <2>2. Alt!ReturnReferences(a, n, w) = {b.lastPrice : b \in closest}
    BY DEF Alt!ReturnReferences
  <2> HIDE DEF closest
  <2>3. QED
    BY <2>1, <2>2 DEF AltInBuckets
<1>2. \A w : Alt!FlowTrades(a, n, w) \subseteq AltInBuckets(a.tradeBuckets)
  BY WindowHeld DEF Alt!FlowTrades
<1>3. \A w : Alt!WindowLiquidations(a, n, w) \subseteq AltElements(a.liquidations)
  <2> DEFINE all == {a.liquidations[i] : i \in DOMAIN a.liquidations}
  <2>1. all = AltElements(a.liquidations)
    BY DEF AltElements
  <2>2. \A w : Alt!WindowLiquidations(a, n, w) \subseteq all
    BY DEF Alt!WindowLiquidations, Alt!EventsBetween
  <2>3. QED
    BY <2>1, <2>2
<1>4. Alt!PublicEvents(a) \subseteq AltPublicOf(a)
  BY DEF Alt!PublicEvents, AltPublicOf
<1>5. Alt!MarketEvents(a, n) \subseteq AltMarketOf(a)
  <2>1. ASSUME NEW e \in Alt!MarketEvents(a, n)
        PROVE  \/ e \in a.lastPrice \/ e \in a.mark
               \/ \E w \in ReturnWindows : e \in Alt!ReturnReferences(a, n, w)
               \/ \E w \in FlowWindows :
                    e \in Alt!FlowTrades(a, n, w) \/ e \in Alt!WindowLiquidations(a, n, w)
    BY DEF Alt!MarketEvents
  <2>2. QED
    BY <1>1, <1>2, <1>3, <2>1 DEF AltMarketOf
<1>6. QED
  BY <1>4, <1>5
-----------------------------------------------------------------------------
(***************************************************************************)
(* What the accumulators of a step hold.                                   *)
(***************************************************************************)
AltClocked == now \in Nat /\ \A f \in fetches : f.asked \in Nat

\* Nothing is added to what accumulators hold
AltShrinks ==
  \A s \in DOMAIN accumulators' :
    /\ accumulators'[s] \in Alt!AltAccumulator
    /\ \A c \in Alt!Channels : AltHolds(c, accumulators'[s])
                              \subseteq IF s \in DOMAIN accumulators THEN AltHolds(c, accumulators[s]) ELSE {}

\* A channel keeps its socket, gets one when nothing of this generation is
\* left, or loses it with all that it has delivered.
AltContinues ==
  /\ service'.streamGeneration = service.streamGeneration /\ Alt!ActiveSymbols' = Alt!ActiveSymbols
  /\ \A c \in Alt!Channels :
       \/ channel'[c].current = channel[c].current \/ channel[c].current = Alt!NoSocket
       \/ \A s \in Alt!ActiveSymbols : AltHolds(c, accumulators'[s]) = {}

\* Where nothing is added, the invariant rests on what happens to the sockets.
LEMMA AltEventFrame ==
  ASSUME AltInv, AltChannelsInv', AltClocked', AltShrinks,
         Alt!ActiveSymbols' \subseteq DOMAIN accumulators',
         service'.streamGeneration > service.streamGeneration \/ AltContinues
  PROVE  AltInv'
<1>1. service.streamGeneration \in Nat /\ service'.streamGeneration \in Nat
      /\ service'.streamGeneration >= service.streamGeneration
  <2>1. service'.streamGeneration \in Nat
    BY DEF AltChannelsInv, AltServiceOk
  <2>2. QED
    BY <2>1, AltTagOk DEF AltInv, AltContinues
<1>2. ASSUME NEW s \in DOMAIN accumulators', NEW c \in Alt!Channels,
             NEW e \in AltHolds(c, accumulators'[s])
      PROVE  AltDelivered(e)' /\ (s \in Alt!ActiveSymbols' => AltOfThisSocket(c, e)')
  <2>1. /\ s \in DOMAIN accumulators /\ e \in AltHolds(c, accumulators[s])
    BY DEF AltShrinks
  <2>2. /\ e.run <= service.streamGeneration /\ e.from # Alt!NoSocket
        /\ s \in Alt!ActiveSymbols => (e.run = service.streamGeneration => e.from = channel[c].current)
    BY <2>1 DEF AltInv, AltEventInv, AltDelivered, AltOfThisSocket
  <2>3. e.run \in Nat
    BY <2>1, AltHoldsEvents DEF AltInv, AltEventInv, Alt!Event
  <2>4. AltDelivered(e)'
    BY <1>1, <2>2, <2>3 DEF AltDelivered
  <2>5. CASE service'.streamGeneration > service.streamGeneration
    BY <1>1, <2>2, <2>3, <2>4, <2>5 DEF AltOfThisSocket
  <2>6. CASE AltContinues
    BY <2>2, <2>4, <2>6 DEF AltOfThisSocket, AltContinues
  <2>7. QED
    BY <2>5, <2>6
<1>3. QED
  BY <1>2 DEF AltInv, AltEventInv, AltClocked, AltShrinks

\* The service before its first start
LEMMA AltInitInv == Alt!Init => AltInv
<1> SUFFICES ASSUME Alt!Init PROVE AltInv
  OBVIOUS
<1>1. AltServiceOk /\ ~service.started /\ Alt!ActiveSymbols = CoreSymbols
  BY DEF Alt!Init, AltServiceOk, Alt!ActiveSymbols, Alt!NoRun
<1>2. /\ DOMAIN channel = Alt!Channels /\ \A c \in Alt!Channels : channel[c] = Alt!NewChannel
  BY DEF Alt!Init
<1>3. AltSound(Alt!NewChannel) /\ Alt!NoStream(Alt!NewChannel)
  BY DEF Alt!NewChannel, AltSound, AltSocketsOk, Alt!NoStream, Alt!NoSocket, Alt!NoTag, Alt!Tag
<1>4. AltChannelsInv
  BY <1>1, <1>2, <1>3 DEF AltChannelsInv, AltChannelInv, Alt!Init
<1>5. /\ DOMAIN accumulators = CoreSymbols
      /\ \A s \in CoreSymbols : accumulators[s] = Alt!NewAltAccumulator("SENTIMENT_CORE")
  BY DEF Alt!Init
<1>6. AltEventInv
  BY <1>1, <1>5, AltNewHoldsNothing DEF AltEventInv, Alt!Init, Alt!Tiers
<1>7. QED
  BY <1>4, <1>6 DEF AltInv

\* Nothing happens to the accumulators
LEMMA AltUntouchedShrinks ==
  ASSUME AltInv, UNCHANGED accumulators
  PROVE  AltShrinks
BY DEF AltShrinks, AltInv, AltEventInv

\* failSocket of the current socket
LEMMA AltResetShrinks ==
  ASSUME AltInv, NEW c \in Alt!Channels, AltResets(c), UNCHANGED service
  PROVE  AltShrinks /\ AltContinues /\ DOMAIN accumulators' = DOMAIN accumulators
<1>1. DOMAIN accumulators' = DOMAIN accumulators
  BY DEF AltResets
<1>2. ASSUME NEW s \in DOMAIN accumulators
      PROVE  /\ accumulators'[s] \in Alt!AltAccumulator
             /\ \A d \in Alt!Channels : AltHolds(d, accumulators'[s]) \subseteq AltHolds(d, accumulators[s])
             /\ s \in Alt!ActiveSymbols => AltHolds(c, accumulators'[s]) = {}
  <2> DEFINE a == accumulators[s]
  <2>1. a \in Alt!AltAccumulator
    BY DEF AltInv, AltEventInv
  <2>2. accumulators'[s] = IF s \notin Alt!ActiveSymbols THEN a
                           ELSE IF c = "public" THEN Alt!ResetPublicStream(a)
                           ELSE Alt!ResetMarketStream(a)
    BY DEF AltResets
  <2> HIDE DEF a
  <2>3. /\ Alt!ResetPublicStream(a) \in Alt!AltAccumulator
        /\ AltPublicOf(Alt!ResetPublicStream(a)) = {}
        /\ AltMarketOf(Alt!ResetPublicStream(a)) = AltMarketOf(a)
        /\ Alt!ResetMarketStream(a) \in Alt!AltAccumulator
        /\ AltPublicOf(Alt!ResetMarketStream(a)) = AltPublicOf(a)
        /\ AltMarketOf(Alt!ResetMarketStream(a)) = {}
    BY <2>1, AltResetForgets
  <2>4. QED
    BY <2>1, <2>2, <2>3 DEF AltHolds, Alt!Channels, a
<1>3. AltShrinks
  BY <1>1, <1>2 DEF AltShrinks
<1>4. Alt!ActiveSymbols' = Alt!ActiveSymbols
  BY DEF Alt!ActiveSymbols
<1>5. AltContinues
  BY <1>2, <1>4 DEF AltContinues, AltResets, AltInv, AltEventInv
<1>6. QED
  BY <1>1, <1>3, <1>5

\* A step that leaves the accumulators alone, by what it does to the channels
LEMMA AltUntouchedFrame ==
  ASSUME AltInv, AltChannelsInv', AltClocked', UNCHANGED accumulators, Alt!ActiveSymbols' = Alt!ActiveSymbols,
         \/ service'.streamGeneration > service.streamGeneration
         \/ /\ service'.streamGeneration = service.streamGeneration
            /\ \A c \in Alt!Channels :
                 channel'[c].current = channel[c].current \/ channel[c].current = Alt!NoSocket
  PROVE  AltInv'
BY AltUntouchedShrinks, AltEventFrame DEF AltContinues, AltInv, AltEventInv

\* Times of requests, when none is made
LEMMA AltClockedNow ==
  ASSUME AltInv
  PROVE  /\ AltClocked /\ (UNCHANGED <<now, fetches>> => AltClocked')
         /\ \A f : UNCHANGED now /\ fetches' = fetches \ {f} => AltClocked'
BY DEF AltInv, AltEventInv, AltClocked

\* start: nothing that is held is of the new generation.
LEMMA AltStartKeeps == AltInv /\ Alt!Start => AltInv'
<1> SUFFICES ASSUME AltInv, Alt!Start PROVE AltInv'
  OBVIOUS
<1>1. AltClocked'
  BY AltClockedNow DEF Alt!Start, Alt!Asked, Alt!Scan, Alt!Poll, AltClocked
<1>2. QED
  BY <1>1, AltStartChannels, AltUntouchedFrame DEF Alt!Start, AltInv

\* stop, likewise
LEMMA AltStopKeeps == AltInv /\ Alt!Stop => AltInv'
BY AltClockedNow, AltStopChannels, AltUntouchedFrame DEF Alt!Stop, AltInv

\* The timers ask for the time it is.
LEMMA TimerFiresKeeps == AltInv /\ Alt!TimerFires => AltInv'
<1> SUFFICES ASSUME AltInv, Alt!TimerFires PROVE AltInv'
  OBVIOUS
<1>1. AltClocked'
  BY AltClockedNow DEF Alt!TimerFires, Alt!Asked, Alt!Scan, Alt!Poll, AltClocked
<1>2. UNCHANGED <<bound, service, channel, accumulators>>
  BY DEF Alt!TimerFires
<1>3. QED
  BY <1>1, <1>2, AltChannelsStay, AltUntouchedFrame DEF AltInv, AltKeeps

\* Time passes.
LEMMA TickKeeps == AltInv /\ Alt!Tick => AltInv'
<1> SUFFICES ASSUME AltInv, Alt!Tick PROVE AltInv'
  OBVIOUS
<1>1. AltClocked'
  BY AltClockedNow DEF Alt!Tick, AltClocked
<1>2. UNCHANGED <<bound, service, channel, accumulators>>
  BY DEF Alt!Tick
<1>3. QED
  BY <1>1, <1>2, AltChannelsStay, AltUntouchedFrame DEF AltInv, AltKeeps

\* A scan that fails changes nothing.
LEMMA ScanFailsKeeps ==
  ASSUME AltInv, NEW f \in fetches, Alt!ScanFails(f)
  PROVE  AltInv'
<1>1. UNCHANGED <<bound, service, channel, accumulators>> /\ AltClocked'
  BY AltClockedNow DEF Alt!ScanFails
<1>2. QED
  BY <1>1, AltChannelsStay, AltUntouchedFrame DEF AltInv, AltKeeps

\* An observation prunes.
LEMMA AltObserveKeeps == AltInv /\ Alt!Observe => AltInv'
<1> SUFFICES ASSUME AltInv, Alt!Observe PROVE AltInv'
  OBVIOUS
<1>1. UNCHANGED <<bound, service, channel>> /\ AltClocked'
  BY AltClockedNow DEF Alt!Observe
<1>2. /\ DOMAIN accumulators' = DOMAIN accumulators
      /\ \A s \in DOMAIN accumulators : accumulators'[s] = Alt!Prune(accumulators[s], now)
  BY DEF Alt!Observe
<1>3. \A s \in DOMAIN accumulators :
        /\ Alt!Prune(accumulators[s], now) \in Alt!AltAccumulator
        /\ AltPublicOf(Alt!Prune(accumulators[s], now)) = AltPublicOf(accumulators[s])
        /\ AltMarketOf(Alt!Prune(accumulators[s], now)) \subseteq AltMarketOf(accumulators[s])
  BY PruneShrinks DEF AltInv, AltEventInv
<1>4. AltShrinks
  BY <1>2, <1>3 DEF AltShrinks, AltHolds
<1>5. AltChannelsInv' /\ AltContinues /\ Alt!ActiveSymbols' \subseteq DOMAIN accumulators'
  BY <1>1, <1>2, AltChannelsStay DEF AltInv, AltEventInv, AltKeeps, AltContinues
<1>6. QED
  BY <1>1, <1>4, <1>5, AltEventFrame

\* Open interest is recorded aside from the streams.
LEMMA PollEndsKeeps ==
  ASSUME AltInv, NEW f \in fetches, Alt!PollEnds(f)
  PROVE  AltInv'
<1>1. UNCHANGED <<bound, service, channel>> /\ AltClocked'
  BY AltClockedNow DEF Alt!PollEnds
<1>2. PICK answered \in SUBSET f.symbols, at \in f.asked .. now :
        accumulators' =
          [s \in DOMAIN accumulators |->
             IF Alt!IsActive(f.run) /\ s \in answered
             THEN Alt!RecordOpenInterest(accumulators[s],
                    [at |-> at, received |-> now, run |-> 0, from |-> Alt!NoSocket])
             ELSE accumulators[s]]
  BY DEF Alt!PollEnds
<1> DEFINE e == [at |-> at, received |-> now, run |-> 0, from |-> Alt!NoSocket]
<1>3. e \in Alt!Event
  BY AltClockedNow DEF AltClocked, Alt!Event, Alt!NoSocket
<1>4. /\ DOMAIN accumulators' = DOMAIN accumulators
      /\ \A s \in DOMAIN accumulators :
           \/ accumulators'[s] = Alt!RecordOpenInterest(accumulators[s], e)
           \/ accumulators'[s] = accumulators[s]
  BY <1>2
<1> HIDE DEF e
<1>5. \A s \in DOMAIN accumulators :
        /\ accumulators[s] \in Alt!AltAccumulator
        /\ Alt!RecordOpenInterest(accumulators[s], e) \in Alt!AltAccumulator
        /\ AltPublicOf(Alt!RecordOpenInterest(accumulators[s], e)) = AltPublicOf(accumulators[s])
        /\ AltMarketOf(Alt!RecordOpenInterest(accumulators[s], e)) \subseteq AltMarketOf(accumulators[s])
  BY <1>3, InterestAdds DEF AltInv, AltEventInv
<1>6. AltShrinks
  BY <1>4, <1>5 DEF AltShrinks, AltHolds
<1>7. AltChannelsInv' /\ AltContinues /\ Alt!ActiveSymbols' \subseteq DOMAIN accumulators'
  BY <1>1, <1>4, AltChannelsStay DEF AltInv, AltEventInv, AltKeeps, AltContinues
<1>8. QED
  BY <1>1, <1>6, <1>7, AltEventFrame

\* A scan that answers: accumulators appear empty, and those there are keep
\* what they hold.
LEMMA ScanSucceedsKeeps ==
  ASSUME AltInv, NEW f \in fetches, Alt!ScanSucceeds(f)
  PROVE  AltInv'
<1>1. service.started /\ UNCHANGED bound /\ AltClocked'
  BY AltClockedNow DEF Alt!ScanSucceeds, Alt!IsActive
<1>2. PICK candidates : Alt!ApplyCandidates(candidates)
  BY DEF Alt!ScanSucceeds
<1>3. /\ AltChannelsInv'
      /\ \/ service'.streamGeneration > service.streamGeneration
         \/ /\ service'.streamGeneration = service.streamGeneration
            /\ Alt!ActiveSymbols' = Alt!ActiveSymbols /\ UNCHANGED channel
      /\ DOMAIN accumulators' = DOMAIN accumulators \cup Alt!ActiveSymbols'
      /\ \A s \in DOMAIN accumulators' :
           IF s \notin DOMAIN accumulators
           THEN accumulators'[s] = Alt!NewAltAccumulator("DYNAMIC")
           ELSE \E tier \in Alt!Tiers \cup {accumulators[s].tier} :
                  accumulators'[s] = [accumulators[s] EXCEPT !.tier = tier]
  BY <1>1, <1>2, ApplyCandidatesChannels DEF AltInv
<1>4. ASSUME NEW s \in DOMAIN accumulators'
      PROVE  /\ accumulators'[s] \in Alt!AltAccumulator
             /\ \A c \in Alt!Channels : AltHolds(c, accumulators'[s])
                  \subseteq IF s \in DOMAIN accumulators THEN AltHolds(c, accumulators[s]) ELSE {}
  <2>1. CASE s \notin DOMAIN accumulators
    BY <1>3, <2>1, AltNewHoldsNothing DEF Alt!Tiers
  <2>2. CASE s \in DOMAIN accumulators
    <3> DEFINE a == accumulators[s]
    <3>1. PICK tier \in Alt!Tiers \cup {a.tier} : accumulators'[s] = [a EXCEPT !.tier = tier]
      BY <1>3, <2>2
    <3> DEFINE b == [a EXCEPT !.tier = tier]
    <3>2. a \in Alt!AltAccumulator
      BY <2>2 DEF AltInv, AltEventInv
    <3>3. /\ b \in Alt!AltAccumulator /\ b.book = a.book /\ b.lastPrice = a.lastPrice
          /\ b.mark = a.mark /\ b.tradeBuckets = a.tradeBuckets
          /\ b.liquidations = a.liquidations
      BY <3>2 DEF Alt!AltAccumulator
    <3>4. accumulators'[s] = b
      BY <3>1
    <3> HIDE DEF a, b
    <3>5. \A c \in Alt!Channels : AltHolds(c, b) = AltHolds(c, a)
      BY <3>3 DEF AltHolds, AltPublicOf, AltMarketOf
    <3>6. QED
      BY <2>2, <3>3, <3>4, <3>5 DEF a
  <2>3. QED
    BY <2>1, <2>2
<1>5. AltShrinks
  BY <1>4 DEF AltShrinks
<1>6. QED
  BY <1>1, <1>3, <1>5, AltEventFrame DEF AltContinues

\* What is delivered is of this generation and its socket.
LEMMA AltSocketDeliversKeeps ==
  ASSUME AltInv, NEW c \in Alt!Channels, NEW s \in Alt!Live(c), Alt!SocketDelivers(c, s)
  PROVE  AltInv'
<1> DEFINE e == [at |-> now, received |-> now, run |-> service.streamGeneration, from |-> s]
<1>1. UNCHANGED <<bound, service, channel>> /\ AltClocked'
  BY AltClockedNow DEF Alt!SocketDelivers
<1>2. /\ AltChannelsInv' /\ Alt!ActiveSymbols' = Alt!ActiveSymbols
      /\ service'.streamGeneration = service.streamGeneration
  BY <1>1, AltChannelsStay DEF AltInv
<1>3. s = channel[c].current /\ s \in Nat /\ s # Alt!NoSocket
  <2>1. Alt!IsCurrentSocket(c, s)
    BY DEF Alt!SocketDelivers
  <2>2. QED
    BY <2>1, AltCurrentSocket, AltChannelFacts DEF AltInv, Alt!Live, AltSound, AltSocketsOk
<1>4. /\ e \in Alt!Event /\ e.run = service.streamGeneration /\ e.from = s
  BY <1>3, AltClockedNow, AltTagOk DEF Alt!Event, AltClocked, AltInv
<1>5. PICK symbol \in Alt!ActiveSymbols, kind \in Alt!KindsOf[c] :
        accumulators' = [accumulators EXCEPT ![symbol] = Alt!Handled(accumulators[symbol], kind, e)]
  BY DEF Alt!SocketDelivers
<1> HIDE DEF e
<1>6. symbol \in DOMAIN accumulators /\ DOMAIN accumulators' = DOMAIN accumulators
  BY <1>5 DEF AltInv, AltEventInv
<1> DEFINE a == accumulators[symbol]
           r == Alt!Handled(a, kind, e)
<1>7. a \in Alt!AltAccumulator
  BY <1>6 DEF AltInv, AltEventInv
<1>8. accumulators'[symbol] = r /\ \A t \in DOMAIN accumulators \ {symbol} :
                                   accumulators'[t] = accumulators[t]
  BY <1>5, <1>6
<1> HIDE DEF a, r
<1>9. /\ r \in Alt!AltAccumulator
      /\ AltHolds(c, r) \subseteq AltHolds(c, a) \cup {e}
      /\ \A d \in Alt!Channels \ {c} : AltHolds(d, r) \subseteq AltHolds(d, a)
  BY <1>4, <1>7, AltHandledAdds DEF r
<1>10. ASSUME NEW t \in DOMAIN accumulators', NEW d \in Alt!Channels,
              NEW g \in AltHolds(d, accumulators'[t])
       PROVE  AltDelivered(g)' /\ (t \in Alt!ActiveSymbols' => AltOfThisSocket(d, g)')
  <2>1. g \in AltHolds(d, accumulators[t]) \/ (g = e /\ d = c)
    BY <1>6, <1>8, <1>9 DEF a
  <2>2. CASE g = e /\ d = c
    <3>1. e.run <= service.streamGeneration
      BY <1>4, AltTagOk DEF AltInv
    <3>2. QED
      BY <1>1, <1>2, <1>3, <1>4, <2>2, <3>1 DEF AltDelivered, AltOfThisSocket
  <2>3. CASE g \in AltHolds(d, accumulators[t])
    BY <1>1, <1>2, <1>6, <2>3 DEF AltInv, AltEventInv, AltDelivered, AltOfThisSocket
  <2>4. QED
    BY <2>1, <2>2, <2>3
<1>11. \A t \in DOMAIN accumulators' : accumulators'[t] \in Alt!AltAccumulator
  BY <1>6, <1>8, <1>9 DEF AltInv, AltEventInv
<1>12. QED
  BY <1>1, <1>2, <1>6, <1>10, <1>11 DEF AltInv, AltEventInv, AltClocked

\* A socket that opens, fails or closes: it stays current, or what it delivered goes with it.
LEMMA AltSocketKeeps ==
  ASSUME AltInv, NEW c \in Alt!Channels, NEW s \in Alt!Live(c),
         Alt!SocketOpens(c, s) \/ Alt!SocketErrors(c, s) \/ Alt!SocketCloses(c, s)
  PROVE  AltInv'
<1>1. UNCHANGED <<bound, service>> /\ AltClocked' /\ Alt!ActiveSymbols' = Alt!ActiveSymbols
  BY AltClockedNow DEF Alt!SocketOpens, Alt!SocketErrors, Alt!SocketCloses, Alt!ActiveSymbols
<1>2. AltChannelsInv' /\ (AltResets(c) \/ (AltKeeps /\ UNCHANGED accumulators))
  BY AltSocketOpensChannel, AltSocketErrorsChannel, AltSocketClosesChannel DEF AltInv, Alt!SocketOpens
<1>3. CASE AltResets(c)
  BY <1>1, <1>2, <1>3, AltResetShrinks, AltEventFrame DEF AltInv, AltEventInv
<1>4. CASE AltKeeps /\ UNCHANGED accumulators
  BY <1>1, <1>2, <1>4, AltUntouchedFrame DEF AltKeeps
<1>5. QED
  BY <1>2, <1>3, <1>4

\* A reconnect: a new socket finds nothing of this generation.
LEMMA AltChannelKeeps ==
  ASSUME AltInv, NEW c \in Alt!Channels, Alt!PlannedReconnect(c) \/ Alt!ReconnectTimerFires(c)
  PROVE  AltInv'
<1>1. UNCHANGED <<bound, service, accumulators>> /\ AltClocked' /\ Alt!ActiveSymbols' = Alt!ActiveSymbols
  BY AltClockedNow DEF Alt!PlannedReconnect, Alt!ReconnectTimerFires, Alt!ActiveSymbols
<1>2. /\ AltChannelsInv'
      /\ \A d \in Alt!Channels :
           channel'[d].current = channel[d].current \/ channel[d].current = Alt!NoSocket
  BY AltPlannedReconnectChannel, AltReconnectTimerFiresChannel DEF AltInv, AltKeeps
<1>3. QED
  BY <1>1, <1>2, AltUntouchedFrame

\* Every action keeps the invariant.
LEMMA AltNextInv == AltInv /\ [Alt!Next]_(Alt!vars) => AltInv'
<1> SUFFICES ASSUME AltInv, [Alt!Next]_(Alt!vars) PROVE AltInv'
  OBVIOUS
<1>1. CASE UNCHANGED Alt!vars
  BY <1>1, AltClockedNow, AltChannelsStay, AltUntouchedFrame DEF Alt!vars, AltInv, AltKeeps
<1>2. CASE Alt!Start \/ Alt!Stop \/ Alt!TimerFires \/ Alt!Observe \/ Alt!Tick
  BY <1>2, AltStartKeeps, AltStopKeeps, TimerFiresKeeps, AltObserveKeeps, TickKeeps
<1>3. ASSUME NEW f \in fetches, Alt!ScanFails(f) \/ Alt!ScanSucceeds(f) \/ Alt!PollEnds(f)
      PROVE  AltInv'
  BY <1>3, ScanFailsKeeps, ScanSucceedsKeeps, PollEndsKeeps
<1>4. ASSUME NEW c \in Alt!Channels, Alt!PlannedReconnect(c) \/ Alt!ReconnectTimerFires(c)
      PROVE  AltInv'
  BY <1>4, AltChannelKeeps
<1>5. ASSUME NEW c \in Alt!Channels, NEW s \in Alt!Live(c),
             \/ Alt!SocketOpens(c, s) \/ Alt!SocketErrors(c, s)
             \/ Alt!SocketCloses(c, s) \/ Alt!SocketDelivers(c, s)
      PROVE  AltInv'
  BY <1>5, AltSocketKeeps, AltSocketDeliversKeeps
<1>6. QED
  BY <1>1, <1>2, <1>3, <1>4, <1>5 DEF Alt!Next

\* What an observation shows is what pruning leaves.
LEMMA AltInvImplies == AltInv => Alt!OneStreamEach
<1> SUFFICES ASSUME AltInv PROVE Alt!OneStreamEach
  OBVIOUS
<1>1. ASSUME NEW c \in Alt!Channels
      PROVE  LET ch == channel[c]
             IN  /\ service.started =>
                      /\ Alt!OneStream(ch, Alt!CurrentTag)
                      /\ ch.current \in Alt!Live(c) => ch.live[ch.current].symbols = Alt!ActiveSymbols
                 /\ ~service.started => Alt!NoStream(ch)
  <2>1. /\ AltSound(channel[c])
        /\ service.started => AltStreaming(channel[c], Alt!CurrentTag, Alt!ActiveSymbols)
        /\ ~service.started => Alt!NoStream(channel[c])
    BY AltChannelFacts DEF AltInv
  <2>2. QED
    BY <2>1 DEF AltStreaming, AltOthersClose, Alt!OneStream, Alt!Live, AltSound, AltSocketsOk
<1>2. ASSUME NEW s \in Alt!ActiveSymbols
      PROVE  LET a == Alt!Prune(accumulators[s], now)
                 IsOf(c, e) == e.run = service.streamGeneration => e.from = channel[c].current
             IN  /\ \A e \in Alt!PublicEvents(a) : IsOf("public", e)
                 /\ \A e \in Alt!MarketEvents(a, now) : IsOf("market", e)
  <2> DEFINE a == Alt!Prune(accumulators[s], now)
  <2>1. s \in DOMAIN accumulators /\ accumulators[s] \in Alt!AltAccumulator
    BY DEF AltInv, AltEventInv
  <2>2. AltPublicOf(a) = AltPublicOf(accumulators[s]) /\ AltMarketOf(a) \subseteq AltMarketOf(accumulators[s])
    BY <2>1, PruneShrinks
  <2> HIDE DEF a
  <2>3. Alt!PublicEvents(a) \subseteq AltPublicOf(a) /\ Alt!MarketEvents(a, now) \subseteq AltMarketOf(a)
    BY AltObservationHeld
  <2>4. \A c \in Alt!Channels : \A e \in AltHolds(c, accumulators[s]) : AltOfThisSocket(c, e)
    BY <2>1 DEF AltInv, AltEventInv
  <2>5. /\ \A e \in AltPublicOf(accumulators[s]) : AltOfThisSocket("public", e)
        /\ \A e \in AltMarketOf(accumulators[s]) : AltOfThisSocket("market", e)
    BY <2>4 DEF AltHolds, Alt!Channels
  <2>6. QED
    BY <2>2, <2>3, <2>5 DEF AltOfThisSocket, a
<1>3. QED
  BY <1>1, <1>2 DEF Alt!OneStreamEach
-----------------------------------------------------------------------------
\* A channel of a started service has one working socket, of the current
\* generation and for exactly the symbols that are followed, or a reconnect
\* pending that will create it, and a stopped one has neither; what is shown
\* of this generation was delivered by that socket: for every basket, every
\* answer of the exchange, and any number of runs, generations and sockets.
THEOREM AltStreamIsOne == AltSpec => []AltStreamsAreOne
<1>1. AltInit => AltInv
  BY AltInitInv DEF AltInit
<1>2. AltInv /\ [AltNext]_mcVars => AltInv'
  BY AltNextInv DEF AltNext, mcVars, Alt!vars
<1>3. AltInv => AltStreamsAreOne
  BY AltInvImplies DEF AltStreamsAreOne
<1>4. QED
  BY <1>1, <1>2, <1>3, PTL DEF AltSpec
-----------------------------------------------------------------------------
(***************************************************************************)
(* The basket of the alt symbols.                                          *)
(***************************************************************************)
Member == [symbol : Alt!Listable, score : Int, selectedAt : Nat]

OnePerSymbol(S) == \A m, n \in S : m.symbol = n.symbol => m = n

IsMembers(S) == IsFiniteSet(S) /\ S \subseteq Member /\ OnePerSymbol(S)

\* Sizes are the same in the module that is instantiated.
LEMMA AltSize == \A S : Alt!Cardinality(S) = Cardinality(S)
BY DEF Alt!Cardinality, Cardinality

\* The symbols are in a strict and total order,
LEMMA ComesInOrder ==
  ASSUME NEW s \in Alt!Listable, NEW t \in Alt!Listable
  PROVE  /\ Alt!Comes(s, t) => ~Alt!Comes(t, s)
         /\ Alt!Comes(s, t) \/ Alt!Comes(t, s) \/ s = t
         /\ \A u : Alt!Comes(s, t) /\ Alt!Comes(t, u) => Alt!Comes(s, u)
<1> DEFINE D == DOMAIN SymbolOrder
<1>1. D \subseteq Nat /\ \A i, j \in D : SymbolOrder[i] = SymbolOrder[j] => i = j
  BY BasketAssumption
<1>2. PICK i \in D : SymbolOrder[i] = s
  BY DEF Alt!Listable, Alt!ToSet
<1>3. PICK j \in D : SymbolOrder[j] = t
  BY DEF Alt!Listable, Alt!ToSet
<1>4. i \in Nat /\ j \in Nat
  BY <1>1
<1>5. \A k, l \in D : k < l /\ SymbolOrder[k] = s /\ SymbolOrder[l] = t => k = i /\ l = j
  BY <1>1, <1>2, <1>3
<1>6. Alt!Comes(s, t) <=> i < j
  BY <1>2, <1>3, <1>5 DEF Alt!Comes
<1>7. Alt!Comes(t, s) <=> j < i
  BY <1>1, <1>2, <1>3 DEF Alt!Comes
<1>8. ASSUME NEW u, Alt!Comes(s, t), Alt!Comes(t, u)
      PROVE  Alt!Comes(s, u)
  <2>1. PICK k \in D : j < k /\ SymbolOrder[k] = u
    BY <1>1, <1>3, <1>8 DEF Alt!Comes
  <2>2. i < k
    BY <1>1, <1>4, <1>6, <1>8, <2>1
  <2>3. QED
    BY <1>2, <2>1, <2>2 DEF Alt!Comes
<1>9. QED
  BY <1>2, <1>3, <1>4, <1>6, <1>7, <1>8

\* and so are the members.
LEMMA BetterInOrder ==
  ASSUME NEW S, IsMembers(S), NEW m \in S, NEW n \in S
  PROVE  /\ Alt!Better(m, n) => ~Alt!Better(n, m)
         /\ Alt!Better(m, n) \/ Alt!Better(n, m) \/ m = n
         /\ \A o \in S : Alt!Better(m, n) /\ Alt!Better(n, o) => Alt!Better(m, o)
<1>1. \A o \in S : o.symbol \in Alt!Listable /\ o.score \in Int
  BY DEF IsMembers, Member
<1>2. m.symbol = n.symbol => m = n
  BY DEF IsMembers, OnePerSymbol
<1>3. /\ Alt!Comes(m.symbol, n.symbol) => ~Alt!Comes(n.symbol, m.symbol)
      /\ Alt!Comes(m.symbol, n.symbol) \/ Alt!Comes(n.symbol, m.symbol) \/ m.symbol = n.symbol
      /\ \A u : Alt!Comes(m.symbol, n.symbol) /\ Alt!Comes(n.symbol, u) => Alt!Comes(m.symbol, u)
  BY <1>1, ComesInOrder
<1>4. /\ Alt!Better(m, n) => ~Alt!Better(n, m)
      /\ Alt!Better(m, n) \/ Alt!Better(n, m) \/ m = n
  BY <1>1, <1>2, <1>3 DEF Alt!Better
<1>5. ASSUME NEW o \in S, Alt!Better(m, n), Alt!Better(n, o)
      PROVE  Alt!Better(m, o)
  BY <1>1, <1>3, <1>5 DEF Alt!Better
<1>6. QED
  BY <1>4, <1>5

\* Every number of better members is that of one member.
Ahead(S, m) == {n \in S : Alt!Better(n, m)}

LEMMA RankIs ==
  ASSUME NEW S, IsMembers(S), NEW m \in S
  PROVE  /\ Alt!Rank(S, m) = Cardinality(Ahead(S, m)) /\ IsFiniteSet(Ahead(S, m))
         /\ Cardinality(S) \in Nat /\ Alt!Rank(S, m) \in 0 .. Cardinality(S) - 1
<1>1. Alt!Rank(S, m) = Cardinality(Ahead(S, m))
  <2>1. {n \in S : Alt!Better(n, m)} = Ahead(S, m)
    BY DEF Ahead
  <2>2. Alt!Rank(S, m) = Cardinality({n \in S : Alt!Better(n, m)})
    BY AltSize DEF Alt!Rank
  <2>3. QED
    BY <2>1, <2>2
<1>2. Ahead(S, m) \subseteq S \ {m} /\ IsFiniteSet(S)
  BY BetterInOrder DEF Ahead, IsMembers
<1>3. /\ IsFiniteSet(S \ {m}) /\ Cardinality(S \ {m}) = Cardinality(S) - 1
      /\ Cardinality(S) \in Nat
  BY <1>2, FS_RemoveElement, FS_CardinalityType
<1>4. /\ IsFiniteSet(Ahead(S, m)) /\ Cardinality(Ahead(S, m)) <= Cardinality(S \ {m})
      /\ Cardinality(Ahead(S, m)) \in Nat
  BY <1>2, <1>3, FS_Subset, FS_CardinalityType
<1>5. QED
  BY <1>1, <1>3, <1>4

LEMMA RankGrows ==
  ASSUME NEW S, IsMembers(S), NEW m \in S, NEW n \in S, Alt!Better(m, n)
  PROVE  Alt!Rank(S, m) < Alt!Rank(S, n)
<1>1. Ahead(S, m) \subseteq Ahead(S, n) /\ m \in Ahead(S, n) /\ m \notin Ahead(S, m)
  BY BetterInOrder DEF Ahead
<1>2. /\ IsFiniteSet(Ahead(S, m)) /\ IsFiniteSet(Ahead(S, n))
      /\ Cardinality(Ahead(S, m)) \in Nat /\ Cardinality(Ahead(S, n)) \in Nat
      /\ Alt!Rank(S, m) = Cardinality(Ahead(S, m)) /\ Alt!Rank(S, n) = Cardinality(Ahead(S, n))
  BY RankIs, FS_CardinalityType
<1>3. /\ Cardinality(Ahead(S, m)) <= Cardinality(Ahead(S, n))
      /\ Cardinality(Ahead(S, m)) # Cardinality(Ahead(S, n))
  BY <1>1, <1>2, FS_Subset
<1>4. QED
  BY <1>2, <1>3

\* The n-th member is a member.
LEMMA NthIs ==
  ASSUME NEW S, IsMembers(S), NEW n \in 1 .. Cardinality(S)
  PROVE  Alt!Nth(S, n) \in S
<1> DEFINE C == Cardinality(S)
           r == [m \in S |-> Alt!Rank(S, m)]
<1>1. C \in Nat /\ IsFiniteSet(S)
  BY FS_CardinalityType DEF IsMembers
<1> DEFINE Places == 0 .. C - 1
<1>2. IsFiniteSet(Places) /\ Cardinality(Places) = C
  <2>1. /\ 0 \in Int /\ C - 1 \in Int
        /\ (IF 0 > C - 1 THEN 0 ELSE (C - 1) - 0 + 1) = C
    BY <1>1
  <2>2. QED
    BY <2>1, FS_Interval
<1>3. r \in [S -> Places]
  BY RankIs
<1>4. \A m, o \in S : r[m] = r[o] => m = o
  <2> SUFFICES ASSUME NEW m \in S, NEW o \in S, m # o
               PROVE  Alt!Rank(S, m) # Alt!Rank(S, o)
    OBVIOUS
  <2>1. Alt!Better(m, o) \/ Alt!Better(o, m)
    BY BetterInOrder
  <2>2. Alt!Rank(S, m) \in Nat /\ Alt!Rank(S, o) \in Nat
    BY RankIs
  <2>3. QED
    BY <2>1, <2>2, RankGrows
<1>7. n - 1 \in Places
  BY <1>1
<1> HIDE DEF r, Places
<1>5. r \in Injection(S, Places)
  BY <1>3, <1>4, Fun_IsInj
<1>6. r \in Surjection(S, Places)
  BY <1>1, <1>2, <1>5, FS_Injection
<1>8. \E m \in S : r[m] = n - 1
  BY <1>6, <1>7, Fun_SurjectionProperties
<1>9. \E m \in S : Alt!Rank(S, m) = n - 1
  BY <1>8 DEF r
<1>10. QED
  BY <1>9 DEF Alt!Nth

\* As many as there is room for; all of them if there is room for all
LEMMA SliceIs ==
  ASSUME NEW S, IsMembers(S), NEW count \in Nat
  PROVE  /\ IsMembers(Alt!Slice(S, count)) /\ Alt!Slice(S, count) \subseteq S
         /\ Cardinality(Alt!Slice(S, count)) <= count
         /\ Cardinality(S) <= count => Alt!Slice(S, count) = S
<1> DEFINE P == Alt!Slice(S, count)
           r == [m \in P |-> Alt!Rank(S, m)]
<1>1. P \subseteq S /\ \A m \in P : Alt!Rank(S, m) < count
  BY DEF Alt!Slice
<1>2. IsMembers(P)
  BY <1>1, FS_Subset DEF IsMembers, OnePerSymbol
<1>3. /\ \A m \in S : Alt!Rank(S, m) \in 0 .. Cardinality(S) - 1
      /\ Cardinality(S) \in Nat
  BY RankIs, FS_CardinalityType DEF IsMembers
<1>4. r \in [P -> 0 .. count - 1]
  BY <1>1, <1>3
<1>5. \A m, o \in P : r[m] = r[o] => m = o
  <2> SUFFICES ASSUME NEW m \in P, NEW o \in P, m # o
               PROVE  Alt!Rank(S, m) # Alt!Rank(S, o)
    OBVIOUS
  <2>1. m \in S /\ o \in S
    BY <1>1
  <2>2. Alt!Better(m, o) \/ Alt!Better(o, m)
    BY <2>1, BetterInOrder
  <2>3. Alt!Rank(S, m) \in Nat /\ Alt!Rank(S, o) \in Nat
    BY <1>3, <2>1
  <2>4. QED
    BY <2>1, <2>2, <2>3, RankGrows
<1> HIDE DEF r
<1>6. r \in Injection(P, 0 .. count - 1)
  BY <1>4, <1>5, Fun_IsInj
<1>7. IsFiniteSet(0 .. count - 1) /\ Cardinality(0 .. count - 1) = count
  BY FS_Interval
<1>8. Cardinality(P) <= count
  BY <1>6, <1>7, FS_Injection
<1>9. Cardinality(S) <= count => P = S
  BY <1>3 DEF Alt!Slice
<1>10. QED
  BY <1>1, <1>2, <1>8, <1>9

\* What holds of 0 and of the next number holds of all numbers up to the last.
LEMMA UpToLast ==
  ASSUME NEW last \in Nat, NEW T, 0 \in T, \A n \in 1 .. last : n - 1 \in T => n \in T
  PROVE  \A n \in 0 .. last : n \in T
<1> DEFINE Missing == {n \in 0 .. last : n \notin T}
<1>1. ASSUME Missing # {}
      PROVE  FALSE
  <2>1. Missing \in SUBSET Nat
    OBVIOUS
  <2> HIDE DEF Missing
  <2>2. PICK m \in Missing : \A n \in Missing : m <= n
    BY <1>1, <2>1, LeastNumber
  <2>3. m \in 0 .. last /\ m \notin T
    BY <2>2 DEF Missing
  <2>4. m \in 1 .. last
    BY <2>3
  <2>5. m - 1 \in 0 .. last /\ ~(m <= m - 1)
    BY <2>4
  <2>6. m - 1 \in T
    BY <2>2, <2>5 DEF Missing
  <2>7. QED
    BY <2>3, <2>4, <2>6
<1>2. QED
  BY <1>1

\* A step can be taken again and again.
Iterates(f, S, first, step, last) ==
  /\ f \in [0 .. last -> S] /\ f[0] = first
  /\ \A n \in 1 .. last : f[n] = step[<<f[n - 1], n>>]

LEMMA Iterated ==
  ASSUME NEW last \in Nat, NEW S, NEW first \in S, NEW step \in [S \X (1 .. last) -> S]
  PROVE  \E f : Iterates(f, S, first, step, last)
<1> DEFINE Taken(f, m) == /\ f \in [0 .. m -> S] /\ f[0] = first
                          /\ \A n \in 1 .. m : f[n] = step[<<f[n - 1], n>>]
           T == {m \in 0 .. last : \E f : Taken(f, m)}
<1>1. 0 \in T
  <2> DEFINE f == [n \in 0 .. 0 |-> first]
  <2>1. f \in [0 .. 0 -> S] /\ f[0] = first /\ 1 .. 0 = {}
    OBVIOUS
  <2> HIDE DEF f
  <2>2. Taken(f, 0)
    BY <2>1
  <2>3. QED
    BY <2>2
<1>2. ASSUME NEW m \in 1 .. last, m - 1 \in T
      PROVE  m \in T
  <2>1. PICK g : Taken(g, m - 1)
    BY <1>2
  <2> DEFINE f == [n \in 0 .. m |-> IF n = m THEN step[<<g[m - 1], m>>] ELSE g[n]]
  <2>2. m \in 0 .. last /\ m - 1 \in 0 .. m - 1 /\ 0 \in 0 .. m - 1 /\ m \in 0 .. m
    OBVIOUS
  <2>3. \A n \in 0 .. m : n # m => n \in 0 .. m - 1
    OBVIOUS
  <2>4. step[<<g[m - 1], m>>] \in S
    BY <2>1, <2>2
  <2>5. f \in [0 .. m -> S]
    BY <2>1, <2>3, <2>4
  <2>6. f[0] = first
    BY <2>1, <2>2
  <2>7. ASSUME NEW n \in 1 .. m
        PROVE  f[n] = step[<<f[n - 1], n>>]
    <3>1. n \in 0 .. m /\ n - 1 \in 0 .. m /\ n - 1 # m
      OBVIOUS
    <3>2. f[n - 1] = g[n - 1]
      BY <3>1
    <3>3. CASE n = m
      BY <3>1, <3>2, <3>3
    <3>4. CASE n # m
      <4>1. n \in 1 .. m - 1
        BY <3>4
      <4>2. QED
        BY <2>1, <3>1, <3>2, <3>4, <4>1
    <3>5. QED
      BY <3>3, <3>4
  <2> HIDE DEF f
  <2>8. Taken(f, m)
    BY <2>5, <2>6, <2>7
  <2>9. QED
    BY <2>2, <2>8
<1>3. last \in T
  <2> HIDE DEF T
  <2>1. last \in 0 .. last
    OBVIOUS
  <2>2. QED
    BY <1>1, <1>2, <2>1, UpToLast
<1>4. PICK f : Taken(f, last)
  BY <1>3
<1>5. QED
  BY <1>4 DEF Iterates

\* As few as those that have their symbols
LEMMA FewerSymbols ==
  ASSUME NEW R, NEW S, IsFiniteSet(S), OnePerSymbol(R),
         \A r \in R : \E s \in S : s.symbol = r.symbol
  PROVE  IsFiniteSet(R) /\ Cardinality(R) <= Cardinality(S)
<1> DEFINE f == [r \in R |-> CHOOSE s \in S : s.symbol = r.symbol]
<1>1. f \in [R -> S] /\ \A r \in R : f[r].symbol = r.symbol
  OBVIOUS
<1> HIDE DEF f
<1>2. \A a, b \in R : f[a] = f[b] => a = b
  BY <1>1 DEF OnePerSymbol
<1>3. f \in Injection(R, S)
  BY <1>1, <1>2, Fun_IsInj
<1>4. QED
  BY <1>3, FS_Injection

\* Scores are numbers.
LEMMA PercentileIs ==
  ASSUME NEW values, IsFiniteSet(DOMAIN values), NEW symbol, NEW higherIsBetter
  PROVE  Alt!Percentile(values, symbol, higherIsBetter) \in Int
<1> DEFINE finite == {s \in DOMAIN values : values[s] # Alt!Null}
           lower  == {s \in finite : values[s] < values[symbol]}
           equal  == {s \in finite : values[s] = values[symbol]}
           l == Cardinality(lower)
           e == Cardinality(equal)
           others == Cardinality(finite) - 1
           rank == ((2 * l + e - 1) * 12) \div (2 * others)
<1>1. IsFiniteSet(finite) /\ lower \subseteq finite /\ equal \subseteq finite
  BY FS_Subset
<1> HIDE DEF finite
<1>2. IsFiniteSet(lower) /\ IsFiniteSet(equal)
  BY <1>1, FS_Subset
<1> HIDE DEF lower, equal
<1>3. l \in Nat /\ e \in Nat /\ Cardinality(finite) \in Nat
  BY <1>1, <1>2, FS_CardinalityType
<1>4. symbol \in finite => others \in Nat
  BY <1>1, <1>3, FS_EmptySet
<1> HIDE DEF l, e, others
<1>5. symbol \in finite /\ others # 0 => rank \in Int
  <2> SUFFICES ASSUME symbol \in finite, others # 0
               PROVE  rank \in Int
    OBVIOUS
  <2> DEFINE a == (2 * l + e - 1) * 12
             b == 2 * others
  <2>1. a \in Int /\ b \in Nat /\ b > 0
    BY <1>3, <1>4
  <2> HIDE DEF a, b
  <2>2. a \div b \in Int
    BY <2>1
  <2>3. QED
    BY <2>2 DEF a, b
<1> HIDE DEF rank
<1>6. Alt!Percentile(values, symbol, higherIsBetter) =
        IF symbol \notin finite THEN 0
        ELSE IF others = 0 THEN 12
        ELSE IF higherIsBetter THEN rank ELSE 12 - rank
  BY AltSize DEF Alt!Percentile, Alt!Scale, finite, lower, equal, l, e, others, rank
<1>7. QED
  BY <1>5, <1>6

\* Candidates, one per symbol
IsCandidates(C) ==
  IsFiniteSet(C) /\ OnePerSymbol(C) /\ \A c \in C : c.symbol \in Alt!Listable

LEMMA ScoreIs ==
  ASSUME NEW C, IsFiniteSet(C), NEW c
  PROVE  Alt!Score(C, c) \in Int
<1> DEFINE symbols == {d.symbol : d \in C}
           row(s)  == CHOOSE d \in C : d.symbol = s
           name == [d \in C |-> d.symbol]
           volumes   == [s \in symbols |-> row(s).quoteVolume]
           interests == [s \in symbols |-> row(s).openInterest]
           spreads   == [s \in symbols |-> row(s).spread]
           counts    == [s \in symbols |-> row(s).tradeCount]
<1>1. IsFiniteSet(symbols)
  <2>1. name \in [C -> symbols] /\ \A s \in symbols : \E d \in C : name[d] = s
    OBVIOUS
  <2> HIDE DEF name, symbols
  <2>2. name \in Surjection(C, symbols)
    BY <2>1, Fun_IsSurj
  <2>3. QED
    BY <2>2, FS_Surjection
<1>2. /\ DOMAIN volumes = symbols /\ DOMAIN interests = symbols
      /\ DOMAIN spreads = symbols /\ DOMAIN counts = symbols
  OBVIOUS
<1> DEFINE P(values, up) == Alt!Percentile(values, c.symbol, up)
<1>3. Alt!Score(C, c) = 40 * P(volumes, TRUE) + 30 * P(interests, TRUE) + 15 * P(spreads, FALSE)
                          + 10 * P(counts, TRUE) + 5 * (IF c.dataComplete THEN 12 ELSE 0)
  BY DEF Alt!Score, Alt!Scale
<1> HIDE DEF volumes, interests, spreads, counts, symbols
<1>4. /\ P(volumes, TRUE) \in Int /\ P(interests, TRUE) \in Int
      /\ P(spreads, FALSE) \in Int /\ P(counts, TRUE) \in Int
  BY <1>1, <1>2, PercentileIs
<1> DEFINE complete == IF c.dataComplete THEN 12 ELSE 0
           v == P(volumes, TRUE)
           i == P(interests, TRUE)
           s == P(spreads, FALSE)
           t == P(counts, TRUE)
<1>5. complete \in Int
  OBVIOUS
<1>6. Alt!Score(C, c) = 40 * v + 30 * i + 15 * s + 10 * t + 5 * complete
  BY <1>3
<1>7. v \in Int /\ i \in Int /\ s \in Int /\ t \in Int
  BY <1>4
<1> HIDE DEF v, i, s, t, complete
<1>8. QED
  BY <1>5, <1>6, <1>7

\* The members that candidates may become
LEMMA ScoredIs ==
  ASSUME NEW C, IsCandidates(C), NEW time \in Nat
  PROVE  /\ IsMembers(Alt!Scored(C, time))
         /\ \A c \in C : \E m \in Alt!Scored(C, time) : m.symbol = c.symbol
<1> DEFINE S == Alt!Scored(C, time)
           As(c) == [symbol |-> c.symbol, score |-> Alt!Score(C, c), selectedAt |-> time]
<1>1. S = {As(c) : c \in C}
  BY DEF Alt!Scored
<1>2. \A c \in C : As(c) \in Member
  BY ScoreIs DEF IsCandidates, Member
<1>3. \A c \in C : As(c).symbol = c.symbol
  OBVIOUS
<1>4. \A c, d \in C : c.symbol = d.symbol => c = d
  BY DEF IsCandidates, OnePerSymbol
<1> HIDE DEF As, S
<1>5. S \subseteq Member /\ \A m \in S : \E c \in C : c.symbol = m.symbol
  BY <1>1, <1>2, <1>3
<1>6. OnePerSymbol(S)
  <2> SUFFICES ASSUME NEW m \in S, NEW n \in S, m.symbol = n.symbol
               PROVE  m = n
    BY DEF OnePerSymbol
  <2>1. PICK c \in C : m = As(c)
    BY <1>1
  <2>2. PICK d \in C : n = As(d)
    BY <1>1
  <2>3. c = d
    BY <1>3, <1>4, <2>1, <2>2
  <2>4. QED
    BY <2>1, <2>2, <2>3
<1>7. IsFiniteSet(S)
  BY <1>5, <1>6, FewerSymbols DEF IsCandidates
<1>8. \A c \in C : \E m \in S : m.symbol = c.symbol
  BY <1>1, <1>3
<1>9. QED
  BY <1>5, <1>6, <1>7, <1>8 DEF IsMembers, S

\* The members that were in the basket, with their times of residence
LEMMA RetainedIs ==
  ASSUME NEW S, IsMembers(S), NEW previous, IsMembers(previous)
  PROVE  LET R == Alt!Retained(S, previous)
         IN  /\ IsMembers(R) /\ Cardinality(R) <= Cardinality(previous)
             /\ \A p \in previous, m \in S :
                  m.symbol = p.symbol =>
                    \E r \in R : r.symbol = p.symbol /\ r.selectedAt = p.selectedAt
<1> DEFINE R == Alt!Retained(S, previous)
           As(m, p) == [m EXCEPT !.selectedAt = p.selectedAt]
<1>1. \A r : r \in R <=> \E m \in S, p \in previous : p.symbol = m.symbol /\ r = As(m, p)
  BY DEF Alt!Retained
<1>2. ASSUME NEW m \in S, NEW p \in previous
      PROVE  /\ As(m, p) \in Member /\ As(m, p).symbol = m.symbol
             /\ As(m, p).selectedAt = p.selectedAt
  <2>1. m \in Member /\ p.selectedAt \in Nat
    BY DEF IsMembers, Member
  <2>2. QED
    BY <2>1 DEF Member
<1>3. /\ \A m, n \in S : m.symbol = n.symbol => m = n
      /\ \A p, q \in previous : p.symbol = q.symbol => p = q
  BY DEF IsMembers, OnePerSymbol
<1> HIDE DEF As, R
<1>4. R \subseteq Member /\ \A r \in R : \E p \in previous : p.symbol = r.symbol
  BY <1>1, <1>2
<1>5. OnePerSymbol(R)
  <2> SUFFICES ASSUME NEW q \in R, NEW r \in R, q.symbol = r.symbol
               PROVE  q = r
    BY DEF OnePerSymbol
  <2>1. PICK m \in S, p \in previous : p.symbol = m.symbol /\ q = As(m, p)
    BY <1>1
  <2>2. PICK n \in S, o \in previous : o.symbol = n.symbol /\ r = As(n, o)
    BY <1>1
  <2>3. m = n /\ p = o
    BY <1>2, <1>3, <2>1, <2>2
  <2>4. QED
    BY <2>1, <2>2, <2>3
<1>6. IsFiniteSet(R) /\ Cardinality(R) <= Cardinality(previous)
  BY <1>4, <1>5, FewerSymbols DEF IsMembers
<1>7. ASSUME NEW p \in previous, NEW m \in S, m.symbol = p.symbol
      PROVE  \E r \in R : r.symbol = p.symbol /\ r.selectedAt = p.selectedAt
  BY <1>1, <1>2, <1>7
<1>8. QED
  BY <1>4, <1>5, <1>6, <1>7 DEF IsMembers, R

\* A member of a new symbol makes one more.
LEMMA OneMore ==
  ASSUME NEW B, IsMembers(B), NEW m \in Member, Alt!Outside(B, m)
  PROVE  /\ IsMembers(B \cup {m}) /\ m \notin B
         /\ Cardinality(B \cup {m}) = Cardinality(B) + 1
<1>1. \A n \in B : n.symbol # m.symbol
  BY DEF Alt!Outside
<1>2. m \notin B /\ IsFiniteSet(B)
  BY <1>1 DEF IsMembers
<1>3. IsFiniteSet(B \cup {m}) /\ Cardinality(B \cup {m}) = Cardinality(B) + 1
  BY <1>2, FS_AddElement
<1>4. QED
  BY <1>1, <1>2, <1>3 DEF IsMembers, OnePerSymbol

\* Filled by a function of the numbers of members
FilledUpTo(S, R) ==
  CHOOSE f : f = [n \in 0 .. Alt!Cardinality(S) |->
                    IF n = 0 THEN R
                    ELSE LET m == Alt!Nth(S, n)
                         IN  IF Alt!Cardinality(f[n - 1]) < TargetSize /\ Alt!Outside(f[n - 1], m)
                             THEN f[n - 1] \cup {m} ELSE f[n - 1]]

LEMMA FilledIs ==
  ASSUME NEW S, IsMembers(S), NEW R, IsMembers(R), Cardinality(R) <= TargetSize
  PROVE  LET F == Alt!Filled(S, R)
         IN  IsMembers(F) /\ R \subseteq F /\ Cardinality(F) <= TargetSize
<1> DEFINE L == Cardinality(S)
           Good(B) == IsMembers(B) /\ R \subseteq B /\ Cardinality(B) <= TargetSize
           All == {B \in SUBSET (S \cup R) : Good(B)}
           After(B, m) == IF Cardinality(B) < TargetSize /\ Alt!Outside(B, m) THEN B \cup {m} ELSE B
           step == [x \in All \X (1 .. L) |-> After(x[1], Alt!Nth(S, x[2]))]
           Solves(f) == f = [n \in 0 .. L |-> IF n = 0 THEN R ELSE After(f[n - 1], Alt!Nth(S, n))]
           c == FilledUpTo(S, R)
<1>1. L \in Nat
  BY FS_CardinalityType DEF IsMembers
<1>2. c = CHOOSE f : Solves(f)
  BY AltSize DEF FilledUpTo
<1>3. Alt!Filled(S, R) = c[L]
  <2>1. Alt!Filled(S, R) = c[Alt!Cardinality(S)]
    BY DEF Alt!Filled, FilledUpTo
  <2>2. QED
    BY <2>1, AltSize
<1> HIDE DEF c
<1>4. ASSUME NEW B \in All, NEW m \in S
      PROVE  After(B, m) \in All
  <2>1. CASE Cardinality(B) < TargetSize /\ Alt!Outside(B, m)
    <3>1. m \in Member /\ IsMembers(B) /\ Cardinality(B) \in Nat
      BY FS_CardinalityType DEF IsMembers
    <3>2. IsMembers(B \cup {m}) /\ Cardinality(B \cup {m}) = Cardinality(B) + 1
      BY <2>1, <3>1, OneMore
    <3>3. Cardinality(B \cup {m}) <= TargetSize
      BY <2>1, <3>1, <3>2, BasketAssumption
    <3>4. QED
      BY <2>1, <3>2, <3>3
  <2>2. QED
    BY <2>1
<1>5. R \in All
  OBVIOUS
<1>6. \A n \in 1 .. L : Alt!Nth(S, n) \in S
  BY NthIs
<1> HIDE DEF All, After
<1>7. step \in [All \X (1 .. L) -> All]
  BY <1>4, <1>6
<1>8. PICK f : Iterates(f, All, R, step, L)
  <2> HIDE DEF L, step
  <2>1. QED
    BY <1>1, <1>5, <1>7, Iterated
<1>9. \A n \in 1 .. L : f[n] = After(f[n - 1], Alt!Nth(S, n))
  <2> SUFFICES ASSUME NEW n \in 1 .. L PROVE f[n] = After(f[n - 1], Alt!Nth(S, n))
    OBVIOUS
  <2>1. n - 1 \in 0 .. L
    BY <1>1
  <2>2. <<f[n - 1], n>> \in All \X (1 .. L)
    BY <1>8, <2>1 DEF Iterates
  <2>3. QED
    BY <1>8, <2>2 DEF Iterates
<1> HIDE DEF step
<1>10. Solves(f)
  <2> DEFINE g == [n \in 0 .. L |-> IF n = 0 THEN R ELSE After(f[n - 1], Alt!Nth(S, n))]
  <2>1. ASSUME NEW n \in 0 .. L
        PROVE  f[n] = g[n]
    <3>1. n # 0 => n \in 1 .. L
      BY <1>1
    <3>2. QED
      BY <1>8, <1>9, <3>1 DEF Iterates
  <2>2. QED
    BY <1>8, <2>1 DEF Iterates
<1>11. Solves(c)
  BY <1>2, <1>10
<1>12. c[0] = R /\ \A n \in 1 .. L : c[n] = After(c[n - 1], Alt!Nth(S, n))
  <2> HIDE DEF L
  <2>1. 0 \in 0 .. L /\ \A n \in 1 .. L : n \in 0 .. L /\ n # 0
    BY <1>1
  <2>2. QED
    BY <1>11, <2>1
<1> DEFINE T == {n \in 0 .. L : c[n] \in All}
<1>13. \A n \in 0 .. L : n \in T
  <2>1. 0 \in T
    BY <1>1, <1>5, <1>12
  <2>2. ASSUME NEW n \in 1 .. L, n - 1 \in T
        PROVE  n \in T
    BY <1>4, <1>6, <1>12, <2>2
  <2> HIDE DEF T
  <2>3. QED
    BY <1>1, <2>1, <2>2, UpToLast
<1>14. c[L] \in All
  BY <1>1, <1>13
<1>15. QED
  BY <1>3, <1>14 DEF All

\* What is left of the members F that the basket was filled with after k replacements
Loses(F, B, k, time) ==
  /\ IsMembers(B) /\ Cardinality(B) <= Cardinality(F)
  /\ k \in 0 .. Alt!MaxElectiveReplacements /\ Cardinality(F \ B) <= k
  /\ \A m \in F \ B : time - m.selectedAt >= MinResidence

LEMMA MostReplacements == Alt!MaxElectiveReplacements \in Nat
<1>1. TargetSize \in Nat
  BY BasketAssumption
<1>2. TargetSize \div 4 \in Int
  BY <1>1
<1>3. QED
  BY <1>2 DEF Alt!MaxElectiveReplacements

\* A challenge replaces one member that has stayed long enough, or none.
LEMMA ChallengeLoses ==
  ASSUME NEW F, IsMembers(F), NEW B, NEW k, NEW time, Loses(F, B, k, time),
         NEW m \in Member
  PROVE  LET state == [basket |-> B, replaced |-> k]
             after == Alt!Challenge(state, m, time)
         IN  /\ after = [basket |-> after.basket, replaced |-> after.replaced]
             /\ after.basket \subseteq B \cup {m}
             /\ Loses(F, after.basket, after.replaced, time)
<1> DEFINE state == [basket |-> B, replaced |-> k]
           after == Alt!Challenge(state, m, time)
           settled == {n \in B : time - n.selectedAt >= MinResidence}
           worst == {w \in settled : \A n \in settled \ {w} : Alt!Better(n, w)}
           better == \E w \in worst : m.score >= w.score + Alt!Margin
           most == Alt!MaxElectiveReplacements
           new == (B \ worst) \cup {m}
<1>1. after = IF k < most /\ Alt!Outside(B, m) /\ Alt!Challenged(B, m, time) # B
              THEN [basket |-> Alt!Challenged(B, m, time), replaced |-> k + 1] ELSE state
  BY DEF Alt!Challenge
<1>2. Alt!Challenged(B, m, time) = IF better THEN new ELSE B
  BY DEF Alt!Challenged
<1>3. most \in Nat /\ k \in 0 .. most
  BY MostReplacements DEF Loses
<1> HIDE DEF after, better, most
<1>4. CASE k < most /\ Alt!Outside(B, m) /\ better
  <2>1. PICK w \in worst : TRUE
    BY <1>4 DEF better
  <2>2. w \in B /\ time - w.selectedAt >= MinResidence /\ worst \subseteq B
    OBVIOUS
  <2>3. worst = {w}
    <3> SUFFICES ASSUME NEW v \in worst, v # w PROVE FALSE
      BY <2>1
    <3>1. Alt!Better(v, w) /\ Alt!Better(w, v)
      OBVIOUS
    <3>2. v \in B /\ w \in B /\ IsMembers(B)
      BY DEF Loses
    <3>3. QED
      BY <3>1, <3>2, BetterInOrder
  <2> DEFINE less == B \ {w}
  <2>4. IsMembers(B) /\ IsFiniteSet(B) /\ IsFiniteSet(F)
    BY DEF Loses, IsMembers
  <2>5. /\ IsMembers(less) /\ Cardinality(less) = Cardinality(B) - 1
        /\ Alt!Outside(less, m)
    <3>1. IsFiniteSet(less) /\ Cardinality(less) = Cardinality(B) - 1
      BY <2>2, <2>4, FS_RemoveElement
    <3>2. QED
      BY <1>4, <2>4, <3>1 DEF IsMembers, OnePerSymbol, Alt!Outside
  <2>6. new = less \cup {m}
    BY <2>3
  <2> HIDE DEF less, new, worst, settled
  <2>7. IsMembers(new) /\ Cardinality(new) = Cardinality(less) + 1
    BY <2>5, <2>6, OneMore
  <2>8. m \notin B
    BY <1>4 DEF Alt!Outside
  <2>9. new # B
    BY <2>6, <2>8
  <2>10. after = [basket |-> new, replaced |-> k + 1]
    BY <1>1, <1>2, <1>4, <2>9
  <2>11. after.basket = new /\ after.replaced = k + 1
    BY <2>10
  <2>12. F \ new \subseteq (F \ B) \cup {w}
    BY <2>6 DEF less
  <2>13. Cardinality(F \ new) <= k + 1
    <3>1. IsFiniteSet(F \ B) /\ Cardinality(F \ B) \in Nat
      BY <2>4, FS_Subset, FS_CardinalityType
    <3>2. /\ IsFiniteSet((F \ B) \cup {w})
          /\ Cardinality((F \ B) \cup {w}) <= Cardinality(F \ B) + 1
      <4> DEFINE lost == F \ B
      <4>1. IsFiniteSet(lost) /\ Cardinality(lost) \in Nat
        BY <3>1
      <4> HIDE DEF lost
      <4>2. /\ IsFiniteSet(lost \cup {w})
            /\ Cardinality(lost \cup {w}) =
                 IF w \in lost THEN Cardinality(lost) ELSE Cardinality(lost) + 1
        BY <4>1, FS_AddElement
      <4>3. Cardinality(lost \cup {w}) <= Cardinality(lost) + 1
        BY <4>1, <4>2
      <4>4. QED
        BY <4>2, <4>3 DEF lost
    <3>3. IsFiniteSet(F \ new) /\ Cardinality(F \ new) <= Cardinality((F \ B) \cup {w})
      BY <2>12, <3>2, FS_Subset
    <3>4. /\ Cardinality(F \ new) \in Nat /\ Cardinality((F \ B) \cup {w}) \in Nat
          /\ Cardinality(F \ B) <= k /\ k \in Nat
      BY <1>3, <3>2, <3>3, FS_CardinalityType DEF Loses
    <3>5. QED
      BY <3>1, <3>2, <3>3, <3>4
  <2>14. Cardinality(new) <= Cardinality(F)
    <3>1. Cardinality(B) \in Nat /\ Cardinality(F) \in Nat /\ Cardinality(B) <= Cardinality(F)
      BY <2>4, FS_CardinalityType DEF Loses
    <3>2. QED
      BY <2>5, <2>7, <3>1
  <2>15. \A n \in F \ new : time - n.selectedAt >= MinResidence
    BY <2>2, <2>12 DEF Loses
  <2>16. k + 1 \in 0 .. most
    BY <1>3, <1>4
  <2>17. Loses(F, new, k + 1, time)
    BY <2>7, <2>13, <2>14, <2>15, <2>16 DEF Loses, most
  <2>18. new \subseteq B \cup {m}
    BY <2>6 DEF less
  <2>19. QED
    BY <2>10, <2>11, <2>17, <2>18 DEF after
<1>5. CASE ~(k < most /\ Alt!Outside(B, m) /\ better)
  <2>1. after = state
    BY <1>1, <1>2, <1>5
  <2>2. after.basket = B /\ after.replaced = k
    BY <2>1
  <2>3. QED
    BY <2>1, <2>2 DEF after
<1>6. QED
  BY <1>4, <1>5

\* Replaced by a function of the numbers of challengers
ReplacedUpTo(S, F, time) ==
  CHOOSE f : f = [n \in 0 .. Alt!Cardinality(S) |->
                    IF n = 0 THEN [basket |-> F, replaced |-> 0]
                    ELSE Alt!Challenge(f[n - 1], Alt!Nth(S, n), time)]

LEMMA ReplacedIs ==
  ASSUME NEW S, IsMembers(S), NEW F, IsMembers(F), NEW time
  PROVE  \E k : Loses(F, Alt!Replaced(S, F, time), k, time)
<1> DEFINE L == Cardinality(S)
           All == {[basket |-> B, replaced |-> k] : B \in SUBSET (S \cup F), k \in Nat}
           Good == {x \in All : Loses(F, x.basket, x.replaced, time)}
           After(x, m) == Alt!Challenge(x, m, time)
           first == [basket |-> F, replaced |-> 0]
           step == [x \in Good \X (1 .. L) |-> After(x[1], Alt!Nth(S, x[2]))]
           Solves(f) == f = [n \in 0 .. L |-> IF n = 0 THEN first ELSE After(f[n - 1], Alt!Nth(S, n))]
           c == ReplacedUpTo(S, F, time)
<1>1. L \in Nat
  BY FS_CardinalityType DEF IsMembers
<1>2. c = CHOOSE f : Solves(f)
  BY AltSize DEF ReplacedUpTo
<1>3. Alt!Replaced(S, F, time) = c[L].basket
  <2>1. Alt!Replaced(S, F, time) = c[Alt!Cardinality(S)].basket
    BY DEF Alt!Replaced, ReplacedUpTo
  <2>2. QED
    BY <2>1, AltSize
<1> HIDE DEF c
<1>4. ASSUME NEW x \in Good, NEW m \in S
      PROVE  After(x, m) \in Good
  <2>1. PICK B \in SUBSET (S \cup F), k \in Nat : x = [basket |-> B, replaced |-> k]
    OBVIOUS
  <2>2. Loses(F, B, k, time)
    BY <2>1
  <2>3. m \in Member
    BY DEF IsMembers
  <2> DEFINE y == After(x, m)
  <2>4. /\ y = [basket |-> y.basket, replaced |-> y.replaced]
        /\ y.basket \subseteq B \cup {m} /\ Loses(F, y.basket, y.replaced, time)
    BY <2>1, <2>2, <2>3, ChallengeLoses
  <2> HIDE DEF y
  <2>5. y.replaced \in Nat
    BY <2>4, MostReplacements DEF Loses
  <2>6. y \in All
    BY <2>4, <2>5
  <2>7. QED
    BY <2>4, <2>6 DEF y
<1>5. first \in Good
  <2>1. F \ F = {} /\ Cardinality(F \ F) = 0 /\ 0 \in 0 .. Alt!MaxElectiveReplacements
    BY FS_EmptySet, MostReplacements
  <2>2. Cardinality(F) \in Nat
    BY FS_CardinalityType DEF IsMembers
  <2>3. Loses(F, F, 0, time)
    BY <2>1, <2>2 DEF Loses
  <2>4. QED
    BY <2>3
<1>6. \A n \in 1 .. L : Alt!Nth(S, n) \in S
  BY NthIs
<1> HIDE DEF Good, After, first
<1>7. step \in [Good \X (1 .. L) -> Good]
  BY <1>4, <1>6
<1>8. PICK f : Iterates(f, Good, first, step, L)
  <2> HIDE DEF L, step
  <2>1. QED
    BY <1>1, <1>5, <1>7, Iterated
<1>9. \A n \in 1 .. L : f[n] = After(f[n - 1], Alt!Nth(S, n))
  <2> SUFFICES ASSUME NEW n \in 1 .. L PROVE f[n] = After(f[n - 1], Alt!Nth(S, n))
    OBVIOUS
  <2>1. n - 1 \in 0 .. L
    BY <1>1
  <2>2. <<f[n - 1], n>> \in Good \X (1 .. L)
    BY <1>8, <2>1 DEF Iterates
  <2>3. QED
    BY <1>8, <2>2 DEF Iterates
<1> HIDE DEF step
<1>10. Solves(f)
  <2> DEFINE g == [n \in 0 .. L |-> IF n = 0 THEN first ELSE After(f[n - 1], Alt!Nth(S, n))]
  <2>1. ASSUME NEW n \in 0 .. L
        PROVE  f[n] = g[n]
    <3>1. n # 0 => n \in 1 .. L
      BY <1>1
    <3>2. QED
      BY <1>8, <1>9, <3>1 DEF Iterates
  <2>2. QED
    BY <1>8, <2>1 DEF Iterates
<1>11. Solves(c)
  BY <1>2, <1>10
<1>12. c[0] = first /\ \A n \in 1 .. L : c[n] = After(c[n - 1], Alt!Nth(S, n))
  <2> HIDE DEF L
  <2>1. 0 \in 0 .. L /\ \A n \in 1 .. L : n \in 0 .. L /\ n # 0
    BY <1>1
  <2>2. QED
    BY <1>11, <2>1
<1> DEFINE T == {n \in 0 .. L : c[n] \in Good}
<1>13. \A n \in 0 .. L : n \in T
  <2>1. 0 \in T
    BY <1>1, <1>5, <1>12
  <2>2. ASSUME NEW n \in 1 .. L, n - 1 \in T
        PROVE  n \in T
    BY <1>4, <1>6, <1>12, <2>2
  <2> HIDE DEF T
  <2>3. QED
    BY <1>1, <2>1, <2>2, UpToLast
<1>14. c[L] \in Good
  BY <1>1, <1>13
<1>15. QED
  BY <1>3, <1>14 DEF Good

\* The members that a basket gives up although they are still candidates
Left(previous, found, next) ==
  {m \in previous : /\ m.symbol \in found
                    /\ \A n \in next : n.symbol # m.symbol \/ n.selectedAt # m.selectedAt}

BasketOk(B) == IsMembers(B) /\ Cardinality(B) <= TargetSize

Resides(previous, found, next, time) ==
  /\ \A m \in Left(previous, found, next) : time - m.selectedAt >= MinResidence
  /\ Cardinality(Left(previous, found, next)) <= Alt!MaxElectiveReplacements

\* A basket gives up what it may, and is one again.
LEMMA BasketIs ==
  ASSUME NEW time \in Nat, NEW C, IsCandidates(C), NEW previous, BasketOk(previous)
  PROVE  LET next == Alt!SelectDynamicBasket(time, C, previous)
         IN  BasketOk(next) /\ Resides(previous, {c.symbol : c \in C}, next, time)
<1> DEFINE S == Alt!Scored(C, time)
           R == Alt!Retained(S, previous)
           F == Alt!Filled(S, R)
           B == Alt!Replaced(S, F, time)
           next == Alt!SelectDynamicBasket(time, C, previous)
           found == {c.symbol : c \in C}
           left == Left(previous, found, next)
<1>1. IsMembers(S) /\ \A c \in C : \E m \in S : m.symbol = c.symbol
  BY ScoredIs
<1>2. TargetSize \in Nat /\ Alt!MaxElectiveReplacements \in Nat
  BY BasketAssumption, MostReplacements
<1>3. next = IF previous = {} THEN Alt!Slice(S, TargetSize) ELSE Alt!Slice(B, TargetSize)
  BY DEF Alt!SelectDynamicBasket
<1> HIDE DEF S, next
<1>4. CASE previous = {}
  <2>1. BasketOk(next)
    BY <1>1, <1>2, <1>3, <1>4, SliceIs DEF BasketOk
  <2>2. left = {}
    BY <1>4 DEF Left
  <2>3. /\ \A m \in left : time - m.selectedAt >= MinResidence
        /\ Cardinality(left) <= Alt!MaxElectiveReplacements
    <3> HIDE DEF left
    <3>1. Cardinality(left) = 0
      BY <2>2, FS_EmptySet
    <3>2. QED
      BY <1>2, <2>2, <3>1
  <2>4. QED
    BY <2>1, <2>3 DEF next, Resides
<1>5. CASE previous # {}
  <2>1. IsMembers(previous) /\ Cardinality(previous) <= TargetSize
    BY DEF BasketOk
  <2>2. /\ IsMembers(R) /\ Cardinality(R) <= Cardinality(previous)
        /\ \A p \in previous, m \in S :
             m.symbol = p.symbol => \E r \in R : r.symbol = p.symbol /\ r.selectedAt = p.selectedAt
    BY <1>1, <2>1, RetainedIs
  <2> HIDE DEF R
  <2>3. Cardinality(R) <= TargetSize
    <3>1. Cardinality(R) \in Nat /\ Cardinality(previous) \in Nat
      BY <2>1, <2>2, FS_CardinalityType DEF IsMembers
    <3>2. QED
      BY <1>2, <2>1, <2>2, <3>1
  <2>4. IsMembers(F) /\ R \subseteq F /\ Cardinality(F) <= TargetSize
    BY <1>1, <2>2, <2>3, FilledIs
  <2> HIDE DEF F
  <2>5. PICK k : Loses(F, B, k, time)
    BY <1>1, <2>4, ReplacedIs
  <2> HIDE DEF B
  <2>6. next = B /\ BasketOk(B)
    <3>1. Cardinality(F) \in Nat /\ Cardinality(B) \in Nat /\ IsMembers(B)
      BY <2>4, <2>5, FS_CardinalityType DEF IsMembers, Loses
    <3>2. Cardinality(B) <= TargetSize
      BY <1>2, <2>4, <2>5, <3>1 DEF Loses
    <3>3. QED
      BY <1>2, <1>3, <1>5, <3>1, <3>2, SliceIs DEF BasketOk
  <2>7. ASSUME NEW m \in left
        PROVE  \E n \in F \ B : n.symbol = m.symbol /\ n.selectedAt = m.selectedAt
    <3>1. m \in previous /\ m.symbol \in found
      BY DEF Left
    <3>2. PICK s \in S : s.symbol = m.symbol
      BY <1>1, <3>1
    <3>3. PICK r \in R : r.symbol = m.symbol /\ r.selectedAt = m.selectedAt
      BY <2>2, <3>1, <3>2
    <3>4. r \notin B
      BY <2>6, <3>3 DEF Left
    <3>5. QED
      BY <2>4, <3>3, <3>4
  <2>8. \A m \in left : time - m.selectedAt >= MinResidence
    BY <2>5, <2>7 DEF Loses
  <2>9. Cardinality(left) <= Alt!MaxElectiveReplacements
    <3>1. OnePerSymbol(left)
      BY <2>1 DEF Left, IsMembers, OnePerSymbol
    <3>2. IsFiniteSet(F \ B)
      BY <2>4, FS_Subset DEF IsMembers
    <3> HIDE DEF left
    <3>3. \A m \in left : \E n \in F \ B : n.symbol = m.symbol
      BY <2>7
    <3>4. IsFiniteSet(left) /\ Cardinality(left) <= Cardinality(F \ B)
      BY <3>1, <3>2, <3>3, FewerSymbols
    <3>5. Cardinality(left) \in Nat /\ Cardinality(F \ B) \in Nat
      BY <3>2, <3>4, FS_CardinalityType
    <3>6. QED
      BY <1>2, <2>5, <3>4, <3>5 DEF Loses
  <2>10. Resides(previous, found, next, time)
    BY <2>8, <2>9 DEF Resides
  <2>11. QED
    BY <2>6, <2>10 DEF next
<1>6. QED
  BY <1>4, <1>5

\* What a scan finds of an exchange, without the symbols of the core
LEMMA ScanIs ==
  ASSUME NEW listings \in Exchanges, NEW answered, NEW time
  PROVE  IsCandidates({c \in Alt!ScanDynamicBasketCandidates(listings, answered, time) :
                         c.symbol \notin CoreSymbols})
<1> DEFINE C == Alt!ScanDynamicBasketCandidates(listings, answered, time)
           D == {c \in C : c.symbol \notin CoreSymbols}
           notional(l) == IF l.ticker = Alt!Null \/ l.symbol \notin answered
                          THEN Alt!Null ELSE l.openInterest
           Row(l) == [symbol |-> l.symbol,
                      quoteVolume |-> IF l.ticker = Alt!Null THEN 0 ELSE l.ticker,
                      openInterest |-> notional(l), spread |-> l.book,
                      tradeCount |-> IF l.ticker = Alt!Null THEN 0 ELSE l.ticker,
                      dataComplete |-> l.ticker # Alt!Null /\ l.book # Alt!Null
                                         /\ notional(l) # Alt!Null]
<1>1. \A c \in C : \E l \in listings : c = Row(l)
  BY DEF Alt!ScanDynamicBasketCandidates
<1>2. \A l \in listings : Row(l).symbol = l.symbol
  OBVIOUS
<1> HIDE DEF Row, C
<1>3. /\ IsFiniteSet(listings) /\ \A k, l \in listings : k.symbol = l.symbol => k = l
      /\ \A l \in listings : l.symbol \in Alt!Listable
  BY BasketAssumption
<1>4. /\ \A c \in D : c.symbol \in Alt!Listable /\ \E l \in listings : l.symbol = c.symbol
      /\ OnePerSymbol(D)
  BY <1>1, <1>2, <1>3 DEF OnePerSymbol
<1>5. IsFiniteSet(D)
  <2> HIDE DEF D
  <2>1. QED
    BY <1>3, <1>4, FewerSymbols
<1>6. QED
  BY <1>4, <1>5 DEF IsCandidates, C
-----------------------------------------------------------------------------
\* Beside the streams, the basket that the service keeps
AltBasketInv == AltInv /\ BasketOk(service.basket)

\* Residence of a step, as in the property
ResidesNow == Resides(service.basket, service'.candidates, service'.basket, now)

LEMMA UnchangedResides ==
  ASSUME BasketOk(service.basket), service'.basket = service.basket
  PROVE  BasketOk(service'.basket) /\ ResidesNow
<1> DEFINE left == Left(service.basket, service'.candidates, service'.basket)
<1>1. left = {}
  BY DEF Left
<1>2. QED
  BY <1>1, FS_EmptySet, MostReplacements DEF Resides, ResidesNow

\* A scan that answers
LEMMA ScanResides ==
  ASSUME AltBasketInv, NEW f \in fetches, Alt!ScanSucceeds(f)
  PROVE  BasketOk(service'.basket) /\ ResidesNow
<1>1. PICK listings \in Exchanges, answered \in {{}, Alt!Listable} :
        Alt!ApplyCandidates(Alt!ScanDynamicBasketCandidates(listings, answered, now))
  BY DEF Alt!ScanSucceeds
<1> DEFINE C == {c \in Alt!ScanDynamicBasketCandidates(listings, answered, now) :
                   c.symbol \notin CoreSymbols}
           next == Alt!SelectDynamicBasket(now, C, service.basket)
           found == {c.symbol : c \in C}
<1>2. IsCandidates(C) /\ now \in Nat
  BY ScanIs DEF AltBasketInv, AltInv, AltEventInv
<1>3. BasketOk(next) /\ Resides(service.basket, found, next, now)
  BY <1>2, BasketIs DEF AltBasketInv
<1>4. PICK generation : service' = [service EXCEPT !.basket = next, !.candidates = found,
                                                  !.streamGeneration = generation]
  BY <1>1 DEF Alt!ApplyCandidates
<1>5. service'.basket = next /\ service'.candidates = found
  BY <1>4 DEF AltBasketInv, AltInv, AltChannelsInv, AltServiceOk
<1>6. QED
  BY <1>3, <1>5 DEF ResidesNow

\* No other step touches the basket.
LEMMA BasketNext ==
  AltBasketInv /\ [Alt!Next]_(Alt!vars) => AltBasketInv' /\ ResidesNow
<1> SUFFICES ASSUME AltBasketInv, [Alt!Next]_(Alt!vars)
             PROVE  AltBasketInv' /\ ResidesNow
  OBVIOUS
<1>1. AltInv' /\ AltServiceOk
  BY AltNextInv DEF AltBasketInv, AltInv, AltChannelsInv
<1>2. (\E f \in fetches : Alt!ScanSucceeds(f)) \/ service'.basket = service.basket
  <2>1. CASE Alt!Start \/ Alt!Stop
    BY <1>1, <2>1 DEF Alt!Start, Alt!Stop, AltServiceOk
  <2>2. CASE UNCHANGED Alt!vars \/ Alt!TimerFires \/ Alt!Observe \/ Alt!Tick
    BY <2>2 DEF Alt!vars, Alt!TimerFires, Alt!Observe, Alt!Tick
  <2>3. ASSUME NEW f \in fetches, Alt!ScanFails(f) \/ Alt!PollEnds(f)
        PROVE  service'.basket = service.basket
    BY <2>3 DEF Alt!ScanFails, Alt!PollEnds
  <2>4. ASSUME NEW c \in Alt!Channels, Alt!PlannedReconnect(c) \/ Alt!ReconnectTimerFires(c)
        PROVE  service'.basket = service.basket
    BY <2>4 DEF Alt!PlannedReconnect, Alt!ReconnectTimerFires
  <2>5. ASSUME NEW c \in Alt!Channels, NEW s \in Alt!Live(c),
               \/ Alt!SocketOpens(c, s) \/ Alt!SocketErrors(c, s)
               \/ Alt!SocketCloses(c, s) \/ Alt!SocketDelivers(c, s)
        PROVE  service'.basket = service.basket
    BY <2>5 DEF Alt!SocketOpens, Alt!SocketErrors, Alt!SocketCloses, Alt!SocketDelivers
  <2>6. QED
    BY <2>1, <2>2, <2>3, <2>4, <2>5 DEF Alt!Next
<1>3. BasketOk(service'.basket) /\ ResidesNow
  BY <1>2, ScanResides, UnchangedResides DEF AltBasketInv
<1>4. QED
  BY <1>1, <1>3 DEF AltBasketInv

\* The empty basket
LEMMA BasketInit == Alt!Init => AltBasketInv
<1> SUFFICES ASSUME Alt!Init PROVE AltBasketInv
  OBVIOUS
<1>1. service.basket = {}
  BY DEF Alt!Init
<1>2. BasketOk({})
  BY FS_EmptySet, BasketAssumption DEF BasketOk, IsMembers, OnePerSymbol
<1>3. QED
  BY <1>1, <1>2, AltInitInv DEF AltBasketInv

\* A member of the basket that is still a candidate leaves it only after its
\* time of residence, and one scan gives up no more of them than it may, for
\* every basket, every size and order, and whatever the exchange lists.
THEOREM BasketsReside == AltSpec => BasketResidence
<1>1. AltInit => AltBasketInv
  BY BasketInit DEF AltInit
<1>2. AltBasketInv /\ [AltNext]_mcVars => AltBasketInv'
  BY BasketNext DEF AltNext, mcVars, Alt!vars
<1>3. AltBasketInv /\ [AltNext]_mcVars => [ResidesNow]_(Alt!vars)
  BY BasketNext DEF AltNext, mcVars, Alt!vars
<1> DEFINE left == {m \in service.basket :
                      /\ m.symbol \in service'.candidates
                      /\ \A n \in service'.basket :
                           n.symbol # m.symbol \/ n.selectedAt # m.selectedAt}
           Asked == /\ \A m \in left : now - m.selectedAt >= MinResidence
                    /\ Alt!Cardinality(left) <= Alt!MaxElectiveReplacements
<1>4. ResidesNow => Asked
  BY AltSize DEF ResidesNow, Resides, Left
<1>5. AltBasketInv /\ [AltNext]_mcVars => [Asked]_(Alt!vars)
  BY <1>3, <1>4
<1>6. QED
  BY <1>1, <1>2, <1>5, PTL DEF AltSpec, BasketResidence, Alt!BasketResidence
=============================================================================
