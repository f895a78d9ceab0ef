---------------------------- MODULE StreamChannels ----------------------------
(***************************************************************************)
(* A channel of a market collector: the socket that the collector takes    *)
(* for its own, the sockets whose close event has not come yet, and the    *)
(* timers.  LeadCoreMarketService and AltMarketService repeat this code;   *)
(* a socket and a pending reconnect carry what their callbacks closed      *)
(* over: the run, and in AltMarketService the generation of the streams.   *)
(***************************************************************************)
EXTENDS Integers, FiniteSetsExt

CONSTANT Bounds   \* the bounds of the behaviours explored, see the MC modules

Tag == [run : Nat, generation : Nat]
NoTag == [run |-> 0, generation |-> 0]
NoSocket == 0

SocketStates == {"connecting", "open", "closing"}

NewChannel ==
  [current |-> NoSocket, reconnectTimer |-> NoTag, planned |-> NoSocket, live |-> <<>>]

ChannelOk(ch) ==
  /\ {ch.current, ch.planned} \subseteq Nat
  /\ ch.reconnectTimer \in Tag
  /\ \A s \in DOMAIN ch.live :
       ch.live[s] \in [tag : Tag, state : SocketStates, symbols : SUBSET STRING]

Forget(live, s) == [t \in DOMAIN live \ {s} |-> live[t]]
SetState(live, s, state) == [live EXCEPT ![s].state = state]

\* The socket is asked to close: its close event comes later.
CloseSocket(ch) ==
  [ch EXCEPT !.live = IF ch.current \in DOMAIN @
                      THEN SetState(@, ch.current, "closing") ELSE @]

\* The channel without its timers and its socket.
Released(ch) ==
  [ch EXCEPT !.reconnectTimer = NoTag, !.planned = NoSocket, !.current = NoSocket]

\* A reconnect that is pending is kept.
Scheduled(ch, tag) ==
  [ch EXCEPT !.reconnectTimer = IF @ = NoTag THEN tag ELSE @]

\* The channels that an attempt to connect may lead to, with at most `max`
\* sockets that are not forgotten: the socket exists, or could not be created.
Connected(ch, tag, symbols, max) ==
  LET free == (1 .. max) \ DOMAIN ch.live
  IN  {Scheduled(ch, tag)}
        \cup {[ch EXCEPT !.current = s,
                         !.live = [t \in DOMAIN @ \cup {s} |->
                                     IF t \in DOMAIN @ THEN @[t]
                                     ELSE [tag |-> tag, state |-> "connecting",
                                           symbols |-> symbols]]]
              : s \in {t \in free : \A u \in free : t <= u}}

\* Mutant: nothing takes the place of the socket that was lost.
LoseForGood(ch, tag) == [ch EXCEPT !.planned = NoSocket, !.current = NoSocket]

\* The current socket is given up, and the next attempt scheduled.
Lost(ch, tag) ==
  Scheduled([ch EXCEPT !.planned = NoSocket, !.current = NoSocket], tag)

\* One working socket that is current and carries `tag`, or a reconnect that
\* is pending for `tag`; every other socket is closing.
OneStream(ch, tag) ==
  /\ \/ ch.current \in DOMAIN ch.live /\ ch.live[ch.current].tag = tag
     \/ ch.reconnectTimer = tag
  /\ \A s \in DOMAIN ch.live : ch.live[s].state = "closing" \/ s = ch.current

\* No socket, no timer, and what is left is closing.
NoStream(ch) ==
  /\ ch.current = NoSocket /\ ch.planned = NoSocket /\ ch.reconnectTimer = NoTag
  /\ \A s \in DOMAIN ch.live : ch.live[s].state = "closing"
=============================================================================
