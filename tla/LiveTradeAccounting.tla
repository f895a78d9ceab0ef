-------------------------- MODULE LiveTradeAccounting --------------------------
(***************************************************************************)
(* How trading/build-state.ts accounts for a trade it only observes: from  *)
(* a position and the recent fills that AccountService fetches, it finds   *)
(* when the position was opened, and adds up the fills since.  Position    *)
(* and fills are the answers of two requests (binance/account/rest.ts),    *)
(* so a fill may be in one and not yet in the other.                       *)
(*                                                                         *)
(* A fill is its signed quantity and the millisecond it happened in; the   *)
(* profit and the commissions that are added up are known by the fills     *)
(* they are of.  The account is in one-way mode and pays in USDT.          *)
(***************************************************************************)
EXTENDS Integers, SequencesExt

CONSTANTS
  Quantities,   \* what may be bought in one fill, or sold
  MaxPosition,  \* bound: the quantity held
  MaxFills,     \* bound: fills
  Limit         \* how many fills the exchange returns (50 in the code)

VARIABLES
  fills,      \* all fills of the exchange, oldest first
  answered,   \* how many of them the last position and the last fills include
  sessions    \* live_trade_sessions, in the order they were inserted

vars == <<fills, answered, sessions>>

Attributions ==
  {"OBSERVED_FROM_FLAT", "INFERRED_FROM_RECENT_TRADES", "OBSERVED_AFTER_CONNECT"}

\* sound: were the answers it was made of whole, and without a gap?
Session == [side : {"LONG", "SHORT"}, open : BOOLEAN, openedAt : Nat, seen : Nat,
            attribution : Attributions, observed : SUBSET (1 .. MaxFills), sound : BOOLEAN]

Init ==
  /\ fills = <<>>
  /\ answered = [position |-> 0, trades |-> 0]
  /\ sessions = <<>>

\* What some of the fills add up to, and the position after the first n: negative
\* if it is SHORT
Bought(some) ==
  LET sum[n \in 0 .. Len(fills)] ==
        IF n = 0 THEN 0 ELSE sum[n - 1] + (IF n \in some THEN fills[n].quantity ELSE 0)
  IN  sum[Len(fills)]
Position(n) == Bought(1 .. n)
SideOf(position) == IF position > 0 THEN "LONG" ELSE "SHORT"

\* The exchange fills an order, or another part of the order before: only fills
\* of one order are of the same millisecond.
Fill ==
  /\ Len(fills) < MaxFills
  /\ \E fill \in [quantity : Quantities \cup {-q : q \in Quantities}, at : 1 .. MaxFills] :
       /\ \/ fills = <<>> /\ fill.at = 1
          \/ fills # <<>> /\ fill.at = Last(fills).at + 1
          \/ /\ fills # <<>> /\ fill.at = Last(fills).at
             /\ SideOf(fill.quantity) = SideOf(Last(fills).quantity)
       /\ fills' = Append(fills, fill)
  /\ Position(Len(fills))' \in -MaxPosition .. MaxPosition
  /\ UNCHANGED <<answered, sessions>>
-----------------------------------------------------------------------------
\* fetchRecentTrades, answered when there were n fills
RecentTrades(n) == {i \in 1 .. n : i > n - Limit}

\* sort: the latest first; of one millisecond, as the exchange returned them.
\* These are the trades up to one of them.
UpTo(i, trades) ==
  {j \in trades : fills[j].at > fills[i].at \/ (fills[j].at = fills[i].at /\ j <= i)}

\* inferLiveTradeStart: back through the fills, to where there was no position
\* or one of the other side
InferLiveTradeStart(position, updatedAt, trades) ==
  LET previous(i) == position - Bought(UpTo(i, trades))
      ends  == {i \in trades : previous(i) = 0 \/ SideOf(previous(i)) # SideOf(position)}
      first == CHOOSE i \in ends : \A j \in ends : i \in UpTo(j, trades)
  IN  IF ends # {}
      THEN [openedAt |-> fills[first].at,
            attribution |-> IF previous(first) = 0 THEN "OBSERVED_FROM_FLAT"
                            ELSE "INFERRED_FROM_RECENT_TRADES"]
      ELSE [openedAt |-> IF trades = {} THEN updatedAt ELSE fills[Min(trades)].at,
            attribution |-> "OBSERVED_AFTER_CONNECT"]

\* Mutant: the fill that opened the position is not one of its own.
MergeLater(session, trades) ==
  [session EXCEPT !.observed = @ \cup {i \in trades : fills[i].at > session.openedAt}]

\* mergeTradeAccounting: every fill since the opening, once
Merge(session, trades) ==
  [session EXCEPT !.observed = @ \cup {i \in trades : fills[i].at >= session.openedAt}]

\* createLiveTradeSession
Created(position, updatedAt, trades, seen, sound) ==
  LET start == InferLiveTradeStart(position, updatedAt, trades)
  IN  [side |-> SideOf(position), open |-> TRUE, openedAt |-> start.openedAt, seen |-> seen,
       attribution |-> start.attribution, observed |-> {}, sound |-> sound]

\* syncLiveTradeSessions for a position after p fills and the fills up to the
\* q-th: the session of another side, or of no position, ends.
Synced(p, q) ==
  LET position == Position(p)
      trades == RecentTrades(q)
      whole  == p = q
      active == sessions # <<>> /\ Last(sessions).open
      keeps  == active /\ position # 0 /\ Last(sessions).side = SideOf(position)
      merged == [Merge(Last(sessions), trades) EXCEPT
                   !.open = keeps, !.sound = @ /\ whole /\ q - Limit <= answered.trades]
      updated == IF active THEN [sessions EXCEPT ![Len(sessions)] = merged] ELSE sessions
      fresh  == Created(position, fills[p].at, trades, p, whole)
  IN  IF position = 0 \/ keeps THEN updated ELSE Append(updated, Merge(fresh, trades))

\* AccountService has refreshed, and the trading state is built of it.
Sync ==
  /\ \E p \in answered.position .. Len(fills), q \in answered.trades .. Len(fills) :
       /\ Len(fills) \in {p, q} /\ p > 0
       /\ sessions' = Synced(p, q)
       /\ answered' = [position |-> p, trades |-> q]
  /\ UNCHANGED fills

Next == Fill \/ Sync

Spec == Init /\ [][Next]_vars
-----------------------------------------------------------------------------
\* feesPaid and realizedNetPnl are given, not null.
HasNetResult(session) == session.attribution = "OBSERVED_FROM_FLAT"

\* The fills of the trade that was open after n fills: from the one that opened
\* it to the one that ended it, which may also have opened the next.
OpeningFill(n) ==
  Max({i \in 1 .. n : Position(i - 1) = 0 \/ SideOf(Position(i - 1)) # SideOf(Position(n))})
EndingFills(n) ==
  {i \in n + 1 .. Len(fills) : Position(i) = 0 \/ SideOf(Position(i)) # SideOf(Position(n))}
TradeOf(n) ==
  OpeningFill(n) .. (IF EndingFills(n) = {} THEN Len(fills) ELSE Min(EndingFills(n)))

\* What is added up for a live trade is all of it, if it was seen from its
\* opening, and nothing from before the millisecond it was opened in, provided
\* the answers were whole and no fill fell out of them between two polls.
LiveTradeIsComplete ==
  \A s \in DOMAIN sessions :
    LET session == sessions[s] IN
    session.sound =>
      /\ ~session.open /\ session.attribution # "OBSERVED_AFTER_CONNECT" =>
           TradeOf(session.seen) \subseteq session.observed
      /\ \A i \in session.observed : fills[i].at >= fills[OpeningFill(session.seen)].at

\* The fills, fees and results of a position are attributed to it exactly
\* (docs/PROJECT_SPEC.md:2277): a closed trade with a net result has counted the
\* fills of its position and no others.
AttributedExactly ==
  \A s \in DOMAIN sessions :
    sessions[s].sound /\ ~sessions[s].open /\ HasNetResult(sessions[s]) =>
      sessions[s].observed = TradeOf(sessions[s].seen)
=============================================================================
