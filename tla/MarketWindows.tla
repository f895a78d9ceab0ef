---------------------------- MODULE MarketWindows ----------------------------
(***************************************************************************)
(* What LeadAssetAccumulator and AltAssetAccumulator (market/multicoin) do *)
(* alike: trades gathered by the second, histories cut at their old end,   *)
(* and the windows of time over which an observation sums them up.         *)
(*                                                                         *)
(* An event is known by its times and by the stream it came from, its run  *)
(* and socket: a price is the event that carried it, a sum over a window   *)
(* is the set of the trades it adds up.                                    *)
(***************************************************************************)
EXTENDS Integers, SequencesExt

CONSTANTS
  BucketLength,        \* the second that trades are gathered by
  ReturnWindows,       \* RETURN_WINDOWS_MS
  FlowWindows,         \* FLOW_WINDOWS_MS
  OiWindows,           \* OI_WINDOWS_MS
  TradeHistory,        \* MAX_TRADE_HISTORY_MS
  OiHistory,           \* MAX_OI_HISTORY_MS
  LiquidationHistory,  \* MAX_LIQUIDATION_HISTORY_MS
  ReturnGap,           \* RETURN_REFERENCE_MAX_GAP_MS
  OiGap                \* OI_REFERENCE_MAX_GAP_MS

None == {}
Some(e) == {e}

Event == [at : Nat, received : Nat, run : Nat, from : Nat]
Optional == SUBSET Event   \* no event, or one
Bucket == [second : Nat, trades : SUBSET Event, lastPrice : Event]

\* A list without the events at its head that are older than `cutoff`.
WithoutOldHead(events, cutoff) ==
  LET young == {i \in DOMAIN events : events[i].at >= cutoff}
  IN  IF young = {} THEN <<>> ELSE SubSeq(events, Min(young), Len(events))

\* The buckets once the trade `e` was put into that of its second.
Gathered(buckets, e) ==
  LET second == (e.at \div BucketLength) * BucketLength
      known  == {b \in buckets : b.second = second}
  IN  (buckets \ known) \cup {[second |-> second, lastPrice |-> e,
                               trades |-> {e} \cup UNION {b.trades : b \in known}]}

\* A price is replaced by one that is not older.
LaterPrice(old, e) ==
  IF \E last \in old : e.at < last.at THEN old ELSE Some(e)

\* A point that a later one has overtaken, and the points once `e`, which was
\* not overtaken, was recorded: one of the same time replaces the last.
Overtaken(points, e) == points # <<>> /\ e.at < Last(points).at

Recorded(points, e) ==
  IF points # <<>> /\ e.at = Last(points).at
  THEN [points EXCEPT ![Len(points)] = e]
  ELSE Append(points, e)

Distance(s, t) == IF s >= t THEN s - t ELSE t - s

\* The candidates within `gap` of `target` that no other is closer than, by the
\* time each is of.  The code takes the first of them.
Closest(time, target, gap) ==
  {c \in DOMAIN time : /\ Distance(time[c], target) <= gap
                       /\ \A d \in DOMAIN time :
                            Distance(time[c], target) <= Distance(time[d], target)}

\* The trades of the buckets whose last trade was between `start` and `end`.
TradesBetween(buckets, start, end) ==
  LET LastEventAt(b) == Max({e.at : e \in b.trades})
  IN  UNION {b.trades : b \in {c \in buckets : LastEventAt(c) \in start .. end}}

EventsBetween(events, start, end) ==
  {e \in {events[i] : i \in DOMAIN events} : e.at \in start .. end}
=============================================================================
