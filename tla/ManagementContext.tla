--------------------------- MODULE ManagementContext ---------------------------
(***************************************************************************)
(* What the relay worker tells of an open position                         *)
(* (worker/src/phase23-management.ts): it is put together of the plan, the *)
(* trade and the exchange's position in a snapshot, any of which may be    *)
(* missing.  Distances are prices; the R of the code are these, divided by *)
(* the risk.  The position entered by hand is left out.                    *)
(***************************************************************************)
EXTENDS ProtectiveCoverage

CONSTANT None   \* null

\* `a ?? b ?? c`, of one field of records that may be null
FirstOf(records, field) ==
  LET given == SelectSeq(records, LAMBDA r : r # None)
  IN  IF given = <<>> THEN None ELSE Head(given)[field]

Sign(side) == IF side = "LONG" THEN 1 ELSE -1

\* isProfitTakingLimit
ProfitTakingLimit(side, entry, order) ==
  /\ entry # None /\ side # None
  /\ order.side = Closing(side)
  /\ Sign(side) * (order.price - entry) > 0

\* observedProtection: the list an order is put in, and how much it is said to close
ListOf(side, entry, order) ==
  CASE order.type \in {"STOP", "STOP_MARKET"}               -> "stopLosses"
    [] order.type \in {"TAKE_PROFIT", "TAKE_PROFIT_MARKET"} -> "takeProfits"
    [] order.type = "TRAILING_STOP_MARKET"                  -> "trailingStops"
    [] order.type = "LIMIT" ->
         IF ProfitTakingLimit(side, entry, order) THEN "takeProfits" ELSE "otherProtectiveOrders"

EffectiveQuantity(order, remaining) ==
  IF order.closePosition /\ remaining # None THEN remaining ELSE order.quantity

\* riskMetrics
RiskMetrics(side, entry, mark, stop, targets) ==
  LET risk == IF entry = None \/ stop = None THEN None
              ELSE IF entry > stop THEN entry - stop ELSE stop - entry
      known == side # None /\ mark # None /\ risk \notin {None, 0}
      ahead(of, from) == IF known THEN Sign(side) * (of - from) ELSE None
  IN  [risk |-> risk, unrealized |-> ahead(mark, entry), toStop |-> ahead(mark, stop),
       toTargets |-> [i \in DOMAIN targets |-> ahead(targets[i], mark)]]

\* buildPositionManagementContext of a snapshot [stage, managed, plan, paper,
\* live, position, orders, matches]
Context(s) ==
  LET trades    == <<s.paper, s.live>>
      side      == FirstOf(<<s.position>> \o trades \o <<s.plan>>, "side")
      entry     == FirstOf(trades \o <<s.position, s.plan>>, "entry")
      mark      == FirstOf(<<s.position>> \o trades, "mark")
      remaining == FirstOf(trades \o <<s.position>>, "quantity")
      metrics   == RiskMetrics(side, entry, mark, FirstOf(<<s.plan>>, "stop"),
                               IF s.plan = None THEN <<>> ELSE s.plan.targets)
      active    == s.stage = "MANAGING" \/ (remaining # None /\ side # None)
      stopsCover == s.position # None /\ HasFullCoverage(s.position, s.orders, "stopLoss")
      raised    == [MANAGEMENT_DATA_BLOCKED |-> ~s.managed,
                    STOP_COVERAGE_GAP       |-> ~stopsCover,
                    PLAN_POSITION_MISMATCH  |-> s.matches = FALSE,
                    STOP_DISTANCE_LE_0_25R  |-> metrics.toStop # None
                                                  /\ 4 * metrics.toStop <= metrics.risk]
  IN  [status |-> IF ~active THEN "FLAT" ELSE IF s.managed THEN "ACTIVE" ELSE "BLOCKED",
       side |-> side, entry |-> entry, remaining |-> remaining, metrics |-> metrics,
       lists |-> [i \in DOMAIN s.orders |-> ListOf(side, entry, s.orders[i])],
       flags |-> {f \in DOMAIN raised : active /\ raised[f]}]
-----------------------------------------------------------------------------
\* The same snapshot seen from the other side of the price c.
Opposite(side) == IF side = "LONG" THEN "SHORT" ELSE "LONG"
Mirror(s, c) ==
  LET trade(t) == IF t = None THEN None
                  ELSE [t EXCEPT !.side = Opposite(@), !.entry = 2 * c - @, !.mark = 2 * c - @]
  IN  [s EXCEPT
        !.plan = IF @ = None THEN None
                 ELSE [@ EXCEPT !.side = Opposite(@), !.entry = 2 * c - @, !.stop = 2 * c - @,
                                !.targets = [i \in DOMAIN @ |-> 2 * c - @[i]]],
        !.paper = trade(@), !.live = trade(@), !.position = trade(@),
        !.orders = [i \in DOMAIN @ |-> [@[i] EXCEPT
                      !.side = Closing(IF @ = "BUY" THEN "LONG" ELSE "SHORT"),
                      !.price = 2 * c - @]]]

\* What is told of a position is of that position, the same for either side, and
\* warns in time: unless a gap is flagged, the stops that are listed close what
\* is left of it; a price at the stop, or a quarter of the risk from it, is
\* flagged; and the distances add up.  A paper trade beside a position of the
\* exchange is left out: the two are mixed up then.
ToldOfThePosition(s, c) ==
  LET told  == Context(s)
      other == Context(Mirror(s, c))
      held  == IF s.paper # None THEN s.paper ELSE s.position
      stops == {i \in DOMAIN s.orders : told.lists[i] \in {"stopLosses", "trailingStops"}
                                          /\ s.orders[i].side = Closing(told.side)}
  IN  s.paper = None \/ s.position = None =>
        /\ <<told.status, told.remaining, told.metrics, told.lists, told.flags>> =
             <<other.status, other.remaining, other.metrics, other.lists, other.flags>>
        /\ held # None => /\ told.side = held.side /\ told.entry = held.entry
                          /\ told.remaining = held.quantity /\ told.status # "FLAT"
        /\ (s.position # None /\ "STOP_COVERAGE_GAP" \notin told.flags) =>
             SumFunctionOnSet([i \in stops |-> EffectiveQuantity(s.orders[i], told.remaining)], stops)
               >= told.remaining
        /\ (held # None /\ s.plan # None /\ told.metrics.risk # 0) =>
             LET stop == s.plan.stop
             IN  /\ (Sign(held.side) * (held.mark - stop) <= 0) =>
                      "STOP_DISTANCE_LE_0_25R" \in told.flags
                 /\ (Sign(held.side) * (held.entry - stop) > 0) =>
                      told.metrics.toStop = told.metrics.unrealized + told.metrics.risk
=============================================================================
