-------------------------- MODULE ProtectiveCoverage --------------------------
(***************************************************************************)
(* Which open orders protect a position, and how much of it they cover     *)
(* (binance/account/rest.ts and trading/build-state.ts).  Quantities are   *)
(* whole numbers of a smallest unit.                                       *)
(***************************************************************************)
EXTENDS Integers, SequencesExt

Types == {"LIMIT", "STOP", "STOP_MARKET", "TAKE_PROFIT", "TAKE_PROFIT_MARKET", "TRAILING_STOP_MARKET"}

\* fetchOpenOrders, isConditionalProtectiveType
Protective(order) == order.reduceOnly \/ order.closePosition \/ order.type # "LIMIT"

\* The types that contain STOP and not TAKE_PROFIT, and those that contain it
TypesOf == [stopLoss |-> {"STOP", "STOP_MARKET", "TRAILING_STOP_MARKET"},
            takeProfit |-> {"TAKE_PROFIT", "TAKE_PROFIT_MARKET"}]

\* closingSide
Closing(side) == IF side = "LONG" THEN "SELL" ELSE "BUY"

\* The orders of one kind that close the position, and what they add up to
CountedOrders(position, orders, kind) ==
  SelectSeq(orders, LAMBDA order :
    /\ Protective(order)
    /\ order.side = Closing(position.side)
    /\ order.type \in TypesOf[kind])

CoveredQuantity(position, orders, kind) ==
  FoldLeft(LAMBDA sum, order : sum + IF order.closePosition THEN position.quantity ELSE order.quantity,
           0, CountedOrders(position, orders, kind))

\* buildProtectiveCoverage: hasFullStopCoverage, hasFullTakeProfitCoverage
HasFullCoverage(position, orders, kind) ==
  CoveredQuantity(position, orders, kind) >= position.quantity
-----------------------------------------------------------------------------
\* What is left of the position when the exchange executes the orders in turn:
\* one that may only reduce the position takes no more than there is of it.
Executed(position, orders) ==
  LET execute(left, order) ==
        LET amount == IF order.closePosition THEN position.quantity ELSE order.quantity
        IN  IF order.reduceOnly \/ order.closePosition THEN left - Min({left, amount})
            ELSE left - amount
  IN  FoldLeft(LAMBDA left, order : IF left <= 0 THEN left ELSE execute(left, order),
               position.quantity, orders)

\* A position is said to be covered by its stops, or by its take-profits, if and
\* only if nothing of it is left once they were executed, in whatever order.
FullCoverageCloses(position, orders) ==
  \A kind \in DOMAIN TypesOf :
    LET of == SelectSeq(orders, LAMBDA order :
                order.type \in TypesOf[kind] /\ order.side = Closing(position.side))
    IN  \A turn \in {of, Reverse(of)} :
          HasFullCoverage(position, orders, kind) <=> Executed(position, turn) <= 0
=============================================================================
