---------------------------- MODULE PositionSizing ----------------------------
(***************************************************************************)
(* How large a position may be, and what it costs                          *)
(* (shared/calculations/costs.ts), and what POST /v1/plan/validate of the  *)
(* relay worker (worker/src/index.ts) and validatePositionPlan of the app  *)
(* (ipc/register-handlers.ts) make of it.                                  *)
(*                                                                         *)
(* Rates are per mille, amounts of money a thousandth, quantities a count  *)
(* of the smallest unit, of which the step size is a multiple.  A quotient *)
(* is a pair <<numerator, denominator>>; the epsilons of the code, which   *)
(* make up for floating point, have no place here.                         *)
(***************************************************************************)
EXTENDS Integers, Sequences, FiniteSetsExt

CONSTANT None    \* null

Distance(a, b) == IF a > b THEN a - b ELSE b - a
Aligned(n, step) == n % step = 0                              \* isStepAligned
FloorToStep(q, step) == (q[1] \div (q[2] * step)) * step
Slippage(market) == Max({market.entrySlippage, market.exitSlippage})

\* Mutant: the fee of the exit is left out.
LossWithoutExitFee(plan, market) ==
  Distance(plan.entry, plan.stop) * 1000
    + plan.entry * (market.entryFee + Slippage(market)) + plan.stop * Slippage(market)

\* lossPerUnit: what one unit loses at the stop
LossPerUnit(plan, market) ==
  Distance(plan.entry, plan.stop) * 1000
    + plan.entry * (market.entryFee + Slippage(market))
    + plan.stop * (market.exitFee + Slippage(market))

\* The limit on the loss: the plan's own, or its size, or that of the strategy.
MaxLoss(plan, market) ==
  IF plan.maxLoss # None THEN plan.maxLoss
  ELSE IF plan.sizeMode = "MAX_LOSS_USDT" THEN plan.sizeValue ELSE market.maxLoss

\* provisionalQuantity, with which the leverage bracket is looked up
ProvisionalQuantity(plan, market) ==
  CASE plan.sizeMode = "MARGIN_USDT"   -> <<plan.sizeValue * plan.leverage, plan.entry>>
    [] plan.sizeMode = "QUANTITY_BTC"  -> <<plan.sizeValue, 1>>
    [] plan.sizeMode = "NOTIONAL_USDT" -> <<plan.sizeValue, plan.entry>>
    [] plan.sizeMode = "MAX_LOSS_USDT" -> <<plan.sizeValue * 1000, LossPerUnit(plan, market)>>

\* requestedQuantity: only a size by the loss is brought down to a step.
RequestedQuantity(plan, market) ==
  LET q == ProvisionalQuantity(plan, market)
  IN  IF plan.sizeMode = "MAX_LOSS_USDT" THEN <<FloorToStep(q, market.step), 1>> ELSE q

\* maximumQuantity, the alternative that is offered
MaximumQuantity(plan, market, bracket) ==
  LET limits == {<<bracket.cap, plan.entry>>}
        \cup (IF market.available = None THEN {}
              ELSE {<<market.available * plan.leverage, plan.entry>>})
        \cup (IF MaxLoss(plan, market) = None THEN {}
              ELSE {<<MaxLoss(plan, market) * 1000, LossPerUnit(plan, market)>>})
  IN  Min({FloorToStep(q, market.step) : q \in limits})

\* Per mille of the entry that the price may go against an isolated position:
\* 1 / leverage - maintenanceMarginRate, times the leverage.
Cushion(plan, bracket) == 1000 - plan.leverage * bracket.maintenance

\* Is the stop at or beyond estimatedLiquidationPrice?  There is no such price
\* where the maintenance margin is all of the margin.
BeyondLiquidation(plan, bracket) ==
  /\ Cushion(plan, bracket) > 0
  /\ LET room == plan.entry * Cushion(plan, bracket)
         risk == 1000 * plan.leverage *
                   (IF plan.side = "LONG" THEN plan.entry - plan.stop ELSE plan.stop - plan.entry)
     IN  risk >= room

\* The reasons of validateExactPositionSize against a size
SizeReasons(plan, market, bracket) ==
  LET q == RequestedQuantity(plan, market)
      loss == MaxLoss(plan, market)
      when(condition, reason) == IF condition THEN {reason} ELSE {}
  IN  when(plan.leverage \notin 1 .. 150, "LEVERAGE_OUT_OF_RANGE")
      \cup when(plan.leverage > bracket.leverage, "LEVERAGE_EXCEEDS_BINANCE_BRACKET")
      \cup when(~Aligned(plan.entry, market.tick) \/ ~Aligned(plan.stop, market.tick),
                "PRICE_NOT_ALIGNED_TO_TICK_SIZE")
      \cup when(~Aligned(q[1], q[2] * market.step), "QUANTITY_NOT_ALIGNED_TO_STEP_SIZE")
      \cup when(q[1] < market.minQuantity * q[2], "BELOW_MIN_QUANTITY")
      \cup when(q[1] * plan.entry < market.minNotional * q[2], "BELOW_MIN_NOTIONAL")
      \cup when(q[1] * plan.entry > bracket.cap * q[2], "NOTIONAL_EXCEEDS_BINANCE_BRACKET")
      \cup when(market.available # None
                  /\ q[1] * plan.entry > market.available * plan.leverage * q[2],
                "INSUFFICIENT_AVAILABLE_MARGIN")
      \cup when(loss # None /\ q[1] * LossPerUnit(plan, market) > loss * 1000 * q[2],
                "MAX_LOSS_EXCEEDED")
      \cup when(BeyondLiquidation(plan, bracket), "STOP_BEYOND_ESTIMATED_LIQUIDATION")
-----------------------------------------------------------------------------
\* signedFundingPayment, as a rate of the notional: a long position pays it, a
\* short one is paid.
FundingRate(plan, rate) == IF plan.side = "LONG" THEN rate ELSE -rate

\* netPnl of calculatePositionPlan
NetPnl(plan, exit, quantity, market, funding) ==
  LET gross == IF plan.side = "LONG" THEN exit - plan.entry ELSE plan.entry - exit
  IN  quantity * (gross * 1000
        - plan.entry * (market.entryFee + market.entrySlippage + FundingRate(plan, funding))
        - exit * (market.exitFee + market.exitSlippage))

\* breakevenExitPrice, as a quotient.  Funding is a cost of either side here.
BreakevenExitPrice(plan, market, funding) ==
  LET fixed == plan.entry * (market.entryFee + market.entrySlippage + funding)
      exit  == market.exitFee + market.exitSlippage
  IN  IF plan.side = "LONG" THEN <<plan.entry * 1000 + fixed, 1000 - exit>>
      ELSE <<plan.entry * 1000 - fixed, 1000 + exit>>
-----------------------------------------------------------------------------
\* The stop and the targets are on their sides of the entry.
Sided(plan) ==
  LET ahead(price) == IF plan.side = "LONG" THEN price > plan.entry ELSE price < plan.entry
  IN  /\ plan.stop # plan.entry /\ ~ahead(plan.stop)
      /\ \A i \in DOMAIN plan.targets : ahead(plan.targets[i])

\* The bracket of a notional, none or the first of those it is in
BracketsOf(plan, market) ==
  LET q == ProvisionalQuantity(plan, market)
  IN  {b \in market.brackets : q[1] * plan.entry \in b.floor * q[2] .. b.cap * q[2]}

\* The errors of POST /v1/plan/validate at an age of the stored snapshot: the
\* first check that fails ends the request.  stored: None or what the snapshot says
ValidatePlan(plan, stored, age, maxAge) ==
  LET fees == {stored.entryFee, stored.exitFee, stored.entrySlippage, stored.exitSlippage}
      brackets == BracketsOf(plan, stored)
      bracket == CHOOSE b \in brackets : \A c \in brackets : b.floor <= c.floor
  IN  IF ~Sided(plan) THEN {"WRONG_SIDE"}
      ELSE IF stored = None THEN {"SNAPSHOT_NOT_FOUND"}
      ELSE IF age > maxAge THEN {"SNAPSHOT_STALE"}
      ELSE IF plan.snapshot \notin {None, stored.snapshot} THEN {"SNAPSHOT_CHANGED_REVALIDATE"}
      ELSE IF ~stored.gates.entryAllowed THEN {"ENTRY_NOT_ALLOWED"}
      ELSE IF stored.step = None THEN {"PRODUCT_FILTERS_MISSING"}
      ELSE IF \E i \in DOMAIN plan.targets : ~Aligned(plan.targets[i], stored.tick)
      THEN {"TARGET_NOT_ALIGNED_TO_TICK_SIZE"}
      ELSE IF None \in fees THEN {"COSTS_REQUIRED"}
      ELSE IF brackets = {} THEN {"LEVERAGE_BRACKET_REQUIRED"}
      ELSE IF bracket.stale THEN {"LEVERAGE_BRACKET_STALE"}
      ELSE SizeReasons(plan, stored, bracket)

\* The bracket that the app takes: the last one if the notional is in none.
BracketInApp(plan, app) ==
  LET brackets == BracketsOf(plan, app)
  IN  IF brackets # {} THEN CHOOSE b \in brackets : \A c \in brackets : b.floor <= c.floor
      ELSE CHOOSE b \in app.brackets : \A c \in app.brackets : c.floor <= b.floor

\* The errors of validatePositionPlan.  app: what a snapshot says, of the app's
\* own state; whether the account is connected is not asked by the worker, and
\* ages, gates and the ticks of targets are not by the app.
ValidateInApp(plan, app, connected) ==
  LET fees == {app.entryFee, app.exitFee, app.entrySlippage, app.exitSlippage}
  IN  IF None \in fees \/ app.step = None \/ ~connected \/ app.brackets = {}
      THEN {"INPUT_REQUIRED"}
      ELSE IF ~Sided(plan) THEN {"INVALID_STOP_OR_TARGET_DIRECTION"}
      ELSE SizeReasons(plan, app, BracketInApp(plan, app))
-----------------------------------------------------------------------------
\* The size can be placed and paid for, and loses at its stop no more than its
\* limit, costs included and funding left out.
SizeIsSafe(plan, market, bracket) ==
  LET q == RequestedQuantity(plan, market)
      loss == MaxLoss(plan, market)
  IN  /\ q[1] % q[2] = 0
      /\ q[1] \div q[2] \in market.minQuantity .. MaximumQuantity(plan, market, bracket)
      /\ loss # None => NetPnl(plan, plan.stop, q[1] \div q[2], market, 0) >= -loss * 1000

\* A plan that the worker or the app accepts is safe, the app accepts what the
\* worker does, which computes the same once more, and the quantity that is
\* offered in place of one that is too large is not too large.
ValidatedPlanIsSafe(plan, stored, age, maxAge) ==
  LET bracket  == BracketInApp(plan, stored)
      byWorker == ValidatePlan(plan, stored, age, maxAge) = {}
      byApp    == ValidateInApp(plan, stored, TRUE) = {}
      offered  == [plan EXCEPT !.sizeMode = "QUANTITY_BTC", !.maxLoss = MaxLoss(plan, stored),
                               !.sizeValue = MaximumQuantity(plan, stored, bracket)]
  IN  /\ byWorker => byApp
      /\ byApp => SizeIsSafe(plan, stored, bracket)
      /\ SizeReasons(offered, stored, bracket) \cap
           {"QUANTITY_NOT_ALIGNED_TO_STEP_SIZE", "NOTIONAL_EXCEEDS_BINANCE_BRACKET",
            "INSUFFICIENT_AVAILABLE_MARGIN", "MAX_LOSS_EXCEEDED"} = {}

\* A position that is closed at its break-even price makes and loses nothing,
\* unless funding is due to a short one.
BreakevenIsNeutral(plan, market, funding) ==
  LET exit == BreakevenExitPrice(plan, market, funding)
      scaled == [plan EXCEPT !.entry = @ * exit[2]]   \* prices times the denominator
  IN  plan.side = "LONG" \/ funding = 0 => NetPnl(scaled, exit[1], 1, market, funding) = 0
=============================================================================
