--------------------------- MODULE PositionAdjustment ---------------------------
(***************************************************************************)
(* What a request to leave a position, in part or in full, or to move its  *)
(* stop or its targets, comes to (shared/calculations/position-adjustment  *)
(* .ts), and what POST /v1/position/validate of the relay worker answers   *)
(* (worker/src/position-adjustment-route.ts).                              *)
(*                                                                         *)
(* Quantities and prices are counts of a smallest unit, of which step and  *)
(* tick are multiples; percentages are whole.  Fees and the wording of the *)
(* answer are left out.                                                    *)
(***************************************************************************)
EXTENDS SnapshotGates, SequencesExt

Floor(n, step) == (n \div step) * step
Ceil(n, step)  == Floor(n + step - 1, step)
Share(quantity, percent, step) == Floor(quantity * percent, 100 * step) \div 100

\* conservativePrice: a stop is moved towards the mark price, and a target too.
ConservativePrice(side, kind, price, tick) ==
  IF (side = "LONG") = (kind = "STOP") THEN Ceil(price, tick) ELSE Floor(price, tick)

\* Is the first price on the side of the second where the position makes money?
Profits(side, price, mark) == IF side = "LONG" THEN price > mark ELSE price < mark

\* reduce, with a sum
Total(numbers) ==
  LET upTo[n \in 0 .. Len(numbers)] == IF n = 0 THEN 0 ELSE upTo[n - 1] + numbers[n]
  IN  upTo[Len(numbers)]

When(condition, error) == IF condition THEN {error} ELSE {}

\* validateOrderQuantity
OrderErrors(quantity, price, filters) ==
  When(quantity < filters.minQuantity, "MIN_QUANTITY_NOT_MET")
    \cup When(quantity * price < filters.minNotional, "MIN_NOTIONAL_NOT_MET")

\* PARTIAL_EXIT, by a quantity or a percentage of the position
PartialExit(request, context) ==
  LET f == context.filters
      sized == request.quantity # None
      asked == IF sized THEN request.quantity * 100 ELSE context.quantity * request.percent
      aligned == Floor(asked, 100 * f.step) \div 100
      left == context.quantity - aligned
  IN  IF sized = (request.percent # None)
      THEN [errors |-> {"EXACTLY_ONE_EXIT_SIZE_REQUIRED"}]
      ELSE [errors |->
              When(~sized /\ request.percent > 100, "REQUESTED_PERCENT_OUT_OF_RANGE")
                \cup When(aligned = 0, "ALIGNED_QUANTITY_IS_ZERO")
                \cup When(left <= 0, "PARTIAL_EXIT_MUST_LEAVE_POSITION")
                \cup (IF aligned > 0 THEN OrderErrors(aligned, context.mark, f) ELSE {})
                \cup When(left > 0 /\ left < f.minQuantity, "REMAINING_BELOW_MIN_QUANTITY")
                \cup When(left > 0 /\ left * context.mark < f.minNotional,
                          "REMAINING_BELOW_MIN_NOTIONAL"),
            quantity |-> aligned, remaining |-> Max({0, left}),
            stops |-> context.stopQuantity]

\* EXIT, of all there is
Exit(context) ==
  LET aligned == Floor(context.quantity, context.filters.step) IN
  [errors |-> When(aligned # context.quantity, "POSITION_QUANTITY_NOT_STEP_ALIGNED")
                \cup (IF aligned > 0
                      THEN OrderErrors(aligned, context.mark, context.filters) ELSE {}),
   quantity |-> aligned, remaining |-> 0, stops |-> 0]

\* MOVE_STOP: the stop that is set is for the whole position.
MoveStop(request, context) ==
  LET price == ConservativePrice(context.side, "STOP", request.stop, context.filters.tick) IN
  IF request.stop = None THEN [errors |-> {"STOP_PRICE_REQUIRED"}]
  ELSE [errors |-> When(~Profits(context.side, context.mark, price), "STOP_MUST_REMAIN_PROTECTIVE"),
        price |-> price, remaining |-> context.quantity, stops |-> context.quantity]

\* CHANGE_TP: up to three targets, each with a percentage of the position
PercentErrors(percents) ==
  When(Total(percents) > 100 \/ \E i \in DOMAIN percents : percents[i] \notin 1 .. 100,
       "TARGET_PERCENT_OUT_OF_RANGE")
TargetErrors(targets, context) ==
  UNION {When(~Profits(context.side, targets[i].price, context.mark), "TARGET_MUST_BE_PROFIT_TAKING")
           \cup OrderErrors(targets[i].quantity, targets[i].price, context.filters)
         : i \in DOMAIN targets}

ChangeTargets(request, context) ==
  LET f == context.filters
      targets == [i \in DOMAIN request.targets |->
        [price |-> ConservativePrice(context.side, "TARGET", request.targets[i].price, f.tick),
         quantity |-> Share(context.quantity, request.targets[i].percent, f.step)]]
      percents  == [i \in DOMAIN targets |-> request.targets[i].percent]
      allocated == Total([i \in DOMAIN targets |-> targets[i].quantity])
  IN  [errors |->
         When(Len(targets) \notin 1 .. 3, "TARGETS_REQUIRED")
           \cup PercentErrors(percents) \cup TargetErrors(targets, context)
           \cup When(allocated > context.quantity, "TARGET_QUANTITY_EXCEEDS_POSITION"),
       targets |-> targets, allocated |-> allocated,
       remaining |-> context.quantity, stops |-> context.stopQuantity]

\* validatePositionAdjustment
Adjustment(request, context) ==
  CASE request.action = "PARTIAL_EXIT" -> PartialExit(request, context)
    [] request.action = "EXIT"         -> Exit(context)
    [] request.action = "MOVE_STOP"    -> MoveStop(request, context)
    [] request.action = "CHANGE_TP"    -> ChangeTargets(request, context)

\* The warnings about the stop orders that are left
StopWarnings(result) ==
  IF result.remaining = 0 THEN {}
  ELSE When(result.stops > result.remaining, "STOP_QUANTITY_EXCEEDS_REMAINING_POSITION")
         \cup When(result.stops < result.remaining, "STOP_COVERAGE_GAP_AFTER_ADJUSTMENT")

\* handlePositionAdjustmentRequest: stored is None or the snapshot with its gates
\* and its position, which is what the request is checked with.
HandleRequest(request, stored, age) ==
  IF stored = None THEN [errors |-> {"NOT_FOUND"}]
  ELSE IF stored.snapshot # request.snapshot
  THEN [errors |-> {"SNAPSHOT_CHANGED_REVALIDATE"}]
  ELSE IF ~Aged(stored.gates, age).positionManagementAvailable
  THEN [errors |-> {"POSITION_MANAGEMENT_NOT_AVAILABLE"}]
  ELSE IF stored.context.side \notin {"LONG", "SHORT"} \/ stored.context.quantity <= 0
  THEN [errors |-> {"OPEN_POSITION_REQUIRED"}]
  ELSE IF stored.context.filters = None THEN [errors |-> {"PRODUCT_FILTERS_REQUIRED"}]
  ELSE Adjustment(request, stored.context)
-----------------------------------------------------------------------------
Accepted(result) == result.errors = {}

\* The request that asks for just what a request was answered with
Confirmation(request, result) ==
  CASE request.action = "PARTIAL_EXIT" ->
         [request EXCEPT !.quantity = result.quantity, !.percent = None]
    [] request.action = "MOVE_STOP" -> [request EXCEPT !.stop = result.price]
    [] request.action = "CHANGE_TP" ->
         [request EXCEPT !.targets =
            [i \in DOMAIN @ |-> [@[i] EXCEPT !.price = result.targets[i].price]]]
    [] OTHER -> request

\* What is accepted can be done, and does no more than was asked: the orders are
\* multiples of the step and the tick, they do not close more than the position,
\* what is left can be left in full later, a stop risks no more than the one that
\* was asked for and a target is reached no later.  Asking for what was answered
\* changes nothing, and no warning about the stops means that they cover what is
\* left exactly.
AdjustmentIsSafe(request, stored, age) ==
  LET result  == HandleRequest(request, stored, age)
      context == stored.context
      f       == context.filters
      isAligned(n, step) == n % step = 0
  IN  stored # None /\ Accepted(result) =>
        /\ age <= StaleAfter /\ stored.gates.positionManagementAvailable
        /\ HandleRequest(Confirmation(request, result), stored, age) = result
        /\ result.remaining > 0 =>
             (StopWarnings(result) = {} <=> result.stops = result.remaining)
        /\ request.action \in {"PARTIAL_EXIT", "EXIT"} =>
             /\ isAligned(result.quantity, f.step)
             /\ result.quantity + result.remaining = context.quantity
             /\ result.remaining > 0 /\ isAligned(context.quantity, f.step) =>
                  Accepted(Exit([context EXCEPT !.quantity = result.remaining]))
        /\ request.action = "MOVE_STOP" =>
             /\ isAligned(result.price, f.tick)
             /\ ~Profits(context.side, request.stop, result.price)
        /\ request.action = "CHANGE_TP" =>
             /\ result.allocated <= context.quantity
             /\ \A i \in DOMAIN result.targets :
                  /\ isAligned(result.targets[i].price, f.tick)
                  /\ isAligned(result.targets[i].quantity, f.step)
                  /\ ~Profits(context.side, result.targets[i].price, request.targets[i].price)
=============================================================================
