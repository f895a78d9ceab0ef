--------------------------- MODULE MCWorkerRecords ---------------------------
(***************************************************************************)
(* What the relay worker keeps and computes about decisions, for the model *)
(* checker.  A behaviour explores one scene: the lineage of decisions, or  *)
(* the experiments, or one case of a calculation, which is checked where   *)
(* it is chosen and goes no further.                                       *)
(***************************************************************************)
EXTENDS Experiments, Integers, SequencesExt

CONSTANTS Null, Decisions, Values, Prices, MaxSyncs, Lookback, MaxTime, MaxPlans   \* DecisionLineage

ASSUME LineageAssumption ==
  /\ Decisions \subseteq Nat /\ Prices \subseteq Int /\ Lookback \in Nat
  /\ Prices # {} /\ Values # {}
ASSUME NullAssumption == Null \notin Nat

VARIABLES
  scene,   \* "lineage", "experiments" or "case"
  case,    \* the case of a calculation
  now, decisions, plans, syncs, rows, alike   \* DecisionLineage

Lineage == INSTANCE DecisionLineage
Path   == INSTANCE PathEvaluation WITH None <- Null
Size   == INSTANCE PositionSizing WITH None <- Null
Adjust == INSTANCE PositionAdjustment WITH None <- Null
Protect == INSTANCE ProtectiveCoverage
Manage == INSTANCE ManagementContext WITH None <- Null
Route == INSTANCE DecisionContext WITH None <- Null
-----------------------------------------------------------------------------
Sides == {"LONG", "SHORT"}
TwoValues == {[side |-> "LONG", entry |-> 2, stop |-> 1], [side |-> "SHORT", entry |-> 2, stop |-> 3]}

\* Up to three samples, of which the last has the age of the one before or not
RawPaths == UNION {[1 .. n -> {<<1, 1>>, <<1, 4>>, <<2, 2>>, <<2, 3>>, <<4, 1>>, <<4, 4>>}] : n \in 0 .. 3}
Times == [firstMinute |-> 1, afterTrigger |-> 2, horizons |-> {1, 2, 4}]
EnterPlans == [side : Sides, entry : {2, 3}, stop : {1, 3, 4}, targets : {<<3>>, <<4, 1>>, <<1, 2>>}]
Contracts ==
  [triggerCondition : {"AT_OR_ABOVE", "AT_OR_BELOW"}, triggerPrice : {2, 3},
   invalidationCondition : {"AT_OR_ABOVE", "AT_OR_BELOW"}, invalidationPrice : {1},
   expiry : {-1, 2, 3}, confirm : {0, 1, 2}, maxChase : {0}]
EvalOutputs ==
  [decision : {"ENTER_NOW"}, side : Sides, plan : {[side |-> "LONG", entry |-> 2, stop |-> 1, targets |-> <<3>>]}]
  \cup [decision : {"WAIT_TRIGGER"}, side : {"NEUTRAL"},
        contract : {Null, [triggerCondition |-> "AT_OR_ABOVE", triggerPrice |-> 3,
                           invalidationCondition |-> "AT_OR_BELOW", invalidationPrice |-> 1,
                           expiry |-> 3, confirm |-> 0, maxChase |-> 0]}]
  \cup [decision : {"HOLD", "NO_TRADE"}, side : {"SHORT"}]
Moves == {Null, -2, 0, 1}

EvaluationCases ==
  [kind : {"enter"}, path : RawPaths, plan : EnterPlans]
  \cup [kind : {"wait"}, path : RawPaths, side : {"LONG", "NEUTRAL"}, contract : Contracts]
  \cup [kind : {"manage"}, path : RawPaths, anchor : {0, 2}]
  \cup [kind : {"summary"}, path : RawPaths, outputs : [1 .. 2 -> EvalOutputs]]
  \cup [kind : {"columns"}, version : {"eval-v1", "eval-v2"}, side : Sides \cup {"NEUTRAL"},
        decision : {"ENTER_NOW", "WAIT_TRIGGER", "NO_TRADE", "HOLD", "DATA_BLOCKED"},
        values : [return : Moves, up : Moves, down : Moves]]
-----------------------------------------------------------------------------
SizedPlans ==
  {p \in [side : Sides, entry : {10, 12}, stop : {8, 9, 11, 14}, leverage : {1, 5},
          sizeMode : {"MARGIN_USDT", "QUANTITY_BTC", "NOTIONAL_USDT", "MAX_LOSS_USDT"},
          sizeValue : {3, 4, 20, 48}, maxLoss : {Null, 6}, targets : {<<8>>, <<14>>}, snapshot : {Null, 1}]
     : Size!Sided(p)}
Brackets == {[floor |-> 0, cap |-> 30, leverage |-> 5, maintenance |-> 0, stale |-> FALSE],
             [floor |-> 30, cap |-> 60, leverage |-> 3, maintenance |-> 100, stale |-> FALSE]}
SizedSnapshots ==
  [snapshot : {1}, gates : {[entryAllowed |-> TRUE]}, brackets : {Brackets},
   step : {2}, tick : {1, 2}, minQuantity : {2}, minNotional : {0, 40}, available : {Null, 20},
   maxLoss : {Null, 5}, entryFee : {0, 50}, exitFee : {50}, entrySlippage : {20}, exitSlippage : {10}]

Contexts ==
  [side : Sides, quantity : {4, 7, 8}, mark : {10, 12}, stopQuantity : {4, 8},
   filters : [tick : {3}, step : {2}, minQuantity : {2, 4}, minNotional : {1, 50}]]
Targets == [price : {8, 11, 14}, percent : {30, 50, 60}]
Requests ==
  [action : {"PARTIAL_EXIT"}, snapshot : {1, 2}, quantity : {Null, 1, 3, 4, 9}, percent : {Null, 40, 70, 100}]
  \cup [action : {"EXIT"}, snapshot : {1}]
  \cup [action : {"MOVE_STOP"}, snapshot : {1}, stop : {Null, 7, 8, 11, 13, 16}]
  \cup [action : {"CHANGE_TP"}, snapshot : {1},
        targets : {<<a>> : a \in Targets} \cup {<<a, b>> : a, b \in Targets}]

OpenOrders ==
  [side : {"BUY", "SELL"}, type : Protect!Types, quantity : {1, 2},
   reduceOnly : BOOLEAN, closePosition : BOOLEAN]

\* Of a paper trade, of a position of the exchange with its session or before it
\* has one, and of none; with or without a plan, which its stop is right or wrong for
ManagedSnapshots ==
  {[stage |-> IF c.held = "none" THEN "FLAT" ELSE "MANAGING", managed |-> c.managed,
    plan |-> IF c.stop = Null THEN Null
             ELSE [side |-> c.side, entry |-> 10, stop |-> c.stop, targets |-> <<14, 6>>],
    paper |-> IF c.held = "paper" THEN [side |-> c.side, entry |-> 10, mark |-> c.mark, quantity |-> 2]
              ELSE Null,
    live |-> IF c.held = "session" THEN [side |-> c.side, entry |-> 10, mark |-> c.mark, quantity |-> 2]
             ELSE Null,
    position |-> IF c.held \in {"session", "position"}
                 THEN [side |-> c.side, entry |-> 10, mark |-> c.mark, quantity |-> 2] ELSE Null,
    orders |-> c.orders, matches |-> IF c.stop = Null THEN Null ELSE c.stop = 6]
   : c \in [held : {"none", "paper", "session", "position"}, managed : BOOLEAN, side : Sides,
            stop : {Null, 6, 14}, mark : {5, 7, 10, 13, 15},
            orders : {<<>>} \cup [{1} -> [side : {"BUY", "SELL"}, type : Protect!Types, quantity : {1, 2},
                       price : {8, 12}, reduceOnly : BOOLEAN, closePosition : BOOLEAN]]]}

GatesWith(managed) ==
  [marketAnalysisAvailable |-> FALSE, entryAllowed |-> FALSE,
   positionManagementAvailable |-> managed, quality |-> "YELLOW", criticalBlockers |-> {},
   degraded |-> TRUE, analysisGate |-> [analysisAllowed |-> FALSE, overallStatus |-> "DELAYED"]]

\* What the market data and the account say of themselves
MarketStates ==
  {[age |-> [s \in Adjust!Sources |->
       CASE s = "market" -> c.market [] s = "depth" -> c.depth
         [] s = "openInterest" -> c.openInterest [] OTHER -> 0],
    errors |-> c.errors, history |-> TRUE, missing |-> c.missing, skew |-> c.skew,
    position |-> c.position, connected |-> c.connected,
    account |-> [configured |-> c.position # "NONE", connected |-> c.account # "lost",
                 age |-> IF c.account = "old" THEN 46 ELSE 45,
                 stream |-> IF c.account = "lost" THEN "ERROR" ELSE "CONNECTED"]]
   : c \in [market : {0, 6, 15, 16}, depth : {1, 4}, openInterest : {0, Null},
            errors : {{}, {"candle:15m"}}, skew : {-3, 0, 10, 11},
            missing : [market : {{}, {"markPrice"}, {"lastPrice"}}, entry : {{}, {"indexPrice"}}],
            position : {"NONE", "BINANCE_READ_ONLY"}, connected : {{"public", "market"}, {"market"}},
            account : {"ok", "old", "lost"}]}
ServedAges == {0, 8, 9, 15, 16, 18, 19, 25, 26, 30, 31, 41}

OrderCases ==
  [kind : {"size"}, plan : SizedPlans, market : SizedSnapshots, age : {15}]
  \cup [kind : {"protect"}, position : [side : Sides, quantity : {2, 3}],
        orders : UNION {[1 .. n -> OpenOrders] : n \in 0 .. 2}]
  \cup [kind : {"managed"}, snapshot : ManagedSnapshots]
  \cup [kind : {"adjust"}, request : Requests, context : Contexts, managed : BOOLEAN, age : {0, 31}]
\* Six decisions in memory, of which the last two are of now or were final too late
Profiles == {[similarity |-> 2, return |-> -3, late |-> FALSE], [similarity |-> 1, return |-> 4, late |-> FALSE],
             [similarity |-> 2, return |-> Null, late |-> FALSE],
             [similarity |-> Null, return |-> 1, late |-> FALSE], [similarity |-> 2, return |-> -1, late |-> TRUE]}
MemoryRows(f) ==
  {[at |-> i, snapshot |-> i, similarity |-> f[i].similarity, return |-> f[i].return,
    finalizedAt |-> IF f[i].late THEN (IF i % 2 = 0 THEN Null ELSE 9) ELSE i + 2] : i \in DOMAIN f}
CurrentSnapshot == [at |-> 8, id |-> 6]

\* A memory of each status, and of analogs that agree and that do not
MemoryOf(returns) ==
  Route!TradingMemory(MemoryRows([i \in DOMAIN returns |->
                        [similarity |-> 2, return |-> returns[i], late |-> FALSE]]), CurrentSnapshot, 6)
Memories == {Route!NoMemory} \cup {MemoryOf(r) : r \in {<<>>, <<1>>, <<1, -1, 1>>, <<1, 1, 1, 1>>,
                                                      <<1, -1, 1, -2>>, <<1, 1, -1, 1, 1>>}}
Payloads == {{[place |-> i, relevance |-> f[i][1], trust |-> f[i][2], publishedAt |-> i % 2] : i \in DOMAIN f} :
               f \in [1 .. 4 -> {"HIGH", "UNKNOWN"} \X {"OFFICIAL", "UNKNOWN"}]}
SelectedCounts == {Cardinality(Route!SelectedExternalItems(p, 4)) : p \in {{}} \cup Payloads}
RoutedStates ==
  {s \in MarketStates : /\ s.age["market"] \in {0, 6, 16} /\ s.age["depth"] = 1
                        /\ s.age["openInterest"] = 0 /\ s.errors = {} /\ s.skew = 0
                        /\ s.account.age = 45 /\ s.missing.market # {"lastPrice"}}

GateCases ==
  [kind : {"gates"}, state : MarketStates]
  \cup [kind : {"memory"}, rows : [1 .. 6 -> Profiles]]
  \cup [kind : {"items"}, items : Payloads]
  \cup [kind : {"routing"}, state : RoutedStates, memory : Memories,
        risk : [news : BOOLEAN, notice : BOOLEAN, macro : {Null, -1, 0, 30, 31}]]
-----------------------------------------------------------------------------
lineage == <<now, decisions, plans, syncs, rows, alike>>

MCInit ==
  /\ Init /\ Lineage!Init
  /\ \/ scene = "lineage" /\ case = Null
     \/ scene = "experiments" /\ case = Null /\ ~alike
     \/ scene = "case" /\ ~alike /\ case \in EvaluationCases \cup OrderCases \cup GateCases

MCNext ==
  \/ scene = "lineage" /\ Lineage!Next /\ UNCHANGED <<scene, case, vars>>
  \/ scene = "experiments" /\ Next /\ UNCHANGED <<scene, case, lineage>>

MCSpec == MCInit /\ [][MCNext]_<<scene, case, lineage, vars>>
-----------------------------------------------------------------------------
\* The row of a decision is of a plan that says the same, and only advances.
LineageHolds == []Lineage!LinkedPlanIsTheDecisions /\ Lineage!LineageOnlyAdvances

\* What a snapshot permits is right at every age at which it is served.
GatesHold ==
  scene = "case" /\ case.kind = "gates" => Adjust!GatesHold(case.state, ServedAges)

\* An order that is accepted, to open a position or to change one, can be placed
\* and loses no more than was allowed.
OrdersAreSafe ==
  /\ scene = "case" /\ case.kind = "size" =>
       /\ Size!ValidatedPlanIsSafe(case.plan, case.market, case.age, Adjust!EntryMaxAge)
       /\ \A funding \in {-1, 0, 1} : Size!BreakevenIsNeutral(case.plan, case.market, funding)
  /\ scene = "case" /\ case.kind = "adjust" =>
       Adjust!AdjustmentIsSafe(case.request,
         [snapshot |-> 1, gates |-> GatesWith(case.managed), context |-> case.context], case.age)

\* What is told of a decision is so: it is scored by what happened after it, the
\* same for either side; a position that is said to be covered by its stops is
\* closed by them, and what is told of a position is of it; the memory beside it
\* does not look ahead, and how to reason about it follows from what is permitted.
TellsWhatIsSo ==
  LET path == Path!NormalizePricePath(case.path) IN
  scene = "case" =>
    CASE case.kind = "enter"   -> Path!EnterScoreAgrees(case.plan, path, Times.firstMinute, 3)
      [] case.kind = "wait"    -> Path!WaitScoreAgrees(case.side, case.contract, path, Times.afterTrigger)
      [] case.kind = "manage"  -> Path!ManagementScoreAgrees(case.anchor, path, Times.horizons)
      [] case.kind = "summary" ->
           /\ Path!SummaryAddsUp(case.outputs, path, 2, Times)
           /\ \A i \in DOMAIN case.outputs, anchor \in {Null, 2} :
                Path!RecordedAgrees(case.outputs[i], path, anchor, Times)
      [] case.kind = "columns" -> Path!ColumnsAgree(case.version, case.decision, case.side, case.values)
      [] case.kind = "protect" -> Protect!FullCoverageCloses(case.position, case.orders)
      [] case.kind = "managed" -> Manage!ToldOfThePosition(case.snapshot, 10)
      [] case.kind = "memory" ->
           \A max \in {3, 6} : Route!MemoryHolds(MemoryRows(case.rows), CurrentSnapshot, max)
      [] case.kind = "routing" ->
           \A completeness \in {66, 67}, selected \in SelectedCounts :
             Route!RoutingHolds(case.state, {0, 9, 16, 31}, case.risk, completeness,
                                case.memory, selected)
      [] case.kind = "items" -> \A max \in {2, 3} : Route!SelectionHolds(case.items, max)
      [] OTHER -> TRUE
=============================================================================
