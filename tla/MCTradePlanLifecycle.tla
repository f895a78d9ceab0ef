------------------------- MODULE MCTradePlanLifecycle -------------------------
(***************************************************************************)
(* Uses of the trade plans, for model checking TradePlanLifecycle.         *)
(*   Paper     both modes without a position of the account, mode switches *)
(*             at any time, and no failing write                           *)
(*   Live      positions that match a plan, shrink, vanish, change sides   *)
(*             and go stale, for a user who changes mode when nothing is   *)
(*             active                                                      *)
(*   Cut       both modes, triggers, a position and mode switches at any   *)
(*             time, and handlers cut short between any two writes         *)
(*   Turning   live plans and positions that turn around, cut short too    *)
(*   Switched  live plans and mode switches at any time, nothing cut short *)
(* A behaviour is of one of them, or of LiveTradeAccounting: what is made  *)
(* of positions and fills.  Two units are the least that can be closed in  *)
(* part; a position may match a plan, differ from it in quantity, or be on *)
(* the other side.                                                         *)
(***************************************************************************)
EXTENDS TradePlanLifecycle

Long(n) == [side |-> "LONG", quantity |-> n]
Short(n) == [side |-> "SHORT", quantity |-> n]
AllPositions == {Long(1), Long(2), Short(1), Short(2)}
Live == {"LIVE_MANUAL"}

UseOf(orders, positions, planModes, triggers, switchAnytime, failures, sessionCount, eventCount) ==
  [orders |-> orders, positions |-> positions, planModes |-> planModes,
   triggers |-> triggers, switchAnytime |-> switchAnytime, failures |-> failures,
   maxSessions |-> sessionCount, maxLedger |-> eventCount]

PaperUse == UseOf({Long(2)}, {}, Modes, TRUE, TRUE, FALSE, 0, 6)
LiveUse ==
  UseOf({Long(2), Short(2)}, {Long(1), Long(2), Short(2)}, Live, FALSE, FALSE, FALSE, 3, 0)
CutUse == UseOf({Long(1)}, {Long(1)}, Modes, TRUE, TRUE, TRUE, 2, 2)
TurningUse == UseOf({Long(1)}, {Long(1), Short(1)}, Live, FALSE, TRUE, TRUE, 2, 0)
SwitchedUse == UseOf({Long(2)}, AllPositions, Live, FALSE, TRUE, FALSE, 2, 0)

Cases == {PaperUse, LiveUse, CutUse, TurningUse}
Switched == {SwitchedUse}
OnlyFills == {PaperUse}

CONSTANTS Quantities, MaxPosition, MaxFills, Limit   \* LiveTradeAccounting

ASSUME FillsAssumption ==
  Quantities \subseteq Nat \ {0} /\ {MaxPosition, MaxFills, Limit} \subseteq Nat

VARIABLES
  part,                        \* "plans" or "fills"
  fills, answered, sessions    \* LiveTradeAccounting

Fills == INSTANCE LiveTradeAccounting
accounting == <<fills, answered, sessions>>

MCInit ==
  /\ Init /\ Fills!Init /\ part \in {"plans", "fills"}
  /\ part = "fills" => use = CHOOSE u \in Uses : TRUE

MCNext ==
  /\ \/ part = "plans" /\ Next /\ UNCHANGED accounting
     \/ part = "fills" /\ Fills!Next /\ UNCHANGED vars
  /\ UNCHANGED part

\* The fairness of FairSpec
MCSpec ==
  /\ MCInit /\ [][MCNext]_<<vars, part, accounting>>
  /\ WF_vars(part = "plans" /\ ~use.failures /\ MonitorExpires)

\* What is added up for a live trade is all of it, and nothing from before it:
\* see LiveTradeAccounting.
LiveTradeIsComplete == Fills!LiveTradeIsComplete

\* The fills, fees and results of a position are attributed to it exactly
\* (docs/PROJECT_SPEC.md:2277): see LiveTradeAccounting.
AttributedExactly == Fills!AttributedExactly
=============================================================================
