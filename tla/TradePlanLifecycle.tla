-------------------------- MODULE TradePlanLifecycle --------------------------
(***************************************************************************)
(* The life of an approved trade plan: ipc/register-handlers.ts locks it,  *)
(* enters and closes paper trades on it; trading/approved-plan-monitor.ts  *)
(* watches its trigger; trading/build-state.ts binds a position seen on    *)
(* the exchange to it; db/database.ts keeps all of it in SQLite.           *)
(*                                                                         *)
(* The main process runs a handler or a timer callback to its end before   *)
(* the next one, so each is one action.  Each SQL statement commits on its *)
(* own: a handler that writes several rows may be cut short between two of *)
(* them, by the death of the process or by a statement that throws, and    *)
(* then leaves one of the databases it passed through.                     *)
(***************************************************************************)
EXTENDS Integers, Sequences, FiniteSetsExt

CONSTANTS
  Orders,      \* what a plan may be of: side and quantity
  Positions,   \* the positions the exchange may report
  Uses,        \* how the application may be used
  MaxPlans     \* bound: plans locked

Sides == {"LONG", "SHORT"}
Modes == {"PAPER", "LIVE_MANUAL"}

\* One use of the application
Use ==
  [orders : SUBSET Orders,         \* what the user locks plans of
   positions : SUBSET Positions,   \* what the exchange reports
   planModes : SUBSET Modes,       \* the modes the user locks plans in
   triggers : BOOLEAN,             \* may a plan carry a GPT trigger?
   switchAnytime : BOOLEAN,        \* may the mode change while something is active?
   failures : BOOLEAN,             \* may a handler be cut short between two writes?
   maxSessions : Nat,              \* bound: live sessions recorded
   maxLedger : Nat]                \* bound: paper trade events recorded

ASSUME TradePlanAssumption ==
  /\ Orders \subseteq [side : Sides, quantity : Nat \ {0}]
  /\ Positions \subseteq [side : Sides, quantity : Nat \ {0}]
  /\ Uses \subseteq Use
  /\ MaxPlans \in Nat

VARIABLES
  use,      \* how the application is used in this behaviour
  db,       \* the SQLite tables, each in the order its rows were inserted
  account   \* AccountService.getStatus(): how current it is, the position

vars == <<use, db, account>>

\* No plan, no row, no position.
None == 0
NoPosition == [side |-> "NONE", quantity |-> 0]

PlanStatuses == {"LOCKED", "ENTERED", "PARTIALLY_CLOSED", "CLOSED", "CANCELLED"}
TradeStatuses == {"OPEN", "PARTIALLY_CLOSED", "CLOSED"}
\* ApprovedPlanMonitoringState; MATCHED is ARMED with conditionMatchedAt set,
\* NONE a plan without monitoring
TriggerStates ==
  {"NONE", "ARMED", "MATCHED", "TRIGGERED", "INVALIDATED", "EXPIRED", "CANCELLED"}

Plan == [mode : Modes, status : PlanStatuses, order : Orders, trigger : TriggerStates]
PaperTrade == [id : Nat, plan : Nat, status : TradeStatuses, remaining : Nat]
PaperEvent == [trade : Nat, closed : Nat]
LiveSession == [plan : Nat, status : TradeStatuses, side : Sides, peak : Nat]

Database ==
  [mode : Modes, plans : Seq(Plan), papers : Seq(PaperTrade),
   ledger : Seq(PaperEvent), sessions : Seq(LiveSession)]

EmptyDatabase ==
  [mode |-> "PAPER", plans |-> <<>>, papers |-> <<>>, ledger |-> <<>>,
   sessions |-> <<>>]

Account ==
  [link : {"disconnected", "stale", "fresh"}, position : Positions \cup {NoPosition}]
Disconnected == [link |-> "disconnected", position |-> NoPosition]

TypeOK == use \in Uses /\ db \in Database /\ account \in Account

Init == use \in Uses /\ db = EmptyDatabase /\ account = Disconnected

(***************************************************************************)
(* What the queries return: the number of a row, or None.                  *)
(***************************************************************************)
Latest(rows) == IF rows = {} THEN None ELSE CHOOSE r \in rows : \A q \in rows : q <= r

ActiveStatuses == {"LOCKED", "ENTERED", "PARTIALLY_CLOSED"}
ActivePlans(d, mode) ==
  {p \in DOMAIN d.plans : /\ d.plans[p].mode = mode
                          /\ d.plans[p].status \in ActiveStatuses}

\* Mutant: the status is not part of the query.
LatestPlan(d, mode) == Latest({p \in DOMAIN d.plans : d.plans[p].mode = mode})

\* readActiveLockedTradePlan(mode)
ActivePlan(d, mode) == Latest(ActivePlans(d, mode))

IsOpen(trade) == trade.status \in {"OPEN", "PARTIALLY_CLOSED"}
\* readActivePaperTrade
OpenPaper(d) == Latest({t \in DOMAIN d.papers : IsOpen(d.papers[t])})
\* readActiveLiveTrade
OpenSession(d) == Latest({s \in DOMAIN d.sessions : IsOpen(d.sessions[s])})

\* What a handler leaves: all its writes, or, cut short, the first of them.
Outcomes(before, between, after) ==
  IF use.failures THEN {before, after} \cup between ELSE {after}
-----------------------------------------------------------------------------
(***************************************************************************)
(* The user's settings, and locking a plan.                                *)
(***************************************************************************)
NothingActive ==
  /\ \A m \in Modes : ActivePlan(db, m) = None
  /\ OpenPaper(db) = None
  /\ OpenSession(db) = None

\* saveUserSettings with another tradingMode
SaveUserSettings ==
  /\ use.switchAnytime \/ NothingActive
  /\ \E mode \in Modes : db' = [db EXCEPT !.mode = mode]
  /\ UNCHANGED <<use, account>>

\* resetLocalData
ResetLocalData == db' = EmptyDatabase /\ account' = Disconnected /\ UNCHANGED use

\* Mutant: a plan that still waits is left alone.
LeavePending(d, p) == d

\* The pending plan, cancelled for the new one.
CancelPending(d, p) ==
  IF p = None THEN d
  ELSE [d EXCEPT !.plans[p].status = "CANCELLED",
                 !.plans[p].trigger = IF @ = "NONE" THEN @ ELSE "CANCELLED"]

\* lockTradePlan, for an order validatePositionPlan accepts
LockTradePlan ==
  /\ account.link # "disconnected"
  /\ db.mode \in use.planModes
  /\ Len(db.plans) < MaxPlans
  /\ LET existing  == ActivePlan(db, db.mode)
         cancelled == CancelPending(db, existing)
     IN /\ existing # None => db.plans[existing].status = "LOCKED"
        /\ \E order \in use.orders, trigger \in IF use.triggers THEN {"NONE", "ARMED"} ELSE {"NONE"} :
             LET plan == [mode |-> db.mode, status |-> "LOCKED",
                          order |-> order, trigger |-> trigger]
             IN db' \in Outcomes(db, {cancelled},
                                 [cancelled EXCEPT !.plans = Append(@, plan)])
  /\ UNCHANGED <<use, account>>
-----------------------------------------------------------------------------
(***************************************************************************)
(* Paper trades.  The event comes first, the plan's status second, the     *)
(* trade last.  A trade's id is the number of its ENTRY event.             *)
(***************************************************************************)
SetPlan(d, p, status) == [d EXCEPT !.plans[p].status = status]
AddEvent(d, trade, closed) ==
  [d EXCEPT !.ledger = Append(@, [trade |-> trade, closed |-> closed])]

\* Mutant: an open trade does not stop another one.
EntryAllowedTwice(d, p) ==
  p # None /\ d.plans[p].status = "LOCKED" /\ d.plans[p].trigger = "NONE"

EntryAllowed(d, p) ==
  /\ p # None
  /\ d.plans[p].status = "LOCKED"
  /\ d.plans[p].trigger = "NONE"
  /\ OpenPaper(d) = None

\* enterPaperTrade
EnterPaperTrade ==
  /\ Len(db.ledger) < use.maxLedger
  /\ LET p       == ActivePlan(db, "PAPER")
         id      == Len(db.ledger) + 1
         logged  == AddEvent(db, id, 0)
         entered == SetPlan(logged, p, "ENTERED")
         trade   == [id |-> id, plan |-> p, status |-> "OPEN",
                     remaining |-> db.plans[p].order.quantity]
     IN /\ EntryAllowed(db, p)
        /\ db' \in Outcomes(db, {logged, entered},
                            [entered EXCEPT !.papers = Append(@, trade)])
  /\ UNCHANGED <<use, account>>

\* The trade's status, and the plan's, once `remaining` is left.
StatusFor(remaining) == IF remaining = 0 THEN "CLOSED" ELSE "PARTIALLY_CLOSED"

\* Mutant: every close is recorded as a close of all that remains.
LogAll(d, t, quantity) == AddEvent(d, d.papers[t].id, d.papers[t].remaining)

\* The PARTIAL_CLOSE or CLOSE event of a paper trade.
LogClose(d, t, quantity) == AddEvent(d, d.papers[t].id, quantity)

SaveClose(d, t, left) ==
  [d EXCEPT !.papers[t].remaining = left, !.papers[t].status = StatusFor(left)]

\* The databases closePaper passes through: the event, the plan, the trade.
CloseSteps(d, t, p, quantity) ==
  LET left    == d.papers[t].remaining - quantity
      logged  == LogClose(d, t, quantity)
      planned == SetPlan(logged, p, StatusFor(left))
  IN <<logged, planned, SaveClose(planned, t, left)>>

\* closePaper: partiallyClosePaperTrade and closePaperTrade
ClosePaperTrade ==
  /\ Len(db.ledger) < use.maxLedger
  /\ OpenPaper(db) # None
  /\ LET t == OpenPaper(db)
         p == ActivePlan(db, "PAPER")
     IN /\ p # None /\ p = db.papers[t].plan
        /\ \E quantity \in 1 .. db.papers[t].remaining :
             LET steps == CloseSteps(db, t, p, quantity)
             IN db' \in Outcomes(db, {steps[1], steps[2]}, steps[3])
  /\ UNCHANGED <<use, account>>
-----------------------------------------------------------------------------
(***************************************************************************)
(* Live sessions: buildTradingState reads the active plan of the current   *)
(* mode, then syncLiveTradeSessions writes sessions and, from that first   *)
(* reading, the plan's status.                                             *)
(***************************************************************************)
\* Mutant: a session closed in part does not show in its plan.
EnteredWhileOpen(session) == IF session.status = "CLOSED" THEN "CLOSED" ELSE "ENTERED"

\* syncBoundPlanStatus: what the plan should be
DesiredStatus(session) == IF session.status = "OPEN" THEN "ENTERED" ELSE session.status

\* syncBoundPlanStatus, for the plan p as it was first read
BindPlan(d, p, plan, s) ==
  IF /\ p # None /\ d.sessions[s].plan = p
     /\ plan.status # DesiredStatus(d.sessions[s])
  THEN SetPlan(d, p, DesiredStatus(d.sessions[s]))
  ELSE d

CloseSession(d, s) == [d EXCEPT !.sessions[s].status = "CLOSED"]

\* createLiveTradeSession, then updateLiveTradeSession.  `gain` says whether
\* its fills have realized a profit or a loss.
ObservedSession(d, s, p, plan, position, gain) ==
  LET peak == IF s = None THEN position.quantity ELSE Max({d.sessions[s].peak, position.quantity})
  IN [plan   |-> IF s # None THEN d.sessions[s].plan
                 ELSE IF p # None /\ plan.order = position THEN p ELSE None,
      status |-> IF position.quantity < peak \/ gain THEN "PARTIALLY_CLOSED" ELSE "OPEN",
      side   |-> position.side,
      peak   |-> peak]

\* saveLiveTradeSession
SaveSession(d, s, session) ==
  IF s = None THEN [d EXCEPT !.sessions = Append(@, session)]
  ELSE [d EXCEPT !.sessions[s] = session]

\* The position has changed sides since the session was last saved.
Flips(d, s, position) ==
  s # None /\ position # NoPosition /\ d.sessions[s].side # position.side

\* The databases syncLiveTradeSessions passes through, the last one last.
SyncTrail(d, position, gain) ==
  LET p      == ActivePlan(d, d.mode)
      plan   == d.plans[p]
      s      == OpenSession(d)
      ends   == s # None /\ (position = NoPosition \/ Flips(d, s, position))
      closed == IF ends THEN CloseSession(d, s) ELSE d
      freed  == IF ends THEN BindPlan(closed, p, plan, s) ELSE d
      row    == IF ends THEN None ELSE s
      saved  == SaveSession(freed, row, ObservedSession(freed, row, p, plan, position, gain))
      last   == IF row = None THEN Len(saved.sessions) ELSE row
  IN IF position = NoPosition THEN <<closed, freed>>
     ELSE <<closed, freed, saved, BindPlan(saved, p, plan, last)>>

\* Nothing is done for an account that is not fresh.
Sync(d, gain) ==
  IF account.link = "fresh" THEN SyncTrail(d, account.position, gain) ELSE <<d>>

Between(trail) == {trail[i] : i \in DOMAIN trail}

\* buildTradingState, asked for by the renderer or an uploader
GetTradingState ==
  \E gain \in BOOLEAN :
    LET trail == Sync(db, gain)
        last  == trail[Len(trail)]
    IN /\ Len(last.sessions) <= use.maxSessions
       /\ db' \in Outcomes(db, Between(trail), last)
       /\ UNCHANGED <<use, account>>

\* buildTradingState: the stage it shows of a plan that waits, and of all that
\* the current mode and the latest trades are at
PendingStage(trigger) ==
  CASE trigger = "TRIGGERED" -> "REANALYSIS_REQUIRED"
    [] trigger = "NONE"      -> "ENTRY_READY"
    [] OTHER                 -> "WATCHING"

LifecycleStage(d, position) ==
  LET p    == ActivePlan(d, d.mode)
      last == Latest({q \in DOMAIN d.plans : d.plans[q].mode = d.mode})
      lastIs(status) == last # None /\ d.plans[last].status = status
      tradeEnded == \/ d.papers # <<>> /\ ~IsOpen(d.papers[Len(d.papers)])
                    \/ d.sessions # <<>> /\ ~IsOpen(d.sessions[Len(d.sessions)])
  IN  IF OpenPaper(d) # None \/ OpenSession(d) # None \/ position # NoPosition
      THEN "MANAGING"
      ELSE IF p # None /\ d.plans[p].status = "LOCKED" THEN PendingStage(d.plans[p].trigger)
      ELSE IF lastIs("CANCELLED") THEN "CANCELLED"
      ELSE IF lastIs("CLOSED") \/ tradeEnded THEN "CLOSED" ELSE "FLAT"

\* The account service's status becomes another one.
AccountChanges ==
  /\ \E status \in Account :
       /\ status.position \in use.positions \cup {NoPosition}
       /\ account' = status
  /\ UNCHANGED <<use, db>>
-----------------------------------------------------------------------------
(***************************************************************************)
(* ApprovedPlanMonitor.check, every second.                                *)
(***************************************************************************)
WatchedPlan == ActivePlan(db, db.mode)
Watching ==
  /\ WatchedPlan # None
  /\ db.plans[WatchedPlan].status = "LOCKED"
  /\ db.plans[WatchedPlan].trigger # "NONE"

\* Mutant: the trigger ends, the plan stays locked.
EndTriggerOnly(plan, state) == [plan EXCEPT !.trigger = state]

\* transition: what becomes of the plan as it was read
EndMonitoring(plan, state) == [plan EXCEPT !.status = "CANCELLED", !.trigger = state]

\* now >= monitoring.expiresAt
MonitorExpires ==
  /\ Watching
  /\ LET p == WatchedPlan
     IN db' \in Outcomes(db, {}, [db EXCEPT !.plans[p] = EndMonitoring(@, "EXPIRED")])
  /\ UNCHANGED <<use, account>>

\* The plan to save for what the mark price says, once the account has been
\* synchronized; `reading` is unread when there is no usable price, and
\* confirmed when the condition has held for the plan's window.
PlanAfter(plan, reading) ==
  CASE reading = "invalidated" -> EndMonitoring(plan, "INVALIDATED")
    [] reading = "unmatched" /\ plan.trigger = "MATCHED" -> [plan EXCEPT !.trigger = "ARMED"]
    [] reading = "matched" /\ plan.trigger = "ARMED" -> [plan EXCEPT !.trigger = "MATCHED"]
    [] reading = "confirmed" /\ plan.trigger \in {"ARMED", "MATCHED"} -> [plan EXCEPT !.trigger = "TRIGGERED"]
    [] OTHER -> plan

\* The check reads the plan, asks for a snapshot, which synchronizes the live
\* sessions and may write this very plan, and saves the plan it read.
MonitorReads ==
  /\ Watching
  /\ \E reading \in {"unread", "invalidated", "unmatched", "matched", "confirmed"},
        gain \in BOOLEAN :
       LET p     == WatchedPlan
           plan  == db.plans[p]
           trail == Sync(db, gain)
           last  == trail[Len(trail)]
           saved == IF PlanAfter(plan, reading) = plan THEN last
                    ELSE [last EXCEPT !.plans[p] = PlanAfter(plan, reading)]
       IN /\ Len(last.sessions) <= use.maxSessions
          /\ db' \in Outcomes(db, Between(trail), saved)
  /\ UNCHANGED <<use, account>>
-----------------------------------------------------------------------------
Next ==
  \/ SaveUserSettings
  \/ ResetLocalData
  \/ LockTradePlan
  \/ EnterPaperTrade
  \/ ClosePaperTrade
  \/ GetTradingState
  \/ AccountChanges
  \/ MonitorExpires
  \/ MonitorReads

Spec == Init /\ [][Next]_vars

\* The one-second timer keeps firing, and expiresAt, a finite time, passes.
FairSpec == Spec /\ WF_vars(~use.failures /\ MonitorExpires)
-----------------------------------------------------------------------------
(***************************************************************************)
(* Safety.                                                                 *)
(***************************************************************************)
\* A mode never has two active plans, whatever fails and whatever the monitor
\* writes back (lockTradePlan's ACTIVE_TRADE_PLAN_EXISTS): readers take the
\* latest one and would lose sight of the other.
OneActivePlan ==
  \A mode \in Modes : \A p, q \in ActivePlans(db, mode) : p = q

\* There is at most one open paper trade and one open live session, also after
\* writes that failed (PAPER_TRADE_ALREADY_OPEN, syncLiveTradeSessions).
OneOpenTrade ==
  /\ \A t, u \in DOMAIN db.papers :
       IsOpen(db.papers[t]) /\ IsOpen(db.papers[u]) => t = u
  /\ \A s, r \in DOMAIN db.sessions :
       IsOpen(db.sessions[s]) /\ IsOpen(db.sessions[r]) => s = r

\* A paper trade and its plan tell the same story: an open trade's plan is
\* active and as far along as the trade, so that closePaper finds it; a closed
\* trade's plan is closed; and no plan is entered without a trade.
PaperTradeFollowsPlan ==
  /\ \A t \in DOMAIN db.papers :
       db.plans[db.papers[t].plan].status =
         IF db.papers[t].status = "OPEN" THEN "ENTERED" ELSE db.papers[t].status
  /\ \A p \in DOMAIN db.plans :
       db.plans[p].mode = "PAPER" /\ db.plans[p].status \notin {"LOCKED", "CANCELLED"} =>
         \E t \in DOMAIN db.papers : db.papers[t].plan = p

\* What the first n events have closed of a trade, for every n
ClosedBy(ledger, trade) ==
  LET closed[n \in 0 .. Len(ledger)] ==
        IF n = 0 THEN 0
        ELSE closed[n - 1] + (IF ledger[n].trade = trade THEN ledger[n].closed ELSE 0)
  IN closed
ClosedByEvents(d, t) == ClosedBy(d.ledger, d.papers[t].id)[Len(d.ledger)]
ClosedOf(d, t) == d.plans[d.papers[t].plan].order.quantity - d.papers[t].remaining

\* The events of every paper trade add up to what the trade has closed.
LedgerAddsUp == \A t \in DOMAIN db.papers : ClosedByEvents(db, t) = ClosedOf(db, t)

\* Even when writes fail, no trade has closed more than its events explain:
\* the event is always written first.
LedgerCoversTrades ==
  \A t \in DOMAIN db.papers : ClosedByEvents(db, t) >= ClosedOf(db, t)

\* A session bound to a plan and the plan agree, from the entry to the close.
SessionFollowsPlan ==
  \A s \in DOMAIN db.sessions :
    db.sessions[s].plan # None =>
      db.plans[db.sessions[s].plan].status =
        IF db.sessions[s].status = "OPEN" THEN "ENTERED" ELSE db.sessions[s].status

\* When the stage shown says that there is nothing to wait for and nothing to
\* manage, nothing keeps the user from locking a new plan either.
EndedStageIsFree ==
  LifecycleStage(db, account.position) \in {"FLAT", "CANCELLED", "CLOSED"} =>
    ActivePlan(db, db.mode) = None

\* A plan is the plan of one live session at most: one approval, one trade.
PlanHasOneSession ==
  \A s, r \in DOMAIN db.sessions :
    db.sessions[s].plan = db.sessions[r].plan /\ db.sessions[s].plan # None => s = r

\* Uses in which no write fails, and either the account has no position or the
\* user only plans live trades, without triggers, and changes mode between them.
WithoutPosition == ~use.failures /\ use.positions = {}
Settled ==
  /\ ~use.failures /\ ~use.switchAnytime /\ ~use.triggers
  /\ use.planModes \subseteq {"LIVE_MANUAL"}

\* Trades and plans tell one story where no write fails: a paper trade is as
\* far along as its plan (so that closePaper finds it), and so is a session
\* for a user who changes mode between trades; no plan has two sessions; and
\* the stage that is shown says truly when a new plan can be locked.
TradesFollowPlans ==
  /\ WithoutPosition => PaperTradeFollowsPlan
  /\ Settled => SessionFollowsPlan /\ PlanHasOneSession
  /\ WithoutPosition \/ Settled => EndedStageIsFree

\* The events of a paper trade explain what it has closed, exactly where no
\* write fails, and always enough.
LedgerExplainsTrades == LedgerCoversTrades /\ (~use.failures => LedgerAddsUp)

\* A plan that was closed or cancelled stays so: no step gives an approval back
\* (until resetLocalData deletes the plans).
EndedPlanStaysEnded ==
  [][Len(db'.plans) >= Len(db.plans) =>
       \A p \in DOMAIN db.plans :
         db.plans[p].status \notin ActiveStatuses => db'.plans[p].status = db.plans[p].status]_vars

\* The plan of a position that has ended is closed too: it is kept until
\* CANCELLED or CLOSED (docs/PROJECT_SPEC.md:2274) and does not block new ones.
EndedPositionEndsPlan ==
  \A s \in DOMAIN db.sessions :
    db.sessions[s].plan # None /\ ~IsOpen(db.sessions[s]) =>
      db.plans[db.sessions[s].plan].status \notin ActiveStatuses
-----------------------------------------------------------------------------
\* Every armed plan comes to an end of its waiting: it is entered, cancelled,
\* or expired (or deleted), unless the user goes to the other mode, where no
\* write fails.
WaitingEnds ==
  \A p \in 1 .. MaxPlans :
    LET waits == /\ p \in DOMAIN db.plans
                 /\ db.plans[p].status = "LOCKED"
                 /\ db.plans[p].trigger # "NONE"
                 /\ db.plans[p].mode = db.mode
                 /\ ~use.failures
    IN waits ~> ~waits
=============================================================================
