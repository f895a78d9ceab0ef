---------------------------- MODULE DecisionLineage ----------------------------
(***************************************************************************)
(* From a decision to the plan that followed it and to its trade           *)
(* (worker/src/phase13-lineage.ts): the app uploads what has become of its *)
(* latest plan and trade, and the worker finds the decision by the values  *)
(* of the plan and keeps one row for it.                                   *)
(*                                                                         *)
(* The sync of an upload runs in three statements, after the snapshot was  *)
(* stored and without transactions.  It may fail at any of them: a later   *)
(* upload tries again.                                                     *)
(***************************************************************************)
EXTENDS Integers, Sequences, FiniteSetsExt
-----------------------------------------------------------------------------
(***************************************************************************)
(* calculateTradeQuality of worker/src/phase14-quality.ts: how far a trade *)
(* went for and against its side, and what it made in units of its risk.   *)
(* Prices are whole numbers and distances are price distances, of which    *)
(* bps, USDT and R are multiples by constants of the trade.                *)
(***************************************************************************)
Unknown == 0   \* a price, a time or a distance that is not known

\* ?? : the first value that is known
Known(a, b) == IF a = Unknown THEN b ELSE a

AtLeastZero(n) == IF n > 0 THEN n ELSE 0

\* plan: [side, entry, stop]; trade: [status, entry, last]
Favorable(side, entry, price) ==
  AtLeastZero(IF side = "LONG" THEN price - entry ELSE entry - price)
Adverse(side, entry, price) ==
  AtLeastZero(IF side = "LONG" THEN entry - price ELSE price - entry)

\* A closed trade is measured at its last mark price, an open one now.
SamplePrice(trade, mark) ==
  IF trade.status = "CLOSED" THEN Known(trade.last, mark) ELSE Known(mark, trade.last)

Untold == [entry |-> Unknown, mfe |-> 0, mae |-> 0]

\* The entry stays as first seen, and the extremes only grow on those before.
\* Nothing is told of a trade without an entry or a price.
Quality(plan, trade, mark, previous) ==
  LET entry == Known(previous.entry, trade.entry)
      price == SamplePrice(trade, mark)
  IN  IF entry = Unknown \/ price = Unknown \/ plan.entry = plan.stop THEN {}
      ELSE {[entry |-> entry,
             mfe |-> Max({previous.mfe, Favorable(plan.side, entry, price)}),
             mae |-> Max({previous.mae, Adverse(plan.side, entry, price)})]}
-----------------------------------------------------------------------------
CONSTANTS
  Decisions,    \* decision ids, the later the larger
  Values,       \* what a decision and a plan say: side, entry, stop
  Prices,       \* mark prices
  MaxSyncs,     \* bound: uploads being synchronized
  Lookback,     \* PLAN_MATCH_LOOKBACK_MS
  MaxTime,      \* bound: ticks
  MaxPlans      \* bound: plans locked

VARIABLES
  now,
  decisions,  \* decision_log: values and time of each validated ENTER_NOW
  plans,      \* the app: the plans locked, each with its trade
  syncs,      \* uploads that are being synchronized
  rows,       \* decision_trade_lineage
  alike       \* do plans and decisions say the same, and do syncs overlap?

vars == <<now, decisions, plans, syncs, rows, alike>>

\* Either all differ, and the app waits for the answer to an upload, or all are
\* alike and uploads overlap.  The prices matter for the first.
ValuesSaid == IF alike THEN {CHOOSE v \in Values : TRUE} ELSE Values
MarkPrices == IF alike THEN {CHOOSE p \in Prices : TRUE} ELSE Prices
InFlight   == IF alike THEN MaxSyncs ELSE 1

None == 0
NoDecision == [at |-> None]
NoRow == [plan |-> None]
NoTrade == [status |-> "NONE", entry |-> Unknown, last |-> Unknown]

TypeOK ==
  /\ now \in 1 .. MaxTime
  /\ decisions \in [Decisions -> [values : Values, at : 1 .. MaxTime] \cup {NoDecision}]
  /\ \A p \in DOMAIN plans :
       /\ plans[p].values \in Values /\ plans[p].lockedAt \in 1 .. MaxTime
       /\ plans[p].status \in {"LOCKED", "ENTERED", "CLOSED", "CANCELLED"}
       /\ plans[p].trade \in [status : {"NONE", "OPEN", "CLOSED"},
                              entry : Prices \cup {Unknown}, last : Prices \cup {Unknown}]
  /\ \A s \in syncs : s.pc \in {"existing", "match", "upsert"} /\ s.plan \in DOMAIN plans
  /\ \A d \in Decisions :
       rows[d] # NoRow => rows[d].plan \in DOMAIN plans /\ rows[d].trade \in DOMAIN plans \cup {None}

Init ==
  /\ now = 1
  /\ decisions = [d \in Decisions |-> NoDecision]
  /\ plans = <<>> /\ syncs = {}
  /\ rows = [d \in Decisions |-> NoRow]
  /\ alike \in BOOLEAN
-----------------------------------------------------------------------------
Tick ==
  /\ now < MaxTime
  /\ now' = now + 1
  /\ UNCHANGED <<decisions, plans, syncs, rows, alike>>

\* recordDecision of a validated ENTER_NOW
Decide(d) ==
  /\ decisions[d] = NoDecision
  /\ \A e \in Decisions : e < d => decisions[e] # NoDecision
  /\ \E v \in ValuesSaid :
       /\ alike \/ \A e \in Decisions : decisions[e] # NoDecision => decisions[e].values # v
       /\ decisions' = [decisions EXCEPT ![d] = [values |-> v, at |-> now]]
  /\ UNCHANGED <<now, plans, syncs, rows, alike>>

Ended(plan) == plan.status \in {"CLOSED", "CANCELLED"}

\* lockTradePlan of the app, for what a decision said or for anything else
Lock ==
  /\ Len(plans) < MaxPlans
  /\ plans # <<>> => Ended(plans[Len(plans)])
  /\ \E v \in ValuesSaid :
       /\ alike \/ \A p \in DOMAIN plans : plans[p].values # v
       /\ plans' = Append(plans,
            [values |-> v, lockedAt |-> now, status |-> "LOCKED", trade |-> NoTrade])
  /\ UNCHANGED <<now, decisions, syncs, rows, alike>>

\* The plan is cancelled, entered at a price, or its trade is closed at one.
PlanMoves ==
  /\ plans # <<>>
  /\ LET last == Len(plans)
         plan == plans[last]
     IN \/ /\ plan.status = "LOCKED"
           /\ plans' = [plans EXCEPT ![last].status = "CANCELLED"]
        \/ /\ plan.status = "LOCKED"
           /\ \E price \in MarkPrices :
                plans' = [plans EXCEPT ![last].status = "ENTERED",
                            ![last].trade = [status |-> "OPEN", entry |-> price, last |-> Unknown]]
        \/ /\ plan.status = "ENTERED"
           /\ \E price \in MarkPrices :
                plans' = [plans EXCEPT ![last].status = "CLOSED",
                            ![last].trade.status = "CLOSED", ![last].trade.last = price]
  /\ UNCHANGED <<now, decisions, syncs, rows, alike>>
-----------------------------------------------------------------------------
\* An upload was stored, and its latest plan is synchronized.
Upload ==
  /\ plans # <<>>
  /\ Cardinality(syncs) < InFlight
  /\ \E mark \in MarkPrices :
       syncs' = syncs \cup {[pc |-> "existing", plan |-> Len(plans), is |-> plans[Len(plans)],
                             mark |-> mark, decision |-> None, previous |-> Untold]}
  /\ UNCHANGED <<now, decisions, plans, rows, alike>>

Step(s, t) == syncs' = (syncs \ {s}) \cup t

\* findExistingLineage: the row of the plan, and what it says of the extremes
FindExisting(s) ==
  /\ s.pc = "existing"
  /\ LET found == {d \in Decisions : rows[d].plan = s.plan} IN
     IF found = {} THEN Step(s, {[s EXCEPT !.pc = "match"]})
     ELSE LET d == CHOOSE d \in found : TRUE
          IN Step(s, {[s EXCEPT !.pc = "upsert", !.decision = d, !.previous = rows[d].quality]})
  /\ UNCHANGED <<now, decisions, plans, rows, alike>>

\* The values of the plan, in a window of time before it was locked.  The minute
\* after it that the code allows for is less than a tick.
Matches(plan, d) ==
  /\ decisions[d] # NoDecision
  /\ decisions[d].values = plan.values
  /\ decisions[d].at \in plan.lockedAt - Lookback .. plan.lockedAt

\* findMatchingDecision: the latest that matches
FindMatch(s) ==
  /\ s.pc = "match"
  /\ LET found == {d \in Decisions : Matches(s.is, d)} IN
     Step(s, IF found = {} THEN {} ELSE {[s EXCEPT !.pc = "upsert", !.decision = Max(found)]})
  /\ UNCHANGED <<now, decisions, plans, rows, alike>>

\* Mutant: the extremes of the uploads before are forgotten.
QualityOfUpload(s) == Quality(s.is.values, s.is.trade, s.mark, Untold)

QualityOf(s) == Quality(s.is.values, s.is.trade, s.mark, s.previous)

\* The row with what this upload says; COALESCE keeps what it does not say.
Upserted(old, s) ==
  LET trade == IF s.is.trade = NoTrade THEN None ELSE s.plan
      had   == old # NoRow
      told  == QualityOf(s)
      earlier == IF had THEN old.quality ELSE Untold
  IN [plan |-> s.plan, status |-> s.is.status,
      trade |-> IF trade # None \/ ~had THEN trade ELSE old.trade,
      ended |-> IF trade # None \/ ~had THEN s.is.trade.status = "CLOSED" ELSE old.ended,
      quality |-> IF told = {} THEN earlier
                  ELSE LET q == CHOOSE q \in told : TRUE
                       IN [q EXCEPT !.entry = Known(earlier.entry, @)]]

\* upsertLineage.  plan_id is unique: a plan that another row took meanwhile
\* makes the statement fail.
Upsert(s) ==
  /\ s.pc = "upsert"
  /\ Step(s, {})
  /\ rows' = IF \E d \in Decisions : d # s.decision /\ rows[d].plan = s.plan THEN rows
             ELSE [rows EXCEPT ![s.decision] = Upserted(@, s)]
  /\ UNCHANGED <<now, decisions, plans, alike>>

\* A statement fails.
SyncFails(s) == Step(s, {}) /\ UNCHANGED <<now, decisions, plans, rows, alike>>
-----------------------------------------------------------------------------
Next ==
  \/ Tick \/ Lock \/ PlanMoves \/ Upload
  \/ \E d \in Decisions : Decide(d)
  \/ \E s \in syncs : FindExisting(s) \/ FindMatch(s) \/ Upsert(s) \/ SyncFails(s)

Spec == Init /\ [][Next]_vars
-----------------------------------------------------------------------------
\* A decision is linked to a plan only if the plan says what the decision said,
\* and was locked within the window, also when syncs overlap or fail, and no
\* plan is linked to two decisions.
LinkedPlanIsTheDecisions ==
  \A d \in Decisions : rows[d] # NoRow =>
    /\ plans[rows[d].plan].values = decisions[d].values
    /\ plans[rows[d].plan].lockedAt - decisions[d].at \in 0 .. Lookback
    /\ \A e \in Decisions : e # d => rows[e].plan # rows[d].plan

\* As long as plans differ in their values and syncs do not overlap, a row
\* follows one plan and one trade to its end: the extremes only grow, the entry
\* stays, and a trade that has ended does not open again.
RowMovesOn ==
  \A d \in Decisions : rows[d] # NoRow =>
    LET old == rows[d]
        new == rows'[d]
    IN  /\ new.plan = old.plan
        /\ new.quality.mfe >= old.quality.mfe /\ new.quality.mae >= old.quality.mae
        /\ old.quality.entry # Unknown => new.quality.entry = old.quality.entry
        /\ old.trade # None => new.trade = old.trade
        /\ old.ended => new.ended

LineageOnlyAdvances == [][~alike => RowMovesOn]_vars
=============================================================================
