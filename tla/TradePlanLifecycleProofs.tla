----------------------- MODULE TradePlanLifecycleProofs -----------------------
(***************************************************************************)
(* Proofs about TradePlanLifecycle, for any plans, positions and bounds,   *)
(* with or without failing writes and a user who changes mode at any time: *)
(* type correctness, at most one active plan per mode, at most one open    *)
(* trade of each kind, that an ended plan never comes back, that the       *)
(* events of a paper trade explain what it has closed, and that trades,    *)
(* sessions and plans tell one story where no write fails.                 *)
(*                                                                         *)
(* The first three are inductive together.  The argument: a step that      *)
(* touches plans other than by adding one touches only the plan that was   *)
(* active in its mode (operator Touches), and Latest returns the only      *)
(* active plan, not just some plan, as long as there is only one.          *)
(*                                                                         *)
(* What events add up to is a recursive function over the ledger.  What is *)
(* known of it is proved by smallest counterexample (LeastNumber): that    *)
(* the function exists, that its values are sums, and that an event that   *)
(* is appended is added to the sum of its own trade only.                  *)
(***************************************************************************)
EXTENDS MCTradePlanLifecycle, SequenceTheorems, WellFoundedInduction, TLAPS

OneActive(d) == \A mode \in Modes : \A p, q \in ActivePlans(d, mode) : p = q

OnePaper(d) ==
  \A t, u \in DOMAIN d.papers : IsOpen(d.papers[t]) /\ IsOpen(d.papers[u]) => t = u
OneSession(d) ==
  \A s, r \in DOMAIN d.sessions : IsOpen(d.sessions[s]) /\ IsOpen(d.sessions[r]) => s = r

Good(d) == d \in Database /\ OneActive(d) /\ OnePaper(d) /\ OneSession(d)

IInv == use \in Uses /\ Good(db) /\ account \in Account

\* From d to e only plan p may have changed, and neither its mode nor its order.
Touches(d, e, p) ==
  /\ e \in Database
  /\ e.mode = d.mode
  /\ Len(e.plans) = Len(d.plans)
  /\ \A q \in DOMAIN d.plans :
       /\ e.plans[q].mode = d.plans[q].mode /\ e.plans[q].order = d.plans[q].order
       /\ q # p => e.plans[q] = d.plans[q]

\* Between d and e no ended plan has come back.
KeepsEnded(d, e) ==
  Len(e.plans) >= Len(d.plans) =>
    \A p \in DOMAIN d.plans :
      d.plans[p].status \notin ActiveStatuses => e.plans[p].status = d.plans[p].status
-----------------------------------------------------------------------------
(***************************************************************************)
(* Queries.                                                                *)
(***************************************************************************)
\* Latest returns the member of a set that has at most one.
LEMMA LatestOfOne ==
  ASSUME NEW S \in SUBSET (Nat \ {0}), \A x, y \in S : x = y
  PROVE  \/ S = {} /\ Latest(S) = None
         \/ Latest(S) \in S
<1>1. CASE S = {}
  BY <1>1 DEF Latest
<1>2. CASE S # {}
  <2>1. PICK x \in S : TRUE
    BY <1>2
  <2>2. \A q \in S : q <= x
    BY <2>1
  <2>3. (CHOOSE r \in S : \A q \in S : q <= r) \in S
    BY <2>1, <2>2
  <2>4. QED
    BY <1>2, <2>3 DEF Latest
<1>3. QED
  BY <1>1, <1>2

\* The rows of the tables are numbered from 1.
LEMMA Rows ==
  ASSUME NEW d \in Database
  PROVE  /\ DOMAIN d.plans = 1 .. Len(d.plans) /\ Len(d.plans) \in Nat
         /\ DOMAIN d.papers = 1 .. Len(d.papers) /\ Len(d.papers) \in Nat
         /\ DOMAIN d.ledger = 1 .. Len(d.ledger) /\ Len(d.ledger) \in Nat
         /\ DOMAIN d.sessions = 1 .. Len(d.sessions) /\ Len(d.sessions) \in Nat
         /\ \A p \in DOMAIN d.plans : d.plans[p] \in Plan
         /\ \A t \in DOMAIN d.papers : d.papers[t] \in PaperTrade
         /\ \A s \in DOMAIN d.sessions : d.sessions[s] \in LiveSession
<1>1. /\ d.plans \in Seq(Plan) /\ d.papers \in Seq(PaperTrade)
      /\ d.ledger \in Seq(PaperEvent) /\ d.sessions \in Seq(LiveSession)
  BY DEF Database
<1>2. QED
  BY <1>1, LenProperties, ElementOfSeq

\* readActiveLockedTradePlan returns the active plan of the mode, or nothing.
LEMMA ActivePlanIsActive ==
  ASSUME NEW d, Good(d), NEW mode \in Modes
  PROVE  \/ ActivePlan(d, mode) = None /\ ActivePlans(d, mode) = {}
         \/ ActivePlan(d, mode) \in ActivePlans(d, mode)
<1>1. ActivePlans(d, mode) \in SUBSET (Nat \ {0})
  BY Rows DEF ActivePlans, Good
<1>2. \A p, q \in ActivePlans(d, mode) : p = q
  BY DEF Good, OneActive
<1>3. QED
  BY <1>1, <1>2, LatestOfOne DEF ActivePlan

\* readActiveLiveTrade returns the open session, or nothing when none is open.
LEMMA OpenSessionIsOpen ==
  ASSUME NEW d, Good(d)
  PROVE  \/ OpenSession(d) = None /\ \A s \in DOMAIN d.sessions : ~IsOpen(d.sessions[s])
         \/ OpenSession(d) \in DOMAIN d.sessions /\ IsOpen(d.sessions[OpenSession(d)])
<1> DEFINE S == {s \in DOMAIN d.sessions : IsOpen(d.sessions[s])}
<1>1. S \in SUBSET (Nat \ {0})
  BY Rows DEF Good
<1>2. \A x, y \in S : x = y
  BY DEF Good, OneSession
<1>3. OpenSession(d) = Latest(S)
  BY DEF OpenSession
<1>4. QED
  BY <1>1, <1>2, <1>3, LatestOfOne

\* readActivePaperTrade returns the open trade, or nothing when none is open.
LEMMA OpenPaperIsOpen ==
  ASSUME NEW d, Good(d)
  PROVE  \/ OpenPaper(d) = None /\ \A t \in DOMAIN d.papers : ~IsOpen(d.papers[t])
         \/ OpenPaper(d) \in DOMAIN d.papers /\ IsOpen(d.papers[OpenPaper(d)])
<1> DEFINE S == {t \in DOMAIN d.papers : IsOpen(d.papers[t])}
<1>1. S \in SUBSET (Nat \ {0})
  BY Rows DEF Good
<1>2. \A x, y \in S : x = y
  BY DEF Good, OnePaper
<1>3. OpenPaper(d) = Latest(S)
  BY DEF OpenPaper
<1>4. QED
  BY <1>1, <1>2, <1>3, LatestOfOne
-----------------------------------------------------------------------------
(***************************************************************************)
(* Writes.                                                                 *)
(***************************************************************************)
\* Saving a row over plan p.
LEMMA PlanSaved ==
  ASSUME NEW d \in Database, NEW p \in DOMAIN d.plans, NEW plan \in Plan,
         plan.mode = d.plans[p].mode, plan.order = d.plans[p].order
  PROVE  LET e == [d EXCEPT !.plans[p] = plan]
         IN /\ Touches(d, e, p)
            /\ e.plans[p] = plan
            /\ e.papers = d.papers /\ e.ledger = d.ledger /\ e.sessions = d.sessions
<1> DEFINE e == [d EXCEPT !.plans[p] = plan]
<1>1. d.plans \in Seq(Plan) /\ p \in 1 .. Len(d.plans)
  BY Rows DEF Database
<1> DEFINE plans == [d.plans EXCEPT ![p] = plan]
<1>2. /\ plans \in Seq(Plan)
      /\ Len(plans) = Len(d.plans)
      /\ \A q \in 1 .. Len(d.plans) : plans[q] = IF q = p THEN plan ELSE d.plans[q]
  BY <1>1, ExceptSeq
<1>3. e = [d EXCEPT !.plans = plans]
  OBVIOUS
<1> HIDE DEF plans, e
<1>4. /\ e \in Database /\ e.plans = plans
      /\ e.mode = d.mode /\ e.papers = d.papers /\ e.ledger = d.ledger
      /\ e.sessions = d.sessions
  BY <1>2, <1>3 DEF Database
<1>5. DOMAIN d.plans = 1 .. Len(d.plans)
  BY Rows
<1>6. Touches(d, e, p)
  BY <1>2, <1>4, <1>5 DEF Touches
<1>7. e.plans[p] = plan
  BY <1>1, <1>2, <1>4
<1>8. QED
  BY <1>4, <1>6, <1>7 DEF e

\* updateLockedTradePlanStatus.
LEMMA StatusSet ==
  ASSUME NEW d \in Database, NEW p \in DOMAIN d.plans, NEW status \in PlanStatuses
  PROVE  LET e == SetPlan(d, p, status)
         IN /\ Touches(d, e, p)
            /\ e.plans[p].status = status /\ e.plans[p].trigger = d.plans[p].trigger
            /\ e.papers = d.papers /\ e.ledger = d.ledger /\ e.sessions = d.sessions
<1> DEFINE plan == [d.plans[p] EXCEPT !.status = status]
<1>1. d.plans[p] \in Plan
  BY Rows
<1>2. /\ plan \in Plan /\ plan.status = status /\ plan.trigger = d.plans[p].trigger
      /\ plan.mode = d.plans[p].mode /\ plan.order = d.plans[p].order
  BY <1>1 DEF Plan
<1>3. SetPlan(d, p, status) = [d EXCEPT !.plans[p] = plan]
  BY DEF SetPlan
<1> HIDE DEF plan
<1>4. QED
  BY <1>2, <1>3, PlanSaved

\* A step that touches at most the active plan of a mode keeps what matters.
LEMMA TouchKeeps ==
  ASSUME NEW d, Good(d), NEW e, NEW p, Touches(d, e, p), NEW mode \in Modes,
         p = None \/ p \in ActivePlans(d, mode)
  PROVE  OneActive(e) /\ KeepsEnded(d, e)
<1>1. d \in Database /\ e \in Database
  BY DEF Good, Touches
<1>2. DOMAIN d.plans = 1 .. Len(d.plans) /\ DOMAIN e.plans = DOMAIN d.plans
  BY <1>1, Rows DEF Touches
<1>3. \A q \in DOMAIN d.plans : q # None
  BY <1>1, <1>2, Rows DEF None
<1>4. \A q \in DOMAIN d.plans :
        d.plans[q].status \notin ActiveStatuses => q # p
  BY <1>3 DEF ActivePlans
<1>5. KeepsEnded(d, e)
  BY <1>2, <1>4 DEF KeepsEnded, Touches
<1>6. \A m \in Modes : ActivePlans(e, m) \subseteq ActivePlans(d, m)
  <2>1. SUFFICES ASSUME NEW m \in Modes, NEW q \in ActivePlans(e, m)
                 PROVE  q \in ActivePlans(d, m)
    OBVIOUS
  <2>2. q \in DOMAIN d.plans /\ d.plans[q].mode = m
    BY <1>2, <2>1 DEF ActivePlans, Touches
  <2>3. d.plans[q].status \in ActiveStatuses
    BY <2>1, <2>2, <1>4, <1>2 DEF ActivePlans, Touches
  <2>4. QED
    BY <2>2, <2>3 DEF ActivePlans
<1>7. QED
  BY <1>5, <1>6 DEF Good, OneActive

\* Touching the same plan twice is touching it.
LEMMA TouchTwice ==
  ASSUME NEW d, NEW e, NEW f, NEW p, d \in Database,
         Touches(d, e, p), Touches(e, f, p)
  PROVE  Touches(d, f, p)
<1>1. DOMAIN d.plans = 1 .. Len(d.plans) /\ DOMAIN e.plans = 1 .. Len(e.plans)
  BY Rows DEF Touches
<1>2. QED
  BY <1>1 DEF Touches

\* A write that leaves the plans and the mode alone touches no plan.
LEMMA PlansUntouched ==
  ASSUME NEW d, NEW e \in Database, e.mode = d.mode, e.plans = d.plans, NEW p
  PROVE  Touches(d, e, p)
BY DEF Touches
-----------------------------------------------------------------------------
(***************************************************************************)
(* Live sessions.                                                          *)
(***************************************************************************)
\* syncBoundPlanStatus touches only the plan it was given.
LEMMA PlanBound ==
  ASSUME NEW d \in Database, NEW p, p = None \/ p \in DOMAIN d.plans, NEW plan,
         NEW s \in DOMAIN d.sessions
  PROVE  LET e == BindPlan(d, p, plan, s)
         IN /\ Touches(d, e, p)
            /\ e.papers = d.papers /\ e.ledger = d.ledger /\ e.sessions = d.sessions
<1> DEFINE status == DesiredStatus(d.sessions[s])
<1>1. d.sessions[s].status \in TradeStatuses
  BY Rows DEF LiveSession
<1>2. status \in PlanStatuses
  BY <1>1 DEF DesiredStatus, TradeStatuses, PlanStatuses
<1>3. Touches(d, d, p)
  BY PlansUntouched
<1>4. BindPlan(d, p, plan, s) = d \/ (p # None /\ BindPlan(d, p, plan, s) = SetPlan(d, p, status))
  BY DEF BindPlan
<1> HIDE DEF status
<1>5. QED
  BY <1>2, <1>3, <1>4, StatusSet

\* Closing the only open session leaves none.
LEMMA SessionClosed ==
  ASSUME NEW d \in Database, OneSession(d), NEW s \in DOMAIN d.sessions,
         IsOpen(d.sessions[s])
  PROVE  LET e == CloseSession(d, s)
         IN /\ e \in Database
            /\ e.mode = d.mode /\ e.plans = d.plans
            /\ e.papers = d.papers /\ e.ledger = d.ledger
            /\ s \in DOMAIN e.sessions
            /\ \A r \in DOMAIN e.sessions : ~IsOpen(e.sessions[r])
<1> DEFINE session  == [d.sessions[s] EXCEPT !.status = "CLOSED"]
           kept     == [d.sessions EXCEPT ![s] = session]
           e        == CloseSession(d, s)
<1>1. d.sessions \in Seq(LiveSession) /\ s \in 1 .. Len(d.sessions) /\ d.sessions[s] \in LiveSession
  BY Rows DEF Database
<1>2. session \in LiveSession /\ ~IsOpen(session)
  BY <1>1 DEF LiveSession, TradeStatuses, IsOpen
<1>3. /\ kept \in Seq(LiveSession) /\ Len(kept) = Len(d.sessions)
      /\ \A r \in 1 .. Len(d.sessions) : kept[r] = IF r = s THEN session ELSE d.sessions[r]
  <2> HIDE DEF session
  <2>1. QED
    BY <1>1, <1>2, ExceptSeq
<1>4. e = [d EXCEPT !.sessions = kept]
  BY DEF CloseSession
<1>5. \A r \in DOMAIN d.sessions : r # s => ~IsOpen(d.sessions[r])
  BY DEF OneSession
<1> HIDE DEF session, kept, e
<1>6. /\ e \in Database /\ e.sessions = kept
      /\ e.mode = d.mode /\ e.plans = d.plans /\ e.papers = d.papers /\ e.ledger = d.ledger
  BY <1>3, <1>4 DEF Database
<1>7. DOMAIN e.sessions = 1 .. Len(d.sessions) /\ DOMAIN d.sessions = 1 .. Len(d.sessions)
  BY <1>3, <1>6, Rows
<1>8. \A r \in DOMAIN e.sessions : ~IsOpen(e.sessions[r])
  BY <1>2, <1>3, <1>5, <1>6, <1>7
<1>9. QED
  BY <1>1, <1>6, <1>7, <1>8 DEF e

\* What createLiveTradeSession and updateLiveTradeSession save is a session.
LEMMA SessionObserved ==
  ASSUME NEW d \in Database, NEW s, s = None \/ s \in DOMAIN d.sessions,
         NEW p \in Nat, NEW plan, NEW position \in Positions, NEW gain
  PROVE  ObservedSession(d, s, p, plan, position, gain) \in LiveSession
<1> DEFINE peak == IF s = None THEN position.quantity ELSE Max({d.sessions[s].peak, position.quantity})
<1>1. position.side \in Sides /\ position.quantity \in Nat
  BY TradePlanAssumption
<1>2. s # None => d.sessions[s].plan \in Nat /\ d.sessions[s].peak \in Nat
  BY Rows DEF LiveSession
<1>3. \A a, b \in Nat : Max({a, b}) \in Nat
  <2>1. SUFFICES ASSUME NEW a \in Nat, NEW b \in Nat
                 PROVE  Max({a, b}) \in Nat
    OBVIOUS
  <2>2. \E x \in {a, b} : \A y \in {a, b} : x >= y
    <3>1. CASE a >= b
      BY <3>1
    <3>2. CASE b >= a
      BY <3>2
    <3>3. QED
      BY <3>1, <3>2
  <2>3. QED
    BY <2>2 DEF Max
<1>4. peak \in Nat
  BY <1>1, <1>2, <1>3
<1> HIDE DEF peak
<1>5. QED
  BY <1>1, <1>2, <1>4 DEF ObservedSession, LiveSession, TradeStatuses, None, peak

\* Saving the open session, or a new one when none is open, leaves at most one.
LEMMA SessionSaved ==
  ASSUME NEW d \in Database, NEW s, NEW session \in LiveSession,
         \/ s = None /\ \A r \in DOMAIN d.sessions : ~IsOpen(d.sessions[r])
         \/ s \in DOMAIN d.sessions /\ IsOpen(d.sessions[s]) /\ OneSession(d)
  PROVE  LET e == SaveSession(d, s, session)
         IN /\ e \in Database
            /\ e.mode = d.mode /\ e.plans = d.plans
            /\ e.papers = d.papers /\ e.ledger = d.ledger
            /\ OneSession(e)
            /\ (IF s = None THEN Len(e.sessions) ELSE s) \in DOMAIN e.sessions
<1> DEFINE e == SaveSession(d, s, session)
<1>1. /\ d.sessions \in Seq(LiveSession)
      /\ DOMAIN d.sessions = 1 .. Len(d.sessions) /\ Len(d.sessions) \in Nat
  BY Rows DEF Database
<1>2. CASE s = None
  <2> DEFINE kept == Append(d.sessions, session)
  <2>1. /\ kept \in Seq(LiveSession) /\ Len(kept) = Len(d.sessions) + 1
        /\ DOMAIN kept = 1 .. Len(d.sessions) + 1
        /\ \A r \in 1 .. Len(d.sessions) : kept[r] = d.sessions[r]
    BY <1>1
  <2>2. e = [d EXCEPT !.sessions = kept]
    BY <1>2 DEF SaveSession
  <2>3. \A r \in DOMAIN d.sessions : ~IsOpen(d.sessions[r])
    BY <1>1, <1>2 DEF None
  <2> HIDE DEF kept, e
  <2>4. /\ e \in Database /\ e.sessions = kept
        /\ e.mode = d.mode /\ e.plans = d.plans /\ e.papers = d.papers /\ e.ledger = d.ledger
    BY <2>1, <2>2 DEF Database
  <2>5. \A r \in DOMAIN e.sessions : IsOpen(e.sessions[r]) => r = Len(d.sessions) + 1
    BY <1>1, <2>1, <2>3, <2>4
  <2>6. OneSession(e)
    BY <2>5 DEF OneSession
  <2>7. QED
    BY <1>1, <1>2, <2>1, <2>4, <2>6 DEF e
<1>3. CASE s # None
  <2> DEFINE kept == [d.sessions EXCEPT ![s] = session]
  <2>1. s \in DOMAIN d.sessions /\ IsOpen(d.sessions[s]) /\ OneSession(d)
    BY <1>3
  <2>2. /\ kept \in Seq(LiveSession) /\ Len(kept) = Len(d.sessions)
        /\ \A r \in 1 .. Len(d.sessions) : kept[r] = IF r = s THEN session ELSE d.sessions[r]
    BY <1>1, <2>1, ExceptSeq
  <2>3. e = [d EXCEPT !.sessions = kept]
    BY <1>3 DEF SaveSession
  <2> HIDE DEF kept, e
  <2>4. /\ e \in Database /\ e.sessions = kept
        /\ e.mode = d.mode /\ e.plans = d.plans /\ e.papers = d.papers /\ e.ledger = d.ledger
    BY <2>2, <2>3 DEF Database
  <2>5. DOMAIN e.sessions = 1 .. Len(d.sessions)
    BY <2>2, <2>4, Rows
  <2>6. \A r \in DOMAIN e.sessions : IsOpen(e.sessions[r]) => r = s
    BY <1>1, <2>1, <2>2, <2>4, <2>5 DEF OneSession
  <2>7. OneSession(e)
    BY <2>6 DEF OneSession
  <2>8. QED
    BY <1>1, <1>3, <2>1, <2>4, <2>5, <2>7 DEF e
<1>4. QED
  BY <1>2, <1>3

\* From d to e plan p, the events and the sessions may have changed, and at most
\* one session is open.
Saved(d, e, p) == Touches(d, e, p) /\ e.papers = d.papers /\ OneSession(e)

\* What synchronizing the sessions may leave of database d: nothing but plan p
\* and the sessions has changed, and at most one session is open.
Synced(d, e, p) == Saved(d, e, p) /\ e.ledger = d.ledger

\* Each database syncLiveTradeSessions passes through is such a one.
LEMMA SyncKeeps ==
  ASSUME NEW d, Good(d), NEW position \in Positions \cup {NoPosition}, NEW gain \in BOOLEAN,
         NEW i \in DOMAIN SyncTrail(d, position, gain)
  PROVE  Synced(d, SyncTrail(d, position, gain)[i], ActivePlan(d, d.mode))
<1> DEFINE p       == ActivePlan(d, d.mode)
           plan    == d.plans[p]
           s       == OpenSession(d)
           ends    == s # None /\ (position = NoPosition \/ Flips(d, s, position))
           closed  == IF ends THEN CloseSession(d, s) ELSE d
           freed   == IF ends THEN BindPlan(closed, p, plan, s) ELSE d
           row     == IF ends THEN None ELSE s
           session == ObservedSession(freed, row, p, plan, position, gain)
           saved   == SaveSession(freed, row, session)
           last    == IF row = None THEN Len(saved.sessions) ELSE row
           bound   == BindPlan(saved, p, plan, last)
<1>1. SyncTrail(d, position, gain) =
        IF position = NoPosition THEN <<closed, freed>> ELSE <<closed, freed, saved, bound>>
  BY DEF SyncTrail
<1>2. d \in Database /\ d.mode \in Modes /\ OneSession(d)
  BY DEF Good, Database
<1>3. p = None \/ p \in DOMAIN d.plans
  BY <1>2, ActivePlanIsActive DEF ActivePlans
<1>4. p \in Nat
  BY <1>2, <1>3, Rows DEF None
<1>5. \/ s = None /\ \A r \in DOMAIN d.sessions : ~IsOpen(d.sessions[r])
      \/ s \in DOMAIN d.sessions /\ IsOpen(d.sessions[s])
  BY OpenSessionIsOpen
<1> HIDE DEF p, plan, s
<1>6. Synced(d, d, p)
  BY <1>2, PlansUntouched DEF Synced, Saved
<1>7. /\ Synced(d, closed, p) /\ Synced(d, freed, p)
      /\ \/ row = None /\ \A r \in DOMAIN freed.sessions : ~IsOpen(freed.sessions[r])
         \/ row \in DOMAIN freed.sessions /\ IsOpen(freed.sessions[row]) /\ OneSession(freed)
  <2>1. CASE ends
    <3>1. s \in DOMAIN d.sessions /\ IsOpen(d.sessions[s])
      BY <1>5, <2>1
    <3>2. /\ closed \in Database
          /\ closed.mode = d.mode /\ closed.plans = d.plans
          /\ closed.papers = d.papers /\ closed.ledger = d.ledger
          /\ s \in DOMAIN closed.sessions
          /\ \A r \in DOMAIN closed.sessions : ~IsOpen(closed.sessions[r])
      BY <1>2, <2>1, <3>1, SessionClosed
    <3>3. freed = BindPlan(closed, p, plan, s) /\ row = None
      BY <2>1
    <3> HIDE DEF closed, freed, row
    <3>4. Synced(d, closed, p)
      BY <1>2, <3>2, PlansUntouched DEF Synced, Saved, OneSession
    <3>5. /\ Touches(closed, freed, p) /\ freed.papers = closed.papers
          /\ freed.ledger = closed.ledger /\ freed.sessions = closed.sessions
      BY <1>3, <3>2, <3>3, PlanBound
    <3>6. Synced(d, freed, p)
      BY <1>2, <3>2, <3>4, <3>5, TouchTwice DEF Synced, Saved, OneSession
    <3>7. QED
      BY <3>2, <3>3, <3>4, <3>5, <3>6
  <2>2. CASE ~ends
    <3>1. closed = d /\ freed = d /\ row = s
      BY <2>2
    <3> HIDE DEF closed, freed, row
    <3>2. QED
      BY <1>2, <1>5, <1>6, <3>1
  <2>3. QED
    BY <2>1, <2>2
<1> HIDE DEF closed, freed, row
<1>8. CASE position # NoPosition
  <2>1. freed \in Database /\ position \in Positions
    BY <1>7, <1>8 DEF Synced, Saved, Touches
  <2>2. session \in LiveSession
    BY <1>4, <1>7, <2>1, SessionObserved
  <2> HIDE DEF session
  <2>3. /\ saved \in Database
        /\ saved.mode = freed.mode /\ saved.plans = freed.plans
        /\ saved.papers = freed.papers /\ saved.ledger = freed.ledger
        /\ OneSession(saved)
        /\ last \in DOMAIN saved.sessions
    BY <1>7, <2>1, <2>2, SessionSaved
  <2> HIDE DEF saved, last
  <2>4. Synced(d, saved, p)
    BY <1>2, <1>7, <2>1, <2>3, PlansUntouched, TouchTwice DEF Synced, Saved
  <2>5. p = None \/ p \in DOMAIN saved.plans
    BY <1>2, <1>3, <2>3, <2>4, Rows DEF Synced, Saved, Touches
  <2>6. /\ Touches(saved, bound, p) /\ bound.papers = saved.papers
        /\ bound.ledger = saved.ledger /\ bound.sessions = saved.sessions
    BY <2>3, <2>5, PlanBound
  <2> HIDE DEF bound
  <2>7. Synced(d, bound, p)
    BY <1>2, <2>3, <2>4, <2>6, TouchTwice DEF Synced, Saved, OneSession
  <2>8. QED
    BY <1>1, <1>7, <1>8, <2>4, <2>7 DEF p
<1>9. CASE position = NoPosition
  BY <1>1, <1>7, <1>9 DEF p
<1>10. QED
  BY <1>8, <1>9

\* A database so saved is a good one, and no plan has come back.
LEMMA SavedIsGood ==
  ASSUME NEW d, Good(d), NEW e, NEW p, Saved(d, e, p), NEW mode \in Modes,
         p = None \/ p \in ActivePlans(d, mode)
  PROVE  Good(e) /\ KeepsEnded(d, e)
<1>1. Touches(d, e, p) /\ e \in Database /\ e.papers = d.papers /\ OneSession(e)
  BY DEF Saved, Touches
<1>2. OneActive(e) /\ KeepsEnded(d, e)
  BY <1>1, TouchKeeps
<1>3. QED
  BY <1>1, <1>2 DEF Good, OnePaper

\* Every database Sync passes through is a synchronized one.
LEMMA SyncIsSynced ==
  ASSUME Good(db), account \in Account, NEW gain \in BOOLEAN
  PROVE  /\ Len(Sync(db, gain)) \in DOMAIN Sync(db, gain)
         /\ \A i \in DOMAIN Sync(db, gain) :
              Synced(db, Sync(db, gain)[i], ActivePlan(db, db.mode))
<1>1. CASE account.link = "fresh"
  <2>1. Sync(db, gain) = SyncTrail(db, account.position, gain)
    BY <1>1 DEF Sync
  <2>2. account.position \in Positions \cup {NoPosition}
    BY DEF Account
  <2>3. Len(SyncTrail(db, account.position, gain)) \in DOMAIN SyncTrail(db, account.position, gain)
    BY DEF SyncTrail
  <2>4. QED
    BY <2>1, <2>2, <2>3, SyncKeeps
<1>2. CASE account.link # "fresh"
  <2>1. Sync(db, gain) = <<db>>
    BY <1>2 DEF Sync
  <2>2. Synced(db, db, ActivePlan(db, db.mode))
    BY PlansUntouched DEF Good, Synced, Saved
  <2>3. QED
    BY <2>1, <2>2
<1>3. QED
  BY <1>1, <1>2

\* What a handler leaves is one of the databases it passed through.
LEMMA OutcomeIsOne ==
  ASSUME NEW before, NEW between, NEW after, NEW d \in Outcomes(before, between, after)
  PROVE  d = before \/ d = after \/ d \in between
BY DEF Outcomes
-----------------------------------------------------------------------------
(***************************************************************************)
(* One lemma per action: the invariant is kept and no plan comes back.     *)
(***************************************************************************)
Kept(d) == Good(d) /\ KeepsEnded(db, d)

\* Not writing keeps everything.
LEMMA Unwritten ==
  ASSUME IInv
  PROVE  Kept(db)
BY DEF Kept, IInv, KeepsEnded

\* Changing the settings changes no row.
LEMMA SettingsStep ==
  ASSUME IInv, SaveUserSettings
  PROVE  Kept(db')
<1>1. PICK mode \in Modes : db' = [db EXCEPT !.mode = mode]
  BY DEF SaveUserSettings
<1>2. db \in Database
  BY DEF IInv, Good
<1>3. /\ db' \in Database /\ db'.plans = db.plans /\ db'.papers = db.papers
      /\ db'.sessions = db.sessions
  BY <1>1, <1>2 DEF Database
<1>4. OneActive(db') /\ OnePaper(db') /\ OneSession(db')
  BY <1>3 DEF IInv, Good, OneActive, OnePaper, OneSession, ActivePlans
<1>5. KeepsEnded(db, db')
  BY <1>3 DEF KeepsEnded
<1>6. QED
  BY <1>3, <1>4, <1>5 DEF Kept, Good

\* The empty database has nothing to go wrong.
LEMMA EmptyIsGood == Good(EmptyDatabase)
<1>1. EmptyDatabase \in Database
  BY DEF EmptyDatabase, Database, Modes
<1>2. DOMAIN EmptyDatabase.plans = {} /\ DOMAIN EmptyDatabase.papers = {} /\ DOMAIN EmptyDatabase.sessions = {}
  BY DEF EmptyDatabase
<1>3. QED
  BY <1>1, <1>2 DEF Good, OneActive, OnePaper, OneSession, ActivePlans

\* resetLocalData deletes every plan.
LEMMA ResetStep ==
  ASSUME IInv, ResetLocalData
  PROVE  Kept(db')
<1>1. db' = EmptyDatabase
  BY DEF ResetLocalData
<1>2. db \in Database
  BY DEF IInv, Good
<1>3. Len(db'.plans) = 0
  BY <1>1 DEF EmptyDatabase
<1>4. DOMAIN db.plans = 1 .. Len(db.plans) /\ Len(db.plans) \in Nat
  BY <1>2, Rows
<1>5. KeepsEnded(db, db')
  BY <1>3, <1>4 DEF KeepsEnded
<1>6. QED
  BY <1>1, <1>5, EmptyIsGood DEF Kept

\* Cancelling the pending plan leaves no active plan in the mode.
LEMMA PendingCancelled ==
  ASSUME NEW d, Good(d), NEW mode \in Modes
  PROVE  LET p == ActivePlan(d, mode)
             e == CancelPending(d, p)
         IN /\ Synced(d, e, p) /\ (p = None \/ p \in ActivePlans(d, mode))
            /\ ActivePlans(e, mode) = {}
            /\ e.sessions = d.sessions
            /\ p # None =>
                 /\ e.plans[p].status = "CANCELLED"
                 /\ d.plans[p].trigger = "NONE" => e.plans[p].trigger = "NONE"
<1> DEFINE p == ActivePlan(d, mode)
           e == CancelPending(d, p)
<1>1. d \in Database
  BY DEF Good
<1>2. (p = None /\ ActivePlans(d, mode) = {}) \/ p \in ActivePlans(d, mode)
  BY ActivePlanIsActive
<1> HIDE DEF p
<1>3. CASE p = None
  <2>1. e = d
    BY <1>3 DEF CancelPending
  <2>2. ActivePlans(d, mode) = {}
    BY <1>1, <1>2, <1>3, Rows DEF ActivePlans, None
  <2>3. Synced(d, d, p)
    BY <1>1, PlansUntouched DEF Synced, Saved, Good
  <2>4. QED
    BY <1>3, <2>1, <2>2, <2>3 DEF p
<1>4. CASE p # None
  <2>1. p \in DOMAIN d.plans /\ p \in ActivePlans(d, mode) /\ d.plans[p] \in Plan
    BY <1>1, <1>2, <1>4, Rows DEF ActivePlans
  <2> DEFINE plan == [d.plans[p] EXCEPT !.status = "CANCELLED",
                                        !.trigger = IF @ = "NONE" THEN @ ELSE "CANCELLED"]
  <2>2. /\ plan \in Plan /\ plan.status = "CANCELLED"
        /\ d.plans[p].trigger = "NONE" => plan.trigger = "NONE"
        /\ plan.mode = d.plans[p].mode /\ plan.order = d.plans[p].order
    BY <2>1 DEF Plan, PlanStatuses, TriggerStates
  <2>3. e = [d EXCEPT !.plans[p] = plan]
    BY <1>4 DEF CancelPending
  <2> HIDE DEF plan, e
  <2>4. /\ Touches(d, e, p) /\ e.plans[p] = plan
        /\ e.papers = d.papers /\ e.ledger = d.ledger /\ e.sessions = d.sessions
    BY <1>1, <2>1, <2>2, <2>3, PlanSaved
  <2>5. Synced(d, e, p)
    BY <2>4 DEF Synced, Saved, Good, OneSession
  <2>6. DOMAIN e.plans = DOMAIN d.plans
    BY <1>1, <2>4, Rows DEF Touches
  <2>7. \A q \in ActivePlans(e, mode) : q \in ActivePlans(d, mode) /\ q # p
    BY <2>2, <2>4, <2>6 DEF ActivePlans, ActiveStatuses, Touches
  <2>8. ActivePlans(e, mode) = {}
    BY <2>1, <2>7 DEF Good, OneActive
  <2>9. QED
    BY <2>1, <2>2, <2>4, <2>5, <2>8 DEF e, p
<1>5. QED
  BY <1>3, <1>4

\* lockTradePlan adds the only active plan of its mode.
LEMMA LockStep ==
  ASSUME IInv, LockTradePlan
  PROVE  Kept(db')
<1> DEFINE existing  == ActivePlan(db, db.mode)
           cancelled == CancelPending(db, existing)
<1>1. PICK order \in Orders, trigger \in {"NONE", "ARMED"} :
        LET plan == [mode |-> db.mode, status |-> "LOCKED", order |-> order, trigger |-> trigger]
        IN db' \in Outcomes(db, {cancelled}, [cancelled EXCEPT !.plans = Append(@, plan)])
  <2>1. use.orders \subseteq Orders
    BY TradePlanAssumption DEF IInv, Use
  <2>2. QED
    BY <2>1 DEF LockTradePlan
<1> DEFINE plan  == [mode |-> db.mode, status |-> "LOCKED", order |-> order, trigger |-> trigger]
           after == [cancelled EXCEPT !.plans = Append(@, plan)]
<1>2. db' = db \/ db' = after \/ db' \in {cancelled}
  BY <1>1, OutcomeIsOne
<1>3. Good(db) /\ db \in Database /\ db.mode \in Modes
  BY DEF IInv, Good, Database
<1>4. /\ Synced(db, cancelled, existing) /\ (existing = None \/ existing \in ActivePlans(db, db.mode))
      /\ ActivePlans(cancelled, db.mode) = {}
  BY <1>3, PendingCancelled
<1>5. plan \in Plan /\ plan.mode = db.mode
  BY <1>3 DEF Plan, PlanStatuses, TriggerStates
<1> HIDE DEF existing, cancelled, plan
<1>6. Good(cancelled) /\ KeepsEnded(db, cancelled)
  BY <1>3, <1>4, SavedIsGood DEF Synced
<1>7. Good(after) /\ KeepsEnded(db, after)
  <2>1. /\ cancelled \in Database /\ cancelled.plans \in Seq(Plan)
        /\ Len(cancelled.plans) = Len(db.plans) /\ Len(db.plans) \in Nat
        /\ DOMAIN cancelled.plans = 1 .. Len(db.plans) /\ DOMAIN db.plans = 1 .. Len(db.plans)
    BY <1>3, <1>4, <1>6, Rows DEF Good, Database, Synced, Saved, Touches
  <2> DEFINE plans == Append(cancelled.plans, plan)
  <2>2. /\ plans \in Seq(Plan) /\ DOMAIN plans = 1 .. Len(db.plans) + 1
        /\ Len(plans) = Len(db.plans) + 1
        /\ plans[Len(db.plans) + 1] = plan
        /\ \A q \in 1 .. Len(db.plans) : plans[q] = cancelled.plans[q]
    BY <1>5, <2>1
  <2>3. after = [cancelled EXCEPT !.plans = plans]
    OBVIOUS
  <2> HIDE DEF plans, after
  <2>4. /\ after \in Database /\ after.plans = plans
        /\ after.papers = cancelled.papers /\ after.sessions = cancelled.sessions
    BY <2>1, <2>2, <2>3 DEF Database
  <2>5. \A m \in Modes : \A q \in ActivePlans(after, m) :
          \/ q \in ActivePlans(cancelled, m)
          \/ q = Len(db.plans) + 1 /\ m = db.mode
    <3>1. SUFFICES ASSUME NEW m \in Modes, NEW q \in ActivePlans(after, m)
                   PROVE  \/ q \in ActivePlans(cancelled, m)
                          \/ q = Len(db.plans) + 1 /\ m = db.mode
      OBVIOUS
    <3>2. /\ q \in 1 .. Len(db.plans) + 1
          /\ plans[q].mode = m /\ plans[q].status \in ActiveStatuses
      BY <2>2, <2>4, <3>1 DEF ActivePlans
    <3>3. CASE q \in 1 .. Len(db.plans)
      <4>1. plans[q] = cancelled.plans[q] /\ q \in DOMAIN cancelled.plans
        BY <2>1, <2>2, <3>3
      <4>2. QED
        BY <3>2, <4>1 DEF ActivePlans
    <3>4. CASE q = Len(db.plans) + 1
      BY <1>5, <2>2, <3>2, <3>4
    <3>5. QED
      BY <2>1, <3>2, <3>3, <3>4
  <2>6. OneActive(after)
    BY <1>4, <1>6, <2>5 DEF OneActive, Good
  <2>7. KeepsEnded(db, after)
    BY <1>6, <2>1, <2>2, <2>4 DEF KeepsEnded
  <2>8. QED
    BY <1>6, <2>4, <2>6, <2>7 DEF Good, OnePaper, OneSession
<1>8. QED
  BY <1>2, <1>6, <1>7, Unwritten DEF Kept

\* An event touches no plan.
LEMMA EventAdded ==
  ASSUME NEW d, Good(d), NEW trade \in Nat, NEW closed \in Nat, NEW p
  PROVE  LET e == AddEvent(d, trade, closed)
         IN /\ Touches(d, e, p) /\ e.plans = d.plans
            /\ e.papers = d.papers /\ e.sessions = d.sessions
            /\ e.ledger = Append(d.ledger, [trade |-> trade, closed |-> closed])
<1> DEFINE ledger == Append(d.ledger, [trade |-> trade, closed |-> closed])
           e      == AddEvent(d, trade, closed)
<1>1. d \in Database /\ d.ledger \in Seq(PaperEvent)
  BY DEF Good, Database
<1>2. ledger \in Seq(PaperEvent)
  BY <1>1 DEF PaperEvent
<1>3. e = [d EXCEPT !.ledger = ledger]
  BY DEF AddEvent
<1> HIDE DEF ledger, e
<1>4. /\ e \in Database /\ e.mode = d.mode /\ e.plans = d.plans
      /\ e.papers = d.papers /\ e.sessions = d.sessions /\ e.ledger = ledger
  BY <1>1, <1>2, <1>3 DEF Database
<1>5. Touches(d, e, p)
  BY <1>4, PlansUntouched
<1>6. QED
  BY <1>4, <1>5 DEF e, ledger

\* Setting the status of the plan as well.
LEMMA StatusToo ==
  ASSUME NEW d \in Database, NEW e, NEW p \in DOMAIN d.plans, Touches(d, e, p),
         NEW status \in PlanStatuses
  PROVE  LET f == SetPlan(e, p, status)
         IN /\ Touches(d, f, p) /\ f.plans[p].status = status
            /\ f.papers = e.papers /\ f.ledger = e.ledger /\ f.sessions = e.sessions
<1> DEFINE f == SetPlan(e, p, status)
<1>1. e \in Database
  BY DEF Touches
<1>2. p \in DOMAIN e.plans
  BY <1>1, Rows DEF Touches
<1>3. /\ Touches(e, f, p) /\ f.plans[p].status = status
      /\ f.papers = e.papers /\ f.ledger = e.ledger /\ f.sessions = e.sessions
  BY <1>1, <1>2, StatusSet
<1> HIDE DEF f
<1>4. Touches(d, f, p)
  BY <1>3, TouchTwice
<1>5. QED
  BY <1>3, <1>4 DEF f

\* Writing the paper trades as well.
LEMMA PapersToo ==
  ASSUME NEW d \in Database, NEW e, NEW p, Touches(d, e, p), NEW papers \in Seq(PaperTrade)
  PROVE  LET f == [e EXCEPT !.papers = papers]
         IN /\ Touches(d, f, p) /\ f.papers = papers
            /\ f.plans = e.plans /\ f.ledger = e.ledger /\ f.sessions = e.sessions
<1> DEFINE f == [e EXCEPT !.papers = papers]
<1>1. e \in Database
  BY DEF Touches
<1>2. /\ f \in Database /\ f.papers = papers /\ f.mode = e.mode
      /\ f.plans = e.plans /\ f.ledger = e.ledger /\ f.sessions = e.sessions
  BY <1>1 DEF Database
<1> HIDE DEF f
<1>3. Touches(e, f, p)
  BY <1>2, PlansUntouched
<1>4. QED
  BY <1>2, <1>3, TouchTwice DEF f

\* The plan that enterPaperTrade enters, and the row it opens for it
EnteredPlan == ActivePlan(db, "PAPER")
EntryNumber == Len(db.ledger) + 1
EnteredTrade ==
  [id |-> EntryNumber, plan |-> EnteredPlan, status |-> "OPEN",
   remaining |-> db.plans[EnteredPlan].order.quantity]

\* enterPaperTrade writes the event, the plan and the trade, or only the first
\* of them.
LEMMA EnterWrites ==
  ASSUME IInv, EnterPaperTrade
  PROVE  /\ EnteredPlan \in ActivePlans(db, "PAPER") /\ EntryAllowed(db, EnteredPlan)
         /\ EnteredTrade \in PaperTrade
         /\ \/ db' = db
            \/ /\ Touches(db, db', EnteredPlan) /\ db'.sessions = db.sessions
               /\ db'.ledger = Append(db.ledger, [trade |-> EntryNumber, closed |-> 0])
               /\ \/ use.failures /\ db'.papers = db.papers
                  \/ /\ db'.plans[EnteredPlan].status = "ENTERED"
                     /\ db'.papers = Append(db.papers, EnteredTrade)
<1> DEFINE p       == EnteredPlan
           id      == EntryNumber
           logged  == AddEvent(db, id, 0)
           entered == SetPlan(logged, p, "ENTERED")
           papers  == Append(db.papers, EnteredTrade)
           after   == [entered EXCEPT !.papers = Append(@, EnteredTrade)]
<1>1. EntryAllowed(db, p) /\ db' \in Outcomes(db, {logged, entered}, after)
  BY DEF EnterPaperTrade, EnteredPlan, EntryNumber, EnteredTrade
<1>2. \/ db' = db \/ db' = after
      \/ use.failures /\ (db' = logged \/ db' = entered)
  BY <1>1 DEF Outcomes
<1>3. Good(db) /\ db \in Database /\ "PAPER" \in Modes /\ db.papers \in Seq(PaperTrade)
  BY DEF IInv, Good, Modes, Database
<1>4. p \in ActivePlans(db, "PAPER") /\ p \in DOMAIN db.plans
  BY <1>1, <1>3, ActivePlanIsActive DEF ActivePlans, EnteredPlan, EntryAllowed
<1>5. p \in Nat /\ db.plans[p] \in Plan /\ id \in Nat
  BY <1>3, <1>4, Rows DEF EntryNumber
<1>6. EnteredTrade \in PaperTrade
  BY <1>5, TradePlanAssumption DEF EnteredTrade, PaperTrade, Plan, TradeStatuses
<1>7. papers \in Seq(PaperTrade)
  BY <1>3, <1>6
<1> HIDE DEF p, id, papers
<1>8. /\ Touches(db, logged, p) /\ logged.papers = db.papers /\ logged.sessions = db.sessions
      /\ logged.ledger = Append(db.ledger, [trade |-> id, closed |-> 0])
  BY <1>3, <1>5, EventAdded
<1> HIDE DEF logged
<1>9. /\ Touches(db, entered, p) /\ entered.plans[p].status = "ENTERED"
      /\ entered.papers = db.papers /\ entered.sessions = db.sessions
      /\ entered.ledger = logged.ledger
  BY <1>3, <1>4, <1>8, StatusToo DEF PlanStatuses
<1>10. after = [entered EXCEPT !.papers = papers]
  <2> HIDE DEF entered
  <2>1. QED
    BY <1>9 DEF papers
<1> HIDE DEF entered, after
<1>11. /\ Touches(db, after, p) /\ after.plans = entered.plans /\ after.papers = papers
       /\ after.sessions = db.sessions /\ after.ledger = logged.ledger
  BY <1>3, <1>7, <1>9, <1>10, PapersToo
<1>12. QED
  BY <1>1, <1>2, <1>4, <1>6, <1>8, <1>9, <1>11 DEF p, id, papers

\* enterPaperTrade opens a trade only when none is open.
LEMMA EnterStep ==
  ASSUME IInv, EnterPaperTrade
  PROVE  Kept(db')
<1>1. Good(db) /\ db \in Database /\ "PAPER" \in Modes /\ db.papers \in Seq(PaperTrade)
  BY DEF IInv, Good, Modes, Database
<1>2. CASE db' = db
  BY <1>2, Unwritten
<1>3. CASE db' # db
  <2>1. /\ EnteredPlan \in ActivePlans(db, "PAPER") /\ EntryAllowed(db, EnteredPlan)
        /\ EnteredTrade \in PaperTrade
        /\ Touches(db, db', EnteredPlan) /\ db'.sessions = db.sessions
        /\ db'.papers = db.papers \/ db'.papers = Append(db.papers, EnteredTrade)
    BY <1>3, EnterWrites
  <2>2. db' \in Database /\ OneActive(db') /\ KeepsEnded(db, db')
    BY <1>1, <2>1, TouchKeeps DEF Touches
  <2>3. OneSession(db')
    BY <1>1, <2>1 DEF Good, OneSession
  <2>4. OnePaper(db')
    <3>1. CASE db'.papers = db.papers
      BY <1>1, <3>1 DEF Good, OnePaper
    <3>2. CASE db'.papers = Append(db.papers, EnteredTrade)
      <4> DEFINE papers == Append(db.papers, EnteredTrade)
      <4>1. /\ DOMAIN papers = 1 .. Len(db.papers) + 1 /\ Len(db.papers) \in Nat
            /\ \A t \in 1 .. Len(db.papers) : papers[t] = db.papers[t]
        BY <1>1, <2>1
      <4> HIDE DEF papers
      <4>2. \A t \in 1 .. Len(db.papers) : ~IsOpen(db.papers[t])
        BY <1>1, <2>1, OpenPaperIsOpen, Rows DEF EntryAllowed, None
      <4>3. \A t \in DOMAIN papers : IsOpen(papers[t]) => t = Len(db.papers) + 1
        BY <4>1, <4>2
      <4>4. QED
        BY <3>2, <4>3 DEF OnePaper, papers
    <3>3. QED
      BY <2>1, <3>1, <3>2
  <2>5. QED
    BY <2>2, <2>3, <2>4 DEF Kept, Good
<1>4. QED
  BY <1>2, <1>3

\* The trade that closePaper closes, its plan, and the row it leaves
ClosingTrade == OpenPaper(db)
ClosedRow(quantity) ==
  LET left == db.papers[ClosingTrade].remaining - quantity
  IN [db.papers[ClosingTrade] EXCEPT !.remaining = left, !.status = StatusFor(left)]

\* closePaper writes the event, the plan and the trade, or only the first of
\* them; the plan is the trade's.
LEMMA CloseWrites ==
  ASSUME IInv, ClosePaperTrade
  PROVE  /\ ClosingTrade \in DOMAIN db.papers /\ IsOpen(db.papers[ClosingTrade])
         /\ db.papers[ClosingTrade].plan \in ActivePlans(db, "PAPER")
         /\ \/ db' = db
            \/ \E quantity \in 1 .. db.papers[ClosingTrade].remaining :
                 /\ Touches(db, db', db.papers[ClosingTrade].plan) /\ db'.sessions = db.sessions
                 /\ db'.ledger = Append(db.ledger, [trade |-> db.papers[ClosingTrade].id,
                                                    closed |-> quantity])
                 /\ ClosedRow(quantity) \in PaperTrade
                 /\ \/ use.failures /\ db'.papers = db.papers
                    \/ /\ db'.plans[db.papers[ClosingTrade].plan].status
                            = ClosedRow(quantity).status
                       /\ db'.papers = [db.papers EXCEPT ![ClosingTrade] = ClosedRow(quantity)]
<1> DEFINE t == ClosingTrade
           p == db.papers[t].plan
<1>1. /\ t # None /\ p # None /\ p = ActivePlan(db, "PAPER")
  BY DEF ClosePaperTrade, ClosingTrade
<1>2. PICK quantity \in 1 .. db.papers[t].remaining :
        LET steps == CloseSteps(db, t, p, quantity)
        IN db' \in Outcomes(db, {steps[1], steps[2]}, steps[3])
  BY DEF ClosePaperTrade, ClosingTrade
<1> DEFINE left    == db.papers[t].remaining - quantity
           row     == ClosedRow(quantity)
           logged  == LogClose(db, t, quantity)
           planned == SetPlan(logged, p, StatusFor(left))
           papers  == [db.papers EXCEPT ![t] = row]
           after   == SaveClose(planned, t, left)
<1>3. db' \in Outcomes(db, {logged, planned}, after)
  BY <1>2 DEF CloseSteps
<1>4. \/ db' = db \/ db' = after
      \/ use.failures /\ (db' = logged \/ db' = planned)
  BY <1>3 DEF Outcomes
<1>5. Good(db) /\ db \in Database /\ "PAPER" \in Modes /\ db.papers \in Seq(PaperTrade)
  BY DEF IInv, Good, Modes, Database
<1>6. /\ p \in ActivePlans(db, "PAPER") /\ p \in DOMAIN db.plans
      /\ t \in DOMAIN db.papers /\ IsOpen(db.papers[t])
  BY <1>1, <1>5, ActivePlanIsActive, OpenPaperIsOpen DEF ActivePlans, ClosingTrade
<1>7. db.papers[t] \in PaperTrade
  BY <1>5, <1>6, Rows
<1>8. db.papers[t].id \in Nat /\ quantity \in Nat /\ left \in Nat
  BY <1>7 DEF PaperTrade
<1>9. StatusFor(left) \in PlanStatuses /\ StatusFor(left) \in TradeStatuses
  BY DEF StatusFor, PlanStatuses, TradeStatuses
<1>10. row \in PaperTrade /\ row.status = StatusFor(left)
  BY <1>7, <1>8, <1>9 DEF PaperTrade, ClosedRow
<1>11. papers \in Seq(PaperTrade)
  <2> HIDE DEF row
  <2>1. t \in 1 .. Len(db.papers)
    BY <1>5, <1>6, Rows
  <2>2. QED
    BY <1>5, <1>10, <2>1, ExceptSeq
<1>12. /\ Touches(db, logged, p) /\ logged.papers = db.papers /\ logged.sessions = db.sessions
       /\ logged.ledger = Append(db.ledger, [trade |-> db.papers[t].id, closed |-> quantity])
  <2> DEFINE id == db.papers[t].id
  <2>1. logged = AddEvent(db, id, quantity) /\ id \in Nat
    BY <1>8 DEF LogClose
  <2> HIDE DEF logged, id, p
  <2>2. LET e == AddEvent(db, id, quantity)
        IN /\ Touches(db, e, p) /\ e.papers = db.papers /\ e.sessions = db.sessions
           /\ e.ledger = Append(db.ledger, [trade |-> id, closed |-> quantity])
    BY <1>5, <1>8, <2>1, EventAdded
  <2>3. QED
    BY <2>1, <2>2 DEF id
<1> HIDE DEF p, t, left, row, logged
<1>13. /\ Touches(db, planned, p) /\ planned.plans[p].status = StatusFor(left)
       /\ planned.papers = db.papers /\ planned.sessions = db.sessions
       /\ planned.ledger = logged.ledger
  <2> DEFINE status == StatusFor(left)
  <2>1. p \in DOMAIN db.plans /\ db \in Database
    BY <1>5, <1>6
  <2>2. Touches(db, logged, p) /\ status \in PlanStatuses
    BY <1>9, <1>12
  <2> HIDE DEF status
  <2>3. LET f == SetPlan(logged, p, status)
        IN /\ Touches(db, f, p) /\ f.plans[p].status = status
           /\ f.papers = logged.papers /\ f.ledger = logged.ledger /\ f.sessions = logged.sessions
    BY <2>1, <2>2, StatusToo
  <2>4. QED
    BY <1>12, <2>3 DEF status
<1> HIDE DEF planned
<1>14. after = [planned EXCEPT !.papers = papers]
  BY <1>13 DEF SaveClose, row, left, t, ClosedRow
<1> HIDE DEF papers, after
<1>15. /\ Touches(db, after, p) /\ after.plans = planned.plans /\ after.papers = papers
       /\ after.sessions = db.sessions /\ after.ledger = logged.ledger
  BY <1>5, <1>11, <1>13, <1>14, PapersToo
<1>16. QED
  BY <1>4, <1>6, <1>10, <1>12, <1>13, <1>15 DEF p, t, row, papers

\* closePaper leaves no other trade open than the one it closes.
LEMMA CloseStep ==
  ASSUME IInv, ClosePaperTrade
  PROVE  Kept(db')
<1>1. Good(db) /\ db \in Database /\ "PAPER" \in Modes /\ db.papers \in Seq(PaperTrade)
  BY DEF IInv, Good, Modes, Database
<1>2. CASE db' = db
  BY <1>2, Unwritten
<1>3. CASE db' # db
  <2> DEFINE t == ClosingTrade
             p == db.papers[t].plan
  <2>1. /\ t \in DOMAIN db.papers /\ IsOpen(db.papers[t]) /\ p \in ActivePlans(db, "PAPER")
        /\ Touches(db, db', p) /\ db'.sessions = db.sessions
        /\ \/ db'.papers = db.papers
           \/ \E row \in PaperTrade : db'.papers = [db.papers EXCEPT ![t] = row]
    BY <1>3, CloseWrites
  <2>2. db' \in Database /\ OneActive(db') /\ KeepsEnded(db, db')
    BY <1>1, <2>1, TouchKeeps DEF Touches
  <2>3. OneSession(db')
    BY <1>1, <2>1 DEF Good, OneSession
  <2> HIDE DEF t, p
  <2>4. \A u \in DOMAIN db'.papers : IsOpen(db'.papers[u]) => u = t
    BY <1>1, <2>1 DEF Good, OnePaper
  <2>5. QED
    BY <2>2, <2>3, <2>4 DEF Kept, Good, OnePaper
<1>4. QED
  BY <1>2, <1>3

\* Only the active plan of the current mode and the sessions were written.
Rewritten == db' = db \/ Synced(db, db', ActivePlan(db, db.mode))

\* Building the trading state changes the sessions and the active plan only.
LEMMA SyncStep ==
  ASSUME IInv, GetTradingState
  PROVE  Kept(db') /\ Rewritten
<1>1. PICK gain \in BOOLEAN :
        db' \in Outcomes(db, Between(Sync(db, gain)), Sync(db, gain)[Len(Sync(db, gain))])
  BY DEF GetTradingState
<1> DEFINE trail == Sync(db, gain)
<1>2. Good(db) /\ db.mode \in Modes /\ account \in Account
  BY DEF IInv, Good, Database
<1>3. Len(trail) \in DOMAIN trail /\ \A i \in DOMAIN trail : Synced(db, trail[i], ActivePlan(db, db.mode))
  BY <1>2, SyncIsSynced
<1>4. ActivePlan(db, db.mode) = None \/ ActivePlan(db, db.mode) \in ActivePlans(db, db.mode)
  BY <1>2, ActivePlanIsActive
<1> HIDE DEF trail
<1>5. \A i \in DOMAIN trail : Kept(trail[i])
  BY <1>2, <1>3, <1>4, SavedIsGood DEF Kept, Synced
<1>6. db' = db \/ \E i \in DOMAIN trail : db' = trail[i]
  BY <1>1, <1>3, OutcomeIsOne DEF Between, trail
<1>7. QED
  BY <1>3, <1>5, <1>6, Unwritten DEF Rewritten

\* Ending the monitoring of a plan cancels it.
LEMMA PlanEnded ==
  ASSUME NEW plan \in Plan, NEW state \in TriggerStates
  PROVE  LET new == EndMonitoring(plan, state)
         IN new \in Plan /\ new.mode = plan.mode /\ new.order = plan.order
BY DEF EndMonitoring, Plan, PlanStatuses

\* An expired trigger cancels the active plan it belongs to.
LEMMA ExpiryStep ==
  ASSUME IInv, MonitorExpires
  PROVE  Kept(db') /\ Rewritten
<1> DEFINE p    == WatchedPlan
           plan == EndMonitoring(db.plans[p], "EXPIRED")
           e    == [db EXCEPT !.plans[p] = plan]
<1>1. p # None /\ db' \in Outcomes(db, {}, e)
  BY DEF MonitorExpires, Watching
<1>2. Good(db) /\ db \in Database /\ db.mode \in Modes
  BY DEF IInv, Good, Database
<1>3. p \in ActivePlans(db, db.mode) /\ p \in DOMAIN db.plans /\ db.plans[p] \in Plan
  BY <1>1, <1>2, ActivePlanIsActive, Rows DEF WatchedPlan, ActivePlans
<1>4. plan \in Plan /\ plan.mode = db.plans[p].mode /\ plan.order = db.plans[p].order
  BY <1>3, PlanEnded DEF TriggerStates
<1> HIDE DEF plan
<1>5. /\ Touches(db, e, p) /\ e.papers = db.papers
      /\ e.ledger = db.ledger /\ e.sessions = db.sessions
  BY <1>2, <1>3, <1>4, PlanSaved
<1> HIDE DEF e
<1>6. Synced(db, e, p)
  BY <1>2, <1>5 DEF Synced, Saved, Good, OneSession
<1>7. Kept(e)
  BY <1>2, <1>3, <1>6, SavedIsGood DEF Kept, Synced
<1>8. QED
  BY <1>1, <1>6, <1>7, OutcomeIsOne, Unwritten DEF Rewritten, WatchedPlan

\* What the monitor saves is a plan of the same mode.
LEMMA PlanAfterTyped ==
  ASSUME NEW plan \in Plan, NEW reading
  PROVE  LET new == PlanAfter(plan, reading)
         IN new \in Plan /\ new.mode = plan.mode /\ new.order = plan.order
<1>1. LET new == EndMonitoring(plan, "INVALIDATED")
      IN new \in Plan /\ new.mode = plan.mode /\ new.order = plan.order
  BY PlanEnded DEF TriggerStates
<1>2. \A state \in TriggerStates :
        LET new == [plan EXCEPT !.trigger = state]
        IN new \in Plan /\ new.mode = plan.mode /\ new.order = plan.order
  BY DEF Plan
<1>3. \/ PlanAfter(plan, reading) = EndMonitoring(plan, "INVALIDATED")
      \/ PlanAfter(plan, reading) = [plan EXCEPT !.trigger = "ARMED"]
      \/ PlanAfter(plan, reading) = [plan EXCEPT !.trigger = "MATCHED"]
      \/ PlanAfter(plan, reading) = [plan EXCEPT !.trigger = "TRIGGERED"]
      \/ PlanAfter(plan, reading) = plan
  BY DEF PlanAfter
<1>4. {"ARMED", "MATCHED", "TRIGGERED"} \subseteq TriggerStates
  BY DEF TriggerStates
<1>5. QED
  BY <1>1, <1>2, <1>3, <1>4

\* The monitor writes back the plan it read, which was the active one.
LEMMA MonitorStep ==
  ASSUME IInv, MonitorReads
  PROVE  Kept(db') /\ Rewritten
<1> DEFINE p == WatchedPlan
<1>1. PICK reading \in {"unread", "invalidated", "unmatched", "matched", "confirmed"},
           gain \in BOOLEAN :
        LET trail == Sync(db, gain)
            last  == trail[Len(trail)]
        IN db' \in Outcomes(db, Between(trail),
                            IF PlanAfter(db.plans[p], reading) = db.plans[p] THEN last
                            ELSE [last EXCEPT !.plans[p] = PlanAfter(db.plans[p], reading)])
  BY DEF MonitorReads
<1> DEFINE trail == Sync(db, gain)
           last  == trail[Len(trail)]
           plan  == PlanAfter(db.plans[p], reading)
           saved == [last EXCEPT !.plans[p] = plan]
<1>2. p # None /\ p = ActivePlan(db, db.mode)
  BY DEF MonitorReads, Watching, WatchedPlan
<1>3. Good(db) /\ db \in Database /\ db.mode \in Modes /\ account \in Account
  BY DEF IInv, Good, Database
<1>4. p \in ActivePlans(db, db.mode) /\ p \in DOMAIN db.plans /\ db.plans[p] \in Plan
  BY <1>2, <1>3, ActivePlanIsActive, Rows DEF ActivePlans
<1>5. plan \in Plan /\ plan.mode = db.plans[p].mode /\ plan.order = db.plans[p].order
  BY <1>4, PlanAfterTyped
<1>6. Len(trail) \in DOMAIN trail /\ \A i \in DOMAIN trail : Synced(db, trail[i], p)
  BY <1>2, <1>3, SyncIsSynced
<1>7. \/ db' = db
      \/ \E i \in DOMAIN trail : db' = trail[i]
      \/ db' = saved
  <2>1. \/ db' = db \/ db' \in Between(trail)
        \/ db' = last \/ db' = saved
    BY <1>1, OutcomeIsOne
  <2>2. QED
    BY <1>6, <2>1 DEF Between
<1> HIDE DEF p, plan, trail
<1>8. Synced(db, last, p) /\ last \in Database /\ p \in DOMAIN last.plans
      /\ last.plans[p].mode = db.plans[p].mode /\ last.plans[p].order = db.plans[p].order
  BY <1>3, <1>4, <1>6, Rows DEF Synced, Saved, Touches
<1> HIDE DEF last
<1>9. /\ Touches(last, saved, p) /\ saved.papers = last.papers
      /\ saved.ledger = last.ledger /\ saved.sessions = last.sessions
  BY <1>5, <1>8, PlanSaved
<1> HIDE DEF saved
<1>10. Synced(db, saved, p)
  BY <1>3, <1>8, <1>9, TouchTwice DEF Synced, Saved, OneSession
<1>11. Kept(saved) /\ \A i \in DOMAIN trail : Kept(trail[i])
  BY <1>3, <1>4, <1>6, <1>10, SavedIsGood DEF Kept, Synced
<1>12. QED
  BY <1>2, <1>6, <1>7, <1>10, <1>11, Unwritten DEF Rewritten
-----------------------------------------------------------------------------
(***************************************************************************)
(* The theorems.                                                           *)
(***************************************************************************)
\* Every step keeps the invariant, and brings no ended plan back.
LEMMA NextKeeps ==
  ASSUME IInv, [Next]_vars
  PROVE  IInv' /\ KeepsEnded(db, db')
<1>1. Kept(db')
  <2>1. CASE SaveUserSettings
    BY <2>1, SettingsStep
  <2>2. CASE ResetLocalData
    BY <2>2, ResetStep
  <2>3. CASE LockTradePlan
    BY <2>3, LockStep
  <2>4. CASE EnterPaperTrade
    BY <2>4, EnterStep
  <2>5. CASE ClosePaperTrade
    BY <2>5, CloseStep
  <2>6. CASE GetTradingState
    BY <2>6, SyncStep
  <2>7. CASE MonitorExpires
    BY <2>7, ExpiryStep
  <2>8. CASE MonitorReads
    BY <2>8, MonitorStep
  <2>9. CASE AccountChanges \/ UNCHANGED vars
    <3>1. db' = db
      BY <2>9 DEF AccountChanges, vars
    <3>2. QED
      BY <3>1, Unwritten
  <2>10. QED
    BY <2>1, <2>2, <2>3, <2>4, <2>5, <2>6, <2>7, <2>8, <2>9 DEF Next
<1>2. account' \in Account
  <2>1. Disconnected \in Account
    BY DEF Disconnected, Account
  <2>2. account \in Account
    BY DEF IInv
  <2>3. \/ account' = account \/ account' = Disconnected \/ account' \in Account
    BY DEF Next, vars, SaveUserSettings, ResetLocalData, LockTradePlan, EnterPaperTrade,
           ClosePaperTrade, GetTradingState, AccountChanges, MonitorExpires, MonitorReads
  <2>4. QED
    BY <2>1, <2>2, <2>3
<1>3. Good(db)' <=> Good(db')
  BY DEF Good
<1>4. UNCHANGED use
  BY DEF Next, vars, SaveUserSettings, ResetLocalData, LockTradePlan, EnterPaperTrade,
         ClosePaperTrade, GetTradingState, AccountChanges, MonitorExpires, MonitorReads
<1>5. QED
  BY <1>1, <1>2, <1>3, <1>4 DEF Kept, IInv

\* The inductive invariant holds of every behaviour.
THEOREM Invariance == Spec => []IInv
<1>1. Init => IInv
  BY EmptyIsGood DEF Init, IInv, Disconnected, Account
<1>2. IInv /\ [Next]_vars => IInv'
  BY NextKeeps
<1>3. QED
  BY <1>1, <1>2, PTL DEF Spec

\* The tables and the account status always have the types they should have.
THEOREM TypeCorrect == Spec => []TypeOK
<1>1. IInv => TypeOK
  BY DEF IInv, Good, TypeOK
<1>2. QED
  BY <1>1, Invariance, PTL

\* No mode ever has two active plans (lockTradePlan), for any number of plans,
\* any cut in a handler's writes and any moment of the monitor's write-back.
THEOREM ActivePlanIsUnique == Spec => []OneActivePlan
<1>1. IInv => OneActivePlan
  BY DEF IInv, Good, OneActive, OneActivePlan
<1>2. QED
  BY <1>1, Invariance, PTL

\* There is never a second open paper trade or live session (enterPaperTrade,
\* syncLiveTradeSessions), also after failed writes.
THEOREM OpenTradeIsUnique == Spec => []OneOpenTrade
<1>1. IInv => OneOpenTrade
  BY DEF IInv, Good, OnePaper, OneSession, OneOpenTrade
<1>2. QED
  BY <1>1, Invariance, PTL

\* A closed or cancelled plan is never active again: neither the monitor's
\* write-back nor a late synchronization can give an approval back.
THEOREM EndedPlansStayEnded == Spec => EndedPlanStaysEnded
<1>1. IInv /\ [Next]_vars =>
        [Len(db'.plans) >= Len(db.plans) =>
           \A p \in DOMAIN db.plans :
             db.plans[p].status \notin ActiveStatuses => db'.plans[p].status = db.plans[p].status]_vars
  BY NextKeeps DEF KeepsEnded
<1>2. QED
  BY <1>1, Invariance, PTL DEF Spec, EndedPlanStaysEnded
-----------------------------------------------------------------------------
(***************************************************************************)
(* Sums over the ledger.                                                   *)
(***************************************************************************)
\* A set of numbers that is not empty has a least one.
LEMMA LeastNumber ==
  ASSUME NEW T \in SUBSET Nat, T # {}
  PROVE  \E x \in T : \A y \in T : x <= y
<1> DEFINE R == OpToRel(<, Nat)
<1>1. IsWellFoundedOn(R, Nat)
  BY NatLessThanWellFounded
<1>2. \A x, y \in Nat : x < y => <<x, y>> \in R
  BY DEF OpToRel
<1> HIDE DEF R
<1>3. PICK x \in T : \A y \in T : ~ (<<y, x>> \in R)
  BY <1>1, WFMin
<1>4. ASSUME NEW y \in T
      PROVE  x <= y
  <2>1. x \in Nat /\ y \in Nat
    BY <1>3
  <2>2. ~ (y < x)
    BY <1>2, <1>3, <2>1
  <2>3. QED
    BY <2>1, <2>2
<1>5. QED
  BY <1>3, <1>4

\* What one event adds to the sum of a trade
Added(ledger, trade, n) == IF ledger[n].trade = trade THEN ledger[n].closed ELSE 0

\* The sums of the first n events, for every n up to `last`
Sums(f, ledger, trade, last) ==
  /\ f \in [0 .. last -> Nat]
  /\ f[0] = 0
  /\ \A n \in 1 .. last : f[n] = f[n - 1] + Added(ledger, trade, n)

\* An event adds a number.
LEMMA AddedIsNumber ==
  ASSUME NEW ledger \in Seq(PaperEvent), NEW trade, NEW n \in 1 .. Len(ledger)
  PROVE  Added(ledger, trade, n) \in Nat
<1>1. ledger[n] \in PaperEvent
  BY ElementOfSeq
<1>2. QED
  BY <1>1 DEF Added, PaperEvent

\* There are sums up to every event: a smallest number of events without would
\* have them, one more than those of the events before.
LEMMA SumsExist ==
  ASSUME NEW ledger \in Seq(PaperEvent), NEW trade
  PROVE  \E f : Sums(f, ledger, trade, Len(ledger))
<1>1. Len(ledger) \in Nat
  BY LenProperties
<1> DEFINE T == {n \in 0 .. Len(ledger) : ~ \E f : Sums(f, ledger, trade, n)}
<1>2. ASSUME T # {}
      PROVE  FALSE
  <2>1. PICK m \in T : \A n \in T : m <= n
    <3>1. T \in SUBSET Nat
      BY <1>1
    <3> HIDE DEF T
    <3>2. QED
      BY <1>2, <3>1, LeastNumber
  <2>2. CASE m = 0
    <3> DEFINE f == [n \in 0 .. 0 |-> 0]
    <3>1. f \in [0 .. 0 -> Nat] /\ f[0] = 0 /\ 1 .. 0 = {}
      OBVIOUS
    <3> HIDE DEF f
    <3>2. Sums(f, ledger, trade, 0)
      BY <3>1 DEF Sums
    <3>3. QED
      BY <2>1, <2>2, <3>2
  <2>3. CASE m # 0
    <3>1. m \in 1 .. Len(ledger) /\ m \in Nat /\ m - 1 \in 0 .. Len(ledger) /\ ~(m <= m - 1)
      BY <1>1, <2>1, <2>3
    <3>2. PICK g : Sums(g, ledger, trade, m - 1)
      BY <2>1, <3>1
    <3> DEFINE f == [n \in 0 .. m |-> IF n = m THEN g[m - 1] + Added(ledger, trade, m) ELSE g[n]]
    <3>3. g \in [0 .. m - 1 -> Nat] /\ g[0] = 0
      BY <3>2 DEF Sums
    <3>4. Added(ledger, trade, m) \in Nat
      BY <3>1, AddedIsNumber
    <3>5. f \in [0 .. m -> Nat]
      <4>1. g[m - 1] \in Nat /\ g[m - 1] + Added(ledger, trade, m) \in Nat
        BY <3>1, <3>3, <3>4
      <4>2. \A n \in 0 .. m : n # m => n \in 0 .. m - 1
        BY <3>1
      <4>3. QED
        BY <3>3, <4>1, <4>2
    <3>6. f[0] = 0
      BY <2>3, <3>1, <3>3
    <3>7. ASSUME NEW n \in 1 .. m
          PROVE  f[n] = f[n - 1] + Added(ledger, trade, n)
      <4>1. n \in 0 .. m /\ n - 1 \in 0 .. m /\ n - 1 # m
        BY <3>1
      <4>2. f[n - 1] = g[n - 1]
        BY <4>1
      <4>3. CASE n = m
        BY <4>1, <4>2, <4>3
      <4>4. CASE n # m
        <5>1. n \in 1 .. m - 1
          BY <3>1, <4>4
        <5>2. g[n] = g[n - 1] + Added(ledger, trade, n)
          BY <3>2, <5>1 DEF Sums
        <5>3. QED
          BY <4>1, <4>2, <4>4, <5>2
      <4>5. QED
        BY <4>3, <4>4
    <3> HIDE DEF f
    <3>8. Sums(f, ledger, trade, m)
      BY <3>5, <3>6, <3>7 DEF Sums
    <3>9. QED
      BY <2>1, <3>8
  <2>4. QED
    BY <2>2, <2>3
<1>3. Len(ledger) \in 0 .. Len(ledger)
  BY <1>1
<1>4. QED
  BY <1>2, <1>3

\* The recursive function of the model is these sums.
LEMMA ClosedByIsSums ==
  ASSUME NEW ledger \in Seq(PaperEvent), NEW trade
  PROVE  Sums(ClosedBy(ledger, trade), ledger, trade, Len(ledger))
<1> DEFINE L == Len(ledger)
           Value(f, n) == IF n = 0 THEN 0
                          ELSE f[n - 1] + (IF ledger[n].trade = trade THEN ledger[n].closed ELSE 0)
           Solves(f) == f = [n \in 0 .. L |-> Value(f, n)]
           c == ClosedBy(ledger, trade)
<1>1. L \in Nat
  BY LenProperties
<1>2. c = CHOOSE f : Solves(f)
  BY DEF ClosedBy
<1>3. PICK g : Sums(g, ledger, trade, L)
  BY SumsExist
<1>4. Solves(g)
  <2>1. g \in [0 .. L -> Nat] /\ g[0] = 0
    BY <1>3 DEF Sums
  <2>2. ASSUME NEW n \in 0 .. L
        PROVE  g[n] = Value(g, n)
    <3>1. CASE n = 0
      BY <2>1, <3>1
    <3>2. CASE n # 0
      <4>1. n \in 1 .. L
        BY <1>1, <3>2
      <4>2. g[n] = g[n - 1] + Added(ledger, trade, n)
        BY <1>3, <4>1 DEF Sums
      <4>3. QED
        BY <3>2, <4>2 DEF Added
    <3>3. QED
      BY <3>1, <3>2
  <2> HIDE DEF Value
  <2>3. QED
    BY <2>1, <2>2
<1>5. Solves(c)
  <2> HIDE DEF Solves, c
  <2>1. QED
    BY <1>2, <1>4
<1> HIDE DEF c
<1>6. \A n \in 0 .. L : c[n] = Value(c, n)
  <2> HIDE DEF Value
  <2>1. QED
    BY <1>5
<1>7. c[0] = 0
  BY <1>1, <1>6
<1>8. \A n \in 1 .. L : c[n] = c[n - 1] + Added(ledger, trade, n)
  <2>1. SUFFICES ASSUME NEW n \in 1 .. L
                 PROVE  c[n] = c[n - 1] + Added(ledger, trade, n)
    OBVIOUS
  <2>2. n \in 0 .. L /\ n # 0
    BY <1>1
  <2>3. QED
    BY <1>6, <2>2 DEF Added
<1>9. \A n \in 0 .. L : c[n] \in Nat
  <2> DEFINE T == {n \in 0 .. L : c[n] \notin Nat}
  <2>1. ASSUME T # {}
        PROVE  FALSE
    <3>1. PICK m \in T : \A n \in T : m <= n
      <4>1. T \in SUBSET Nat
        BY <1>1
      <4> HIDE DEF T
      <4>2. QED
        BY <2>1, <4>1, LeastNumber
    <3>2. m \in 1 .. L /\ m \in Nat /\ m - 1 \in 0 .. L /\ ~(m <= m - 1)
      BY <1>1, <1>7, <3>1
    <3>3. c[m - 1] \in Nat
      BY <3>1, <3>2
    <3>4. Added(ledger, trade, m) \in Nat
      BY <3>2, AddedIsNumber
    <3>5. c[m] \in Nat
      BY <1>8, <3>2, <3>3, <3>4
    <3>6. QED
      BY <3>1, <3>5
  <2>2. QED
    BY <2>1
<1>10. c \in [0 .. L -> Nat]
  <2>1. c = [n \in 0 .. L |-> c[n]]
    <3> HIDE DEF Value
    <3>1. QED
      BY <1>5
  <2>2. QED
    BY <1>9, <2>1
<1>11. QED
  BY <1>7, <1>8, <1>10 DEF Sums, c

\* An event that is appended is added to the sum of its trade, and to no other.
LEMMA ClosedByAppended ==
  ASSUME NEW ledger \in Seq(PaperEvent), NEW event \in PaperEvent, NEW trade
  PROVE  LET new == Append(ledger, event)
         IN ClosedBy(new, trade)[Len(new)] =
              ClosedBy(ledger, trade)[Len(ledger)]
                + (IF event.trade = trade THEN event.closed ELSE 0)
<1> DEFINE new == Append(ledger, event)
           L == Len(ledger)
           c == ClosedBy(ledger, trade)
           e == ClosedBy(new, trade)
<1>1. /\ new \in Seq(PaperEvent) /\ Len(new) = L + 1 /\ L \in Nat
      /\ new[L + 1] = event /\ \A n \in 1 .. L : new[n] = ledger[n]
  BY AppendProperties, LenProperties
<1>2. Sums(c, ledger, trade, L)
  BY ClosedByIsSums
<1> HIDE DEF new
<1>3. Sums(e, new, trade, L + 1)
  BY <1>1, ClosedByIsSums
<1> HIDE DEF c, e
<1>4. \A n \in 0 .. L : e[n] = c[n]
  <2> DEFINE T == {n \in 0 .. L : e[n] # c[n]}
  <2>1. ASSUME T # {}
        PROVE  FALSE
    <3>1. PICK m \in T : \A n \in T : m <= n
      <4>1. T \in SUBSET Nat
        BY <1>1
      <4> HIDE DEF T
      <4>2. QED
        BY <2>1, <4>1, LeastNumber
    <3>2. /\ m \in 1 .. L /\ m \in 1 .. L + 1 /\ m \in Nat
          /\ m - 1 \in 0 .. L /\ ~(m <= m - 1)
      BY <1>1, <1>2, <1>3, <3>1 DEF Sums
    <3>3. e[m - 1] = c[m - 1]
      BY <3>1, <3>2
    <3>4. Added(new, trade, m) = Added(ledger, trade, m)
      BY <1>1, <3>2 DEF Added
    <3>5. e[m] = e[m - 1] + Added(new, trade, m) /\ c[m] = c[m - 1] + Added(ledger, trade, m)
      BY <1>2, <1>3, <3>2 DEF Sums
    <3>6. QED
      BY <3>1, <3>3, <3>4, <3>5
  <2>2. QED
    BY <2>1
<1>5. L + 1 \in 1 .. L + 1 /\ L \in 0 .. L /\ (L + 1) - 1 = L
  BY <1>1
<1>6. e[L + 1] = e[L] + Added(new, trade, L + 1)
  BY <1>3, <1>5 DEF Sums
<1>7. e[Len(new)] = c[L] + (IF event.trade = trade THEN event.closed ELSE 0)
  BY <1>1, <1>4, <1>5, <1>6 DEF Added
<1>8. QED
  BY <1>7 DEF new, c, e
\* A trade that no event is of has closed nothing by its events.
LEMMA ClosedByNothing ==
  ASSUME NEW ledger \in Seq(PaperEvent), NEW trade,
         \A n \in 1 .. Len(ledger) : ledger[n].trade # trade
  PROVE  ClosedBy(ledger, trade)[Len(ledger)] = 0
<1> DEFINE L == Len(ledger)
           c == ClosedBy(ledger, trade)
           T == {n \in 0 .. L : c[n] # 0}
<1>1. L \in Nat
  BY LenProperties
<1>2. Sums(c, ledger, trade, L)
  BY ClosedByIsSums
<1> HIDE DEF c
<1>3. ASSUME T # {}
      PROVE  FALSE
  <2>1. PICK m \in T : \A n \in T : m <= n
    <3>1. T \in SUBSET Nat
      BY <1>1
    <3> HIDE DEF T
    <3>2. QED
      BY <1>3, <3>1, LeastNumber
  <2>2. m \in 1 .. L /\ m \in Nat /\ m - 1 \in 0 .. L /\ ~(m <= m - 1)
    BY <1>1, <1>2, <2>1 DEF Sums
  <2>3. c[m - 1] = 0 /\ Added(ledger, trade, m) = 0
    BY <2>1, <2>2 DEF Added
  <2>4. QED
    BY <1>2, <2>1, <2>2, <2>3 DEF Sums
<1>4. QED
  BY <1>1, <1>3 DEF c
-----------------------------------------------------------------------------
(***************************************************************************)
(* The ledger explains the trades.  Inductive: the events explain each     *)
(* trade, and a trade's id is the number of an event of its own, which is  *)
(* why a new trade has no events yet and an event counts for one trade.    *)
(***************************************************************************)
Traceable(d) ==
  /\ \A n \in 1 .. Len(d.ledger) : d.ledger[n].trade \in 1 .. Len(d.ledger)
  /\ \A t \in DOMAIN d.papers :
       d.papers[t].id \in 1 .. Len(d.ledger) /\ d.papers[t].plan \in DOMAIN d.plans
  /\ \A t, u \in DOMAIN d.papers : d.papers[t].id = d.papers[u].id => t = u

Covered(d) == \A t \in DOMAIN d.papers : ClosedByEvents(d, t) >= ClosedOf(d, t)
Exact(d) == \A t \in DOMAIN d.papers : ClosedByEvents(d, t) = ClosedOf(d, t)

LedgerInv == Traceable(db) /\ Covered(db) /\ (~use.failures => Exact(db))

\* From d to e no plan was given another order.
SameOrders(d, e) ==
  \A p \in DOMAIN d.plans : p \in DOMAIN e.plans /\ e.plans[p].order = d.plans[p].order

\* Touching a plan leaves the orders.
LEMMA TouchedOrders ==
  ASSUME NEW d \in Database, NEW e, NEW p, Touches(d, e, p)
  PROVE  e \in Database /\ SameOrders(d, e)
<1>1. e \in Database
  BY DEF Touches
<1>2. QED
  BY <1>1, Rows DEF Touches, SameOrders

\* Where neither the trades nor the events change, what they say does not.
LEMMA RecordsUntouched ==
  ASSUME NEW d, NEW e, SameOrders(d, e), e.papers = d.papers, e.ledger = d.ledger,
         Traceable(d)
  PROVE  /\ Traceable(e)
         /\ Covered(d) => Covered(e)
         /\ Exact(d) => Exact(e)
<1>1. \A t \in DOMAIN d.papers :
        ClosedByEvents(e, t) = ClosedByEvents(d, t) /\ ClosedOf(e, t) = ClosedOf(d, t)
  BY DEF ClosedByEvents, ClosedOf, Traceable, SameOrders
<1>2. Traceable(e)
  BY DEF Traceable, SameOrders
<1>3. QED
  BY <1>1, <1>2 DEF Covered, Exact

\* What is known once an event is written
Logged(d, e, event) ==
  /\ d \in Database /\ e \in Database
  /\ SameOrders(d, e)
  /\ event \in PaperEvent
  /\ e.ledger = Append(d.ledger, event)
  /\ event.trade \in 1 .. Len(d.ledger) + 1
  /\ Traceable(d)

\* The events of a trade, with one more written
LEMMA EventCounts ==
  ASSUME NEW d, NEW e, NEW event, Logged(d, e, event), NEW t \in DOMAIN d.papers,
         NEW u \in DOMAIN e.papers, e.papers[u].id = d.papers[t].id
  PROVE  /\ ClosedByEvents(d, t) \in Nat
         /\ ClosedByEvents(e, u) =
              ClosedByEvents(d, t) + (IF event.trade = d.papers[t].id THEN event.closed ELSE 0)
<1> DEFINE id == d.papers[t].id
           L  == Len(d.ledger)
<1>1. d.ledger \in Seq(PaperEvent) /\ event \in PaperEvent
  BY DEF Logged, Database
<1>2. ClosedByEvents(d, t) = ClosedBy(d.ledger, id)[L]
  BY DEF ClosedByEvents
<1>3. ClosedByEvents(e, u) = ClosedBy(Append(d.ledger, event), id)[Len(Append(d.ledger, event))]
  BY DEF ClosedByEvents, Logged
<1>4. Sums(ClosedBy(d.ledger, id), d.ledger, id, L)
  BY <1>1, ClosedByIsSums
<1>5. L \in Nat
  BY <1>1, LenProperties
<1>6. ClosedBy(d.ledger, id)[L] \in Nat
  BY <1>4, <1>5 DEF Sums
<1> HIDE DEF id
<1>7. ClosedBy(Append(d.ledger, event), id)[Len(Append(d.ledger, event))]
        = ClosedBy(d.ledger, id)[L] + (IF event.trade = id THEN event.closed ELSE 0)
  BY <1>1, ClosedByAppended
<1>8. QED
  BY <1>2, <1>3, <1>6, <1>7 DEF id

\* The events stay traceable with one more.
LEMMA EventTraceable ==
  ASSUME NEW d, NEW e, NEW event, Logged(d, e, event)
  PROVE  /\ Len(e.ledger) = Len(d.ledger) + 1 /\ Len(d.ledger) \in Nat
         /\ \A n \in 1 .. Len(e.ledger) : e.ledger[n].trade \in 1 .. Len(e.ledger)
<1>1. d.ledger \in Seq(PaperEvent) /\ event \in PaperEvent
  BY DEF Logged, Database
<1>2. /\ Len(e.ledger) = Len(d.ledger) + 1 /\ Len(d.ledger) \in Nat
      /\ e.ledger[Len(d.ledger) + 1] = event
      /\ \A n \in 1 .. Len(d.ledger) : e.ledger[n] = d.ledger[n]
  BY <1>1, AppendProperties, LenProperties DEF Logged
<1>3. \A n \in 1 .. Len(d.ledger) : d.ledger[n].trade \in 1 .. Len(d.ledger)
  BY DEF Logged, Traceable
<1>4. QED
  BY <1>2, <1>3 DEF Logged

\* What a trade has closed is an integer.
LEMMA ClosedIsNumber ==
  ASSUME NEW d \in Database, Traceable(d), NEW t \in DOMAIN d.papers
  PROVE  ClosedOf(d, t) \in Int
<1>1. d.papers[t].plan \in DOMAIN d.plans
  BY DEF Traceable
<1>2. d.plans[d.papers[t].plan] \in Plan /\ d.papers[t] \in PaperTrade
  BY <1>1, Rows
<1>3. QED
  BY <1>2, TradePlanAssumption DEF Plan, PaperTrade, ClosedOf

\* The event alone: no trade has closed more than its events say.
LEMMA EventAlone ==
  ASSUME NEW d, NEW e, NEW event, Logged(d, e, event), Covered(d), e.papers = d.papers
  PROVE  Traceable(e) /\ Covered(e)
<1>1. Traceable(e)
  <2>1. /\ Len(e.ledger) = Len(d.ledger) + 1 /\ Len(d.ledger) \in Nat
        /\ \A n \in 1 .. Len(e.ledger) : e.ledger[n].trade \in 1 .. Len(e.ledger)
    BY EventTraceable
  <2>2. QED
    BY <2>1 DEF Traceable, Logged, SameOrders
<1>2. ASSUME NEW t \in DOMAIN e.papers
      PROVE  ClosedByEvents(e, t) >= ClosedOf(e, t)
  <2>1. /\ ClosedByEvents(d, t) \in Nat
        /\ ClosedByEvents(e, t) =
             ClosedByEvents(d, t) + (IF event.trade = d.papers[t].id THEN event.closed ELSE 0)
    BY <1>2, EventCounts
  <2>2. ClosedOf(e, t) = ClosedOf(d, t)
    BY <1>2 DEF ClosedOf, Logged, SameOrders, Traceable
  <2>3. ClosedOf(d, t) \in Int
    BY <1>2, ClosedIsNumber DEF Logged
  <2>4. event.closed \in Nat
    BY DEF Logged, PaperEvent
  <2>5. ClosedByEvents(d, t) >= ClosedOf(d, t)
    BY <1>2 DEF Covered
  <2>6. QED
    BY <2>1, <2>2, <2>3, <2>4, <2>5
<1>3. QED
  BY <1>1, <1>2 DEF Covered

\* The event of an entry and the trade: it has closed nothing, and no event
\* says that it has.
LEMMA EntryRecorded ==
  ASSUME NEW d, NEW e, NEW event, Logged(d, e, event), NEW trade \in PaperTrade,
         event.trade = Len(d.ledger) + 1, event.closed = 0,
         e.papers = Append(d.papers, trade),
         trade.id = event.trade, trade.plan \in DOMAIN d.plans,
         trade.remaining = d.plans[trade.plan].order.quantity
  PROVE  Traceable(e) /\ (Covered(d) => Covered(e)) /\ (Exact(d) => Exact(e))
<1> DEFINE new == Len(d.papers) + 1
<1>1. d \in Database /\ e \in Database /\ d.papers \in Seq(PaperTrade) /\ d.ledger \in Seq(PaperEvent)
  BY DEF Logged, Database
<1>2. /\ DOMAIN d.papers = 1 .. Len(d.papers) /\ Len(d.papers) \in Nat
      /\ DOMAIN e.papers = 1 .. new /\ e.papers[new] = trade
      /\ \A t \in DOMAIN d.papers : e.papers[t] = d.papers[t]
  BY <1>1
<1>3. /\ Len(e.ledger) = Len(d.ledger) + 1 /\ Len(d.ledger) \in Nat
      /\ \A n \in 1 .. Len(e.ledger) : e.ledger[n].trade \in 1 .. Len(e.ledger)
  BY EventTraceable
<1>4. \A t \in DOMAIN d.papers : d.papers[t].id \in 1 .. Len(d.ledger) /\ d.papers[t].plan \in DOMAIN d.plans
  BY DEF Logged, Traceable
<1>5. \A t \in DOMAIN e.papers : t \in DOMAIN d.papers \/ t = new
  BY <1>2
<1> HIDE DEF new
<1>6. Traceable(e)
  <2>1. \A t \in DOMAIN e.papers : e.papers[t].id \in 1 .. Len(e.ledger) /\ e.papers[t].plan \in DOMAIN e.plans
    BY <1>2, <1>3, <1>4, <1>5 DEF Logged, SameOrders
  <2>2. \A t \in DOMAIN d.papers : e.papers[t].id # e.papers[new].id
    BY <1>2, <1>3, <1>4
  <2>3. \A t, u \in DOMAIN e.papers : e.papers[t].id = e.papers[u].id => t = u
    BY <1>2, <1>5, <2>2 DEF Logged, Traceable
  <2>4. QED
    BY <1>3, <2>1, <2>3 DEF Traceable
<1>7. \A t \in DOMAIN d.papers :
        ClosedByEvents(e, t) = ClosedByEvents(d, t) /\ ClosedOf(e, t) = ClosedOf(d, t)
  <2>1. SUFFICES ASSUME NEW t \in DOMAIN d.papers
                 PROVE  ClosedByEvents(e, t) = ClosedByEvents(d, t) /\ ClosedOf(e, t) = ClosedOf(d, t)
    OBVIOUS
  <2>2. t \in DOMAIN e.papers /\ e.papers[t] = d.papers[t]
    BY <1>2 DEF new
  <2>3. /\ ClosedByEvents(d, t) \in Nat
        /\ ClosedByEvents(e, t) =
             ClosedByEvents(d, t) + (IF event.trade = d.papers[t].id THEN event.closed ELSE 0)
    BY <2>2, EventCounts
  <2>4. ClosedOf(e, t) = ClosedOf(d, t)
    BY <1>4, <2>2 DEF ClosedOf, Logged, SameOrders
  <2>5. QED
    BY <2>3, <2>4
<1>8. ClosedByEvents(e, new) = 0 /\ ClosedOf(e, new) = 0
  <2> DEFINE id == Len(d.ledger) + 1
  <2>1. ClosedBy(d.ledger, id)[Len(d.ledger)] = 0
    <3>1. \A n \in 1 .. Len(d.ledger) : d.ledger[n].trade # id
      BY <1>3 DEF Logged, Traceable
    <3> HIDE DEF id
    <3>2. QED
      BY <1>1, <3>1, ClosedByNothing
  <2>2. event \in PaperEvent /\ event.trade = id /\ e.papers[new].id = id
    BY <1>2 DEF Logged
  <2> HIDE DEF id
  <2>3. ClosedBy(Append(d.ledger, event), id)[Len(Append(d.ledger, event))] = 0
    <3>1. ClosedBy(Append(d.ledger, event), id)[Len(Append(d.ledger, event))]
            = ClosedBy(d.ledger, id)[Len(d.ledger)] + (IF event.trade = id THEN event.closed ELSE 0)
      BY <1>1, <2>2, ClosedByAppended
    <3>2. QED
      BY <2>1, <2>2, <3>1
  <2>4. ClosedByEvents(e, new) = 0
    BY <2>2, <2>3 DEF ClosedByEvents, Logged
  <2>5. d.plans[trade.plan] \in Plan /\ e.plans[trade.plan].order = d.plans[trade.plan].order
    BY <1>1, Rows DEF Logged, SameOrders
  <2>6. ClosedOf(e, new) = 0
    BY <1>2, <2>5, TradePlanAssumption DEF ClosedOf, Plan
  <2>7. QED
    BY <2>4, <2>6
<1>9. QED
  BY <1>5, <1>6, <1>7, <1>8 DEF Covered, Exact

\* The event of a close and what it leaves of the trade: both grow by as much.
LEMMA CloseRecorded ==
  ASSUME NEW d, NEW e, NEW event, Logged(d, e, event), NEW t \in DOMAIN d.papers, NEW row \in PaperTrade,
         event.trade = d.papers[t].id,
         e.papers = [d.papers EXCEPT ![t] = row],
         row.id = d.papers[t].id, row.plan = d.papers[t].plan,
         row.remaining = d.papers[t].remaining - event.closed
  PROVE  Traceable(e) /\ (Covered(d) => Covered(e)) /\ (Exact(d) => Exact(e))
<1>1. /\ DOMAIN e.papers = DOMAIN d.papers
      /\ \A u \in DOMAIN d.papers : e.papers[u] = IF u = t THEN row ELSE d.papers[u]
  OBVIOUS
<1>2. \A u \in DOMAIN d.papers : e.papers[u].id = d.papers[u].id /\ e.papers[u].plan = d.papers[u].plan
  BY <1>1
<1>3. Traceable(e)
  <2>1. /\ Len(e.ledger) = Len(d.ledger) + 1 /\ Len(d.ledger) \in Nat
        /\ \A n \in 1 .. Len(e.ledger) : e.ledger[n].trade \in 1 .. Len(e.ledger)
    BY EventTraceable
  <2>2. QED
    BY <1>1, <1>2, <2>1 DEF Traceable, Logged, SameOrders
<1>4. ASSUME NEW u \in DOMAIN e.papers
      PROVE  /\ ClosedByEvents(d, u) >= ClosedOf(d, u) => ClosedByEvents(e, u) >= ClosedOf(e, u)
             /\ ClosedByEvents(d, u) = ClosedOf(d, u) => ClosedByEvents(e, u) = ClosedOf(e, u)
  <2>1. u \in DOMAIN d.papers /\ d \in Database /\ Traceable(d)
    BY <1>1, <1>4 DEF Logged
  <2>2. /\ ClosedByEvents(d, u) \in Nat
        /\ ClosedByEvents(e, u) =
             ClosedByEvents(d, u) + (IF event.trade = d.papers[u].id THEN event.closed ELSE 0)
    BY <1>2, <1>4, <2>1, EventCounts
  <2>3. event.trade = d.papers[u].id <=> u = t
    BY <2>1 DEF Traceable
  <2>4. ClosedOf(d, u) \in Int /\ event.closed \in Nat
    BY <2>1, ClosedIsNumber DEF Logged, PaperEvent
  <2>5. ClosedOf(e, u) = ClosedOf(d, u) + (IF u = t THEN event.closed ELSE 0)
    <3>1. d.papers[u].plan \in DOMAIN d.plans /\ d.papers[u] \in PaperTrade
      BY <2>1, Rows DEF Traceable
    <3>2. d.plans[d.papers[u].plan] \in Plan
      BY <2>1, <3>1, Rows
    <3>3. e.plans[e.papers[u].plan].order = d.plans[d.papers[u].plan].order
      BY <1>2, <2>1, <3>1 DEF Logged, SameOrders
    <3>4. e.papers[u].remaining = d.papers[u].remaining - (IF u = t THEN event.closed ELSE 0)
      <4>1. d.papers[u].remaining \in Nat
        BY <3>1 DEF PaperTrade
      <4>2. QED
        BY <1>1, <2>1, <4>1
    <3>5. d.plans[d.papers[u].plan].order.quantity \in Nat /\ d.papers[u].remaining \in Nat
      BY <3>1, <3>2, TradePlanAssumption DEF Plan, PaperTrade
    <3>6. QED
      BY <2>4, <3>3, <3>4, <3>5 DEF ClosedOf
  <2>6. QED
    BY <2>2, <2>3, <2>4, <2>5
<1>5. QED
  BY <1>1, <1>3, <1>4 DEF Covered, Exact

\* What lockTradePlan leaves: the pending plan cancelled, and a new one added,
\* or only the first of them.
LEMMA LockWrites ==
  ASSUME IInv, LockTradePlan
  PROVE  LET p == ActivePlan(db, db.mode)
         IN /\ p # None => p \in ActivePlans(db, db.mode) /\ db.plans[p].status = "LOCKED"
            /\ db.mode \in use.planModes
            /\ \/ db' = db
               \/ /\ db'.mode = db.mode /\ db'.papers = db.papers
                  /\ db'.ledger = db.ledger /\ db'.sessions = db.sessions
                  /\ \E cancelled \in Database :
                       /\ Touches(db, cancelled, p)
                       /\ p # None =>
                            /\ cancelled.plans[p].status = "CANCELLED"
                            /\ db.plans[p].trigger = "NONE" => cancelled.plans[p].trigger = "NONE"
                       /\ \/ use.failures /\ db'.plans = cancelled.plans
                          \/ \E order \in Orders, trigger \in {"NONE", "ARMED"} :
                               /\ ~use.triggers => trigger = "NONE"
                               /\ db'.plans = Append(cancelled.plans,
                                                [mode |-> db.mode, status |-> "LOCKED",
                                                 order |-> order, trigger |-> trigger])
<1> DEFINE p         == ActivePlan(db, db.mode)
           cancelled == CancelPending(db, p)
<1>1. PICK order \in Orders, trigger \in {"NONE", "ARMED"} :
        /\ ~use.triggers => trigger = "NONE"
        /\ LET plan == [mode |-> db.mode, status |-> "LOCKED", order |-> order, trigger |-> trigger]
           IN db' \in Outcomes(db, {cancelled}, [cancelled EXCEPT !.plans = Append(@, plan)])
  <2>1. use.orders \subseteq Orders
    BY TradePlanAssumption DEF IInv, Use
  <2>2. PICK order \in use.orders, trigger \in IF use.triggers THEN {"NONE", "ARMED"} ELSE {"NONE"} :
          LET plan == [mode |-> db.mode, status |-> "LOCKED", order |-> order, trigger |-> trigger]
          IN db' \in Outcomes(db, {cancelled}, [cancelled EXCEPT !.plans = Append(@, plan)])
    BY DEF LockTradePlan
  <2>3. trigger \in {"NONE", "ARMED"} /\ (~use.triggers => trigger = "NONE")
    BY <2>2
  <2>4. QED
    BY <2>1, <2>2, <2>3
<1> DEFINE plan  == [mode |-> db.mode, status |-> "LOCKED", order |-> order, trigger |-> trigger]
           after == [cancelled EXCEPT !.plans = Append(@, plan)]
<1>2. db' = db \/ db' = after \/ (use.failures /\ db' = cancelled)
  BY <1>1 DEF Outcomes
<1>3. Good(db) /\ db \in Database /\ db.mode \in Modes
  BY DEF IInv, Good, Database
<1>4. /\ Synced(db, cancelled, p) /\ (p = None \/ p \in ActivePlans(db, db.mode))
      /\ cancelled.sessions = db.sessions
      /\ p # None =>
           /\ cancelled.plans[p].status = "CANCELLED"
           /\ db.plans[p].trigger = "NONE" => cancelled.plans[p].trigger = "NONE"
  BY <1>3, PendingCancelled
<1>5. /\ db.mode \in use.planModes
      /\ p # None => db.plans[p].status = "LOCKED"
  BY DEF LockTradePlan
<1> HIDE DEF p, cancelled
<1>6. /\ cancelled \in Database /\ cancelled.mode = db.mode /\ cancelled.papers = db.papers
      /\ cancelled.ledger = db.ledger /\ cancelled.sessions = db.sessions
      /\ Touches(db, cancelled, p)
  BY <1>4 DEF Synced, Saved, Touches
<1>7. /\ after.plans = Append(cancelled.plans, plan)
      /\ after.mode = db.mode /\ after.papers = db.papers
      /\ after.ledger = db.ledger /\ after.sessions = db.sessions
  BY <1>6 DEF Database
<1>8. CASE db' = db
  BY <1>4, <1>5, <1>8 DEF p
<1>9. CASE use.failures /\ db' = cancelled
  BY <1>4, <1>5, <1>6, <1>9 DEF p
<1>10. CASE db' = after
  <2>1. (~use.triggers => trigger = "NONE") /\ db'.plans = Append(cancelled.plans, plan)
    BY <1>1, <1>7, <1>10
  <2>2. \E o \in Orders, g \in {"NONE", "ARMED"} :
          /\ ~use.triggers => g = "NONE"
          /\ db'.plans = Append(cancelled.plans, [mode |-> db.mode, status |-> "LOCKED",
                                                  order |-> o, trigger |-> g])
    BY <2>1
  <2> HIDE DEF after, plan
  <2>3. QED
    BY <1>4, <1>5, <1>6, <1>7, <1>10, <2>2 DEF p
<1>11. QED
  BY <1>2, <1>8, <1>9, <1>10

\* The invariant of the ledger, kept by every step
LEMMA LedgerKept ==
  ASSUME IInv, LedgerInv, [Next]_vars
  PROVE  LedgerInv'
<1>1. Good(db) /\ db \in Database /\ db.ledger \in Seq(PaperEvent)
  BY DEF IInv, Good, Database
<1>2. Traceable(db) /\ Covered(db) /\ (~use.failures => Exact(db))
  BY DEF LedgerInv
<1>3. use' = use
  BY DEF Next, vars, SaveUserSettings, ResetLocalData, LockTradePlan, EnterPaperTrade,
         ClosePaperTrade, GetTradingState, AccountChanges, MonitorExpires, MonitorReads
<1>4. SUFFICES Traceable(db') /\ Covered(db') /\ (~use.failures => Exact(db'))
  BY <1>3 DEF LedgerInv, Traceable, Covered, Exact, ClosedByEvents, ClosedOf
<1>5. ASSUME SameOrders(db, db'), db'.papers = db.papers, db'.ledger = db.ledger
      PROVE  Traceable(db') /\ Covered(db') /\ (~use.failures => Exact(db'))
  BY <1>2, <1>5, RecordsUntouched
<1>6. CASE SaveUserSettings
  <2>1. PICK mode \in Modes : db' = [db EXCEPT !.mode = mode]
    BY <1>6 DEF SaveUserSettings
  <2>2. db'.plans = db.plans /\ db'.papers = db.papers /\ db'.ledger = db.ledger
    BY <1>1, <2>1 DEF Database
  <2>3. QED
    BY <1>5, <2>2 DEF SameOrders
<1>7. CASE ResetLocalData
  <2>1. db'.papers = <<>> /\ db'.ledger = <<>>
    BY <1>7 DEF ResetLocalData, EmptyDatabase
  <2>2. DOMAIN db'.papers = {} /\ 1 .. Len(db'.ledger) = {}
    BY <2>1
  <2>3. QED
    BY <2>2 DEF Traceable, Covered, Exact
<1>8. CASE LockTradePlan
  <2>1. CASE db' = db
    BY <1>5, <2>1 DEF SameOrders
  <2>2. CASE db' # db
    <3> DEFINE p == ActivePlan(db, db.mode)
    <3>1. PICK cancelled \in Database :
            /\ Touches(db, cancelled, p) /\ db'.papers = db.papers /\ db'.ledger = db.ledger
            /\ \/ db'.plans = cancelled.plans
               \/ \E plan : db'.plans = Append(cancelled.plans, plan)
      BY <1>8, <2>2, LockWrites
    <3> HIDE DEF p
    <3>2. SameOrders(db, cancelled) /\ cancelled.plans \in Seq(Plan)
      BY <1>1, <3>1, TouchedOrders DEF Database
    <3>3. SameOrders(db, db')
      <4>1. \A plan : \A q \in DOMAIN cancelled.plans :
              /\ q \in DOMAIN Append(cancelled.plans, plan)
              /\ Append(cancelled.plans, plan)[q] = cancelled.plans[q]
        BY <3>2
      <4>2. QED
        BY <3>1, <3>2, <4>1 DEF SameOrders
    <3>4. QED
      BY <1>5, <3>1, <3>3
  <2>3. QED
    BY <2>1, <2>2
<1>9. CASE EnterPaperTrade
  <2> DEFINE event == [trade |-> EntryNumber, closed |-> 0]
  <2>1. CASE db' = db
    BY <1>5, <2>1 DEF SameOrders
  <2>2. CASE db' # db
    <3>1. /\ EnteredPlan \in ActivePlans(db, "PAPER") /\ EnteredTrade \in PaperTrade
          /\ Touches(db, db', EnteredPlan)
          /\ db'.ledger = Append(db.ledger, event)
          /\ \/ use.failures /\ db'.papers = db.papers
             \/ db'.papers = Append(db.papers, EnteredTrade)
      BY <1>9, <2>2, EnterWrites
    <3>2. Logged(db, db', event)
      <4>1. Len(db.ledger) \in Nat
        BY <1>1, LenProperties
      <4>2. event \in PaperEvent /\ event.trade \in 1 .. Len(db.ledger) + 1
        BY <4>1 DEF PaperEvent, EntryNumber
      <4> HIDE DEF event
      <4>3. QED
        BY <1>1, <1>2, <3>1, <4>2, TouchedOrders DEF Logged
    <3>3. CASE use.failures /\ db'.papers = db.papers
      <4> HIDE DEF event
      <4>1. QED
        BY <1>2, <3>2, <3>3, EventAlone
    <3>4. CASE db'.papers = Append(db.papers, EnteredTrade)
      <4>1. event.trade = Len(db.ledger) + 1 /\ event.closed = 0
        BY DEF EntryNumber
      <4>2. EnteredTrade.id = event.trade
        BY DEF EnteredTrade
      <4>3. /\ EnteredTrade.plan = EnteredPlan
            /\ EnteredTrade.remaining = db.plans[EnteredPlan].order.quantity
        BY DEF EnteredTrade
      <4>4. EnteredPlan \in DOMAIN db.plans
        BY <3>1 DEF ActivePlans
      <4> HIDE DEF event
      <4>5. Traceable(db') /\ (Covered(db) => Covered(db')) /\ (Exact(db) => Exact(db'))
        BY <3>1, <3>2, <3>4, <4>1, <4>2, <4>3, <4>4, EntryRecorded
      <4>6. QED
        BY <1>2, <4>5
    <3>5. QED
      BY <3>1, <3>3, <3>4
  <2>3. QED
    BY <2>1, <2>2
<1>10. CASE ClosePaperTrade
  <2> DEFINE t == ClosingTrade
  <2>1. CASE db' = db
    BY <1>5, <2>1 DEF SameOrders
  <2>2. CASE db' # db
    <3>1. PICK quantity \in 1 .. db.papers[t].remaining :
            /\ t \in DOMAIN db.papers
            /\ Touches(db, db', db.papers[t].plan)
            /\ db'.ledger = Append(db.ledger, [trade |-> db.papers[t].id, closed |-> quantity])
            /\ ClosedRow(quantity) \in PaperTrade
            /\ \/ use.failures /\ db'.papers = db.papers
               \/ db'.papers = [db.papers EXCEPT ![t] = ClosedRow(quantity)]
      BY <1>10, <2>2, CloseWrites
    <3> DEFINE event == [trade |-> db.papers[t].id, closed |-> quantity]
               row   == ClosedRow(quantity)
    <3>2. db.papers[t] \in PaperTrade
      BY <1>1, <3>1, Rows
    <3>3. db.papers[t].remaining \in Nat /\ db.papers[t].id \in Nat /\ quantity \in Nat
      BY <3>2 DEF PaperTrade
    <3>4. event \in PaperEvent
      BY <3>3 DEF PaperEvent
    <3>5. event.trade \in 1 .. Len(db.ledger) + 1
      <4>1. db.papers[t].id \in 1 .. Len(db.ledger) /\ Len(db.ledger) \in Nat
        BY <1>1, <1>2, <3>1, LenProperties DEF Traceable
      <4>2. QED
        BY <4>1
    <3>6. /\ row.id = db.papers[t].id /\ row.plan = db.papers[t].plan
          /\ row.remaining = db.papers[t].remaining - event.closed
      BY <3>2 DEF ClosedRow, PaperTrade
    <3>7. event.trade = db.papers[t].id
      OBVIOUS
    <3>8. db'.ledger = Append(db.ledger, event)
      BY <3>1
    <3> HIDE DEF event, row, t
    <3>9. Logged(db, db', event)
      BY <1>1, <1>2, <3>1, <3>4, <3>5, <3>8, TouchedOrders DEF Logged
    <3>10. CASE use.failures /\ db'.papers = db.papers
      BY <1>2, <3>9, <3>10, EventAlone
    <3>11. CASE db'.papers = [db.papers EXCEPT ![t] = row]
      <4>1. Traceable(db') /\ (Covered(db) => Covered(db')) /\ (Exact(db) => Exact(db'))
        BY <3>1, <3>6, <3>7, <3>9, <3>11, CloseRecorded DEF row
      <4>2. QED
        BY <1>2, <4>1
    <3>12. QED
      BY <3>1, <3>10, <3>11 DEF row
  <2>3. QED
    BY <2>1, <2>2
<1>11. CASE GetTradingState \/ MonitorExpires \/ MonitorReads
  <2>1. Rewritten
    BY <1>11, SyncStep, ExpiryStep, MonitorStep
  <2>2. CASE db' = db
    BY <1>5, <2>2 DEF SameOrders
  <2>3. CASE Synced(db, db', ActivePlan(db, db.mode))
    <3>1. /\ Touches(db, db', ActivePlan(db, db.mode))
          /\ db'.papers = db.papers /\ db'.ledger = db.ledger
      BY <2>3 DEF Synced, Saved
    <3>2. SameOrders(db, db')
      BY <1>1, <3>1, TouchedOrders
    <3>3. QED
      BY <1>5, <3>1, <3>2
  <2>4. QED
    BY <2>1, <2>2, <2>3 DEF Rewritten
<1>12. CASE AccountChanges \/ UNCHANGED vars
  <2>1. db' = db
    BY <1>12 DEF AccountChanges, vars
  <2>2. QED
    BY <1>5, <2>1 DEF SameOrders
<1>13. QED
  BY <1>6, <1>7, <1>8, <1>9, <1>10, <1>11, <1>12 DEF Next

\* The events of every paper trade explain what it has closed: exactly where no
\* write fails, and never too little where a handler is cut short, for any
\* number of trades and events (enterPaperTrade and closePaper write the event
\* before they write the trade).
THEOREM LedgerIsSound == Spec => []LedgerExplainsTrades
<1>1. Init => LedgerInv
  <2>1. SUFFICES ASSUME Init PROVE LedgerInv
    OBVIOUS
  <2>2. db.papers = <<>> /\ db.ledger = <<>>
    BY <2>1 DEF Init, EmptyDatabase
  <2>3. DOMAIN db.papers = {} /\ 1 .. Len(db.ledger) = {}
    BY <2>2
  <2>4. QED
    BY <2>3 DEF LedgerInv, Traceable, Covered, Exact
<1>2. IInv /\ LedgerInv /\ [Next]_vars => LedgerInv'
  BY LedgerKept
<1>3. LedgerInv => LedgerExplainsTrades
  BY DEF LedgerInv, LedgerExplainsTrades, LedgerCoversTrades, LedgerAddsUp, Covered, Exact
<1>4. QED
  BY <1>1, <1>2, <1>3, Invariance, PTL DEF Spec
-----------------------------------------------------------------------------
(***************************************************************************)
(* Trades follow plans, without a position of the account.  Inductive: no  *)
(* session is ever recorded, a plan past LOCKED is a paper plan with a     *)
(* trade, and no plan has two, so that what is written of a trade and its  *)
(* plan disturbs no other pair.                                            *)
(***************************************************************************)
PaperOnly(d) ==
  /\ d.sessions = <<>>
  /\ \A t \in DOMAIN d.papers :
       /\ d.papers[t].plan \in DOMAIN d.plans
       /\ d.plans[d.papers[t].plan].status = DesiredStatus(d.papers[t])
  /\ \A t, u \in DOMAIN d.papers : d.papers[t].plan = d.papers[u].plan => t = u
  /\ \A p \in DOMAIN d.plans :
       d.plans[p].status \notin {"LOCKED", "CANCELLED"} =>
         d.plans[p].mode = "PAPER" /\ \E t \in DOMAIN d.papers : d.papers[t].plan = p

PaperInv == WithoutPosition => PaperOnly(db) /\ account.position = NoPosition

\* A plan that is locked has no trade.
LEMMA LockedHasNoTrade ==
  ASSUME NEW d \in Database, PaperOnly(d), NEW p \in DOMAIN d.plans,
         d.plans[p].status = "LOCKED", NEW t \in DOMAIN d.papers
  PROVE  d.papers[t].plan # p
<1>1. d.papers[t].status \in TradeStatuses
  BY Rows DEF PaperTrade
<1>2. DesiredStatus(d.papers[t]) # "LOCKED"
  BY <1>1 DEF DesiredStatus, TradeStatuses
<1>3. QED
  BY <1>2 DEF PaperOnly

\* A locked plan that is cancelled, or only rewritten, disturbs no trade.
LEMMA LockedRewritten ==
  ASSUME NEW d \in Database, NEW e, NEW p \in DOMAIN d.plans, PaperOnly(d), Touches(d, e, p),
         e.papers = d.papers, e.sessions = d.sessions,
         d.plans[p].status = "LOCKED", e.plans[p].status \in {"LOCKED", "CANCELLED"}
  PROVE  PaperOnly(e)
<1>1. e \in Database /\ DOMAIN e.plans = DOMAIN d.plans
  BY Rows DEF Touches
<1>2. \A t \in DOMAIN e.papers :
        /\ e.papers[t].plan \in DOMAIN e.plans
        /\ e.plans[e.papers[t].plan].status = DesiredStatus(e.papers[t])
  BY <1>1, LockedHasNoTrade DEF PaperOnly, Touches
<1>3. \A q \in DOMAIN e.plans :
        e.plans[q].status \notin {"LOCKED", "CANCELLED"} =>
          e.plans[q].mode = "PAPER" /\ \E t \in DOMAIN e.papers : e.papers[t].plan = q
  BY <1>1 DEF PaperOnly, Touches
<1>4. QED
  BY <1>2, <1>3 DEF PaperOnly

\* A new plan, locked, disturbs no trade.
LEMMA LockedAdded ==
  ASSUME NEW d \in Database, NEW e, PaperOnly(d), NEW plan \in Plan, plan.status = "LOCKED",
         e.plans = Append(d.plans, plan), e.papers = d.papers, e.sessions = d.sessions
  PROVE  PaperOnly(e)
<1> DEFINE new == Len(d.plans) + 1
<1>1. d.plans \in Seq(Plan)
  BY DEF Database
<1>2. /\ DOMAIN e.plans = 1 .. new /\ DOMAIN d.plans = 1 .. Len(d.plans) /\ Len(d.plans) \in Nat
      /\ e.plans[new].status = "LOCKED"
      /\ \A q \in DOMAIN d.plans : e.plans[q] = d.plans[q]
  BY <1>1
<1>3. \A q \in DOMAIN e.plans : q \in DOMAIN d.plans \/ q = new
  BY <1>2
<1>4. \A q \in DOMAIN d.plans : q \in DOMAIN e.plans
  BY <1>2
<1> HIDE DEF new
<1>5. QED
  BY <1>2, <1>3, <1>4 DEF PaperOnly

\* The plan of a new trade had none.
LEMMA TradeOpened ==
  ASSUME NEW d \in Database, NEW e, NEW p \in DOMAIN d.plans, PaperOnly(d), Touches(d, e, p),
         d.plans[p].mode = "PAPER", d.plans[p].status = "LOCKED",
         e.plans[p].status = "ENTERED", e.sessions = d.sessions,
         NEW trade \in PaperTrade, e.papers = Append(d.papers, trade),
         trade.plan = p, trade.status = "OPEN"
  PROVE  PaperOnly(e)
<1> DEFINE new == Len(d.papers) + 1
<1>1. /\ e \in Database /\ DOMAIN e.plans = DOMAIN d.plans /\ d.papers \in Seq(PaperTrade)
      /\ \A q \in DOMAIN d.plans : e.plans[q].mode = d.plans[q].mode /\ (q # p => e.plans[q] = d.plans[q])
  BY Rows DEF Touches, Database
<1>2. /\ DOMAIN e.papers = 1 .. new /\ DOMAIN d.papers = 1 .. Len(d.papers) /\ Len(d.papers) \in Nat
      /\ e.papers[new] = trade
      /\ \A t \in DOMAIN d.papers : e.papers[t] = d.papers[t]
  BY <1>1
<1>3. /\ \A t \in DOMAIN e.papers : t \in DOMAIN d.papers \/ t = new
      /\ \A t \in DOMAIN d.papers : t \in DOMAIN e.papers
      /\ new \in DOMAIN e.papers
  BY <1>2
<1>4. \A t \in DOMAIN d.papers : d.papers[t].plan # p
  BY LockedHasNoTrade
<1> HIDE DEF new
<1>5. \A t \in DOMAIN e.papers :
        /\ e.papers[t].plan \in DOMAIN e.plans
        /\ e.plans[e.papers[t].plan].status = DesiredStatus(e.papers[t])
  BY <1>1, <1>2, <1>3, <1>4 DEF PaperOnly, DesiredStatus
<1>6. \A t, u \in DOMAIN e.papers : e.papers[t].plan = e.papers[u].plan => t = u
  BY <1>2, <1>3, <1>4 DEF PaperOnly
<1>7. \A q \in DOMAIN e.plans :
        e.plans[q].status \notin {"LOCKED", "CANCELLED"} =>
          e.plans[q].mode = "PAPER" /\ \E t \in DOMAIN e.papers : e.papers[t].plan = q
  BY <1>1, <1>2, <1>3 DEF PaperOnly
<1>8. QED
  BY <1>5, <1>6, <1>7 DEF PaperOnly

\* What a close writes of a trade and of its plan concerns no other.
LEMMA TradeClosed ==
  ASSUME NEW d \in Database, NEW e, NEW t \in DOMAIN d.papers, PaperOnly(d),
         Touches(d, e, d.papers[t].plan), e.sessions = d.sessions,
         NEW row \in PaperTrade, e.papers = [d.papers EXCEPT ![t] = row],
         row.plan = d.papers[t].plan, d.plans[row.plan].mode = "PAPER",
         e.plans[row.plan].status = DesiredStatus(row)
  PROVE  PaperOnly(e)
<1> DEFINE p == d.papers[t].plan
<1>1. p \in DOMAIN d.plans
  BY DEF PaperOnly
<1> HIDE DEF p
<1>2. /\ DOMAIN e.plans = DOMAIN d.plans
      /\ \A q \in DOMAIN d.plans : e.plans[q].mode = d.plans[q].mode /\ (q # p => e.plans[q] = d.plans[q])
  BY Rows DEF Touches, p
<1>3. /\ DOMAIN e.papers = DOMAIN d.papers
      /\ \A u \in DOMAIN d.papers : e.papers[u] = IF u = t THEN row ELSE d.papers[u]
  OBVIOUS
<1>4. \A u \in DOMAIN d.papers : e.papers[u].plan = d.papers[u].plan
  BY <1>3
<1>5. \A u \in DOMAIN d.papers : u # t => d.papers[u].plan # p
  BY DEF PaperOnly, p
<1>6. \A u \in DOMAIN e.papers :
        /\ e.papers[u].plan \in DOMAIN e.plans
        /\ e.plans[e.papers[u].plan].status = DesiredStatus(e.papers[u])
  BY <1>1, <1>2, <1>3, <1>5 DEF PaperOnly, p
<1>7. \A u, v \in DOMAIN e.papers : e.papers[u].plan = e.papers[v].plan => u = v
  BY <1>3, <1>4 DEF PaperOnly
<1>8. \A q \in DOMAIN e.plans :
        e.plans[q].status \notin {"LOCKED", "CANCELLED"} =>
          e.plans[q].mode = "PAPER" /\ \E u \in DOMAIN e.papers : e.papers[u].plan = q
  BY <1>2, <1>3, <1>4 DEF PaperOnly, p
<1>9. QED
  BY <1>6, <1>7, <1>8 DEF PaperOnly

\* Without a session and a position, synchronizing writes nothing.
LEMMA NothingToSync ==
  ASSUME PaperOnly(db), account.position = NoPosition, NEW gain \in BOOLEAN
  PROVE  \A i \in DOMAIN Sync(db, gain) : Sync(db, gain)[i] = db
<1>1. OpenSession(db) = None
  <2>1. {s \in DOMAIN db.sessions : IsOpen(db.sessions[s])} = {}
    BY DEF PaperOnly
  <2>2. QED
    BY <2>1 DEF OpenSession, Latest
<1>2. SyncTrail(db, NoPosition, gain) = <<db, db>>
  BY <1>1 DEF SyncTrail
<1>3. Sync(db, gain) = <<db>> \/ Sync(db, gain) = <<db, db>>
  BY <1>2 DEF Sync
<1>4. QED
  BY <1>3

\* Every step keeps the trades in line with their plans.
LEMMA PaperKept ==
  ASSUME IInv, PaperInv, [Next]_vars
  PROVE  PaperInv'
<1>1. use' = use
  BY DEF Next, vars, SaveUserSettings, ResetLocalData, LockTradePlan, EnterPaperTrade,
         ClosePaperTrade, GetTradingState, AccountChanges, MonitorExpires, MonitorReads
<1>2. SUFFICES ASSUME WithoutPosition
               PROVE  PaperOnly(db') /\ account'.position = NoPosition
  BY <1>1 DEF PaperInv, WithoutPosition, PaperOnly
<1>3. /\ Good(db) /\ db \in Database /\ db.mode \in Modes
      /\ PaperOnly(db) /\ account.position = NoPosition
      /\ ~use.failures /\ use.positions = {}
  BY <1>2 DEF IInv, Good, Database, PaperInv, WithoutPosition
<1>4. account'.position = NoPosition
  <2>1. \/ account' = account \/ account' = Disconnected
        \/ \E status \in Account : status.position \in use.positions \cup {NoPosition} /\ account' = status
    BY DEF Next, vars, SaveUserSettings, ResetLocalData, LockTradePlan, EnterPaperTrade,
           ClosePaperTrade, GetTradingState, AccountChanges, MonitorExpires, MonitorReads
  <2>2. Disconnected.position = NoPosition
    BY DEF Disconnected
  <2>3. QED
    BY <1>3, <2>1, <2>2
<1>5. ASSUME db' # db
      PROVE  PaperOnly(db')
  <2>1. CASE SaveUserSettings
    <3>1. PICK mode \in Modes : db' = [db EXCEPT !.mode = mode]
      BY <2>1 DEF SaveUserSettings
    <3>2. db'.plans = db.plans /\ db'.papers = db.papers /\ db'.sessions = db.sessions
      BY <1>3, <3>1 DEF Database
    <3>3. QED
      BY <1>3, <3>2 DEF PaperOnly
  <2>2. CASE ResetLocalData
    <3>1. db'.papers = <<>> /\ db'.plans = <<>> /\ db'.sessions = <<>>
      BY <2>2 DEF ResetLocalData, EmptyDatabase
    <3>2. DOMAIN db'.papers = {} /\ DOMAIN db'.plans = {}
      BY <3>1
    <3>3. QED
      BY <3>1, <3>2 DEF PaperOnly
  <2>3. CASE LockTradePlan
    <3> DEFINE p == ActivePlan(db, db.mode)
    <3>1. /\ p # None => p \in ActivePlans(db, db.mode) /\ db.plans[p].status = "LOCKED"
          /\ db'.papers = db.papers /\ db'.sessions = db.sessions
      BY <1>5, <2>3, LockWrites
    <3>2. PICK cancelled \in Database, order \in Orders, trigger \in {"NONE", "ARMED"} :
            /\ Touches(db, cancelled, p)
            /\ p # None => cancelled.plans[p].status = "CANCELLED"
            /\ db'.plans = Append(cancelled.plans, [mode |-> db.mode, status |-> "LOCKED",
                                                    order |-> order, trigger |-> trigger])
      BY <1>3, <1>5, <2>3, LockWrites
    <3> DEFINE plan == [mode |-> db.mode, status |-> "LOCKED", order |-> order, trigger |-> trigger]
               d    == [cancelled EXCEPT !.papers = db.papers, !.sessions = db.sessions]
    <3>3. plan \in Plan /\ plan.status = "LOCKED"
      BY <1>3 DEF Plan, PlanStatuses, TriggerStates
    <3>4. /\ d \in Database /\ d.plans = cancelled.plans /\ d.mode = cancelled.mode
          /\ d.papers = db.papers /\ d.sessions = db.sessions
      BY <1>3 DEF Database
    <3> HIDE DEF p, d, plan
    <3>5. Touches(db, d, p)
      BY <3>2, <3>4 DEF Touches
    <3>6. PaperOnly(d)
      <4>1. CASE p = None
        <5>1. \A q \in DOMAIN db.plans : q # p
          BY <1>3, <4>1, Rows DEF None
        <5>2. DOMAIN d.plans = DOMAIN db.plans /\ \A q \in DOMAIN db.plans : d.plans[q] = db.plans[q]
          BY <1>3, <3>4, <3>5, <5>1, Rows DEF Touches
        <5>3. QED
          BY <1>3, <3>4, <5>2 DEF PaperOnly
      <4>2. CASE p # None
        <5>1. p \in DOMAIN db.plans /\ db.plans[p].status = "LOCKED" /\ d.plans[p].status = "CANCELLED"
          BY <3>1, <3>2, <3>4, <4>2 DEF ActivePlans, p
        <5>2. QED
          BY <1>3, <3>4, <3>5, <5>1, LockedRewritten
      <4>3. QED
        BY <4>1, <4>2
    <3>7. db'.plans = Append(d.plans, plan) /\ db'.papers = d.papers /\ db'.sessions = d.sessions
      BY <3>1, <3>2, <3>4 DEF plan
    <3>8. QED
      BY <3>3, <3>4, <3>6, <3>7, LockedAdded
  <2>4. CASE EnterPaperTrade
    <3>1. /\ EnteredPlan \in ActivePlans(db, "PAPER") /\ EntryAllowed(db, EnteredPlan)
          /\ EnteredTrade \in PaperTrade
          /\ Touches(db, db', EnteredPlan) /\ db'.sessions = db.sessions
          /\ db'.plans[EnteredPlan].status = "ENTERED"
          /\ db'.papers = Append(db.papers, EnteredTrade)
      BY <1>3, <1>5, <2>4, EnterWrites
    <3>2. EnteredTrade.plan = EnteredPlan /\ EnteredTrade.status = "OPEN"
      BY DEF EnteredTrade
    <3>3. /\ EnteredPlan \in DOMAIN db.plans /\ db.plans[EnteredPlan].mode = "PAPER"
          /\ db.plans[EnteredPlan].status = "LOCKED"
      BY <3>1 DEF ActivePlans, EntryAllowed
    <3>4. QED
      BY <1>3, <3>1, <3>2, <3>3, TradeOpened
  <2>5. CASE ClosePaperTrade
    <3> DEFINE t == ClosingTrade
               p == db.papers[t].plan
    <3>1. PICK quantity \in 1 .. db.papers[t].remaining :
            /\ t \in DOMAIN db.papers /\ p \in ActivePlans(db, "PAPER")
            /\ Touches(db, db', p) /\ db'.sessions = db.sessions
            /\ ClosedRow(quantity) \in PaperTrade
            /\ db'.plans[p].status = ClosedRow(quantity).status
            /\ db'.papers = [db.papers EXCEPT ![t] = ClosedRow(quantity)]
      BY <1>3, <1>5, <2>5, CloseWrites
    <3>2. ClosedRow(quantity).plan = p /\ ClosedRow(quantity).status # "OPEN"
      <4>1. db.papers[t] \in PaperTrade
        BY <1>3, <3>1, Rows
      <4>2. QED
        BY <4>1 DEF ClosedRow, StatusFor, PaperTrade
    <3>3. DesiredStatus(ClosedRow(quantity)) = ClosedRow(quantity).status
      BY <3>2 DEF DesiredStatus
    <3>4. db.plans[p].mode = "PAPER"
      BY <3>1 DEF ActivePlans
    <3> DEFINE row == ClosedRow(quantity)
    <3> HIDE DEF t, row
    <3>5. QED
      BY <1>3, <3>1, <3>2, <3>3, <3>4, TradeClosed DEF row
  <2>6. CASE GetTradingState
    <3>1. PICK gain \in BOOLEAN :
            db' \in Outcomes(db, Between(Sync(db, gain)), Sync(db, gain)[Len(Sync(db, gain))])
      BY <2>6 DEF GetTradingState
    <3>2. Len(Sync(db, gain)) \in DOMAIN Sync(db, gain)
      BY <1>3, SyncIsSynced DEF IInv
    <3>3. db' = db
      BY <1>3, <3>1, <3>2, NothingToSync DEF Outcomes
    <3>4. QED
      BY <1>5, <3>3
  <2>7. CASE MonitorExpires \/ MonitorReads
    <3> DEFINE p == WatchedPlan
    <3>1. p # None /\ db.plans[p].status = "LOCKED"
      BY <2>7 DEF MonitorExpires, MonitorReads, Watching
    <3>2. p \in DOMAIN db.plans /\ db.plans[p] \in Plan
      BY <1>3, <3>1, ActivePlanIsActive, Rows DEF WatchedPlan, ActivePlans
    <3>3. \E plan \in Plan :
            /\ plan.mode = db.plans[p].mode /\ plan.order = db.plans[p].order
            /\ plan.status \in {"LOCKED", "CANCELLED"}
            /\ db' = [db EXCEPT !.plans[p] = plan]
      <4>1. CASE MonitorExpires
        <5> DEFINE plan == EndMonitoring(db.plans[p], "EXPIRED")
        <5>1. db' = [db EXCEPT !.plans[p] = plan]
          BY <1>3, <4>1 DEF MonitorExpires, Outcomes
        <5>2. plan \in Plan /\ plan.mode = db.plans[p].mode /\ plan.order = db.plans[p].order
          BY <3>2, PlanEnded DEF TriggerStates
        <5>3. plan.status = "CANCELLED"
          BY <3>2 DEF EndMonitoring, Plan
        <5>4. QED
          BY <5>1, <5>2, <5>3
      <4>2. CASE MonitorReads
        <5>1. PICK reading \in {"unread", "invalidated", "unmatched", "matched", "confirmed"},
                   gain \in BOOLEAN :
                LET trail == Sync(db, gain)
                    last  == trail[Len(trail)]
                IN db' \in Outcomes(db, Between(trail),
                                    IF PlanAfter(db.plans[p], reading) = db.plans[p] THEN last
                                    ELSE [last EXCEPT !.plans[p] = PlanAfter(db.plans[p], reading)])
          BY <4>2 DEF MonitorReads
        <5> DEFINE plan == PlanAfter(db.plans[p], reading)
                   last == Sync(db, gain)[Len(Sync(db, gain))]
        <5>2. Len(Sync(db, gain)) \in DOMAIN Sync(db, gain)
          BY <1>3, SyncIsSynced DEF IInv
        <5>3. last = db
          BY <1>3, <5>2, NothingToSync
        <5>4. db' = IF plan = db.plans[p] THEN last ELSE [last EXCEPT !.plans[p] = plan]
          BY <1>3, <5>1 DEF Outcomes
        <5>5. plan \in Plan /\ plan.mode = db.plans[p].mode /\ plan.order = db.plans[p].order
          BY <3>2, PlanAfterTyped
        <5>6. plan.status \in {"LOCKED", "CANCELLED"}
          BY <3>1, <3>2 DEF PlanAfter, EndMonitoring, Plan
        <5> HIDE DEF plan, last, p
        <5>7. db' = [db EXCEPT !.plans[p] = plan]
          BY <1>5, <5>3, <5>4
        <5>8. QED
          BY <5>5, <5>6, <5>7
      <4>3. QED
        BY <2>7, <4>1, <4>2
    <3>4. PICK plan \in Plan :
            /\ plan.mode = db.plans[p].mode /\ plan.order = db.plans[p].order
            /\ plan.status \in {"LOCKED", "CANCELLED"}
            /\ db' = [db EXCEPT !.plans[p] = plan]
      BY <3>3
    <3> DEFINE e == [db EXCEPT !.plans[p] = plan]
    <3> HIDE DEF p
    <3>5. Touches(db, e, p) /\ e.plans[p] = plan /\ e.papers = db.papers /\ e.sessions = db.sessions
      BY <1>3, <3>2, <3>4, PlanSaved
    <3> HIDE DEF e
    <3>6. PaperOnly(e)
      BY <1>3, <3>1, <3>2, <3>4, <3>5, LockedRewritten DEF p
    <3>7. QED
      BY <3>4, <3>6 DEF e
  <2>8. CASE AccountChanges \/ UNCHANGED vars
    BY <1>5, <2>8 DEF AccountChanges, vars
  <2>9. QED
    BY <2>1, <2>2, <2>3, <2>4, <2>5, <2>6, <2>7, <2>8 DEF Next
<1>6. QED
  BY <1>3, <1>4, <1>5

\* The stage of an active plan says that it waits or that there is something to
\* manage, if a plan that no longer waits has a trade.
LEMMA StageOfActive ==
  ASSUME NEW d, NEW position, ActivePlan(d, d.mode) # None,
         d.plans[ActivePlan(d, d.mode)].status # "LOCKED" =>
           OpenPaper(d) # None \/ OpenSession(d) # None
  PROVE  LifecycleStage(d, position) \notin {"FLAT", "CANCELLED", "CLOSED"}
<1>1. PendingStage(d.plans[ActivePlan(d, d.mode)].trigger)
        \in {"REANALYSIS_REQUIRED", "ENTRY_READY", "WATCHING"}
  BY DEF PendingStage
<1>2. LifecycleStage(d, position)
        \in {"MANAGING", PendingStage(d.plans[ActivePlan(d, d.mode)].trigger)}
  BY DEF LifecycleStage
<1>3. QED
  BY <1>1, <1>2

\* An entered plan's trade is open: the stage is true of paper trades.
LEMMA PaperStageIsTrue ==
  ASSUME Good(db), PaperOnly(db)
  PROVE  EndedStageIsFree
<1> DEFINE p == ActivePlan(db, db.mode)
<1>1. SUFFICES ASSUME p # None
               PROVE  LifecycleStage(db, account.position) \notin {"FLAT", "CANCELLED", "CLOSED"}
  BY DEF EndedStageIsFree
<1>2. db \in Database /\ db.mode \in Modes
  BY DEF Good, Database
<1>3. p \in DOMAIN db.plans /\ db.plans[p].status \in ActiveStatuses
  BY <1>1, <1>2, ActivePlanIsActive DEF ActivePlans
<1>4. ASSUME db.plans[p].status # "LOCKED"
      PROVE  OpenPaper(db) # None
  <2>1. PICK t \in DOMAIN db.papers : db.papers[t].plan = p
    BY <1>3, <1>4 DEF PaperOnly, ActiveStatuses
  <2>2. DesiredStatus(db.papers[t]) \in {"ENTERED", "PARTIALLY_CLOSED"}
    BY <1>3, <1>4, <2>1 DEF PaperOnly, ActiveStatuses
  <2>3. IsOpen(db.papers[t])
    <3>1. db.papers[t].status \in TradeStatuses
      BY <1>2, Rows DEF PaperTrade
    <3>2. QED
      BY <2>2, <3>1 DEF DesiredStatus, IsOpen, TradeStatuses
  <2>4. \A u \in DOMAIN db.papers : u # None
    BY <1>2, Rows DEF None
  <2>5. QED
    BY <2>3, <2>4, OpenPaperIsOpen
<1>5. QED
  BY <1>1, <1>4, StageOfActive
-----------------------------------------------------------------------------
(***************************************************************************)
(* Trades follow plans, for a user who only plans live trades and changes  *)
(* mode between them.  Inductive: a bound session is on its plan's side    *)
(* and as far along, so that a session that is open has an active plan,    *)
(* the one that syncLiveTradeSessions reads; a plan past LOCKED has a      *)
(* session, so that a new session finds only a locked plan to bind to; and *)
(* a position that changes sides does not match the plan it had.           *)
(***************************************************************************)
\* The plan p is waiting or ended without a trade.
Untraded(d, p) == d.plans[p].status \in {"LOCKED", "CANCELLED"}

LiveOnly(d) ==
  /\ d.papers = <<>>
  /\ \A p \in DOMAIN d.plans : d.plans[p].mode = "LIVE_MANUAL" /\ d.plans[p].trigger = "NONE"
  /\ ActivePlans(d, "LIVE_MANUAL") # {} => d.mode = "LIVE_MANUAL"
  /\ \A s \in DOMAIN d.sessions : d.sessions[s].plan # None =>
       /\ d.sessions[s].plan \in DOMAIN d.plans
       /\ d.plans[d.sessions[s].plan].status = DesiredStatus(d.sessions[s])
       /\ d.plans[d.sessions[s].plan].order.side = d.sessions[s].side
  /\ \A s, r \in DOMAIN d.sessions :
       d.sessions[s].plan = d.sessions[r].plan /\ d.sessions[s].plan # None => s = r
  /\ \A p \in DOMAIN d.plans :
       ~Untraded(d, p) => \E s \in DOMAIN d.sessions : d.sessions[s].plan = p

LiveInv == Settled => LiveOnly(db)

\* A plan with a session is past LOCKED, and its session open exactly if the
\* plan is active.
LEMMA SessionOfPlan ==
  ASSUME NEW d \in Database, LiveOnly(d), NEW s \in DOMAIN d.sessions, d.sessions[s].plan # None
  PROVE  /\ ~Untraded(d, d.sessions[s].plan)
         /\ IsOpen(d.sessions[s]) <=> d.plans[d.sessions[s].plan].status \in ActiveStatuses
<1>1. d.sessions[s].status \in TradeStatuses
  BY Rows DEF LiveSession
<1>2. d.plans[d.sessions[s].plan].status = DesiredStatus(d.sessions[s])
  BY DEF LiveOnly
<1>3. QED
  BY <1>1, <1>2 DEF DesiredStatus, TradeStatuses, IsOpen, ActiveStatuses, Untraded

\* An open session that is bound is bound to the plan that is read.
LEMMA OpenIsOfActive ==
  ASSUME NEW d, Good(d), LiveOnly(d), NEW s \in DOMAIN d.sessions, IsOpen(d.sessions[s]),
         d.sessions[s].plan # None
  PROVE  /\ d.mode = "LIVE_MANUAL" /\ d.sessions[s].plan = ActivePlan(d, d.mode)
         /\ ActivePlan(d, d.mode) \in ActivePlans(d, d.mode)
<1> DEFINE q == d.sessions[s].plan
<1>1. d \in Database /\ "LIVE_MANUAL" \in Modes
  BY DEF Good, Modes
<1>2. q \in DOMAIN d.plans /\ d.plans[q].status \in ActiveStatuses
  BY <1>1, SessionOfPlan DEF LiveOnly
<1>3. q \in ActivePlans(d, "LIVE_MANUAL")
  BY <1>2 DEF LiveOnly, ActivePlans
<1>4. d.mode = "LIVE_MANUAL"
  BY <1>3 DEF LiveOnly
<1>5. ActivePlan(d, d.mode) \in ActivePlans(d, d.mode)
  BY <1>1, <1>3, <1>4, ActivePlanIsActive
<1> HIDE DEF q
<1>6. q = ActivePlan(d, d.mode)
  BY <1>1, <1>3, <1>4, <1>5 DEF Good, OneActive
<1>7. QED
  BY <1>4, <1>5, <1>6 DEF q

\* syncBoundPlanStatus brings the plan in line with its session, if it was read
\* as it is.
LEMMA BindFollows ==
  ASSUME NEW d \in Database, NEW p, NEW plan, NEW s \in DOMAIN d.sessions,
         p = None \/ p \in DOMAIN d.plans,
         p # None /\ d.sessions[s].plan = p => d.plans[p] = plan
  PROVE  LET e == BindPlan(d, p, plan, s)
         IN /\ e.papers = d.papers /\ e.sessions = d.sessions
            /\ p # None /\ d.sessions[s].plan = p =>
                 /\ Touches(d, e, p) /\ e.plans[p].trigger = d.plans[p].trigger
                 /\ e.plans[p].status = DesiredStatus(d.sessions[s])
            /\ ~(p # None /\ d.sessions[s].plan = p) => e = d
<1> DEFINE e      == BindPlan(d, p, plan, s)
           status == DesiredStatus(d.sessions[s])
<1>1. d.sessions[s].status \in TradeStatuses
  BY Rows DEF LiveSession
<1>2. status \in PlanStatuses
  BY <1>1 DEF DesiredStatus, TradeStatuses, PlanStatuses
<1>3. CASE p # None /\ d.sessions[s].plan = p /\ plan.status # status
  <2>1. e = SetPlan(d, p, status) /\ p \in DOMAIN d.plans
    BY <1>3 DEF BindPlan
  <2> HIDE DEF e, status
  <2>2. QED
    BY <1>2, <1>3, <2>1, StatusSet DEF status, e
<1>4. CASE ~(p # None /\ d.sessions[s].plan = p /\ plan.status # status)
  <2>1. e = d
    BY <1>4 DEF BindPlan
  <2>2. Touches(d, d, p)
    BY PlansUntouched
  <2> HIDE DEF e, status
  <2>3. QED
    BY <1>4, <2>1, <2>2 DEF status, e
<1>5. QED
  BY <1>3, <1>4

\* A session that is written anew, for the same plan and on the same side,
\* with its plan brought in line.
LEMMA SessionRewritten ==
  ASSUME NEW d \in Database, NEW e \in Database, LiveOnly(d), NEW s \in DOMAIN d.sessions,
         NEW row \in LiveSession, row.plan = d.sessions[s].plan, row.side = d.sessions[s].side,
         e.sessions = [d.sessions EXCEPT ![s] = row], e.papers = d.papers, e.mode = d.mode,
         row.plan = None => e.plans = d.plans,
         row.plan # None =>
           /\ d.mode = "LIVE_MANUAL"
           /\ Touches(d, e, row.plan) /\ e.plans[row.plan].trigger = d.plans[row.plan].trigger
           /\ e.plans[row.plan].status = DesiredStatus(row)
  PROVE  LiveOnly(e)
<1> DEFINE p == row.plan
<1>1. /\ DOMAIN e.sessions = DOMAIN d.sessions
      /\ e.sessions[s] = row
      /\ \A r \in DOMAIN d.sessions : r # s => e.sessions[r] = d.sessions[r]
      /\ \A r \in DOMAIN d.sessions : e.sessions[r].plan = d.sessions[r].plan
  OBVIOUS
<1>2. DOMAIN e.plans = DOMAIN d.plans
  <2>1. Len(e.plans) = Len(d.plans)
    BY DEF Touches
  <2>2. QED
    BY <2>1, Rows
<1>3. \A q \in DOMAIN d.plans :
        /\ e.plans[q].mode = d.plans[q].mode /\ e.plans[q].order = d.plans[q].order
        /\ e.plans[q].trigger = d.plans[q].trigger
        /\ q # p => e.plans[q] = d.plans[q]
  <2>1. CASE p = None
    BY <2>1
  <2>2. CASE p # None
    BY <2>2 DEF Touches
  <2>3. QED
    BY <2>1, <2>2
<1>4. p # None => p \in DOMAIN d.plans /\ d.plans[p].order.side = row.side
  BY DEF LiveOnly
<1>5. \A r \in DOMAIN d.sessions : r # s /\ p # None => d.sessions[r].plan # p
  BY DEF LiveOnly
<1> HIDE DEF p
<1>6. \A q \in DOMAIN e.plans : e.plans[q].mode = "LIVE_MANUAL" /\ e.plans[q].trigger = "NONE"
  BY <1>2, <1>3 DEF LiveOnly
<1>7. ActivePlans(e, "LIVE_MANUAL") # {} => e.mode = "LIVE_MANUAL"
  <2>1. CASE p # None
    BY <2>1 DEF p
  <2>2. CASE p = None
    <3>1. ActivePlans(e, "LIVE_MANUAL") = ActivePlans(d, "LIVE_MANUAL")
      BY <2>2 DEF ActivePlans, p
    <3>2. QED
      BY <3>1 DEF LiveOnly
  <2>3. QED
    BY <2>1, <2>2
<1>8. ASSUME NEW r \in DOMAIN e.sessions, e.sessions[r].plan # None
      PROVE  /\ e.sessions[r].plan \in DOMAIN e.plans
             /\ e.plans[e.sessions[r].plan].status = DesiredStatus(e.sessions[r])
             /\ e.plans[e.sessions[r].plan].order.side = e.sessions[r].side
  <2>1. CASE r = s
    <3>1. e.sessions[r] = row /\ p # None
      BY <1>1, <1>8, <2>1 DEF p
    <3>2. QED
      BY <1>2, <1>3, <1>4, <3>1 DEF p
  <2>2. CASE r # s
    <3>1. e.sessions[r] = d.sessions[r] /\ r \in DOMAIN d.sessions
      BY <1>1, <2>2
    <3>2. d.sessions[r].plan # p \/ p = None
      BY <1>5, <2>2, <3>1
    <3>3. /\ d.sessions[r].plan \in DOMAIN d.plans
          /\ d.plans[d.sessions[r].plan].status = DesiredStatus(d.sessions[r])
          /\ d.plans[d.sessions[r].plan].order.side = d.sessions[r].side
      BY <1>8, <3>1 DEF LiveOnly
    <3>4. e.plans[d.sessions[r].plan] = d.plans[d.sessions[r].plan]
      BY <1>3, <1>8, <3>1, <3>2, <3>3
    <3>5. QED
      BY <1>2, <3>1, <3>3, <3>4
  <2>3. QED
    BY <2>1, <2>2
<1>9. \A r, u \in DOMAIN e.sessions :
        e.sessions[r].plan = e.sessions[u].plan /\ e.sessions[r].plan # None => r = u
  BY <1>1 DEF LiveOnly
<1>10. \A q \in DOMAIN e.plans :
         ~Untraded(e, q) => \E r \in DOMAIN e.sessions : e.sessions[r].plan = q
  <2>1. SUFFICES ASSUME NEW q \in DOMAIN e.plans, ~Untraded(e, q)
                 PROVE  \E r \in DOMAIN e.sessions : e.sessions[r].plan = q
    OBVIOUS
  <2>2. CASE q = p
    BY <1>1, <2>2 DEF p
  <2>3. CASE q # p
    <3>1. ~Untraded(d, q) /\ q \in DOMAIN d.plans
      BY <1>2, <1>3, <2>1, <2>3 DEF Untraded
    <3>2. PICK r \in DOMAIN d.sessions : d.sessions[r].plan = q
      BY <3>1 DEF LiveOnly
    <3>3. QED
      BY <1>1, <3>2
  <2>4. QED
    BY <2>2, <2>3
<1>11. QED
  BY <1>6, <1>7, <1>8, <1>9, <1>10 DEF LiveOnly

\* A session that is added, for no plan or for a plan that has none yet, with
\* its plan brought in line.
LEMMA SessionAdded ==
  ASSUME NEW d \in Database, NEW e \in Database, LiveOnly(d),
         NEW row \in LiveSession,
         e.sessions = Append(d.sessions, row), e.papers = d.papers, e.mode = d.mode,
         row.plan = None => e.plans = d.plans,
         row.plan # None =>
           /\ d.mode = "LIVE_MANUAL" /\ row.plan \in DOMAIN d.plans
           /\ \A s \in DOMAIN d.sessions : d.sessions[s].plan # row.plan
           /\ d.plans[row.plan].order.side = row.side
           /\ Touches(d, e, row.plan) /\ e.plans[row.plan].trigger = d.plans[row.plan].trigger
           /\ e.plans[row.plan].status = DesiredStatus(row)
  PROVE  LiveOnly(e)
<1> DEFINE p   == row.plan
           new == Len(d.sessions) + 1
<1>1. /\ DOMAIN d.sessions = 1 .. Len(d.sessions) /\ Len(d.sessions) \in Nat
      /\ DOMAIN e.sessions = 1 .. new /\ e.sessions[new] = row
      /\ \A s \in DOMAIN d.sessions : e.sessions[s] = d.sessions[s]
  <2>1. d.sessions \in Seq(LiveSession)
    BY DEF Database
  <2>2. QED
    BY <2>1
<1>2. /\ \A s \in DOMAIN e.sessions : s \in DOMAIN d.sessions \/ s = new
      /\ \A s \in DOMAIN d.sessions : s \in DOMAIN e.sessions
      /\ new \in DOMAIN e.sessions
  BY <1>1
<1>3. DOMAIN e.plans = DOMAIN d.plans
  <2>1. Len(e.plans) = Len(d.plans)
    BY DEF Touches
  <2>2. QED
    BY <2>1, Rows
<1>4. \A q \in DOMAIN d.plans :
        /\ e.plans[q].mode = d.plans[q].mode /\ e.plans[q].order = d.plans[q].order
        /\ e.plans[q].trigger = d.plans[q].trigger
        /\ q # p => e.plans[q] = d.plans[q]
  <2>1. CASE p = None
    BY <2>1
  <2>2. CASE p # None
    BY <2>2 DEF Touches
  <2>3. QED
    BY <2>1, <2>2
<1> HIDE DEF p, new
<1>5. \A q \in DOMAIN e.plans : e.plans[q].mode = "LIVE_MANUAL" /\ e.plans[q].trigger = "NONE"
  BY <1>3, <1>4 DEF LiveOnly
<1>6. ActivePlans(e, "LIVE_MANUAL") # {} => e.mode = "LIVE_MANUAL"
  <2>1. CASE p # None
    BY <2>1 DEF p
  <2>2. CASE p = None
    <3>1. ActivePlans(e, "LIVE_MANUAL") = ActivePlans(d, "LIVE_MANUAL")
      BY <2>2 DEF ActivePlans, p
    <3>2. QED
      BY <3>1 DEF LiveOnly
  <2>3. QED
    BY <2>1, <2>2
<1>7. ASSUME NEW s \in DOMAIN e.sessions, e.sessions[s].plan # None
      PROVE  /\ e.sessions[s].plan \in DOMAIN e.plans
             /\ e.plans[e.sessions[s].plan].status = DesiredStatus(e.sessions[s])
             /\ e.plans[e.sessions[s].plan].order.side = e.sessions[s].side
  <2>1. CASE s = new
    <3>1. e.sessions[s] = row /\ p # None
      BY <1>1, <1>7, <2>1 DEF p
    <3>2. QED
      BY <1>3, <1>4, <3>1 DEF p
  <2>2. CASE s # new
    <3>1. s \in DOMAIN d.sessions /\ e.sessions[s] = d.sessions[s]
      BY <1>1, <1>2, <2>2
    <3>2. d.sessions[s].plan # p
      BY <1>7, <3>1 DEF p
    <3>3. /\ d.sessions[s].plan \in DOMAIN d.plans
          /\ d.plans[d.sessions[s].plan].status = DesiredStatus(d.sessions[s])
          /\ d.plans[d.sessions[s].plan].order.side = d.sessions[s].side
      BY <1>7, <3>1 DEF LiveOnly
    <3>4. e.plans[d.sessions[s].plan] = d.plans[d.sessions[s].plan]
      BY <1>4, <3>2, <3>3
    <3>5. QED
      BY <1>3, <3>1, <3>3, <3>4
  <2>3. QED
    BY <2>1, <2>2
<1>8. \A s, r \in DOMAIN e.sessions :
        e.sessions[s].plan = e.sessions[r].plan /\ e.sessions[s].plan # None => s = r
  <2>1. \A s \in DOMAIN d.sessions : p # None => d.sessions[s].plan # p
    BY DEF p
  <2>2. QED
    BY <1>1, <1>2, <2>1 DEF LiveOnly, p
<1>9. \A q \in DOMAIN e.plans :
        ~Untraded(e, q) => \E s \in DOMAIN e.sessions : e.sessions[s].plan = q
  <2>1. SUFFICES ASSUME NEW q \in DOMAIN e.plans, ~Untraded(e, q)
                 PROVE  \E s \in DOMAIN e.sessions : e.sessions[s].plan = q
    OBVIOUS
  <2>2. CASE q = p
    BY <1>1, <1>2, <2>2 DEF p
  <2>3. CASE q # p
    <3>1. ~Untraded(d, q) /\ q \in DOMAIN d.plans
      BY <1>3, <1>4, <2>1, <2>3 DEF Untraded
    <3>2. PICK s \in DOMAIN d.sessions : d.sessions[s].plan = q
      BY <3>1 DEF LiveOnly
    <3>3. QED
      BY <1>1, <1>2, <3>2
  <2>4. QED
    BY <2>2, <2>3
<1>10. QED
  BY <1>5, <1>6, <1>7, <1>8, <1>9 DEF LiveOnly

\* A plan that a new session could be bound to has no session.
LEMMA ActiveIsUntraded ==
  ASSUME NEW d, Good(d), LiveOnly(d), NEW p, p \in ActivePlans(d, d.mode),
         \A s \in DOMAIN d.sessions : IsOpen(d.sessions[s]) => d.sessions[s].plan # p
  PROVE  \A s \in DOMAIN d.sessions : d.sessions[s].plan # p
<1>1. SUFFICES ASSUME NEW s \in DOMAIN d.sessions, d.sessions[s].plan = p
               PROVE  FALSE
  OBVIOUS
<1>2. d \in Database /\ p \in DOMAIN d.plans /\ d.plans[p].status \in ActiveStatuses
  BY DEF Good, ActivePlans
<1>3. p # None
  BY <1>2, Rows DEF None
<1>4. IsOpen(d.sessions[s])
  BY <1>1, <1>2, <1>3, SessionOfPlan
<1>5. QED
  BY <1>1, <1>4

\* The first half of a synchronization: the session that has ended is closed,
\* with its plan.
LEMMA EndedIsFreed ==
  ASSUME NEW d, Good(d), LiveOnly(d), NEW s \in DOMAIN d.sessions, IsOpen(d.sessions[s])
  PROVE  LET p      == ActivePlan(d, d.mode)
             closed == CloseSession(d, s)
             freed  == BindPlan(closed, p, d.plans[p], s)
         IN /\ freed \in Database /\ LiveOnly(freed) /\ freed.mode = d.mode
            /\ \A r \in DOMAIN freed.sessions : ~IsOpen(freed.sessions[r])
            /\ DOMAIN freed.sessions = DOMAIN d.sessions
            /\ \A r \in DOMAIN d.sessions : freed.sessions[r].plan = d.sessions[r].plan
            /\ DOMAIN freed.plans = DOMAIN d.plans
            /\ ~(p # None /\ d.sessions[s].plan = p) => freed.plans = d.plans
<1> DEFINE p      == ActivePlan(d, d.mode)
           closed == CloseSession(d, s)
           freed  == BindPlan(closed, p, d.plans[p], s)
           row    == [d.sessions[s] EXCEPT !.status = "CLOSED"]
<1>1. d \in Database /\ d.mode \in Modes /\ OneSession(d)
  BY DEF Good, Database
<1>2. p = None \/ p \in DOMAIN d.plans
  BY <1>1, ActivePlanIsActive DEF ActivePlans
<1>3. d.sessions[s].plan # None => d.mode = "LIVE_MANUAL" /\ d.sessions[s].plan = p
  BY OpenIsOfActive
<1>4. /\ closed \in Database
      /\ closed.mode = d.mode /\ closed.plans = d.plans
      /\ closed.papers = d.papers /\ s \in DOMAIN closed.sessions
      /\ \A r \in DOMAIN closed.sessions : ~IsOpen(closed.sessions[r])
  BY <1>1, SessionClosed
<1>5. /\ row \in LiveSession /\ row.plan = d.sessions[s].plan /\ row.side = d.sessions[s].side
      /\ row.status = "CLOSED"
  <2>1. d.sessions[s] \in LiveSession
    BY <1>1, Rows
  <2>2. QED
    BY <2>1 DEF LiveSession, TradeStatuses
<1>6. closed.sessions = [d.sessions EXCEPT ![s] = row]
  BY <1>1 DEF CloseSession, Database
<1>7. closed.sessions[s] = row
  BY <1>6
<1> HIDE DEF p, closed, row
<1>8. /\ freed.papers = closed.papers /\ freed.sessions = closed.sessions
      /\ p # None /\ row.plan = p =>
           /\ Touches(closed, freed, p) /\ freed.plans[p].trigger = closed.plans[p].trigger
           /\ freed.plans[p].status = DesiredStatus(row)
      /\ ~(p # None /\ row.plan = p) => freed = closed
  BY <1>2, <1>4, <1>7, BindFollows
<1> HIDE DEF freed
<1>9. /\ freed \in Database /\ freed.mode = d.mode
      /\ ~(p # None /\ row.plan = p) => freed.plans = d.plans
      /\ DOMAIN freed.plans = DOMAIN d.plans
  <2>1. CASE p # None /\ row.plan = p
    BY <1>1, <1>4, <1>8, <2>1, Rows DEF Touches
  <2>2. CASE ~(p # None /\ row.plan = p)
    BY <1>4, <1>8, <2>2
  <2>3. QED
    BY <2>1, <2>2
<1>10. LiveOnly(freed)
  <2>1. row.plan = None => freed.plans = d.plans
    BY <1>9
  <2>2. row.plan # None =>
          /\ d.mode = "LIVE_MANUAL" /\ row.plan = p
          /\ Touches(d, freed, row.plan) /\ freed.plans[row.plan].trigger = d.plans[row.plan].trigger
          /\ freed.plans[row.plan].status = DesiredStatus(row)
    BY <1>3, <1>4, <1>5, <1>8 DEF Touches
  <2>3. QED
    BY <1>1, <1>4, <1>5, <1>6, <1>8, <1>9, <2>1, <2>2, SessionRewritten
<1>11. /\ DOMAIN freed.sessions = DOMAIN d.sessions
       /\ \A r \in DOMAIN d.sessions : freed.sessions[r].plan = d.sessions[r].plan
  BY <1>5, <1>6, <1>8
<1>12. QED
  BY <1>4, <1>5, <1>8, <1>9, <1>10, <1>11 DEF freed, closed, p

\* The second half, when no session is open: a new one is saved, for the plan
\* that was read if it is what the position is of, and binds it.
LEMMA NewIsBound ==
  ASSUME NEW d \in Database, LiveOnly(d), NEW p, p = None \/ p \in ActivePlans(d, d.mode),
         NEW plan, NEW session \in LiveSession, session.plan \in {None, p},
         session.plan # None =>
           /\ d.plans[p] = plan /\ plan.order.side = session.side
           /\ \A s \in DOMAIN d.sessions : d.sessions[s].plan # p
  PROVE  LET saved == SaveSession(d, None, session)
         IN LiveOnly(BindPlan(saved, p, plan, Len(saved.sessions)))
<1> DEFINE saved == SaveSession(d, None, session)
           bound == BindPlan(saved, p, plan, Len(saved.sessions))
           kept  == Append(d.sessions, session)
<1>1. /\ kept \in Seq(LiveSession) /\ Len(kept) \in DOMAIN kept
      /\ kept[Len(kept)] = session
  <2>1. d.sessions \in Seq(LiveSession)
    BY DEF Database
  <2>2. QED
    BY <2>1
<1>2. saved = [d EXCEPT !.sessions = kept]
  BY DEF SaveSession
<1> HIDE DEF saved, kept
<1>3. /\ saved \in Database /\ saved.sessions = kept /\ saved.plans = d.plans
      /\ saved.papers = d.papers /\ saved.mode = d.mode
  BY <1>1, <1>2 DEF Database
<1>4. p = None \/ p \in DOMAIN saved.plans
  BY <1>3 DEF ActivePlans
<1>5. /\ Len(saved.sessions) \in DOMAIN saved.sessions
      /\ saved.sessions[Len(saved.sessions)] = session
  BY <1>1, <1>3
<1>6. /\ bound.papers = saved.papers /\ bound.sessions = saved.sessions
      /\ p # None /\ session.plan = p =>
           /\ Touches(saved, bound, p) /\ bound.plans[p].trigger = saved.plans[p].trigger
           /\ bound.plans[p].status = DesiredStatus(session)
      /\ ~(p # None /\ session.plan = p) => bound = saved
  BY <1>3, <1>4, <1>5, BindFollows
<1> HIDE DEF bound
<1>7. /\ bound \in Database /\ bound.papers = d.papers /\ bound.mode = d.mode
      /\ bound.sessions = Append(d.sessions, session)
  BY <1>3, <1>6 DEF Touches, kept
<1>8. session.plan = None => bound.plans = d.plans
  BY <1>3, <1>6
<1>9. session.plan # None =>
        /\ session.plan = p
        /\ d.mode = "LIVE_MANUAL" /\ session.plan \in DOMAIN d.plans
        /\ \A s \in DOMAIN d.sessions : d.sessions[s].plan # session.plan
        /\ d.plans[session.plan].order.side = session.side
        /\ Touches(d, bound, session.plan)
        /\ bound.plans[session.plan].trigger = d.plans[session.plan].trigger
        /\ bound.plans[session.plan].status = DesiredStatus(session)
  <2>1. SUFFICES ASSUME session.plan # None
                 PROVE  /\ session.plan = p
                        /\ d.mode = "LIVE_MANUAL" /\ session.plan \in DOMAIN d.plans
                        /\ \A s \in DOMAIN d.sessions : d.sessions[s].plan # session.plan
                        /\ d.plans[session.plan].order.side = session.side
                        /\ Touches(d, bound, session.plan)
                        /\ bound.plans[session.plan].trigger = d.plans[session.plan].trigger
                        /\ bound.plans[session.plan].status = DesiredStatus(session)
    OBVIOUS
  <2>2. session.plan = p /\ p # None /\ p \in ActivePlans(d, d.mode)
    BY <2>1
  <2>3. d.mode = "LIVE_MANUAL" /\ p \in DOMAIN d.plans
    BY <2>2 DEF ActivePlans, LiveOnly
  <2>4. Touches(d, bound, p)
    BY <1>3, <1>6, <2>2 DEF Touches
  <2>5. QED
    BY <1>3, <1>6, <2>1, <2>2, <2>3, <2>4
<1>10. LiveOnly(bound)
  BY <1>7, <1>8, <1>9, SessionAdded
<1>11. QED
  BY <1>10 DEF bound, saved

\* The second half, when a session stays open: it is saved and its plan brought
\* in line.
LEMMA OpenIsRebound ==
  ASSUME NEW d, Good(d), LiveOnly(d), NEW s \in DOMAIN d.sessions, IsOpen(d.sessions[s]), s # None,
         NEW session \in LiveSession, session.plan = d.sessions[s].plan,
         session.side = d.sessions[s].side
  PROVE  LET p == ActivePlan(d, d.mode)
         IN LiveOnly(BindPlan(SaveSession(d, s, session), p, d.plans[p], s))
<1> DEFINE p     == ActivePlan(d, d.mode)
           saved == SaveSession(d, s, session)
           bound == BindPlan(saved, p, d.plans[p], s)
           kept     == [d.sessions EXCEPT ![s] = session]
<1>1. d \in Database /\ d.mode \in Modes
  BY DEF Good, Database
<1>2. kept \in Seq(LiveSession) /\ s \in DOMAIN kept /\ kept[s] = session
  <2>1. d.sessions \in Seq(LiveSession) /\ s \in 1 .. Len(d.sessions)
    BY <1>1, Rows DEF Database
  <2>2. QED
    BY <2>1, ExceptSeq
<1>3. saved = [d EXCEPT !.sessions = kept]
  BY DEF SaveSession
<1>4. p = None \/ p \in DOMAIN d.plans
  BY <1>1, ActivePlanIsActive DEF ActivePlans
<1>5. session.plan # None => d.mode = "LIVE_MANUAL" /\ session.plan = p
  BY OpenIsOfActive
<1> HIDE DEF p, saved, kept
<1>6. /\ saved \in Database /\ saved.sessions = kept /\ saved.plans = d.plans
      /\ saved.papers = d.papers /\ saved.mode = d.mode
  BY <1>1, <1>2, <1>3 DEF Database
<1>7. s \in DOMAIN saved.sessions /\ saved.sessions[s] = session
  BY <1>2, <1>6
<1>8. /\ bound.papers = saved.papers /\ bound.sessions = saved.sessions
      /\ p # None /\ session.plan = p =>
           /\ Touches(saved, bound, p) /\ bound.plans[p].trigger = saved.plans[p].trigger
           /\ bound.plans[p].status = DesiredStatus(session)
      /\ ~(p # None /\ session.plan = p) => bound = saved
  BY <1>4, <1>6, <1>7, BindFollows
<1> HIDE DEF bound
<1>9. /\ bound \in Database /\ bound.papers = d.papers /\ bound.mode = d.mode
      /\ bound.sessions = [d.sessions EXCEPT ![s] = session]
  BY <1>6, <1>8 DEF Touches, kept
<1>10. session.plan = None => bound.plans = d.plans
  BY <1>6, <1>8
<1>11. session.plan # None =>
        /\ d.mode = "LIVE_MANUAL"
        /\ Touches(d, bound, session.plan)
        /\ bound.plans[session.plan].trigger = d.plans[session.plan].trigger
        /\ bound.plans[session.plan].status = DesiredStatus(session)
  <2>1. session.plan # None => Touches(d, bound, session.plan)
    BY <1>5, <1>6, <1>8 DEF Touches
  <2>2. QED
    BY <1>5, <1>6, <1>8, <2>1
<1>12. LiveOnly(bound)
  BY <1>1, <1>9, <1>10, <1>11, SessionRewritten
<1>13. QED
  BY <1>12 DEF bound, saved, p

\* A synchronization that is not cut short keeps sessions and plans in line.
LEMMA LiveSynced ==
  ASSUME NEW d, Good(d), LiveOnly(d), NEW position \in Positions \cup {NoPosition}, NEW gain \in BOOLEAN
  PROVE  LET trail == SyncTrail(d, position, gain)
         IN LiveOnly(trail[Len(trail)])
<1> DEFINE p       == ActivePlan(d, d.mode)
           plan    == d.plans[p]
           s       == OpenSession(d)
           ends    == s # None /\ (position = NoPosition \/ Flips(d, s, position))
           closed  == IF ends THEN CloseSession(d, s) ELSE d
           freed   == IF ends THEN BindPlan(closed, p, plan, s) ELSE d
           row     == IF ends THEN None ELSE s
           session == ObservedSession(freed, row, p, plan, position, gain)
           saved   == SaveSession(freed, row, session)
           last    == IF row = None THEN Len(saved.sessions) ELSE row
           bound   == BindPlan(saved, p, plan, last)
           trail   == SyncTrail(d, position, gain)
<1>1. trail[Len(trail)] = IF position = NoPosition THEN freed ELSE bound
  BY DEF SyncTrail
<1>2. d \in Database /\ d.mode \in Modes
  BY DEF Good, Database
<1>3. p = None \/ p \in ActivePlans(d, d.mode)
  BY <1>2, ActivePlanIsActive
<1>4. \/ s = None /\ \A r \in DOMAIN d.sessions : ~IsOpen(d.sessions[r])
      \/ s \in DOMAIN d.sessions /\ IsOpen(d.sessions[s])
  BY OpenSessionIsOpen
<1>5. \A r \in DOMAIN d.sessions : r # None /\ (IsOpen(d.sessions[r]) => r = s)
  BY <1>2, <1>4, Rows DEF Good, OneSession, None
<1>6. /\ freed \in Database /\ LiveOnly(freed) /\ freed.mode = d.mode
      /\ row # None => freed = d
      /\ row = None /\ position # NoPosition /\ p # None /\ plan.order = position =>
           /\ freed.plans = d.plans
           /\ \A r \in DOMAIN freed.sessions : freed.sessions[r].plan # p
  <2>1. CASE ends
    <3> HIDE DEF p, s
    <3>1. s \in DOMAIN d.sessions /\ IsOpen(d.sessions[s]) /\ row = None
      BY <1>4, <2>1
    <3>2. freed = BindPlan(CloseSession(d, s), p, d.plans[p], s)
      BY <2>1
    <3> HIDE DEF freed, row
    <3>3. /\ freed \in Database /\ LiveOnly(freed) /\ freed.mode = d.mode
          /\ DOMAIN freed.sessions = DOMAIN d.sessions
          /\ \A r \in DOMAIN d.sessions : freed.sessions[r].plan = d.sessions[r].plan
          /\ ~(p # None /\ d.sessions[s].plan = p) => freed.plans = d.plans
      BY <3>1, <3>2, EndedIsFreed DEF p
    <3>4. ASSUME position # NoPosition, p # None, plan.order = position
          PROVE  \A r \in DOMAIN d.sessions : d.sessions[r].plan # p
      <4>1. d.sessions[s].side # position.side
        BY <2>1, <3>4 DEF Flips
      <4>2. d.sessions[s].plan # p
        BY <3>1, <3>4, <4>1 DEF LiveOnly
      <4>3. QED
        BY <1>3, <1>5, <3>4, <4>2, ActiveIsUntraded
    <3>5. QED
      BY <3>1, <3>3, <3>4
  <2>2. CASE ~ends
    <3>1. freed = d /\ row = s
      BY <2>2
    <3> HIDE DEF p, s, freed, row
    <3>2. ASSUME s = None, p # None
          PROVE  \A r \in DOMAIN d.sessions : d.sessions[r].plan # p
      BY <1>3, <1>4, <1>5, <3>2, ActiveIsUntraded
    <3>3. QED
      BY <1>2, <3>1, <3>2
  <2>3. QED
    BY <2>1, <2>2
<1>7. row # None => row = s /\ s \in DOMAIN d.sessions /\ IsOpen(d.sessions[s])
  BY <1>4
<1>8. row # None /\ position # NoPosition => d.sessions[row].side = position.side
  BY DEF Flips
<1>9. p \in Nat
  BY <1>2, <1>3, Rows DEF None, ActivePlans
<1> HIDE DEF p, freed, row, plan, trail
<1>10. CASE position = NoPosition
  BY <1>1, <1>6, <1>10 DEF trail
<1>11. CASE position # NoPosition
  <2>1. session \in LiveSession
    <3>1. row = None \/ row \in DOMAIN freed.sessions
      BY <1>6, <1>7
    <3>2. position \in Positions
      BY <1>11
    <3>3. QED
      BY <1>6, <1>9, <3>1, <3>2, SessionObserved
  <2>2. session.side = position.side
    BY DEF ObservedSession
  <2>3. session.plan = IF row # None THEN freed.sessions[row].plan
                       ELSE IF p # None /\ plan.order = position THEN p ELSE None
    BY DEF ObservedSession
  <2> HIDE DEF session
  <2>4. CASE row = None
    <3>1. session.plan \in {None, p}
      BY <2>3, <2>4
    <3>2. session.plan # None => p # None /\ plan.order = position
      BY <2>3, <2>4
    <3>3. p = None \/ p \in ActivePlans(freed, freed.mode) \/ session.plan = None
      BY <1>3, <1>6, <1>11, <2>4, <3>2 DEF ActivePlans
    <3>4. bound = BindPlan(SaveSession(freed, None, session), p, plan,
                           Len(SaveSession(freed, None, session).sessions))
      BY <2>4
    <3> HIDE DEF bound
    <3>5. CASE session.plan # None
      <4>1. /\ freed.plans[p] = plan /\ plan.order.side = session.side
            /\ \A r \in DOMAIN freed.sessions : freed.sessions[r].plan # p
        BY <1>6, <1>11, <2>2, <2>4, <3>2, <3>5 DEF plan
      <4>2. QED
        BY <1>1, <1>6, <1>11, <2>1, <3>1, <3>3, <3>4, <3>5, <4>1, NewIsBound DEF trail
    <3>6. CASE session.plan = None
      <4>1. LiveOnly(BindPlan(SaveSession(freed, None, session), None, plan,
                              Len(SaveSession(freed, None, session).sessions)))
        BY <1>6, <2>1, <3>6, NewIsBound
      <4>2. saved.sessions[Len(saved.sessions)] = session
        <5>1. saved.sessions = Append(freed.sessions, session)
          BY <1>6, <2>4 DEF SaveSession, Database
        <5>2. freed.sessions \in Seq(LiveSession)
          BY <1>6 DEF Database
        <5>3. QED
          BY <2>1, <5>1, <5>2
      <4>3. saved = SaveSession(freed, None, session)
        BY <2>4
      <4> HIDE DEF saved
      <4>4. BindPlan(saved, p, plan, Len(saved.sessions)) = BindPlan(saved, None, plan, Len(saved.sessions))
        BY <3>6, <4>2 DEF BindPlan
      <4>5. QED
        BY <1>1, <1>11, <3>4, <4>1, <4>3, <4>4 DEF trail
    <3>7. QED
      BY <3>5, <3>6
  <2>5. CASE row # None
    <3>1. freed = d /\ row = s /\ s \in DOMAIN d.sessions /\ IsOpen(d.sessions[s])
      BY <1>6, <1>7, <2>5
    <3>2. bound = BindPlan(SaveSession(d, s, session), p, d.plans[p], s)
      BY <2>5, <3>1 DEF plan
    <3> HIDE DEF s, bound
    <3>3. session.plan = d.sessions[s].plan /\ session.side = d.sessions[s].side
      BY <1>8, <1>11, <2>2, <2>3, <2>5, <3>1
    <3>4. LiveOnly(bound)
      BY <2>1, <2>5, <3>1, <3>2, <3>3, OpenIsRebound DEF p
    <3>5. QED
      BY <1>1, <1>11, <3>4 DEF trail
  <2>6. QED
    BY <2>4, <2>5
<1>12. QED
  BY <1>10, <1>11

\* Locking a plan: the pending one has no session.
LEMMA LivePlanned ==
  ASSUME NEW d \in Database, NEW e, LiveOnly(d), NEW p, NEW cancelled \in Database,
         d.mode = "LIVE_MANUAL", e.mode = d.mode,
         p # None => p \in DOMAIN d.plans /\ d.plans[p].status = "LOCKED",
         p = None => p \notin DOMAIN d.plans,
         Touches(d, cancelled, p),
         p # None => /\ cancelled.plans[p].status = "CANCELLED"
                     /\ d.plans[p].trigger = "NONE" => cancelled.plans[p].trigger = "NONE",
         NEW plan \in Plan,
         plan.mode = d.mode, plan.status = "LOCKED", plan.trigger = "NONE",
         e.plans = Append(cancelled.plans, plan), e.papers = d.papers, e.sessions = d.sessions
  PROVE  LiveOnly(e)
<1> DEFINE new == Len(cancelled.plans) + 1
<1>1. cancelled.plans \in Seq(Plan)
  BY DEF Database
<1>2. /\ DOMAIN e.plans = 1 .. new /\ DOMAIN cancelled.plans = 1 .. Len(cancelled.plans)
      /\ Len(cancelled.plans) \in Nat /\ e.plans[new] = plan
      /\ \A q \in DOMAIN cancelled.plans : e.plans[q] = cancelled.plans[q]
  BY <1>1
<1>3. DOMAIN cancelled.plans = DOMAIN d.plans
  BY <1>2, Rows DEF Touches
<1>4. /\ \A q \in DOMAIN e.plans : q \in DOMAIN d.plans \/ q = new
      /\ \A q \in DOMAIN d.plans : q \in DOMAIN e.plans
  BY <1>2, <1>3
<1> HIDE DEF new
<1>5. \A q \in DOMAIN d.plans :
        /\ e.plans[q].mode = "LIVE_MANUAL" /\ e.plans[q].order = d.plans[q].order
        /\ e.plans[q].trigger = "NONE"
        /\ q # p => e.plans[q] = d.plans[q]
  BY <1>2, <1>3 DEF Touches, LiveOnly
<1>6. \A q \in DOMAIN e.plans : e.plans[q].mode = "LIVE_MANUAL" /\ e.plans[q].trigger = "NONE"
  BY <1>2, <1>4, <1>5
<1>7. ASSUME NEW s \in DOMAIN d.sessions, d.sessions[s].plan # None
      PROVE  /\ d.sessions[s].plan \in DOMAIN d.plans
             /\ e.plans[d.sessions[s].plan] = d.plans[d.sessions[s].plan]
  <2>1. d.sessions[s].plan \in DOMAIN d.plans
    BY <1>7 DEF LiveOnly
  <2>2. ~Untraded(d, d.sessions[s].plan)
    BY <1>7, SessionOfPlan
  <2>3. d.sessions[s].plan # p
    BY <2>1, <2>2 DEF Untraded
  <2>4. QED
    BY <1>5, <2>1, <2>3
<1>8. \A s \in DOMAIN e.sessions : e.sessions[s].plan # None =>
        /\ e.sessions[s].plan \in DOMAIN e.plans
        /\ e.plans[e.sessions[s].plan].status = DesiredStatus(e.sessions[s])
        /\ e.plans[e.sessions[s].plan].order.side = e.sessions[s].side
  BY <1>4, <1>7 DEF LiveOnly
<1>9. \A q \in DOMAIN e.plans :
        ~Untraded(e, q) => \E s \in DOMAIN e.sessions : e.sessions[s].plan = q
  <2>1. SUFFICES ASSUME NEW q \in DOMAIN e.plans, ~Untraded(e, q)
                 PROVE  \E s \in DOMAIN d.sessions : d.sessions[s].plan = q
    OBVIOUS
  <2>2. q # new
    BY <1>2, <2>1 DEF Untraded
  <2>3. q \in DOMAIN d.plans
    BY <1>4, <2>2
  <2>4. q # p
    BY <1>2, <1>3, <2>1, <2>3 DEF Untraded
  <2>5. ~Untraded(d, q)
    BY <1>5, <2>1, <2>3, <2>4 DEF Untraded
  <2>6. QED
    BY <2>3, <2>5 DEF LiveOnly
<1>10. /\ e.papers = <<>> /\ e.mode = "LIVE_MANUAL"
       /\ \A s, r \in DOMAIN e.sessions :
            e.sessions[s].plan = e.sessions[r].plan /\ e.sessions[s].plan # None => s = r
  BY DEF LiveOnly
<1>11. QED
  BY <1>6, <1>8, <1>9, <1>10 DEF LiveOnly

\* Every step keeps the sessions in line with their plans.
LEMMA LiveKept ==
  ASSUME IInv, LiveInv, [Next]_vars
  PROVE  LiveInv'
<1>1. use' = use
  BY DEF Next, vars, SaveUserSettings, ResetLocalData, LockTradePlan, EnterPaperTrade,
         ClosePaperTrade, GetTradingState, AccountChanges, MonitorExpires, MonitorReads
<1>2. SUFFICES ASSUME Settled
               PROVE  LiveOnly(db')
  BY <1>1 DEF LiveInv, Settled, LiveOnly, ActivePlans, Untraded
<1>3. /\ Good(db) /\ db \in Database /\ db.mode \in Modes /\ account \in Account
      /\ LiveOnly(db)
      /\ ~use.failures /\ ~use.switchAnytime /\ ~use.triggers /\ use.planModes \subseteq {"LIVE_MANUAL"}
  BY <1>2 DEF IInv, Good, Database, LiveInv, Settled
<1>4. CASE SaveUserSettings
  <2>1. PICK mode \in Modes : db' = [db EXCEPT !.mode = mode]
    BY <1>4 DEF SaveUserSettings
  <2>2. db'.plans = db.plans /\ db'.papers = db.papers /\ db'.sessions = db.sessions
    BY <1>3, <2>1 DEF Database
  <2>3. "LIVE_MANUAL" \in Modes
    BY DEF Modes
  <2>4. ActivePlan(db, "LIVE_MANUAL") = None
    BY <1>3, <1>4, <2>3 DEF SaveUserSettings, NothingActive
  <2>5. \A q \in ActivePlans(db, "LIVE_MANUAL") : q # None
    BY <1>3, Rows DEF ActivePlans, None
  <2>6. ActivePlans(db, "LIVE_MANUAL") = {}
    BY <1>3, <2>3, <2>4, <2>5, ActivePlanIsActive
  <2>7. ActivePlans(db', "LIVE_MANUAL") = {}
    BY <2>2, <2>6 DEF ActivePlans
  <2>8. QED
    BY <1>3, <2>2, <2>7 DEF LiveOnly, Untraded
<1>5. CASE ResetLocalData
  <2>1. db'.papers = <<>> /\ db'.plans = <<>> /\ db'.sessions = <<>>
    BY <1>5 DEF ResetLocalData, EmptyDatabase
  <2>2. DOMAIN db'.sessions = {} /\ DOMAIN db'.plans = {}
    BY <2>1
  <2>3. QED
    BY <2>1, <2>2 DEF LiveOnly, ActivePlans
<1>6. CASE LockTradePlan
  <2>1. CASE db' = db
    BY <1>3, <2>1
  <2>2. CASE db' # db
    <3> DEFINE p == ActivePlan(db, db.mode)
    <3>1. /\ p # None => p \in ActivePlans(db, db.mode) /\ db.plans[p].status = "LOCKED"
          /\ db.mode = "LIVE_MANUAL"
          /\ db'.mode = db.mode /\ db'.papers = db.papers /\ db'.sessions = db.sessions
      BY <1>3, <1>6, <2>2, LockWrites
    <3>2. PICK cancelled \in Database, order \in Orders, trigger \in {"NONE", "ARMED"} :
            /\ Touches(db, cancelled, p)
            /\ p # None => /\ cancelled.plans[p].status = "CANCELLED"
                           /\ db.plans[p].trigger = "NONE" => cancelled.plans[p].trigger = "NONE"
            /\ trigger = "NONE"
            /\ db'.plans = Append(cancelled.plans, [mode |-> db.mode, status |-> "LOCKED",
                                                    order |-> order, trigger |-> trigger])
      BY <1>3, <1>6, <2>2, LockWrites
    <3> DEFINE plan == [mode |-> db.mode, status |-> "LOCKED", order |-> order, trigger |-> trigger]
    <3>3. /\ plan \in Plan /\ plan.status = "LOCKED" /\ plan.mode = db.mode /\ plan.trigger = "NONE"
      BY <1>3, <3>2 DEF Plan, PlanStatuses, TriggerStates
    <3>4. p # None => p \in DOMAIN db.plans
      BY <3>1 DEF ActivePlans
    <3>5. p = None => p \notin DOMAIN db.plans
      BY <1>3, Rows DEF None
    <3>6. db'.plans = Append(cancelled.plans, plan)
      BY <3>2
    <3> HIDE DEF p, plan
    <3>7. QED
      BY <1>3, <3>1, <3>2, <3>3, <3>4, <3>5, <3>6, LivePlanned
  <2>3. QED
    BY <2>1, <2>2
<1>7. CASE EnterPaperTrade
  <2>1. EnteredPlan \in ActivePlans(db, "PAPER")
    BY <1>7, EnterWrites
  <2>2. QED
    BY <1>3, <2>1 DEF ActivePlans, LiveOnly
<1>8. CASE ClosePaperTrade
  <2>1. ClosingTrade \in DOMAIN db.papers
    BY <1>8, CloseWrites
  <2>2. DOMAIN db.papers = {}
    BY <1>3 DEF LiveOnly
  <2>3. QED
    BY <2>1, <2>2
<1>9. CASE GetTradingState
  <2>1. PICK gain \in BOOLEAN :
          db' \in Outcomes(db, Between(Sync(db, gain)), Sync(db, gain)[Len(Sync(db, gain))])
    BY <1>9 DEF GetTradingState
  <2>2. db' = Sync(db, gain)[Len(Sync(db, gain))]
    BY <1>3, <2>1 DEF Outcomes
  <2>3. CASE account.link = "fresh"
    <3>1. account.position \in Positions \cup {NoPosition}
      BY <1>3 DEF Account
    <3>2. LiveOnly(SyncTrail(db, account.position, gain)[Len(SyncTrail(db, account.position, gain))])
      BY <1>3, <3>1, LiveSynced
    <3>3. QED
      BY <2>2, <2>3, <3>2 DEF Sync
  <2>4. CASE account.link # "fresh"
    <3>1. db' = db
      BY <2>2, <2>4 DEF Sync
    <3>2. QED
      BY <1>3, <3>1
  <2>5. QED
    BY <2>3, <2>4
<1>10. CASE MonitorExpires \/ MonitorReads
  <2>1. WatchedPlan # None /\ db.plans[WatchedPlan].trigger # "NONE"
    BY <1>10 DEF MonitorExpires, MonitorReads, Watching
  <2>2. WatchedPlan \in DOMAIN db.plans
    BY <1>3, <2>1, ActivePlanIsActive DEF WatchedPlan, ActivePlans
  <2>3. QED
    BY <1>3, <2>1, <2>2 DEF LiveOnly
<1>11. CASE AccountChanges \/ UNCHANGED vars
  <2>1. db' = db
    BY <1>11 DEF AccountChanges, vars
  <2>2. QED
    BY <1>3, <2>1
<1>12. QED
  BY <1>4, <1>5, <1>6, <1>7, <1>8, <1>9, <1>10, <1>11 DEF Next

\* An entered plan's session is open: the stage is true of live trades.
LEMMA LiveStageIsTrue ==
  ASSUME Good(db), LiveOnly(db)
  PROVE  EndedStageIsFree
<1> DEFINE p == ActivePlan(db, db.mode)
<1>1. SUFFICES ASSUME p # None
               PROVE  LifecycleStage(db, account.position) \notin {"FLAT", "CANCELLED", "CLOSED"}
  BY DEF EndedStageIsFree
<1>2. db \in Database /\ db.mode \in Modes
  BY DEF Good, Database
<1>3. p \in DOMAIN db.plans /\ db.plans[p].status \in ActiveStatuses
  BY <1>1, <1>2, ActivePlanIsActive DEF ActivePlans
<1>4. ASSUME db.plans[p].status # "LOCKED"
      PROVE  OpenSession(db) # None
  <2>1. PICK s \in DOMAIN db.sessions : db.sessions[s].plan = p
    BY <1>3, <1>4 DEF LiveOnly, ActiveStatuses, Untraded
  <2>2. IsOpen(db.sessions[s])
    BY <1>1, <1>2, <1>3, <2>1, SessionOfPlan
  <2>3. \A r \in DOMAIN db.sessions : r # None
    BY <1>2, Rows DEF None
  <2>4. QED
    BY <2>2, <2>3, OpenSessionIsOpen
<1>5. QED
  BY <1>1, <1>4, StageOfActive

\* Where no write fails, trades and plans tell one story: paper trades without
\* a position of the account, live sessions for a user who changes mode between
\* trades, and the stage that is shown, for any plans, positions and numbers of
\* trades (enterPaperTrade, closePaper, lockTradePlan, syncLiveTradeSessions,
\* the monitor and buildTradingState).
THEOREM TradesFollow == Spec => []TradesFollowPlans
<1>1. Init => PaperInv /\ LiveInv
  <2>1. SUFFICES ASSUME Init PROVE PaperInv /\ LiveInv
    OBVIOUS
  <2>2. db.papers = <<>> /\ db.sessions = <<>> /\ db.plans = <<>> /\ account.position = NoPosition
    BY <2>1 DEF Init, EmptyDatabase, Disconnected
  <2>3. DOMAIN db.papers = {} /\ DOMAIN db.sessions = {} /\ DOMAIN db.plans = {}
    BY <2>2
  <2>4. PaperOnly(db) /\ LiveOnly(db)
    BY <2>2, <2>3 DEF PaperOnly, LiveOnly, ActivePlans
  <2>5. QED
    BY <2>2, <2>4 DEF PaperInv, LiveInv
<1>2. IInv /\ PaperInv /\ LiveInv /\ [Next]_vars => (PaperInv /\ LiveInv)'
  BY PaperKept, LiveKept
<1>3. IInv /\ PaperInv /\ LiveInv => TradesFollowPlans
  <2>1. SUFFICES ASSUME IInv, PaperInv, LiveInv PROVE TradesFollowPlans
    OBVIOUS
  <2>2. Good(db)
    BY <2>1 DEF IInv
  <2>3. WithoutPosition => PaperTradeFollowsPlan /\ EndedStageIsFree
    <3>1. SUFFICES ASSUME WithoutPosition PROVE PaperTradeFollowsPlan /\ EndedStageIsFree
      OBVIOUS
    <3>2. PaperOnly(db)
      BY <2>1, <3>1 DEF PaperInv
    <3>3. PaperTradeFollowsPlan
      BY <3>2 DEF PaperOnly, PaperTradeFollowsPlan, DesiredStatus
    <3>4. QED
      BY <2>2, <3>2, <3>3, PaperStageIsTrue
  <2>4. Settled => SessionFollowsPlan /\ PlanHasOneSession /\ EndedStageIsFree
    <3>1. SUFFICES ASSUME Settled PROVE SessionFollowsPlan /\ PlanHasOneSession /\ EndedStageIsFree
      OBVIOUS
    <3>2. LiveOnly(db)
      BY <2>1, <3>1 DEF LiveInv
    <3>3. SessionFollowsPlan /\ PlanHasOneSession
      BY <3>2 DEF LiveOnly, SessionFollowsPlan, PlanHasOneSession, DesiredStatus
    <3>4. QED
      BY <2>2, <3>2, <3>3, LiveStageIsTrue
  <2>5. QED
    BY <2>3, <2>4 DEF TradesFollowPlans
<1>4. QED
  BY <1>1, <1>2, <1>3, Invariance, PTL DEF Spec
-----------------------------------------------------------------------------
(***************************************************************************)
(* LiveTradeAccounting: that what is added up for a live trade is complete.*)
(* Sums over fills are a recursive function; of it the proofs use that     *)
(* sums over sets with nothing in common are added (SumOfBoth) and that    *)
(* fills of one side add up to that side (SumOfOneSide).  Within one       *)
(* millisecond the position therefore goes one way, so that a position     *)
(* inferred there lies between that before the millisecond and that after  *)
(* it (PreviousIsBetween): an end is never found later than the opening,   *)
(* and is found in its millisecond if it is among the trades.              *)
(***************************************************************************)
\* Induction, up to a number
LEMMA UpToLast ==
  ASSUME NEW last \in Nat, NEW T, 0 \in T, \A n \in 1 .. last : n - 1 \in T => n \in T
  PROVE  0 .. last \subseteq T
<1> DEFINE Missing == {n \in 0 .. last : n \notin T}
<1>1. ASSUME Missing # {}
      PROVE  FALSE
  <2>1. Missing \in SUBSET Nat
    OBVIOUS
  <2> HIDE DEF Missing
  <2>2. PICK m \in Missing : \A n \in Missing : m <= n
    BY <1>1, <2>1, LeastNumber
  <2>3. m \in 0 .. last /\ m \notin T
    BY <2>2 DEF Missing
  <2>4. m \in 1 .. last
    BY <2>3
  <2>5. m - 1 \in T
    <3>1. m - 1 \in 0 .. last /\ ~(m <= m - 1)
      BY <2>4
    <3>2. m - 1 \notin Missing
      BY <2>2, <3>1
    <3>3. QED
      BY <3>1, <3>2 DEF Missing
  <2>6. QED
    BY <2>3, <2>4, <2>5
<1>2. QED
  BY <1>1

\* Numbers can be summed.
LEMMA SumsOfNumbers ==
  ASSUME NEW last \in Nat, NEW v, \A n \in 1 .. last : v[n] \in Int
  PROVE  \E f \in [0 .. last -> Int] : f[0] = 0 /\ \A n \in 1 .. last : f[n] = f[n - 1] + v[n]
<1> DEFINE Adds(f, m) == f \in [0 .. m -> Int] /\ f[0] = 0 /\ \A n \in 1 .. m : f[n] = f[n - 1] + v[n]
           T == {m \in Nat : \E f : Adds(f, m)}
<1>1. 0 \in T
  <2> DEFINE f == [n \in 0 .. 0 |-> 0]
  <2>1. f \in [0 .. 0 -> Int] /\ f[0] = 0 /\ 1 .. 0 = {}
    OBVIOUS
  <2> HIDE DEF f
  <2>2. Adds(f, 0)
    BY <2>1
  <2>3. QED
    BY <2>2
<1>2. ASSUME NEW m \in 1 .. last, m - 1 \in T
      PROVE  m \in T
  <2>1. PICK g : Adds(g, m - 1)
    BY <1>2
  <2> DEFINE f == [n \in 0 .. m |-> IF n = m THEN g[m - 1] + v[m] ELSE g[n]]
  <2>2. m - 1 \in 0 .. m - 1 /\ m \in Nat /\ v[m] \in Int /\ \A n \in 0 .. m : n # m => n \in 0 .. m - 1
    OBVIOUS
  <2>3. g[m - 1] \in Int /\ g[m - 1] + v[m] \in Int
    BY <2>1, <2>2
  <2>4. f \in [0 .. m -> Int]
    BY <2>1, <2>2, <2>3
  <2>5. f[0] = 0
    <3>1. 0 \in 0 .. m /\ 0 # m
      OBVIOUS
    <3>2. QED
      BY <2>1, <3>1
  <2>6. ASSUME NEW n \in 1 .. m
        PROVE  f[n] = f[n - 1] + v[n]
    <3>1. n \in 0 .. m /\ n - 1 \in 0 .. m /\ n - 1 # m
      BY <2>2
    <3>2. f[n - 1] = g[n - 1]
      BY <3>1
    <3>3. CASE n = m
      BY <3>1, <3>2, <3>3
    <3>4. CASE n # m
      <4>1. n \in 1 .. m - 1
        BY <2>2, <3>4
      <4>2. g[n] = g[n - 1] + v[n]
        BY <2>1, <4>1
      <4>3. QED
        BY <3>1, <3>2, <3>4, <4>2
    <3>5. QED
      BY <3>3, <3>4
  <2> HIDE DEF f
  <2>7. Adds(f, m)
    BY <2>4, <2>5, <2>6
  <2>8. QED
    BY <2>2, <2>7
<1>3. last \in T
  <2> HIDE DEF T
  <2>1. 0 .. last \subseteq T
    BY <1>1, <1>2, UpToLast
  <2>2. QED
    BY <2>1
<1>4. QED
  BY <1>3

\* What some of the fills up to each of them add up to
Part(all, some, n) == IF n \in some THEN all[n].quantity ELSE 0
SumsUpTo(all, some) ==
  CHOOSE f : f = [n \in 0 .. Len(all) |->
                    IF n = 0 THEN 0 ELSE f[n - 1] + (IF n \in some THEN all[n].quantity ELSE 0)]
Sum(all, some) == SumsUpTo(all, some)[Len(all)]

FillRecord == [quantity : Int, at : Nat]

\* There is such a function, and its values are sums.
LEMMA SumSteps ==
  ASSUME NEW all \in Seq(FillRecord), NEW some
  PROVE  LET f == SumsUpTo(all, some)
         IN  /\ f[0] = 0
             /\ \A n \in 1 .. Len(all) : f[n] = f[n - 1] + Part(all, some, n)
             /\ \A n \in 0 .. Len(all) : f[n] \in Int
<1> DEFINE L == Len(all)
           Value(f, n) == IF n = 0 THEN 0
                          ELSE f[n - 1] + (IF n \in some THEN all[n].quantity ELSE 0)
           Solves(f) == f = [n \in 0 .. L |-> Value(f, n)]
           v == [n \in 1 .. L |-> Part(all, some, n)]
           c == SumsUpTo(all, some)
<1>1. L \in Nat /\ \A n \in 1 .. L : all[n].quantity \in Int
  <2>1. L \in Nat
    BY LenProperties
  <2>2. ASSUME NEW n \in 1 .. L
        PROVE  all[n].quantity \in Int
    <3>1. all[n] \in FillRecord
      BY ElementOfSeq
    <3>2. QED
      BY <3>1 DEF FillRecord
  <2>3. QED
    BY <2>1, <2>2
<1>2. c = CHOOSE f : Solves(f)
  BY DEF SumsUpTo
<1> HIDE DEF L
<1>3. \A n \in 1 .. L : v[n] = Part(all, some, n) /\ v[n] \in Int
  BY <1>1 DEF Part
<1> HIDE DEF v
<1>4. PICK g \in [0 .. L -> Int] : g[0] = 0 /\ \A n \in 1 .. L : g[n] = g[n - 1] + v[n]
  BY <1>1, <1>3, SumsOfNumbers
<1>5. Solves(g)
  <2>1. ASSUME NEW n \in 0 .. L
        PROVE  g[n] = Value(g, n)
    <3>1. CASE n = 0
      BY <1>4, <3>1
    <3>2. CASE n # 0
      <4>1. n \in 1 .. L
        BY <1>1, <3>2
      <4>2. g[n] = g[n - 1] + Part(all, some, n)
        BY <1>3, <1>4, <4>1
      <4>3. QED
        BY <3>2, <4>2 DEF Part
    <3>3. QED
      BY <3>1, <3>2
  <2> HIDE DEF Value
  <2>2. QED
    BY <1>4, <2>1
<1>6. Solves(c)
  <2> HIDE DEF Solves, c
  <2>1. QED
    BY <1>2, <1>5
<1> HIDE DEF c
<1>7. \A n \in 0 .. L : c[n] = Value(c, n)
  <2> HIDE DEF Value
  <2>1. QED
    BY <1>6
<1>8. c[0] = 0
  BY <1>1, <1>7
<1>9. ASSUME NEW n \in 1 .. L
      PROVE  c[n] = c[n - 1] + Part(all, some, n)
  <2>1. n \in 0 .. L /\ n # 0
    BY <1>1
  <2>2. QED
    BY <1>7, <2>1 DEF Part
<1>10. \A n \in 0 .. L : c[n] \in Int
  <2> DEFINE T == {n \in 0 .. L : c[n] \in Int}
  <2>1. 0 \in T
    BY <1>1, <1>8
  <2>2. ASSUME NEW n \in 1 .. L, n - 1 \in T
        PROVE  n \in T
    <3>1. n \in 0 .. L /\ c[n - 1] \in Int
      BY <1>1, <2>2
    <3>2. Part(all, some, n) \in Int
      BY <1>1 DEF Part
    <3>3. QED
      BY <1>9, <3>1, <3>2
  <2> HIDE DEF T
  <2>3. 0 .. L \subseteq T
    BY <1>1, <2>1, <2>2, UpToLast
  <2>4. QED
    BY <2>3 DEF T
<1>11. QED
  BY <1>8, <1>9, <1>10 DEF L, c

\* What two parts add up to that have none in common
LEMMA SumOfBoth ==
  ASSUME NEW all \in Seq(FillRecord), NEW A, NEW B, A \cap B = {}
  PROVE  Sum(all, A \cup B) = Sum(all, A) + Sum(all, B)
<1> DEFINE L == Len(all)
           f == SumsUpTo(all, A)
           g == SumsUpTo(all, B)
           h == SumsUpTo(all, A \cup B)
           T == {n \in 0 .. L : h[n] = f[n] + g[n]}
<1>1. L \in Nat /\ \A n \in 1 .. L : all[n].quantity \in Int
  <2>1. L \in Nat
    BY LenProperties
  <2>2. ASSUME NEW n \in 1 .. L
        PROVE  all[n].quantity \in Int
    <3>1. all[n] \in FillRecord
      BY ElementOfSeq
    <3>2. QED
      BY <3>1 DEF FillRecord
  <2>3. QED
    BY <2>1, <2>2
<1>2. /\ f[0] = 0 /\ \A n \in 1 .. L : f[n] = f[n - 1] + Part(all, A, n)
      /\ \A n \in 0 .. L : f[n] \in Int
  BY SumSteps
<1>3. /\ g[0] = 0 /\ \A n \in 1 .. L : g[n] = g[n - 1] + Part(all, B, n)
      /\ \A n \in 0 .. L : g[n] \in Int
  BY SumSteps
<1>4. /\ h[0] = 0 /\ \A n \in 1 .. L : h[n] = h[n - 1] + Part(all, A \cup B, n)
      /\ \A n \in 0 .. L : h[n] \in Int
  BY SumSteps
<1> HIDE DEF f, g, h
<1>5. 0 \in T
  BY <1>1, <1>2, <1>3, <1>4
<1>6. ASSUME NEW n \in 1 .. L, n - 1 \in T
      PROVE  n \in T
  <2>1. n \in 0 .. L /\ n - 1 \in 0 .. L /\ h[n - 1] = f[n - 1] + g[n - 1]
    BY <1>1, <1>6
  <2>2. Part(all, A \cup B, n) = Part(all, A, n) + Part(all, B, n) /\ Part(all, A, n) \in Int /\ Part(all, B, n) \in Int
    BY <1>1 DEF Part
  <2>3. /\ f[n] = f[n - 1] + Part(all, A, n) /\ f[n - 1] \in Int
        /\ g[n] = g[n - 1] + Part(all, B, n) /\ g[n - 1] \in Int
        /\ h[n] = h[n - 1] + Part(all, A \cup B, n)
    BY <1>2, <1>3, <1>4, <2>1
  <2>4. h[n] = f[n] + g[n]
    BY ONLY <2>1, <2>2, <2>3
  <2>5. QED
    BY <2>1, <2>4
<1>7. L \in T
  <2> HIDE DEF T, L
  <2>1. 0 .. L \subseteq T
    BY <1>1, <1>5, <1>6, UpToLast
  <2>2. QED
    BY <1>1, <2>1
<1>8. QED
  BY <1>7 DEF Sum, f, g, h

\* What fills of one side add up to
LEMMA SumOfOneSide ==
  ASSUME NEW all \in Seq(FillRecord), NEW A
  PROVE  /\ Sum(all, A) \in Int
         /\ (\A n \in A \cap (1 .. Len(all)) : all[n].quantity >= 0) => Sum(all, A) >= 0
         /\ (\A n \in A \cap (1 .. Len(all)) : all[n].quantity <= 0) => Sum(all, A) <= 0
<1> DEFINE L == Len(all)
           f == SumsUpTo(all, A)
           Up == \A n \in A \cap (1 .. L) : all[n].quantity >= 0
           Down == \A n \in A \cap (1 .. L) : all[n].quantity <= 0
           T == {n \in 0 .. L : (Up => f[n] >= 0) /\ (Down => f[n] <= 0)}
<1>1. L \in Nat /\ \A n \in 1 .. L : all[n].quantity \in Int
  <2>1. L \in Nat
    BY LenProperties
  <2>2. ASSUME NEW n \in 1 .. L
        PROVE  all[n].quantity \in Int
    <3>1. all[n] \in FillRecord
      BY ElementOfSeq
    <3>2. QED
      BY <3>1 DEF FillRecord
  <2>3. QED
    BY <2>1, <2>2
<1>2. /\ f[0] = 0 /\ \A n \in 1 .. L : f[n] = f[n - 1] + Part(all, A, n)
      /\ \A n \in 0 .. L : f[n] \in Int
  BY SumSteps
<1> HIDE DEF f
<1>3. 0 \in T
  BY <1>1, <1>2
<1>4. ASSUME NEW n \in 1 .. L, n - 1 \in T
      PROVE  n \in T
  <2>1. n \in 0 .. L /\ n - 1 \in 0 .. L
    BY <1>1
  <2>2. (Up => f[n - 1] >= 0) /\ (Down => f[n - 1] <= 0)
    BY <1>4
  <2>3. /\ Part(all, A, n) \in Int /\ (Up => Part(all, A, n) >= 0) /\ (Down => Part(all, A, n) <= 0)
    BY <1>1 DEF Part
  <2> HIDE DEF Up, Down
  <2>4. QED
    BY <1>2, <2>1, <2>2, <2>3
<1>5. L \in T
  <2> HIDE DEF T, L
  <2>1. 0 .. L \subseteq T
    BY <1>1, <1>3, <1>4, UpToLast
  <2>2. QED
    BY <1>1, <2>1
<1>6. QED
  BY <1>1, <1>2, <1>5 DEF Sum, f

\* A fill that is new does not change what the others add up to.
LEMMA SumBefore ==
  ASSUME NEW all \in Seq(FillRecord), NEW x \in FillRecord, NEW A, Len(all) + 1 \notin A
  PROVE  Sum(Append(all, x), A) = Sum(all, A)
<1> DEFINE L == Len(all)
           more == Append(all, x)
           f == SumsUpTo(all, A)
           g == SumsUpTo(more, A)
           T == {n \in 0 .. L : f[n] = g[n]}
<1>1. /\ L \in Nat /\ more \in Seq(FillRecord) /\ Len(more) = L + 1
      /\ \A n \in 1 .. L : more[n] = all[n]
  BY AppendProperties, LenProperties
<1>2. f[0] = 0 /\ \A n \in 1 .. L : f[n] = f[n - 1] + Part(all, A, n)
  BY SumSteps
<1>3. /\ g[0] = 0 /\ \A n \in 1 .. Len(more) : g[n] = g[n - 1] + Part(more, A, n)
      /\ \A n \in 0 .. Len(more) : g[n] \in Int
  BY <1>1, SumSteps
<1> HIDE DEF f, g, more
<1>4. 0 \in T
  BY <1>1, <1>2, <1>3
<1>5. ASSUME NEW n \in 1 .. L, n - 1 \in T
      PROVE  n \in T
  <2>1. n \in 0 .. L /\ n \in 1 .. Len(more) /\ f[n - 1] = g[n - 1]
    BY <1>1, <1>5
  <2>2. Part(all, A, n) = Part(more, A, n)
    BY <1>1 DEF Part
  <2>3. QED
    BY <1>2, <1>3, <2>1, <2>2
<1>6. L \in T
  <2> HIDE DEF T, L
  <2>1. 0 .. L \subseteq T
    BY <1>1, <1>4, <1>5, UpToLast
  <2>2. QED
    BY <1>1, <2>1
<1>7. g[L + 1] = g[L]
  <2>1. L + 1 \in 1 .. Len(more) /\ (L + 1) - 1 = L /\ L \in 0 .. Len(more)
    BY <1>1
  <2>2. Part(more, A, L + 1) = 0
    BY DEF Part
  <2>3. g[L] \in Int
    BY <1>3, <2>1
  <2>4. g[L + 1] = g[L] + Part(more, A, L + 1)
    BY <1>3, <2>1
  <2>5. QED
    BY <2>2, <2>3, <2>4
<1>8. QED
  BY <1>1, <1>6, <1>7 DEF Sum, f, g, more

\* Bought, for the fills as they are
LEMMA BoughtIsSum ==
  ASSUME NEW some
  PROVE  Fills!Bought(some) = Sum(fills, some)
BY DEF Fills!Bought, Sum, SumsUpTo
-----------------------------------------------------------------------------
\* Numbers up to n have a greatest.
LEMMA GreatestNumber ==
  ASSUME NEW n \in Nat, NEW T \in SUBSET (1 .. n), T # {}
  PROVE  \E x \in T : \A y \in T : x >= y
<1> DEFINE R == {n - y : y \in T}
<1>1. R \in SUBSET Nat /\ R # {}
  <2>1. \A y \in T : y \in 1 .. n
    OBVIOUS
  <2>2. \A y \in T : n - y \in Nat
    BY <2>1
  <2>3. PICK y \in T : TRUE
    OBVIOUS
  <2>4. n - y \in R
    OBVIOUS
  <2>5. QED
    BY <2>2, <2>4
<1>2. \A y \in T : n - y \in R
  OBVIOUS
<1>3. \A z \in R : \E y \in T : z = n - y
  OBVIOUS
<1> HIDE DEF R
<1>4. PICK z \in R : \A u \in R : z <= u
  BY <1>1, LeastNumber
<1>5. PICK x \in T : z = n - x
  BY <1>3
<1>6. ASSUME NEW y \in T
      PROVE  x >= y
  <2>1. n - x <= n - y
    BY <1>2, <1>4, <1>5
  <2>2. x \in 1 .. n /\ y \in 1 .. n
    OBVIOUS
  <2>3. QED
    BY <2>1, <2>2
<1>7. QED
  BY <1>6

\* Fills are of orders one after the other, and each buys or sells something.
FillsOfOrders(all) ==
  /\ all \in Seq(FillRecord)
  /\ \A n \in 1 .. Len(all) : all[n].quantity # 0
  /\ \A i, j \in 1 .. Len(all) : i <= j =>
       /\ all[i].at <= all[j].at
       /\ all[i].at = all[j].at => (all[i].quantity > 0 <=> all[j].quantity > 0)

\* The types of fills
LEMMA FillOfOrders ==
  ASSUME NEW all, FillsOfOrders(all)
  PROVE  /\ Len(all) \in Nat /\ all \in Seq(FillRecord)
         /\ \A n \in 1 .. Len(all) : all[n].quantity \in Int \ {0} /\ all[n].at \in Nat
<1>1. all \in Seq(FillRecord)
  BY DEF FillsOfOrders
<1>2. Len(all) \in Nat
  BY <1>1, LenProperties
<1>3. ASSUME NEW n \in 1 .. Len(all)
      PROVE  all[n].quantity \in Int \ {0} /\ all[n].at \in Nat
  <2>1. all[n] \in FillRecord
    BY <1>1, ElementOfSeq
  <2>2. all[n].quantity # 0
    BY DEF FillsOfOrders
  <2>3. QED
    BY <2>1, <2>2 DEF FillRecord
<1>4. QED
  BY <1>1, <1>2, <1>3

Held(all, n) == Sum(all, 1 .. n)

\* The position at a fill is that of an earlier one and what was filled since.
LEMMA HeldThen ==
  ASSUME NEW all, FillsOfOrders(all), NEW n \in 0 .. Len(all), NEW m \in 0 .. n
  PROVE  /\ Held(all, m) \in Int /\ Held(all, n) \in Int /\ Sum(all, m + 1 .. n) \in Int
         /\ Held(all, n) = Held(all, m) + Sum(all, m + 1 .. n)
         /\ Held(all, 0) = 0
<1>1. Len(all) \in Nat /\ all \in Seq(FillRecord)
  BY FillOfOrders
<1>2. Sum(all, 1 .. m) \in Int /\ Sum(all, 1 .. n) \in Int /\ Sum(all, m + 1 .. n) \in Int
  BY <1>1, SumOfOneSide
<1>3. (1 .. m) \cap (m + 1 .. n) = {} /\ (1 .. m) \cup (m + 1 .. n) = 1 .. n
  BY <1>1
<1>4. Sum(all, (1 .. m) \cup (m + 1 .. n)) = Sum(all, 1 .. m) + Sum(all, m + 1 .. n)
  BY <1>1, <1>3, SumOfBoth
<1>5. Sum(all, 1 .. n) = Sum(all, 1 .. m) + Sum(all, m + 1 .. n)
  BY <1>3, <1>4
<1>6. Sum(all, 1 .. 0) = 0
  <2>1. Sum(all, 1 .. 0) \in Int
    BY <1>1, SumOfOneSide
  <2>2. (1 .. 0) \cap (1 .. Len(all)) = {}
    BY <1>1
  <2>3. Sum(all, 1 .. 0) >= 0 /\ Sum(all, 1 .. 0) <= 0
    BY <1>1, <2>2, SumOfOneSide
  <2>4. QED
    BY <2>1, <2>3
<1>7. QED
  BY <1>2, <1>5, <1>6 DEF Held

\* Within a millisecond, the position goes one way.
LEMMA OneWay ==
  ASSUME NEW all, FillsOfOrders(all), NEW b \in 1 .. Len(all), NEW c \in 1 .. b,
         all[c].at = all[b].at, NEW i \in c - 1 .. b
  PROVE  LET some == Sum(all, c .. i)
             each == Sum(all, c .. b)
         IN  /\ some \in Int /\ each \in Int
             /\ \/ 0 <= some /\ some <= each /\ all[c].quantity > 0
                \/ 0 >= some /\ some >= each /\ all[c].quantity < 0
<1> DEFINE some == Sum(all, c .. i)
           each == Sum(all, c .. b)
           rest == Sum(all, i + 1 .. b)
<1>1. Len(all) \in Nat /\ all \in Seq(FillRecord)
  BY FillOfOrders
<1>2. /\ c .. i \subseteq 1 .. Len(all) /\ c .. b \subseteq 1 .. Len(all) /\ i + 1 .. b \subseteq 1 .. Len(all)
      /\ (c .. i) \cap (i + 1 .. b) = {} /\ (c .. i) \cup (i + 1 .. b) = c .. b
      /\ c .. i \subseteq c .. b /\ i + 1 .. b \subseteq c .. b
  BY <1>1
<1>3. Sum(all, (c .. i) \cup (i + 1 .. b)) = some + rest
  BY <1>1, <1>2, SumOfBoth
<1>4. each = some + rest /\ some \in Int /\ rest \in Int /\ each \in Int
  <2>1. each = some + rest
    BY <1>2, <1>3
  <2>2. QED
    BY <2>1, <1>1, SumOfOneSide
<1>5. \A n \in c .. b : n \in 1 .. Len(all) /\ all[n].quantity \in Int \ {0}
  BY <1>2, FillOfOrders
<1>6. \A n \in c .. b : all[n].quantity > 0 <=> all[c].quantity > 0
  <2>1. ASSUME NEW n \in c .. b
        PROVE  all[n].quantity > 0 <=> all[c].quantity > 0
    <3>1. c \in 1 .. Len(all) /\ n \in 1 .. Len(all) /\ c <= n /\ n <= b
      BY <1>1, <1>5
    <3>2. all[c].at <= all[n].at /\ all[n].at <= all[b].at
      BY <3>1 DEF FillsOfOrders
    <3>3. all[c].at \in Nat /\ all[n].at \in Nat
      BY <3>1, FillOfOrders
    <3>4. all[c].at = all[n].at
      BY <3>2, <3>3
    <3>5. QED
      BY <3>1, <3>4 DEF FillsOfOrders
  <2>2. QED
    BY <2>1
<1>7. c \in c .. b
  BY <1>1
<1>8. CASE all[c].quantity > 0
  <2>1. \A n \in c .. b : all[n].quantity >= 0
    BY <1>5, <1>6, <1>8
  <2>2. some >= 0 /\ rest >= 0
    <3>1. \A n \in (c .. i) \cap (1 .. Len(all)) : all[n].quantity >= 0
      BY <1>2, <2>1
    <3>2. \A n \in (i + 1 .. b) \cap (1 .. Len(all)) : all[n].quantity >= 0
      BY <1>2, <2>1
    <3>3. QED
      BY <1>1, <3>1, <3>2, SumOfOneSide
  <2> HIDE DEF some, each, rest
  <2>3. 0 <= some /\ some <= each
    BY <1>4, <2>2
  <2>4. QED
    BY <1>4, <1>8, <2>3 DEF some, each
<1>9. CASE all[c].quantity < 0
  <2>1. \A n \in c .. b : all[n].quantity <= 0
    <3>1. ~ (all[c].quantity > 0)
      BY <1>5, <1>7, <1>9
    <3>2. QED
      BY <1>5, <1>6, <3>1
  <2>2. some <= 0 /\ rest <= 0
    <3>1. \A n \in (c .. i) \cap (1 .. Len(all)) : all[n].quantity <= 0
      BY <1>2, <2>1
    <3>2. \A n \in (i + 1 .. b) \cap (1 .. Len(all)) : all[n].quantity <= 0
      BY <1>2, <2>1
    <3>3. QED
      BY <1>1, <3>1, <3>2, SumOfOneSide
  <2> HIDE DEF some, each, rest
  <2>3. 0 >= some /\ some >= each
    BY <1>4, <2>2
  <2>4. QED
    BY <1>4, <1>9, <2>3 DEF some, each
<1>10. QED
  BY <1>5, <1>7, <1>8, <1>9

-----------------------------------------------------------------------------
\* no position, or one of the other side
Turned(position, of) == position = 0 \/ Fills!SideOf(position) # Fills!SideOf(of)

Turns(all, n) == {i \in 1 .. n : Turned(Held(all, i - 1), Held(all, n))}
Opening(all, n) == CHOOSE i \in Turns(all, n) : \A k \in Turns(all, n) : i >= k

\* There is an opening, and from there on the position has not turned.
LEMMA OpeningIsLast ==
  ASSUME NEW all, FillsOfOrders(all), NEW n \in 1 .. Len(all), Held(all, n) # 0
  PROVE  /\ Opening(all, n) \in 1 .. n
         /\ Turned(Held(all, Opening(all, n) - 1), Held(all, n))
         /\ \A k \in Opening(all, n) .. n : ~Turned(Held(all, k), Held(all, n))
<1> DEFINE T == Turns(all, n)
           o == Opening(all, n)
<1>0. T = {j \in 1 .. n : Turned(Held(all, j - 1), Held(all, n))}
  BY DEF Turns
<1>1. n \in Nat /\ 1 \in 1 .. n
  BY FillOfOrders
<1>2. 1 \in T
  <2>1. Held(all, 1 - 1) = 0
    <3>1. 1 - 1 = 0 /\ 0 \in 0 .. n /\ n \in 0 .. Len(all)
      BY <1>1, FillOfOrders
    <3>2. QED
      BY <3>1, HeldThen
  <2>2. QED
    BY <1>0, <1>1, <2>1 DEF Turned
<1>3. \E x \in T : \A y \in T : x >= y
  <2>1. T \in SUBSET (1 .. n) /\ T # {}
    BY <1>0, <1>2
  <2> HIDE DEF T
  <2>2. QED
    BY <1>1, <2>1, GreatestNumber
<1>4. o \in T /\ \A y \in T : o >= y
  <2>1. o = CHOOSE i \in T : \A k \in T : i >= k
    BY DEF Opening
  <2> HIDE DEF T, o
  <2>2. QED
    BY <1>3, <2>1
<1> HIDE DEF o
<1>5. o \in 1 .. n /\ Turned(Held(all, o - 1), Held(all, n))
  BY <1>0, <1>4
<1>6. ASSUME NEW k \in o .. n
      PROVE  ~Turned(Held(all, k), Held(all, n))
  <2>1. CASE k = n
    BY <2>1 DEF Turned
  <2>2. CASE k # n
    <3>1. k + 1 \in 1 .. n /\ (k + 1) - 1 = k /\ ~ (o >= k + 1)
      BY <1>5, <2>2
    <3>2. k + 1 \notin T
      BY <1>4, <3>1
    <3>3. QED
      BY <1>0, <3>1, <3>2
  <2>3. QED
    BY <2>1, <2>2
<1>7. QED
  BY <1>5, <1>6 DEF o

-----------------------------------------------------------------------------
TradesUpTo(all, i, trades) ==
  {j \in trades : all[j].at > all[i].at \/ (all[j].at = all[i].at /\ j <= i)}

PreviousOf(all, n, i, trades) == Held(all, n) - Sum(all, TradesUpTo(all, i, trades))

\* From c to b: the trades of the millisecond of the i-th
IsMillisecond(all, trades, i, c, b, n) ==
  /\ all[c].at = all[i].at /\ all[b].at = all[i].at
  /\ \A j \in trades : all[j].at = all[i].at <=> j \in c .. b
  /\ TradesUpTo(all, i, trades) = (c .. i) \cup (b + 1 .. n)

\* The trades of a millisecond follow one another.
LEMMA OneMillisecond ==
  ASSUME NEW all, FillsOfOrders(all), NEW n \in 1 .. Len(all), NEW low \in Nat,
         NEW i \in low + 1 .. n
  PROVE  \E c \in low + 1 .. i, b \in i .. n : IsMillisecond(all, low + 1 .. n, i, c, b, n)
<1> DEFINE T == {j \in low + 1 .. n : all[j].at = all[i].at}
<1>1. /\ n \in Nat /\ i \in Nat /\ low + 1 .. n \subseteq 1 .. Len(all)
      /\ i \in T /\ T \subseteq low + 1 .. n /\ T \subseteq 1 .. n /\ T \subseteq Nat
  BY FillOfOrders
<1>2. PICK b \in T : \A y \in T : b >= y
  <2> HIDE DEF T
  <2>1. T \in SUBSET (1 .. n) /\ T # {}
    BY <1>1
  <2>2. QED
    BY <1>1, <2>1, GreatestNumber
<1>3. PICK c \in T : \A y \in T : c <= y
  <2> HIDE DEF T
  <2>1. T \in SUBSET Nat /\ T # {}
    BY <1>1
  <2>2. QED
    BY <2>1, LeastNumber
<1>4. /\ c \in low + 1 .. i /\ b \in i .. n
      /\ all[c].at = all[i].at /\ all[b].at = all[i].at
  <2>1. c \in low + 1 .. n /\ b \in low + 1 .. n /\ c <= i /\ i <= b
    BY <1>1, <1>2, <1>3
  <2>2. c \in low + 1 .. i /\ b \in i .. n
    BY <1>1, <2>1
  <2>3. QED
    BY <1>2, <1>3, <2>2
<1>5. ASSUME NEW j \in low + 1 .. n
      PROVE  /\ all[j].at \in Nat /\ all[i].at \in Nat
             /\ all[j].at = all[i].at <=> j \in c .. b
             /\ all[j].at > all[i].at <=> j \in b + 1 .. n
  <2>1. j \in 1 .. Len(all) /\ i \in 1 .. Len(all) /\ c \in 1 .. Len(all) /\ b \in 1 .. Len(all)
    BY <1>1, <1>2, <1>3
  <2>2. all[j].at \in Nat /\ all[i].at \in Nat
    BY <2>1, FillOfOrders
  <2>3. all[j].at = all[i].at => j \in c .. b
    BY <1>1, <1>2, <1>3, <2>1
  <2>4. j \in c .. b => all[j].at = all[i].at
    <3>1. SUFFICES ASSUME j \in c .. b PROVE all[j].at = all[i].at
      OBVIOUS
    <3>2. all[c].at <= all[j].at /\ all[j].at <= all[b].at
      BY <2>1, <3>1 DEF FillsOfOrders
    <3>3. QED
      BY <1>4, <2>2, <3>2
  <2>5. j < c => all[j].at <= all[i].at
    <3>1. j < c => j <= c
      BY <2>1
    <3>2. QED
      BY <1>4, <2>1, <3>1 DEF FillsOfOrders
  <2>6. j > b => all[j].at >= all[i].at
    <3>1. j > b => b <= j
      BY <2>1
    <3>2. QED
      BY <1>4, <2>1, <2>2, <3>1 DEF FillsOfOrders
  <2>7. j < c \/ j \in c .. b \/ j > b
    BY <2>1
  <2>8. j \in b + 1 .. n <=> j > b
    BY <2>1
  <2>9. ~(j \in c .. b /\ j > b) /\ (j < c => ~(j > b))
    BY <1>4, <1>1, <2>1
  <2>10. QED
    BY <2>2, <2>3, <2>4, <2>5, <2>6, <2>7, <2>8, <2>9
<1>6. ASSUME NEW j
      PROVE  j \in TradesUpTo(all, i, low + 1 .. n) <=> j \in (c .. i) \cup (b + 1 .. n)
  <2>1. CASE j \in low + 1 .. n
    <3>1. j \in TradesUpTo(all, i, low + 1 .. n) <=>
            (all[j].at > all[i].at \/ (all[j].at = all[i].at /\ j <= i))
      BY <2>1 DEF TradesUpTo
    <3>2. (j \in c .. b /\ j <= i) <=> j \in c .. i
      BY <1>1, <1>4, <2>1
    <3>3. QED
      BY <1>5, <2>1, <3>1, <3>2
  <2>2. CASE j \notin low + 1 .. n
    <3>1. j \notin TradesUpTo(all, i, low + 1 .. n)
      BY <2>2 DEF TradesUpTo
    <3>2. c .. i \subseteq low + 1 .. n /\ b + 1 .. n \subseteq low + 1 .. n
      BY <1>1, <1>4
    <3>3. QED
      BY <2>2, <3>1, <3>2
  <2>3. QED
    BY <2>1, <2>2
<1>7. TradesUpTo(all, i, low + 1 .. n) = (c .. i) \cup (b + 1 .. n)
  BY <1>6
<1>8. IsMillisecond(all, low + 1 .. n, i, c, b, n)
  BY <1>4, <1>5, <1>7 DEF IsMillisecond
<1>9. QED
  BY <1>4, <1>8

\* Before a fill of the recent trades, as far as they tell, the position was one
\* between that before its millisecond and that after it.
IsBetween(all, trades, i, c, b, n) ==
  LET before   == Held(all, c - 1)
      after    == Held(all, b)
      previous == PreviousOf(all, n, i, trades)
  IN  /\ before \in Int /\ after \in Int /\ previous \in Int
      /\ \/ before <= previous /\ previous <= after
         \/ before >= previous /\ previous >= after
      /\ i = b => previous = before

\* That is so for every trade, and exactly so for the last of its millisecond.
LEMMA PreviousIsBetween ==
  ASSUME NEW all, FillsOfOrders(all), NEW n \in 1 .. Len(all), NEW low \in Nat,
         NEW i \in low + 1 .. n
  PROVE  \E c \in low + 1 .. i, b \in i .. n :
           /\ IsMillisecond(all, low + 1 .. n, i, c, b, n)
           /\ IsBetween(all, low + 1 .. n, i, c, b, n)
<1>0. PICK c \in low + 1 .. i, b \in i .. n : IsMillisecond(all, low + 1 .. n, i, c, b, n)
  BY OneMillisecond
<1>1. /\ all[c].at = all[i].at /\ all[b].at = all[i].at
      /\ \A j \in low + 1 .. n : all[j].at = all[i].at <=> j \in c .. b
      /\ TradesUpTo(all, i, low + 1 .. n) = (c .. i) \cup (b + 1 .. n)
  BY <1>0 DEF IsMillisecond
<1> DEFINE before   == Held(all, c - 1)
           after    == Held(all, b)
           previous == PreviousOf(all, n, i, low + 1 .. n)
           some     == Sum(all, c .. i)
           each     == Sum(all, c .. b)
           later    == Sum(all, b + 1 .. n)
           now      == Held(all, n)
<1>2. /\ Len(all) \in Nat /\ all \in Seq(FillRecord)
      /\ b \in 1 .. Len(all) /\ c \in 1 .. b /\ i \in c - 1 .. b
      /\ b \in 0 .. Len(all) /\ c - 1 \in 0 .. b /\ (c - 1) + 1 = c
      /\ n \in 0 .. Len(all) /\ b \in 0 .. n
  BY FillOfOrders
<1>3. /\ some \in Int /\ each \in Int
      /\ \/ 0 <= some /\ some <= each
         \/ 0 >= some /\ some >= each
  BY <1>1, <1>2, OneWay
<1>4. after = before + each /\ after \in Int /\ before \in Int
  BY <1>2, HeldThen
<1>5. now = after + later /\ now \in Int /\ later \in Int
  BY <1>2, HeldThen
<1>6. previous = now - (some + later)
  <2>1. (c .. i) \cap (b + 1 .. n) = {}
    BY <1>2
  <2>2. Sum(all, (c .. i) \cup (b + 1 .. n)) = some + later
    BY <1>2, <2>1, SumOfBoth
  <2>3. QED
    BY <1>1, <2>2 DEF PreviousOf
<1>7. i = b => some = each
  OBVIOUS
<1> HIDE DEF before, after, previous, some, each, later, now
<1>8. /\ previous \in Int /\ (i = b => previous = before)
      /\ \/ before <= previous /\ previous <= after
         \/ before >= previous /\ previous >= after
  BY <1>3, <1>4, <1>5, <1>6, <1>7
<1>9. IsBetween(all, low + 1 .. n, i, c, b, n)
  BY <1>4, <1>8 DEF IsBetween, before, after, previous
<1>10. QED
  BY <1>0, <1>9

\* A position between two that have not turned has not turned.
LEMMA BetweenTheTwo ==
  ASSUME NEW x \in Int, NEW y \in Int, NEW z \in Int, NEW of \in Int, of # 0,
         ~Turned(x, of), ~Turned(z, of),
         (x <= y /\ y <= z) \/ (x >= y /\ y >= z)
  PROVE  ~Turned(y, of)
BY DEF Turned, Fills!SideOf

Ends(all, n, trades) ==
  {i \in trades : Turned(PreviousOf(all, n, i, trades), Held(all, n))}

\* What is taken for the opening is not after it.
LEMMA EndIsNotLater ==
  ASSUME NEW all, FillsOfOrders(all), NEW n \in 1 .. Len(all), Held(all, n) # 0,
         NEW low \in Nat, NEW i \in Ends(all, n, low + 1 .. n)
  PROVE  /\ Opening(all, n) \in low + 1 .. n
         /\ all[i].at <= all[Opening(all, n)].at
<1> DEFINE o == Opening(all, n)
<1>1. /\ o \in 1 .. n
      /\ \A k \in o .. n : ~Turned(Held(all, k), Held(all, n))
  BY OpeningIsLast
<1> HIDE DEF o
<1>2. /\ i \in low + 1 .. n
      /\ Turned(PreviousOf(all, n, i, low + 1 .. n), Held(all, n))
  BY DEF Ends
<1>3. PICK c \in low + 1 .. i, b \in i .. n :
        /\ IsMillisecond(all, low + 1 .. n, i, c, b, n)
        /\ IsBetween(all, low + 1 .. n, i, c, b, n)
  BY <1>2, PreviousIsBetween
<1>4. Len(all) \in Nat /\ n \in 0 .. Len(all) /\ 0 \in 0 .. n
  BY FillOfOrders
<1>5. Held(all, n) \in Int
  BY <1>4, HeldThen
<1>6. c <= o
  <2>1. SUFFICES ASSUME ~(c <= o) PROVE FALSE
    OBVIOUS
  <2>2. c - 1 \in o .. n /\ b \in o .. n
    BY <1>1, <1>2, <1>3, <1>4, <2>1
  <2>3. ~Turned(Held(all, c - 1), Held(all, n)) /\ ~Turned(Held(all, b), Held(all, n))
    BY <1>1, <2>2
  <2>4. ~Turned(PreviousOf(all, n, i, low + 1 .. n), Held(all, n))
    BY <1>3, <1>5, <2>3, BetweenTheTwo DEF IsBetween
  <2>5. QED
    BY <1>2, <2>4
<1>7. c \in 1 .. Len(all) /\ o \in 1 .. Len(all) /\ o \in low + 1 .. n
  BY <1>1, <1>2, <1>3, <1>4, <1>6
<1>8. all[c].at <= all[o].at
  BY <1>6, <1>7 DEF FillsOfOrders
<1>9. QED
  BY <1>3, <1>7, <1>8 DEF IsMillisecond, o

\* If a position turned within a millisecond, it had turned before it.
LEMMA TurnedBefore ==
  ASSUME NEW before \in Int, NEW some \in Int, NEW each \in Int, NEW of \in Int, of # 0,
         \/ 0 <= some /\ some <= each
         \/ 0 >= some /\ some >= each,
         Turned(before + some, of), ~Turned(before + each, of)
  PROVE  Turned(before, of)
BY DEF Turned, Fills!SideOf

\* If the recent trades have the opening, one of its millisecond is found.
LEMMA OpeningIsFound ==
  ASSUME NEW all, FillsOfOrders(all), NEW n \in 1 .. Len(all), Held(all, n) # 0,
         NEW low \in Nat, Opening(all, n) \in low + 1 .. n
  PROVE  \E d \in Ends(all, n, low + 1 .. n) : all[d].at = all[Opening(all, n)].at
<1> DEFINE o == Opening(all, n)
           trades == low + 1 .. n
<1>1. /\ o \in 1 .. n /\ o \in low + 1 .. n
      /\ Turned(Held(all, o - 1), Held(all, n))
      /\ \A k \in o .. n : ~Turned(Held(all, k), Held(all, n))
  BY OpeningIsLast
<1> HIDE DEF o
<1>2. Len(all) \in Nat /\ n \in 0 .. Len(all) /\ 0 \in 0 .. n /\ n \in Nat
  BY FillOfOrders
<1>3. PICK c0 \in low + 1 .. o, d \in o .. n :
        /\ IsMillisecond(all, low + 1 .. n, o, c0, d, n)
        /\ IsBetween(all, low + 1 .. n, o, c0, d, n)
  BY <1>1, PreviousIsBetween
<1>4. d \in low + 1 .. n
  BY <1>1, <1>3
<1>5. PICK c \in low + 1 .. d, b \in d .. n :
        /\ IsMillisecond(all, low + 1 .. n, d, c, b, n)
        /\ IsBetween(all, low + 1 .. n, d, c, b, n)
  BY <1>4, PreviousIsBetween
<1>6. all[d].at = all[o].at /\ all[c].at = all[o].at
  BY <1>3, <1>5 DEF IsMillisecond
<1>7. b = d
  <2>1. b \in low + 1 .. n /\ all[b].at = all[o].at
    <3>1. all[b].at = all[d].at
      BY <1>5 DEF IsMillisecond
    <3>2. QED
      BY <3>1, <1>4, <1>5, <1>6
  <2>2. b \in c0 .. d
    BY <1>3, <2>1 DEF IsMillisecond
  <2>3. QED
    BY <1>1, <1>3, <1>5, <2>2
<1>8. c <= o
  <2>1. o \in c .. b
    BY <1>1, <1>5, <1>6 DEF IsMillisecond
  <2>2. QED
    BY <1>1, <1>5, <2>1
<1>9. PreviousOf(all, n, d, low + 1 .. n) = Held(all, c - 1)
  BY <1>5, <1>7 DEF IsBetween
<1>10. Turned(Held(all, c - 1), Held(all, n))
  <2> DEFINE before == Held(all, c - 1)
             some   == Sum(all, c .. o - 1)
             each   == Sum(all, c .. o)
  <2>1. /\ c \in 1 .. o /\ o \in 1 .. Len(all) /\ o - 1 \in c - 1 .. o
        /\ o \in 0 .. Len(all) /\ o - 1 \in 0 .. Len(all)
        /\ c - 1 \in 0 .. o /\ c - 1 \in 0 .. o - 1 /\ (c - 1) + 1 = c
    BY <1>1, <1>2, <1>5, <1>8
  <2>2. /\ some \in Int /\ each \in Int
        /\ \/ 0 <= some /\ some <= each
           \/ 0 >= some /\ some >= each
    <3>1. FillsOfOrders(all) /\ all[c].at = all[o].at
      BY <1>6
    <3>2. QED
      BY ONLY <2>1, <3>1, OneWay
  <2>3. Held(all, o) = before + each /\ before \in Int
    <3>1. FillsOfOrders(all)
      OBVIOUS
    <3>2. Held(all, o) = before + Sum(all, (c - 1) + 1 .. o) /\ before \in Int
      BY ONLY <2>1, <3>1, HeldThen
    <3>3. QED
      BY <2>1, <3>2
  <2>4. Held(all, o - 1) = before + some
    <3>1. FillsOfOrders(all)
      OBVIOUS
    <3>2. Held(all, o - 1) = before + Sum(all, (c - 1) + 1 .. o - 1)
      BY ONLY <2>1, <3>1, HeldThen
    <3>3. QED
      BY <2>1, <3>2
  <2>5. Held(all, n) \in Int
    BY <1>2, HeldThen
  <2>6. ~Turned(Held(all, o), Held(all, n))
    BY <1>1
  <2>7. Turned(before + some, Held(all, n)) /\ ~Turned(before + each, Held(all, n))
    BY <1>1, <2>3, <2>4, <2>6
  <2> HIDE DEF before, some, each
  <2>8. Turned(before, Held(all, n))
    BY <2>2, <2>3, <2>5, <2>7, TurnedBefore
  <2>9. QED
    BY <2>8 DEF before
<1>11. d \in Ends(all, n, low + 1 .. n)
  BY <1>4, <1>9, <1>10 DEF Ends
<1>12. QED
  BY <1>6, <1>11 DEF o

FirstOf(all, ends, trades) ==
  CHOOSE i \in ends : \A j \in ends : i \in TradesUpTo(all, j, trades)

StartOf(all, n, updatedAt, trades) ==
  LET ends  == Ends(all, n, trades)
      first == FirstOf(all, ends, trades)
  IN  IF ends # {}
      THEN [openedAt |-> all[first].at,
            attribution |-> IF PreviousOf(all, n, first, trades) = 0 THEN "OBSERVED_FROM_FLAT"
                            ELSE "INFERRED_FROM_RECENT_TRADES"]
      ELSE [openedAt |-> IF trades = {} THEN updatedAt
                         ELSE all[CHOOSE x \in trades : \A y \in trades : x <= y].at,
            attribution |-> "OBSERVED_AFTER_CONNECT"]

\* The fill that is found first is of the millisecond of the opening.
LEMMA FirstIsOpening ==
  ASSUME NEW all, FillsOfOrders(all), NEW n \in 1 .. Len(all), Held(all, n) # 0,
         NEW low \in Nat, Ends(all, n, low + 1 .. n) # {}
  PROVE  LET first == FirstOf(all, Ends(all, n, low + 1 .. n), low + 1 .. n)
         IN  /\ Opening(all, n) \in low + 1 .. n
             /\ first \in 1 .. Len(all)
             /\ all[first].at = all[Opening(all, n)].at
<1> DEFINE o == Opening(all, n)
           trades == low + 1 .. n
           ends == Ends(all, n, low + 1 .. n)
           first == FirstOf(all, ends, trades)
<1>1. /\ o \in trades /\ \A i \in ends : all[i].at <= all[o].at
  BY EndIsNotLater
<1>2. PICK d \in ends : all[d].at = all[o].at
  BY <1>1, OpeningIsFound
<1>3. \A i \in ends : i \in trades /\ i \in Nat /\ i \in 1 .. Len(all)
  <2>1. trades \subseteq 1 .. Len(all) /\ trades \subseteq Nat
    BY FillOfOrders
  <2>2. ends \subseteq trades
    BY DEF Ends
  <2>3. QED
    BY <2>1, <2>2
<1>4. \A i \in trades : all[i].at \in Nat
  <2>1. trades \subseteq 1 .. Len(all)
    BY FillOfOrders
  <2>2. QED
    BY <2>1, FillOfOrders
<1> HIDE DEF o, ends
<1> DEFINE T == {i \in ends : all[i].at = all[o].at}
<1>5. PICK m \in T : \A y \in T : m <= y
  <2>1. T \in SUBSET Nat /\ T # {}
    BY <1>2, <1>3
  <2> HIDE DEF T
  <2>2. QED
    BY <2>1, LeastNumber
<1>6. ASSUME NEW j \in ends
      PROVE  m \in TradesUpTo(all, j, trades)
  <2>1. m \in trades /\ all[m].at = all[o].at /\ all[j].at <= all[o].at
    BY <1>1, <1>3, <1>5
  <2>2. all[j].at = all[o].at => m <= j
    BY <1>5
  <2>3. all[j].at \in Nat /\ all[o].at \in Nat
    BY <1>1, <1>3, <1>4
  <2>4. all[m].at > all[j].at \/ (all[m].at = all[j].at /\ m <= j)
    BY <2>1, <2>2, <2>3
  <2>5. QED
    BY <2>1, <2>4 DEF TradesUpTo
<1>7. m \in ends
  BY <1>5
<1>8. first \in ends /\ \A j \in ends : first \in TradesUpTo(all, j, trades)
  <2>1. \E i \in ends : \A j \in ends : i \in TradesUpTo(all, j, trades)
    BY <1>6, <1>7
  <2>2. QED
    BY <2>1 DEF FirstOf
<1>9. all[first].at = all[o].at
  <2>1. first \in TradesUpTo(all, d, trades)
    BY <1>2, <1>8
  <2>2. all[first].at >= all[d].at
    <3>1. all[first].at > all[d].at \/ all[first].at = all[d].at
      BY <2>1 DEF TradesUpTo
    <3>2. all[first].at \in Nat /\ all[d].at \in Nat
      BY <1>2, <1>3, <1>4, <1>8
    <3>3. QED
      BY <3>1, <3>2
  <2>3. all[first].at \in Nat /\ all[o].at \in Nat /\ all[first].at <= all[o].at
    BY <1>1, <1>3, <1>4, <1>8
  <2>4. QED
    BY <1>2, <2>2, <2>3
<1>10. QED
  BY <1>1, <1>3, <1>8, <1>9 DEF o, ends

\* What inferLiveTradeStart finds: see LiveTradeIsComplete.
LEMMA StartIsOpening ==
  ASSUME NEW all, FillsOfOrders(all), NEW n \in 1 .. Len(all), Held(all, n) # 0,
         NEW low \in Nat
  PROVE  LET start == StartOf(all, n, all[n].at, low + 1 .. n)
         IN  /\ start.openedAt \in Nat /\ start.openedAt >= all[Opening(all, n)].at
             /\ start.attribution # "OBSERVED_AFTER_CONNECT" =>
                  /\ start.openedAt = all[Opening(all, n)].at
                  /\ Opening(all, n) \in low + 1 .. n
<1> DEFINE o == Opening(all, n)
           trades == low + 1 .. n
           ends == Ends(all, n, trades)
           first == FirstOf(all, ends, trades)
           start == StartOf(all, n, all[n].at, trades)
<1>1. /\ o \in 1 .. n /\ o \in 1 .. Len(all) /\ Len(all) \in Nat
      /\ \A i \in 1 .. Len(all) : all[i].at \in Nat
  BY FillOfOrders, OpeningIsLast
<1>2. CASE ends # {}
  <2>1. o \in trades /\ first \in 1 .. Len(all) /\ all[first].at = all[o].at
    BY <1>2, FirstIsOpening
  <2>2. start.openedAt = all[first].at
    BY <1>2 DEF StartOf
  <2> HIDE DEF o, first, start
  <2>3. start.openedAt = all[o].at /\ all[o].at \in Nat
    BY <1>1, <2>1, <2>2
  <2>4. QED
    BY <2>1, <2>3 DEF o, first, start
<1>3. CASE ends = {}
  <2>1. start.attribution = "OBSERVED_AFTER_CONNECT"
    BY <1>3 DEF StartOf
  <2>2. o \notin trades
    BY <1>3, OpeningIsFound
  <2>3. CASE trades = {}
    <3>1. start.openedAt = all[n].at
      BY <1>3, <2>3 DEF StartOf
    <3> HIDE DEF o, start
    <3>2. all[o].at <= all[n].at
      BY <1>1 DEF FillsOfOrders
    <3>3. start.openedAt \in Nat /\ start.openedAt >= all[o].at
      BY <1>1, <3>1, <3>2
    <3>4. QED
      BY <2>1, <3>3 DEF o, start
  <2>4. CASE trades # {}
    <3> DEFINE x == CHOOSE x \in trades : \A y \in trades : x <= y
    <3>1. start.openedAt = all[x].at
      BY <1>3, <2>4 DEF StartOf
    <3>2. x \in trades
      <4>1. trades \in SUBSET Nat
        OBVIOUS
      <4> HIDE DEF trades
      <4>2. \E z \in trades : \A y \in trades : z <= y
        BY <2>4, <4>1, LeastNumber
      <4>3. QED
        BY <4>2
    <3> HIDE DEF o, start, x
    <3>3. o <= x /\ x \in 1 .. Len(all)
      BY <1>1, <2>2, <3>2
    <3>4. all[o].at <= all[x].at
      BY <1>1, <3>3 DEF FillsOfOrders
    <3>5. start.openedAt \in Nat /\ start.openedAt >= all[o].at
      BY <1>1, <3>1, <3>3, <3>4
    <3>6. QED
      BY <2>1, <3>5 DEF o, start
  <2>5. QED
    BY <2>3, <2>4
<1>4. QED
  BY <1>2, <1>3

-----------------------------------------------------------------------------
\* A live trade of an observed position: what it knows of the fills, after those
\* answered
TradeIsKnown(all, a, c) ==
  LET opening == Opening(all, c.seen)
  IN  /\ c.seen \in 1 .. Len(all) /\ c.seen <= a.position
      /\ Held(all, c.seen) # 0 /\ c.side = Fills!SideOf(Held(all, c.seen))
      /\ c.openedAt \in Nat /\ c.openedAt >= all[opening].at
      /\ \A i \in c.observed : i \in 1 .. Len(all) /\ all[i].at >= all[opening].at
      /\ c.attribution # "OBSERVED_AFTER_CONNECT" =>
           /\ c.openedAt = all[opening].at
           /\ c.open => a.position = a.trades /\ opening .. a.trades \subseteq c.observed
           /\ ~c.open => \E e \in c.seen + 1 .. Len(all) :
                            /\ Turned(Held(all, e), Held(all, c.seen))
                            /\ opening .. e \subseteq c.observed

SessionFields(c) ==
  c \in [side : {c.side}, open : BOOLEAN, openedAt : {c.openedAt}, seen : {c.seen},
         attribution : {c.attribution}, observed : {c.observed}, sound : BOOLEAN]

SinceOpening(all, c, trades) == {i \in trades : all[i].at >= c.openedAt}
MergedWith(all, c, trades) == [c EXCEPT !.observed = @ \cup SinceOpening(all, c, trades)]

Answers(all) == [position : 0 .. Len(all), trades : 0 .. Len(all)]

\* mergeTradeAccounting adds fills and changes nothing else.
LEMMA MergeKeepsTheRest ==
  ASSUME NEW all, NEW c, SessionFields(c), NEW trades
  PROVE  LET m == MergedWith(all, c, trades)
         IN  /\ SessionFields(m) /\ m.side = c.side /\ m.open = c.open /\ m.seen = c.seen
             /\ m.openedAt = c.openedAt /\ m.attribution = c.attribution /\ m.sound = c.sound
             /\ m.observed = c.observed \cup SinceOpening(all, c, trades)
<1> DEFINE more == c.observed \cup SinceOpening(all, c, trades)
           m == [c EXCEPT !.observed = more]
<1>1. c \in [side : {c.side}, open : BOOLEAN, openedAt : {c.openedAt}, seen : {c.seen},
             attribution : {c.attribution}, observed : {c.observed}, sound : BOOLEAN]
  BY DEF SessionFields
<1> HIDE DEF more
<1>2. /\ m.side = c.side /\ m.open = c.open /\ m.seen = c.seen /\ m.observed = more
      /\ m.openedAt = c.openedAt /\ m.attribution = c.attribution /\ m.sound = c.sound
      /\ m \in [side : {c.side}, open : BOOLEAN, openedAt : {c.openedAt}, seen : {c.seen},
                attribution : {c.attribution}, observed : {more}, sound : BOOLEAN]
  BY <1>1
<1>3. m = MergedWith(all, c, trades)
  BY DEF MergedWith, more
<1> HIDE DEF m
<1>4. SessionFields(m)
  BY <1>2 DEF SessionFields
<1>5. QED
  BY <1>2, <1>3, <1>4 DEF more

\* syncLiveTradeSessions, of the session that was open
IsSynced(all, a, b, low, c, keeps, sure, m) ==
  /\ FillsOfOrders(all) /\ a \in Answers(all) /\ b \in Answers(all)
  /\ b.position >= a.position /\ b.trades >= a.trades /\ low \in Nat
  /\ SessionFields(c) /\ c.open /\ (c.sound => TradeIsKnown(all, a, c))
  /\ keeps \in BOOLEAN /\ sure \in BOOLEAN
  /\ keeps <=> Held(all, b.position) # 0 /\ c.side = Fills!SideOf(Held(all, b.position))
  /\ sure => b.position = b.trades /\ low <= a.trades
  /\ m = [MergedWith(all, c, low + 1 .. b.trades) EXCEPT !.open = keeps, !.sound = @ /\ sure]

\* Such a session knows its trade as of the new answers.
LEMMA SyncedIsKnown ==
  ASSUME NEW all, NEW a, NEW b, NEW low, NEW c, NEW keeps, NEW whole, NEW m,
         IsSynced(all, a, b, low, c, keeps, whole, m)
  PROVE  SessionFields(m) /\ m.open = keeps /\ (m.sound => TradeIsKnown(all, b, m))
<1> DEFINE trades == low + 1 .. b.trades
           d == MergedWith(all, c, trades)
           sound == d.sound /\ whole
           new == SinceOpening(all, c, trades)
<1>0. /\ FillsOfOrders(all) /\ a \in Answers(all) /\ b \in Answers(all)
      /\ b.position >= a.position /\ b.trades >= a.trades /\ low \in Nat
      /\ SessionFields(c) /\ c.open /\ (c.sound => TradeIsKnown(all, a, c))
      /\ keeps \in BOOLEAN /\ whole \in BOOLEAN
      /\ keeps <=> Held(all, b.position) # 0 /\ c.side = Fills!SideOf(Held(all, b.position))
      /\ whole => b.position = b.trades /\ low <= a.trades
      /\ m = [MergedWith(all, c, low + 1 .. b.trades) EXCEPT !.open = keeps, !.sound = @ /\ whole]
  BY DEF IsSynced
<1>1. /\ SessionFields(d) /\ d.side = c.side /\ d.open = c.open /\ d.seen = c.seen
      /\ d.openedAt = c.openedAt /\ d.attribution = c.attribution /\ d.sound = c.sound
      /\ d.observed = c.observed \cup new
  <2>1. SessionFields(c)
    BY <1>0
  <2>2. QED
    BY ONLY <2>1, MergeKeepsTheRest
<1>2. /\ c.sound \in BOOLEAN /\ c.open \in BOOLEAN
      /\ a.position \in 0 .. Len(all) /\ a.trades \in 0 .. Len(all)
      /\ b.position \in 0 .. Len(all) /\ b.trades \in 0 .. Len(all)
  BY <1>0 DEF SessionFields, Answers
<1>3. /\ m.side = c.side /\ m.open = keeps /\ m.seen = c.seen /\ m.observed = d.observed
      /\ m.openedAt = c.openedAt /\ m.attribution = c.attribution /\ m.sound = sound
      /\ m \in [side : {d.side}, open : BOOLEAN, openedAt : {d.openedAt}, seen : {d.seen},
                attribution : {d.attribution}, observed : {d.observed}, sound : BOOLEAN]
  <2>1. d \in [side : {d.side}, open : BOOLEAN, openedAt : {d.openedAt}, seen : {d.seen},
               attribution : {d.attribution}, observed : {d.observed}, sound : BOOLEAN]
    BY <1>1 DEF SessionFields
  <2>2. m = [d EXCEPT !.open = keeps, !.sound = sound]
    BY <1>0
  <2>3. sound \in BOOLEAN
    BY <1>0
  <2> HIDE DEF d, sound
  <2>4. QED
    BY <1>0, <1>1, <2>1, <2>2, <2>3
<1>4. SessionFields(m)
  <2> HIDE DEF d
  <2>1. QED
    BY <1>0, <1>1, <1>3 DEF SessionFields
<1>5. ASSUME m.sound
      PROVE  TradeIsKnown(all, b, m)
  <2> DEFINE opening == Opening(all, c.seen)
             after == c.attribution # "OBSERVED_AFTER_CONNECT"
  <2>1. TradeIsKnown(all, a, c) /\ b.position = b.trades /\ low <= a.trades
    BY <1>0, <1>1, <1>2, <1>3, <1>5
  <2>2. /\ c.seen \in 1 .. Len(all) /\ c.seen <= a.position
        /\ Held(all, c.seen) # 0 /\ c.side = Fills!SideOf(Held(all, c.seen))
        /\ c.openedAt \in Nat /\ c.openedAt >= all[opening].at
        /\ \A i \in c.observed : i \in 1 .. Len(all) /\ all[i].at >= all[opening].at
        /\ after =>
             /\ c.openedAt = all[opening].at
             /\ a.position = a.trades /\ opening .. a.trades \subseteq c.observed
    BY <1>0, <2>1 DEF TradeIsKnown
  <2>3. /\ opening \in 1 .. c.seen /\ opening \in 1 .. Len(all) /\ Len(all) \in Nat
        /\ \A i \in 1 .. Len(all) : all[i].at \in Nat
    BY <1>0, <2>2, OpeningIsLast, FillOfOrders
  <2>4. \A i \in m.observed : i \in 1 .. Len(all) /\ all[i].at >= all[opening].at
    <3>1. ASSUME NEW i \in new
          PROVE  i \in 1 .. Len(all) /\ all[i].at >= all[opening].at
      <4>1. i \in 1 .. Len(all) /\ all[i].at >= c.openedAt
        BY <1>0, <1>2, <2>3 DEF SinceOpening
      <4>2. QED
        BY <1>0, <2>2, <2>3, <4>1
    <3> HIDE DEF new, opening
    <3>2. QED
      BY <1>0, <1>1, <1>3, <2>2, <3>1
  <2>5. ASSUME after
        PROVE  opening .. b.trades \subseteq m.observed
    <3>1. ASSUME NEW i \in opening .. b.trades
          PROVE  i \in c.observed \cup new
      <4>1. CASE i <= a.trades
        <5>1. i \in opening .. a.trades
          BY <1>0, <1>2, <2>3, <4>1
        <5>2. QED
          BY <1>0, <2>2, <2>5, <5>1
      <4>2. CASE i > a.trades
        <5>1. i \in trades /\ i \in 1 .. Len(all) /\ opening <= i
          BY <1>0, <1>2, <2>1, <2>3, <4>2
        <5>2. all[opening].at <= all[i].at
          BY <1>0, <2>3, <5>1 DEF FillsOfOrders
        <5>3. all[i].at >= c.openedAt
          BY <1>0, <2>2, <2>3, <2>5, <5>1, <5>2
        <5>4. QED
          BY <5>1, <5>3 DEF SinceOpening
      <4>3. QED
        BY <1>0, <1>2, <2>3, <4>1, <4>2
    <3>2. QED
      BY <1>0, <1>1, <1>3, <3>1
  <2>6. ASSUME after, ~keeps
        PROVE  \E e \in c.seen + 1 .. Len(all) :
                  /\ Turned(Held(all, e), Held(all, c.seen))
                  /\ opening .. e \subseteq m.observed
    <3>1. Turned(Held(all, b.position), Held(all, c.seen))
      BY <1>0, <2>2, <2>6 DEF Turned
    <3>2. b.position # c.seen
      BY <1>0, <2>2, <3>1 DEF Turned
    <3>3. b.position \in c.seen + 1 .. Len(all)
      BY <1>0, <1>2, <2>2, <3>2
    <3>4. QED
      BY <2>1, <2>5, <2>6, <3>1, <3>3
  <2> HIDE DEF opening, after, d
  <2>7. m.seen = c.seen /\ m.side = c.side /\ m.attribution = c.attribution /\ m.openedAt = c.openedAt
    BY <1>3
  <2>8. c.seen <= b.position
    BY <1>0, <1>2, <2>2
  <2>9. QED
    BY <1>0, <1>3, <2>1, <2>2, <2>4, <2>5, <2>6, <2>7, <2>8 DEF TradeIsKnown, opening, after
<1>6. QED
  BY <1>0, <1>3, <1>4, <1>5

\* createLiveTradeSession, and its first merge
LEMMA FreshIsKnown ==
  ASSUME NEW all, FillsOfOrders(all), NEW n \in 1 .. Len(all), Held(all, n) # 0,
         NEW b \in Answers(all), b.position = n, NEW low \in Nat,
         NEW whole \in BOOLEAN, whole => b.position = b.trades,
         NEW start, start = StartOf(all, n, all[n].at, low + 1 .. b.trades),
         NEW c, c = [side |-> Fills!SideOf(Held(all, n)), open |-> TRUE,
                     openedAt |-> start.openedAt, seen |-> n,
                     attribution |-> start.attribution, observed |-> {}, sound |-> whole]
  PROVE  LET m == MergedWith(all, c, low + 1 .. b.trades)
         IN  SessionFields(m) /\ m.open /\ (m.sound => TradeIsKnown(all, b, m))
<1> DEFINE trades == low + 1 .. b.trades
           m == MergedWith(all, c, trades)
           opening == Opening(all, n)
<1>1. /\ c.side = Fills!SideOf(Held(all, n)) /\ c.open = TRUE /\ c.openedAt = start.openedAt
      /\ c.seen = n /\ c.attribution = start.attribution /\ c.observed = {} /\ c.sound = whole
      /\ SessionFields(c)
  BY DEF SessionFields
<1>2. /\ SessionFields(m) /\ m.side = c.side /\ m.open = c.open /\ m.seen = c.seen
      /\ m.openedAt = c.openedAt /\ m.attribution = c.attribution /\ m.sound = c.sound
      /\ m.observed = c.observed \cup SinceOpening(all, c, trades)
  <2>1. SessionFields(c)
    BY <1>1
  <2>2. QED
    BY ONLY <2>1, MergeKeepsTheRest
<1>3. /\ opening \in 1 .. n /\ opening \in 1 .. Len(all) /\ Len(all) \in Nat
      /\ \A i \in 1 .. Len(all) : all[i].at \in Nat
      /\ b.trades \in 0 .. Len(all)
  BY OpeningIsLast, FillOfOrders DEF Answers
<1> HIDE DEF m
<1>4. ASSUME m.sound
      PROVE  TradeIsKnown(all, b, m)
  <2>1. b.trades = n
    BY <1>1, <1>2, <1>4
  <2>2. /\ start.openedAt \in Nat /\ start.openedAt >= all[opening].at
        /\ start.attribution # "OBSERVED_AFTER_CONNECT" =>
             start.openedAt = all[opening].at /\ opening \in trades
    BY <2>1, StartIsOpening
  <2> HIDE DEF opening
  <2>3. ASSUME NEW i \in m.observed
        PROVE  i \in 1 .. Len(all) /\ all[i].at >= all[opening].at
    <3>1. i \in SinceOpening(all, c, trades)
      BY <1>1, <1>2
    <3>2. i \in 1 .. Len(all) /\ all[i].at >= start.openedAt
      BY <1>1, <1>3, <3>1 DEF SinceOpening
    <3>3. QED
      BY <1>3, <2>2, <3>2
  <2>4. ASSUME start.attribution # "OBSERVED_AFTER_CONNECT"
        PROVE  opening .. b.trades \subseteq m.observed
    <3>1. ASSUME NEW i \in opening .. b.trades
          PROVE  i \in SinceOpening(all, c, trades)
      <4>1. i \in trades /\ i \in 1 .. Len(all) /\ opening <= i
        BY <1>3, <2>1, <2>2, <2>4
      <4>2. all[opening].at <= all[i].at
        BY <1>3, <4>1 DEF FillsOfOrders
      <4>3. all[i].at >= c.openedAt
        BY <1>1, <1>3, <2>2, <2>4, <4>1, <4>2
      <4>4. QED
        BY <4>1, <4>3 DEF SinceOpening
    <3>2. QED
      BY <1>2, <3>1
  <2>5. /\ m.seen = n /\ m.open /\ m.openedAt = start.openedAt /\ n <= b.position
        /\ m.attribution = start.attribution /\ m.side = Fills!SideOf(Held(all, n))
    BY <1>1, <1>2
  <2>6. QED
    BY <1>3, <2>1, <2>2, <2>3, <2>4, <2>5 DEF TradeIsKnown, opening
<1>5. m.open
  BY <1>1, <1>2
<1>6. QED
  BY <1>2, <1>4, <1>5 DEF m

\* A session that has ended knows its trade whatever is answered.
LEMMA EndedStaysKnown ==
  ASSUME NEW all, NEW a \in Answers(all), NEW b \in Answers(all), b.position >= a.position,
         NEW c, ~c.open, TradeIsKnown(all, a, c), Len(all) \in Nat
  PROVE  TradeIsKnown(all, b, c)
<1>1. a.position \in Nat /\ b.position \in Nat
  BY DEF Answers
<1>2. c.seen \in Nat /\ c.seen <= a.position
  BY DEF TradeIsKnown
<1>3. c.seen <= b.position
  BY <1>1, <1>2
<1>4. QED
  BY <1>3 DEF TradeIsKnown

\* One more fill leaves the positions before it, and what a session knows.
LEMMA FillLeavesPositions ==
  ASSUME NEW all, FillsOfOrders(all), NEW x \in FillRecord, NEW n \in 0 .. Len(all)
  PROVE  /\ Held(Append(all, x), n) = Held(all, n)
         /\ n # 0 => Opening(Append(all, x), n) = Opening(all, n)
<1> DEFINE more == Append(all, x)
<1>1. all \in Seq(FillRecord) /\ Len(all) \in Nat
  BY FillOfOrders
<1>2. ASSUME NEW m \in 0 .. Len(all)
      PROVE  Held(more, m) = Held(all, m)
  <2>1. Len(all) + 1 \notin 1 .. m
    BY <1>1
  <2>2. QED
    BY <1>1, <2>1, SumBefore DEF Held
<1> HIDE DEF more
<1>3. Turns(more, n) = Turns(all, n)
  <2>1. Held(more, n) = Held(all, n)
    BY <1>2
  <2>2. ASSUME NEW i \in 1 .. n
        PROVE  Held(more, i - 1) = Held(all, i - 1)
    <3>1. i - 1 \in 0 .. Len(all)
      BY <1>1
    <3>2. QED
      BY <1>2, <3>1
  <2>3. QED
    BY <2>1, <2>2 DEF Turns
<1>4. QED
  BY <1>2, <1>3 DEF Opening, more

\* One more fill changes nothing that a session knows.
LEMMA FillLeavesKnown ==
  ASSUME NEW all, FillsOfOrders(all), NEW x \in FillRecord,
         NEW a, NEW c, TradeIsKnown(all, a, c)
  PROVE  TradeIsKnown(Append(all, x), a, c)
<1> DEFINE more == Append(all, x)
           opening == Opening(all, c.seen)
<1>1. /\ all \in Seq(FillRecord) /\ Len(all) \in Nat /\ Len(more) = Len(all) + 1
      /\ \A i \in 1 .. Len(all) : more[i] = all[i]
  BY FillOfOrders, AppendProperties
<1>2. /\ c.seen \in 1 .. Len(all) /\ c.seen \in 0 .. Len(all) /\ c.seen # 0
      /\ Held(all, c.seen) # 0
  BY <1>1 DEF TradeIsKnown
<1>3. opening \in 1 .. Len(all)
  BY <1>1, <1>2, OpeningIsLast
<1>4. Held(more, c.seen) = Held(all, c.seen) /\ Opening(more, c.seen) = opening
  BY <1>2, FillLeavesPositions
<1>5. \A e \in c.seen + 1 .. Len(all) : Held(more, e) = Held(all, e) /\ e \in c.seen + 1 .. Len(more)
  <2>1. \A e \in c.seen + 1 .. Len(all) : e \in 0 .. Len(all) /\ e \in c.seen + 1 .. Len(all) + 1
    BY <1>1, <1>2
  <2>2. QED
    BY <1>1, <2>1, FillLeavesPositions
<1>6. 1 .. Len(all) \subseteq 1 .. Len(more)
  BY <1>1
<1>7. more[opening].at = all[opening].at
  BY <1>1, <1>3
<1> HIDE DEF more, opening
<1>8. c.seen \in 1 .. Len(more) /\ c.seen <= a.position
  BY <1>2, <1>6 DEF TradeIsKnown
<1>9. /\ c.side = Fills!SideOf(Held(more, c.seen)) /\ Held(more, c.seen) # 0
      /\ c.openedAt \in Nat /\ c.openedAt >= more[opening].at
  BY <1>4, <1>7 DEF TradeIsKnown, opening
<1>10. \A i \in c.observed : i \in 1 .. Len(more) /\ more[i].at >= more[opening].at
  <2>1. ASSUME NEW i \in c.observed
        PROVE  i \in 1 .. Len(more) /\ more[i].at >= more[opening].at
    <3>1. i \in 1 .. Len(all) /\ all[i].at >= all[opening].at
      BY DEF TradeIsKnown, opening
    <3>2. more[i].at = all[i].at
      BY <1>1, <3>1
    <3>3. QED
      BY <1>6, <1>7, <3>1, <3>2
  <2>2. QED
    BY <2>1
<1>11. ASSUME c.attribution # "OBSERVED_AFTER_CONNECT"
       PROVE  /\ c.openedAt = more[opening].at
              /\ c.open => a.position = a.trades /\ opening .. a.trades \subseteq c.observed
  BY <1>7, <1>11 DEF TradeIsKnown, opening
<1>12. ASSUME c.attribution # "OBSERVED_AFTER_CONNECT", ~c.open
       PROVE  \E e \in c.seen + 1 .. Len(more) :
                 /\ Turned(Held(more, e), Held(more, c.seen))
                 /\ opening .. e \subseteq c.observed
  <2>1. PICK e \in c.seen + 1 .. Len(all) :
          /\ Turned(Held(all, e), Held(all, c.seen))
          /\ opening .. e \subseteq c.observed
    BY <1>12 DEF TradeIsKnown, opening
  <2>2. QED
    BY <1>4, <1>5, <2>1
<1>13. QED
  BY <1>4, <1>8, <1>9, <1>10, <1>11, <1>12 DEF TradeIsKnown, more

-----------------------------------------------------------------------------
SessionsAreKnown(all, a, ss) ==
  /\ FillsOfOrders(all) /\ a \in Answers(all)
  /\ \E S : ss \in Seq(S)
  /\ \A s \in 1 .. Len(ss) :
       /\ SessionFields(ss[s])
       /\ ss[s].open => s = Len(ss)
       /\ ss[s].sound => TradeIsKnown(all, a, ss[s])

\* One more element may be in a sequence.
LEMMA SequenceOf ==
  ASSUME NEW ss, \E S : ss \in Seq(S), NEW x
  PROVE  \E S : ss \in Seq(S) /\ x \in S
<1>1. PICK S : ss \in Seq(S)
  OBVIOUS
<1>2. ss \in Seq(S \cup {x})
  BY <1>1
<1>3. QED
  BY <1>2

\* What is known after a fill
LEMMA FillKeepsSessions ==
  ASSUME NEW all, NEW a, NEW ss, SessionsAreKnown(all, a, ss), NEW x \in FillRecord,
         x.quantity # 0,
         all # <<>> => \/ x.at = all[Len(all)].at + 1
                       \/ /\ x.at = all[Len(all)].at
                          /\ Fills!SideOf(x.quantity) = Fills!SideOf(all[Len(all)].quantity)
  PROVE  SessionsAreKnown(Append(all, x), a, ss)
<1> DEFINE more == Append(all, x)
           L == Len(all)
<1>1. FillsOfOrders(all) /\ a \in Answers(all)
  BY DEF SessionsAreKnown
<1>2. /\ all \in Seq(FillRecord) /\ L \in Nat /\ more \in Seq(FillRecord) /\ Len(more) = L + 1
      /\ \A i \in 1 .. L : more[i] = all[i]
      /\ more[L + 1] = x
      /\ \A i \in 1 .. L : all[i].quantity \in Int \ {0} /\ all[i].at \in Nat
      /\ x.quantity \in Int \ {0} /\ x.at \in Nat
  BY <1>1, FillOfOrders, AppendProperties DEF FillRecord
<1> HIDE DEF more
<1>3. \A i \in 1 .. Len(more) : i \in 1 .. L \/ i = L + 1
  BY <1>2
<1>4. FillsOfOrders(more)
  <2>1. \A i \in 1 .. Len(more) : more[i].quantity # 0
    BY <1>2, <1>3
  <2>2. ASSUME NEW i \in 1 .. L
        PROVE  /\ all[i].at <= x.at
               /\ all[i].at = x.at => (all[i].quantity > 0 <=> x.quantity > 0)
    <3>1. L \in 1 .. L /\ i <= L /\ all # <<>>
      BY <1>2
    <3>2. /\ all[i].at <= all[L].at
          /\ all[i].at = all[L].at => (all[i].quantity > 0 <=> all[L].quantity > 0)
      BY <1>1, <3>1 DEF FillsOfOrders
    <3>3. all[i].at \in Nat /\ all[L].at \in Nat /\ x.at \in Nat
      BY <1>2, <3>1
    <3>4. CASE x.at = all[L].at + 1
      BY <3>2, <3>3, <3>4
    <3>5. CASE /\ x.at = all[L].at
               /\ Fills!SideOf(x.quantity) = Fills!SideOf(all[L].quantity)
      <4>1. x.quantity > 0 <=> all[L].quantity > 0
        BY <3>5 DEF Fills!SideOf
      <4>2. QED
        BY <3>2, <3>3, <3>5, <4>1
    <3>6. QED
      BY <3>1, <3>4, <3>5
  <2>3. ASSUME NEW i \in 1 .. Len(more), NEW j \in 1 .. Len(more), i <= j
        PROVE  /\ more[i].at <= more[j].at
               /\ more[i].at = more[j].at => (more[i].quantity > 0 <=> more[j].quantity > 0)
    <3>1. CASE j \in 1 .. L
      <4>1. i \in 1 .. L
        BY <1>2, <2>3, <3>1
      <4>2. QED
        BY <1>1, <1>2, <2>3, <3>1, <4>1 DEF FillsOfOrders
    <3>2. CASE j = L + 1 /\ i \in 1 .. L
      BY <1>2, <2>2, <3>2
    <3>3. CASE j = L + 1 /\ i = L + 1
      BY <1>2, <3>3
    <3>4. QED
      BY <1>3, <3>1, <3>2, <3>3
  <2>4. QED
    BY <1>2, <2>1, <2>3 DEF FillsOfOrders
<1>5. a \in Answers(more)
  <2>1. 0 .. Len(all) \subseteq 0 .. Len(more)
    BY <1>2
  <2>2. QED
    BY <1>1, <2>1 DEF Answers
<1>6. ASSUME NEW s \in 1 .. Len(ss)
      PROVE  /\ SessionFields(ss[s])
             /\ ss[s].open => s = Len(ss)
             /\ ss[s].sound => TradeIsKnown(more, a, ss[s])
  <2>1. /\ SessionFields(ss[s])
        /\ ss[s].open => s = Len(ss)
        /\ ss[s].sound => TradeIsKnown(all, a, ss[s])
    BY DEF SessionsAreKnown
  <2>2. TradeIsKnown(all, a, ss[s]) => TradeIsKnown(more, a, ss[s])
    BY <1>1, FillLeavesKnown DEF more
  <2>3. QED
    BY <2>1, <2>2
<1>7. \E S : ss \in Seq(S)
  BY DEF SessionsAreKnown
<1>8. QED
  BY <1>4, <1>5, <1>6, <1>7 DEF SessionsAreKnown, more

\* What the session of a position, or its absence, makes of the sessions
LEMMA SyncKeepsSessions ==
  ASSUME NEW all, NEW a, NEW ss, SessionsAreKnown(all, a, ss),
         NEW b \in Answers(all), b.position >= a.position, b.trades >= a.trades,
         NEW updated, NEW known, NEW active \in BOOLEAN, NEW keeps \in BOOLEAN,
         active <=> ss # <<>> /\ ss[Len(ss)].open,
         keeps => active,
         updated = IF active THEN [ss EXCEPT ![Len(ss)] = known] ELSE ss,
         active => /\ SessionFields(known) /\ known.open = keeps
                   /\ known.sound => TradeIsKnown(all, b, known)
  PROVE  /\ SessionsAreKnown(all, b, updated)
         /\ keeps \/ \A s \in 1 .. Len(updated) : ~updated[s].open
<1> DEFINE n == Len(ss)
<1>1. FillsOfOrders(all) /\ a \in Answers(all) /\ Len(all) \in Nat
  BY FillOfOrders DEF SessionsAreKnown
<1>2. PICK S : ss \in Seq(S) /\ known \in S
  <2>1. \E S : ss \in Seq(S)
    BY DEF SessionsAreKnown
  <2>2. QED
    BY <2>1, SequenceOf
<1>3. n \in Nat /\ (ss # <<>> => n \in 1 .. n)
  BY <1>2, LenProperties, EmptySeq
<1>4. /\ updated \in Seq(S) /\ Len(updated) = n
      /\ \A s \in 1 .. n : updated[s] = IF active /\ s = n THEN known ELSE ss[s]
  <2>1. CASE active
    <3>1. n \in 1 .. n
      BY <1>3, <2>1
    <3>2. updated = [ss EXCEPT ![n] = known]
      BY <2>1
    <3>3. QED
      BY <1>2, <2>1, <3>1, <3>2, ExceptSeq
  <2>2. CASE ~active
    BY <1>2, <2>2
  <2>3. QED
    BY <2>1, <2>2
<1>5. ASSUME NEW s \in 1 .. n
      PROVE  /\ SessionFields(ss[s]) /\ (ss[s].open => s = n)
             /\ ss[s].sound => TradeIsKnown(all, a, ss[s])
  BY DEF SessionsAreKnown
<1>6. ASSUME NEW s \in 1 .. n
      PROVE  /\ SessionFields(updated[s])
             /\ updated[s].open => s = n /\ keeps
             /\ updated[s].sound => TradeIsKnown(all, b, updated[s])
  <2>1. CASE active /\ s = n
    <3>1. updated[s] = known
      BY <1>4, <2>1
    <3>2. QED
      BY <2>1, <3>1
  <2>2. CASE ~(active /\ s = n)
    <3>1. updated[s] = ss[s]
      BY <1>4, <2>2
    <3>2. ~ss[s].open
      <4>1. ss[s].open => s = n /\ ss # <<>>
        BY <1>2, <1>3, <1>5
      <4>2. QED
        BY <2>2, <4>1
    <3>3. TradeIsKnown(all, a, ss[s]) => TradeIsKnown(all, b, ss[s])
      BY <1>1, <3>2, EndedStaysKnown
    <3>4. QED
      BY <1>5, <3>1, <3>2, <3>3
  <2>3. QED
    BY <2>1, <2>2
<1>7. QED
  BY <1>1, <1>4, <1>6 DEF SessionsAreKnown

\* What is known after one more session, when none was open
LEMMA FreshKeepsSessions ==
  ASSUME NEW all, NEW b, NEW ss, SessionsAreKnown(all, b, ss),
         \A s \in 1 .. Len(ss) : ~ss[s].open,
         NEW fresh, SessionFields(fresh), fresh.sound => TradeIsKnown(all, b, fresh)
  PROVE  SessionsAreKnown(all, b, Append(ss, fresh))
<1> DEFINE more == Append(ss, fresh)
<1>1. PICK S : ss \in Seq(S) /\ fresh \in S
  <2>1. \E S : ss \in Seq(S)
    BY DEF SessionsAreKnown
  <2>2. QED
    BY <2>1, SequenceOf
<1>2. /\ more \in Seq(S) /\ Len(ss) \in Nat /\ Len(more) = Len(ss) + 1
      /\ \A s \in 1 .. Len(ss) : more[s] = ss[s]
      /\ more[Len(ss) + 1] = fresh
  BY <1>1, AppendProperties, LenProperties
<1> HIDE DEF more
<1>3. ASSUME NEW s \in 1 .. Len(more)
      PROVE  /\ SessionFields(more[s])
             /\ more[s].open => s = Len(more)
             /\ more[s].sound => TradeIsKnown(all, b, more[s])
  <2>1. CASE s \in 1 .. Len(ss)
    <3>1. /\ SessionFields(ss[s]) /\ ~ss[s].open
          /\ ss[s].sound => TradeIsKnown(all, b, ss[s])
      BY <2>1 DEF SessionsAreKnown
    <3>2. more[s] = ss[s]
      BY <1>2, <2>1
    <3>3. QED
      BY <3>1, <3>2
  <2>2. CASE s = Len(ss) + 1
    BY <1>2, <2>2
  <2>3. s \in 1 .. Len(ss) \/ s = Len(ss) + 1
    BY <1>2
  <2>4. QED
    BY <2>1, <2>2, <2>3
<1>4. FillsOfOrders(all) /\ b \in Answers(all)
  BY DEF SessionsAreKnown
<1>5. QED
  BY <1>2, <1>3, <1>4 DEF SessionsAreKnown, more

-----------------------------------------------------------------------------
\* Position, for the fills as they are
LEMMA PositionIsHeld ==
  ASSUME NEW n
  PROVE  Fills!Position(n) = Held(fills, n)
BY BoughtIsSum DEF Fills!Position, Held

\* The trades that are returned are the last ones.
LEMMA RecentTradesAre ==
  ASSUME NEW q \in Nat
  PROVE  LET low == IF q > Limit THEN q - Limit ELSE 0
         IN  low \in Nat /\ Fills!RecentTrades(q) = low + 1 .. q /\ low >= q - Limit
<1> DEFINE low == IF q > Limit THEN q - Limit ELSE 0
<1>1. Limit \in Nat
  BY FillsAssumption
<1>2. low \in Nat /\ low >= q - Limit
  BY <1>1
<1>3. \A i : i \in Fills!RecentTrades(q) <=> i \in low + 1 .. q
  BY <1>1 DEF Fills!RecentTrades
<1>4. Fills!RecentTrades(q) = low + 1 .. q
  BY <1>3
<1>5. QED
  BY <1>2, <1>4

\* InferLiveTradeStart, for the fills as they are
LEMMA StartIsStartOf ==
  ASSUME NEW n, NEW updatedAt, NEW trades
  PROVE  Fills!InferLiveTradeStart(Held(fills, n), updatedAt, trades)
           = StartOf(fills, n, updatedAt, trades)
<1> DEFINE Previous(i) == Held(fills, n) - Fills!Bought(Fills!UpTo(i, trades))
           ends == {i \in trades : \/ Previous(i) = 0
                                   \/ Fills!SideOf(Previous(i)) # Fills!SideOf(Held(fills, n))}
           first == CHOOSE i \in ends : \A j \in ends : i \in Fills!UpTo(j, trades)
           least == CHOOSE x \in trades : \A y \in trades : x <= y
           Start(e, f, g) ==
             IF e # {}
             THEN [openedAt |-> fills[f].at,
                   attribution |-> IF g = 0 THEN "OBSERVED_FROM_FLAT"
                                   ELSE "INFERRED_FROM_RECENT_TRADES"]
             ELSE [openedAt |-> IF trades = {} THEN updatedAt ELSE fills[least].at,
                   attribution |-> "OBSERVED_AFTER_CONNECT"]
<1>1. Fills!InferLiveTradeStart(Held(fills, n), updatedAt, trades) = Start(ends, first, Previous(first))
  BY DEF Fills!InferLiveTradeStart, Fills!Min
<1>2. \A i : Fills!UpTo(i, trades) = TradesUpTo(fills, i, trades)
  BY DEF Fills!UpTo, TradesUpTo
<1>3. \A i : Previous(i) = PreviousOf(fills, n, i, trades)
  <2> HIDE DEF Previous
  <2>1. ASSUME NEW i
        PROVE  Previous(i) = PreviousOf(fills, n, i, trades)
    <3>1. Previous(i) = Held(fills, n) - Fills!Bought(TradesUpTo(fills, i, trades))
      BY <1>2 DEF Previous
    <3>2. QED
      BY <3>1, BoughtIsSum DEF PreviousOf
  <2>2. QED
    BY <2>1
<1>4. ends = Ends(fills, n, trades)
  <2> HIDE DEF Previous
  <2>1. \A i : i \in ends <=> i \in Ends(fills, n, trades)
    BY <1>3 DEF Ends, Turned
  <2> HIDE DEF ends
  <2>2. QED
    BY <2>1 DEF Ends
<1>5. first = FirstOf(fills, ends, trades)
  <2> HIDE DEF ends
  <2>1. QED
    BY DEF FirstOf, Fills!UpTo, TradesUpTo
<1>6. StartOf(fills, n, updatedAt, trades)
        = Start(Ends(fills, n, trades), FirstOf(fills, Ends(fills, n, trades), trades),
                PreviousOf(fills, n, FirstOf(fills, Ends(fills, n, trades), trades), trades))
  BY DEF StartOf
<1>7. QED
  <2> HIDE DEF Start, ends, first, Previous
  <2>1. QED
    BY <1>1, <1>3, <1>4, <1>5, <1>6

\* What is known after a synchronization
LEMMA SyncIsKnown ==
  ASSUME SessionsAreKnown(fills, answered, sessions), Fills!Sync
  PROVE  SessionsAreKnown(fills', answered', sessions')
<1>1. /\ FillsOfOrders(fills) /\ answered \in Answers(fills) /\ Len(fills) \in Nat
      /\ \A s \in 1 .. Len(sessions) : SessionFields(sessions[s])
      /\ \E S : sessions \in Seq(S)
  BY FillOfOrders DEF SessionsAreKnown
<1>2. PICK p \in answered.position .. Len(fills), q \in answered.trades .. Len(fills) :
        /\ p > 0
        /\ sessions' = Fills!Synced(p, q)
        /\ answered' = [position |-> p, trades |-> q]
        /\ fills' = fills
  BY DEF Fills!Sync
<1> DEFINE b == [position |-> p, trades |-> q]
           low == IF q > Limit THEN q - Limit ELSE 0
           trades == low + 1 .. q
           position == Held(fills, p)
           whole == p = q
           active == sessions # <<>> /\ sessions[Len(sessions)].open
           keeps == active /\ position # 0
                      /\ sessions[Len(sessions)].side = Fills!SideOf(position)
           merged == [MergedWith(fills, sessions[Len(sessions)], trades) EXCEPT
                        !.open = keeps,
                        !.sound = @ /\ whole /\ q - Limit <= answered.trades]
           updated == IF active THEN [sessions EXCEPT ![Len(sessions)] = merged] ELSE sessions
           start == StartOf(fills, p, fills[p].at, trades)
           fresh == [side |-> Fills!SideOf(position), open |-> TRUE,
                     openedAt |-> start.openedAt, seen |-> p,
                     attribution |-> start.attribution, observed |-> {}, sound |-> whole]
<1>3. /\ p \in 1 .. Len(fills) /\ q \in Nat /\ p >= answered.position /\ q >= answered.trades
      /\ answered.trades \in Nat
      /\ b \in Answers(fills) /\ b.position = p /\ b.trades = q
  <2>1. answered.position \in 0 .. Len(fills) /\ answered.trades \in 0 .. Len(fills)
    BY <1>1 DEF Answers
  <2>2. p \in 0 .. Len(fills) /\ q \in 0 .. Len(fills)
    BY <1>1, <1>2, <2>1
  <2>3. QED
    BY <1>1, <1>2, <2>1, <2>2 DEF Answers
<1>4. low \in Nat /\ Fills!RecentTrades(q) = trades /\ low >= q - Limit
  BY <1>3, RecentTradesAre
<1>5. sessions' = IF position = 0 \/ keeps THEN updated
                  ELSE Append(updated, MergedWith(fills, fresh, trades))
  <2> DEFINE Result(at, last, more, new) ==
               LET stays == active /\ at # 0 /\ last.side = Fills!SideOf(at)
                   known == [more EXCEPT !.open = stays,
                               !.sound = @ /\ whole /\ q - Limit <= answered.trades]
                   those == IF active THEN [sessions EXCEPT ![Len(sessions)] = known] ELSE sessions
               IN  IF at = 0 \/ stays THEN those ELSE Append(those, new)
             held == Fills!Position(p)
             recent == Fills!RecentTrades(q)
             created == Fills!Created(held, fills[p].at, recent, p, whole)
  <2>1. Fills!Synced(p, q)
          = Result(held, Fills!Last(sessions), Fills!Merge(Fills!Last(sessions), recent),
                   Fills!Merge(created, recent))
    BY DEF Fills!Synced, Fills!Last
  <2>2. held = position
    BY PositionIsHeld
  <2>3. Fills!InferLiveTradeStart(position, fills[p].at, trades) = start
    BY StartIsStartOf
  <2>4. Fills!Last(sessions) = sessions[Len(sessions)]
    BY DEF Fills!Last
  <2>5. \A c : Fills!Merge(c, trades) = MergedWith(fills, c, trades)
    BY DEF Fills!Merge, MergedWith, SinceOpening
  <2>6. Fills!Created(position, fills[p].at, trades, p, whole) = fresh
    BY <2>3 DEF Fills!Created
  <2>7. recent = trades
    BY <1>4
  <2>8. Result(position, sessions[Len(sessions)],
               MergedWith(fills, sessions[Len(sessions)], trades), MergedWith(fills, fresh, trades))
          = IF position = 0 \/ keeps THEN updated
            ELSE Append(updated, MergedWith(fills, fresh, trades))
    OBVIOUS
  <2> DEFINE result == IF position = 0 \/ keeps THEN updated
                       ELSE Append(updated, MergedWith(fills, fresh, trades))
  <2> HIDE DEF Result, held, recent, fresh, result, position, trades, whole
  <2>9. created = fresh
    BY <2>2, <2>6, <2>7
  <2>10. Fills!Synced(p, q) = result
    BY <2>1, <2>2, <2>4, <2>5, <2>7, <2>8, <2>9 DEF result
  <2>11. QED
    BY <1>2, <2>10 DEF result
<1> DEFINE last == sessions[Len(sessions)]
           sure == whole /\ q - Limit <= answered.trades
<1>6. /\ active \in BOOLEAN /\ keeps \in BOOLEAN /\ sure \in BOOLEAN /\ whole \in BOOLEAN
      /\ active <=> sessions # <<>> /\ last.open
      /\ keeps => active
  <2>1. active => Len(sessions) \in 1 .. Len(sessions)
    BY <1>1, LenProperties, EmptySeq
  <2>2. active => last.open \in BOOLEAN
    BY <1>1, <2>1 DEF SessionFields
  <2>3. active \in BOOLEAN
    OBVIOUS
  <2>4. QED
    BY <2>2, <2>3
<1>7. active => /\ SessionFields(merged) /\ merged.open = keeps
                /\ merged.sound => TradeIsKnown(fills, b, merged)
  <2>1. SUFFICES ASSUME active
                 PROVE  /\ SessionFields(merged) /\ merged.open = keeps
                        /\ merged.sound => TradeIsKnown(fills, b, merged)
    OBVIOUS
  <2>2. Len(sessions) \in 1 .. Len(sessions)
    BY <1>1, <2>1, LenProperties, EmptySeq
  <2>3. SessionFields(last) /\ last.open /\ (last.sound => TradeIsKnown(fills, answered, last))
    BY <2>1, <2>2 DEF SessionsAreKnown
  <2>4. keeps <=> Held(fills, b.position) # 0 /\ last.side = Fills!SideOf(Held(fills, b.position))
    BY <1>3, <2>1
  <2>5. sure => b.position = b.trades /\ low <= answered.trades
    BY <1>3, <1>4
  <2>6. merged = [MergedWith(fills, last, low + 1 .. b.trades)
                    EXCEPT !.open = keeps, !.sound = @ /\ sure]
    BY <1>3
  <2> HIDE DEF keeps, merged, sure, last, low, b, active
  <2>7. QED
    <3>1. /\ FillsOfOrders(fills) /\ answered \in Answers(fills) /\ b \in Answers(fills)
          /\ b.position >= answered.position /\ b.trades >= answered.trades /\ low \in Nat
          /\ keeps \in BOOLEAN /\ sure \in BOOLEAN
      BY <1>1, <1>3, <1>4, <1>6
    <3>2. IsSynced(fills, answered, b, low, last, keeps, sure, merged)
      BY <2>3, <2>4, <2>5, <2>6, <3>1 DEF IsSynced
    <3>3. QED
      BY <3>2, SyncedIsKnown
<1>8. /\ SessionsAreKnown(fills, b, updated)
      /\ keeps \/ \A s \in 1 .. Len(updated) : ~updated[s].open
  <2> HIDE DEF keeps, merged, sure, last, low, b, active
  <2>1. active <=> sessions # <<>> /\ sessions[Len(sessions)].open
    BY <1>6 DEF last
  <2>2. updated = IF active THEN [sessions EXCEPT ![Len(sessions)] = merged] ELSE sessions
    OBVIOUS
  <2> HIDE DEF updated
  <2>3. QED
    BY <1>3, <1>6, <1>7, <2>1, <2>2, SyncKeepsSessions
<1>9. ASSUME position # 0, ~keeps
      PROVE  SessionsAreKnown(fills, b, Append(updated, MergedWith(fills, fresh, trades)))
  <2> DEFINE new == MergedWith(fills, fresh, trades)
  <2>1. whole => b.position = b.trades
    BY <1>3
  <2>2. start = StartOf(fills, p, fills[p].at, low + 1 .. b.trades) /\ trades = low + 1 .. b.trades
    BY <1>3
  <2>3. fresh = [side |-> Fills!SideOf(Held(fills, p)), open |-> TRUE,
                 openedAt |-> start.openedAt, seen |-> p,
                 attribution |-> start.attribution, observed |-> {}, sound |-> whole]
    OBVIOUS
  <2>4. Held(fills, p) # 0
    BY <1>9
  <2> HIDE DEF keeps, updated, start, fresh, trades, b, low, whole
  <2>5. SessionFields(new) /\ new.open /\ (new.sound => TradeIsKnown(fills, b, new))
    BY <1>1, <1>3, <1>4, <1>6, <2>1, <2>2, <2>3, <2>4, FreshIsKnown
  <2>6. \A s \in 1 .. Len(updated) : ~updated[s].open
    BY <1>8, <1>9
  <2> HIDE DEF new
  <2>7. SessionsAreKnown(fills, b, Append(updated, new))
    BY <1>8, <2>5, <2>6, FreshKeepsSessions
  <2>8. QED
    BY <2>7 DEF new
<1>10. SessionsAreKnown(fills, b, sessions')
  <2> HIDE DEF keeps, updated, fresh, trades, b, position
  <2>1. QED
    BY <1>5, <1>8, <1>9
<1>11. QED
  BY <1>2, <1>10

\* What is known after the exchange fills an order
LEMMA FillIsKnown ==
  ASSUME SessionsAreKnown(fills, answered, sessions), Fills!Fill
  PROVE  SessionsAreKnown(fills', answered', sessions')
<1>1. PICK x \in [quantity : Quantities \cup {-q : q \in Quantities}, at : 1 .. MaxFills] :
        /\ \/ fills = <<>> /\ x.at = 1
           \/ fills # <<>> /\ x.at = Fills!Last(fills).at + 1
           \/ /\ fills # <<>> /\ x.at = Fills!Last(fills).at
              /\ Fills!SideOf(x.quantity) = Fills!SideOf(Fills!Last(fills).quantity)
        /\ fills' = Append(fills, x)
  BY DEF Fills!Fill
<1>2. answered' = answered /\ sessions' = sessions
  BY DEF Fills!Fill
<1>3. x \in FillRecord /\ x.quantity # 0
  <2>1. x.quantity \in Quantities \cup {-q : q \in Quantities} /\ x.at \in 1 .. MaxFills
    BY <1>1
  <2>2. \A q \in Quantities : q \in Int /\ q # 0 /\ -q \in Int /\ -q # 0
    <3>1. Quantities \subseteq Nat \ {0}
      BY FillsAssumption
    <3>2. \A q \in Nat \ {0} : q \in Int /\ q # 0 /\ -q \in Int /\ -q # 0
      OBVIOUS
    <3>3. QED
      BY <3>1, <3>2
  <2>3. x.quantity \in Int /\ x.quantity # 0
    BY <2>1, <2>2
  <2>4. x.at \in Nat
    BY <2>1, FillsAssumption
  <2>5. x = [quantity |-> x.quantity, at |-> x.at]
    BY <1>1
  <2>6. QED
    BY <2>3, <2>4, <2>5 DEF FillRecord
<1>4. fills # <<>> => \/ x.at = fills[Len(fills)].at + 1
                      \/ /\ x.at = fills[Len(fills)].at
                         /\ Fills!SideOf(x.quantity) = Fills!SideOf(fills[Len(fills)].quantity)
  BY <1>1 DEF Fills!Last
<1>5. SessionsAreKnown(Append(fills, x), answered, sessions)
  BY <1>3, <1>4, FillKeepsSessions
<1>6. QED
  BY <1>1, <1>2, <1>5

\* What the sessions know is what LiveTradeIsComplete asks.
LEMMA KnownIsComplete ==
  ASSUME SessionsAreKnown(fills, answered, sessions)
  PROVE  LiveTradeIsComplete
<1>1. /\ FillsOfOrders(fills) /\ Len(fills) \in Nat
      /\ answered \in Answers(fills)
  BY FillOfOrders DEF SessionsAreKnown
<1>2. DOMAIN sessions = 1 .. Len(sessions)
  <2>1. PICK S : sessions \in Seq(S)
    BY DEF SessionsAreKnown
  <2>2. QED
    BY <2>1, LenProperties
<1>3. ASSUME NEW s \in 1 .. Len(sessions), sessions[s].sound
      PROVE  /\ ~sessions[s].open /\ sessions[s].attribution # "OBSERVED_AFTER_CONNECT" =>
                  Fills!TradeOf(sessions[s].seen) \subseteq sessions[s].observed
             /\ \A i \in sessions[s].observed :
                  fills[i].at >= fills[Fills!OpeningFill(sessions[s].seen)].at
  <2> DEFINE c == sessions[s]
             n == c.seen
             opening == Opening(fills, n)
             endings == Fills!EndingFills(n)
  <2>1. TradeIsKnown(fills, answered, c)
    BY <1>3 DEF SessionsAreKnown
  <2> HIDE DEF c
  <2>2. Fills!OpeningFill(n) = opening
    <3>1. \A m : Fills!Position(m) = Held(fills, m)
      BY PositionIsHeld
    <3> DEFINE T == {i \in 1 .. n : \/ Fills!Position(i - 1) = 0
                                    \/ Fills!SideOf(Fills!Position(i - 1))
                                         # Fills!SideOf(Fills!Position(n))}
    <3>2. \A i : i \in T <=> i \in Turns(fills, n)
      BY <3>1 DEF Turns, Turned
    <3>3. Fills!OpeningFill(n) = CHOOSE i \in T : \A k \in T : i >= k
      BY DEF Fills!OpeningFill, Fills!Max
    <3> HIDE DEF T
    <3>4. T = Turns(fills, n)
      BY <3>2 DEF Turns
    <3>5. QED
      BY <3>3, <3>4 DEF Opening
  <2>3. \A e : e \in endings <=>
                 e \in n + 1 .. Len(fills) /\ Turned(Held(fills, e), Held(fills, n))
    <3>1. \A m : Fills!Position(m) = Held(fills, m)
      BY PositionIsHeld
    <3>2. QED
      BY <3>1 DEF Fills!EndingFills, Turned
  <2>4. ASSUME ~c.open, c.attribution # "OBSERVED_AFTER_CONNECT"
        PROVE  Fills!TradeOf(n) \subseteq c.observed
    <3>1. PICK e \in n + 1 .. Len(fills) :
            Turned(Held(fills, e), Held(fills, n)) /\ opening .. e \subseteq c.observed
      BY <2>1, <2>4 DEF TradeIsKnown
    <3>2. e \in endings
      BY <2>3, <3>1
    <3>3. n \in 1 .. Len(fills) /\ Held(fills, n) # 0
      BY <2>1 DEF TradeIsKnown
    <3>4. endings \in SUBSET Nat
      BY <1>1, <2>3, <3>3
    <3> DEFINE least == CHOOSE x \in endings : \A y \in endings : x <= y
    <3> HIDE DEF endings, opening, n
    <3>5. least \in endings /\ \A y \in endings : least <= y
      <4>1. \E x \in endings : \A y \in endings : x <= y
        BY <3>2, <3>4, LeastNumber
      <4>2. QED
        BY <4>1
    <3>6. Fills!TradeOf(n) = opening .. least
      <4>1. Fills!TradeOf(n) = opening .. Fills!Min(endings)
        BY <2>2, <3>2 DEF Fills!TradeOf, endings
      <4>2. Fills!Min(endings) = least
        BY DEF Fills!Min
      <4>3. QED
        BY <4>1, <4>2
    <3> HIDE DEF least
    <3>7. opening \in Nat /\ least \in Nat /\ e \in Nat /\ least <= e
      <4>1. opening \in 1 .. n
        BY <1>1, <3>3, OpeningIsLast DEF opening
      <4>2. QED
        BY <1>1, <3>2, <3>3, <3>4, <3>5, <4>1
    <3>8. opening .. least \subseteq opening .. e
      BY <3>7
    <3>9. QED
      BY <3>1, <3>6, <3>8
  <2>5. \A i \in c.observed : fills[i].at >= fills[opening].at
    BY <2>1 DEF TradeIsKnown
  <2> HIDE DEF opening
  <2>6. QED
    BY <2>2, <2>4, <2>5 DEF c, n
<1>4. QED
  BY <1>2, <1>3 DEF LiveTradeIsComplete, Fills!LiveTradeIsComplete

\* What is added up for a live trade is all of it, and nothing from before it,
\* whatever the account may buy and sell, and however many fills are returned.
THEOREM LiveTradesAreComplete == MCSpec => []LiveTradeIsComplete
<1> DEFINE Known == SessionsAreKnown(fills, answered, sessions)
<1>1. MCInit => Known
  <2>1. ASSUME MCInit
        PROVE  Known
    <3>1. fills = <<>> /\ answered = [position |-> 0, trades |-> 0] /\ sessions = <<>>
      BY <2>1 DEF MCInit, Fills!Init
    <3>2. <<>> \in Seq(FillRecord) /\ Len(<<>>) = 0 /\ 1 .. 0 = {} /\ <<>> \in Seq({})
      OBVIOUS
    <3>3. FillsOfOrders(<<>>)
      BY <3>2 DEF FillsOfOrders
    <3>4. [position |-> 0, trades |-> 0] \in Answers(<<>>)
      BY <3>2 DEF Answers
    <3>5. QED
      BY <3>1, <3>2, <3>3, <3>4 DEF SessionsAreKnown
  <2>2. QED
    BY <2>1
<1>2. Known /\ [MCNext]_<<vars, part, accounting>> => Known'
  <2>1. ASSUME Known, Fills!Next
        PROVE  Known'
    BY <2>1, FillIsKnown, SyncIsKnown DEF Fills!Next
  <2>2. ASSUME Known, UNCHANGED accounting
        PROVE  Known'
    BY <2>2 DEF accounting
  <2>3. [MCNext]_<<vars, part, accounting>> => Fills!Next \/ UNCHANGED accounting
    BY DEF MCNext
  <2> HIDE DEF Known
  <2>4. QED
    BY <2>1, <2>2, <2>3
<1>3. Known => LiveTradeIsComplete
  BY KnownIsComplete
<1>4. QED
  BY <1>1, <1>2, <1>3, PTL DEF MCSpec
=============================================================================
