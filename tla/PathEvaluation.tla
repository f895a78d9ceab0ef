---------------------------- MODULE PathEvaluation ----------------------------
(***************************************************************************)
(* How a replayed decision is scored (worker/src/evaluation-v2.ts and the  *)
(* scoring of worker/src/phase16-eval.ts): along the path of mark prices   *)
(* that the relay sampled after the decision.                              *)
(*                                                                         *)
(* A path is a function from the age of a sample to its price.  Moves are  *)
(* price distances: the bps and the R of the code are these, divided by a  *)
(* positive constant of the case.                                          *)
(***************************************************************************)
EXTENDS Integers, Sequences, FiniteSets, FiniteSetsExt

CONSTANT None   \* null

First(ages) == IF ages = {} THEN None ELSE Min(ages)
Before(a, b) == a # None /\ (b = None \/ a < b)   \* of two ages that may be null

\* normalizePricePath of stored points <<age, price>>: those that are not
\* positive are left out, and of two of the same age the last one counts.
NormalizePricePath(points) ==
  LET valid == {i \in DOMAIN points : points[i][1] > 0 /\ points[i][2] > 0}
  IN  [age \in {points[i][1] : i \in valid} |->
         points[Max({i \in valid : points[i][1] = age})][2]]

SignedMove(side, reference, price) ==
  IF side = "LONG" THEN price - reference ELSE reference - price

\* excursionFromReference: the best and the worst, and when each was first seen
ExcursionFromReference(side, reference, path, maxAge) ==
  LET seen == {t \in DOMAIN path : t <= maxAge}
      move(t) == SignedMove(side, reference, path[t])
      mfe == Max({0} \cup {move(t) : t \in seen})
      mae == Max({0} \cup {-move(t) : t \in seen})
  IN  [mfe |-> mfe, mae |-> mae,
       timeToMfe |-> First({t \in seen : mfe > 0 /\ move(t) = mfe}),
       timeToMae |-> First({t \in seen : mae > 0 /\ -move(t) = mae})]

LastAge(path) == Max({0} \cup DOMAIN path)
-----------------------------------------------------------------------------
\* planLevelHit
PlanLevelHit(side, kind, level, price) ==
  IF (kind = "STOP") = (side = "LONG") THEN price <= level ELSE price >= level

\* firstHit
FirstHit(side, kind, level, path) ==
  First({t \in DOMAIN path : PlanLevelHit(side, kind, level, path[t])})

Ordering(targetHit, stopHit) ==
  CASE targetHit = None /\ stopHit = None -> "UNRESOLVED"
    [] Before(targetHit, stopHit)         -> "TARGET_FIRST"
    [] Before(stopHit, targetHit)         -> "STOP_FIRST"
    [] OTHER                              -> "AMBIGUOUS_SAME_SAMPLE"

\* evaluateEnterPlan.  plan: [side, entry, stop, targets], firstMinute: 60 000 ms
EvaluateEnterPlan(plan, path, firstMinute) ==
  LET stopHit == FirstHit(plan.side, "STOP", plan.stop, path)
      excursion == ExcursionFromReference(plan.side, plan.entry, path, LastAge(path))
  IN  IF plan.targets = <<>> \/ DOMAIN path = {} \/ plan.entry = plan.stop
      THEN [available |-> FALSE]
      ELSE [available |-> TRUE,
            excursion |-> excursion,
            initialAdverse |->
              ExcursionFromReference(plan.side, plan.entry, path, firstMinute).mae,
            stopHit |-> stopHit,
            targets |-> [i \in DOMAIN plan.targets |->
              LET hit == FirstHit(plan.side, "TARGET", plan.targets[i], path)
              IN  [hit |-> hit, ordering |-> Ordering(hit, stopHit),
                   beforeStop |-> Before(hit, stopHit)]]]
-----------------------------------------------------------------------------
ConditionMet(condition, price, threshold) ==
  IF condition = "AT_OR_ABOVE" THEN price >= threshold ELSE price <= threshold

\* Mutant: the window goes on over a sample that does not match.
WaitStepKeepsMatch(contract, path, state, t) ==
  IF state.trigger # None \/ state.invalidation # None THEN state
  ELSE IF ConditionMet(contract.invalidationCondition, path[t], contract.invalidationPrice)
  THEN [state EXCEPT !.invalidation = t]
  ELSE IF ~ConditionMet(contract.triggerCondition, path[t], contract.triggerPrice)
  THEN state
  ELSE LET since == IF state.matchedAt = None THEN t ELSE state.matchedAt
       IN  [state EXCEPT !.matchedAt = since,
                         !.trigger = IF t - since >= contract.confirm THEN t ELSE None]

\* One round of the loop of evaluateWaitTrigger: nothing matters any more after
\* the invalidation or the trigger; a sample that does not match starts the
\* confirmation window anew.
WaitStep(contract, path, state, t) ==
  IF state.trigger # None \/ state.invalidation # None THEN state
  ELSE IF ConditionMet(contract.invalidationCondition, path[t], contract.invalidationPrice)
  THEN [state EXCEPT !.invalidation = t]
  ELSE IF ~ConditionMet(contract.triggerCondition, path[t], contract.triggerPrice)
  THEN [state EXCEPT !.matchedAt = None]
  ELSE LET since == IF state.matchedAt = None THEN t ELSE state.matchedAt
       IN  [state EXCEPT !.matchedAt = since,
                         !.trigger = IF t - since >= contract.confirm THEN t ELSE None]

\* A contract that had expired when the decision was made does not expire.
Live(contract, path) ==
  {t \in DOMAIN path : contract.expiry <= 0 \/ t <= contract.expiry}

\* evaluateWaitTrigger.  contract.expiry is relative to the decision, window:
\* the 15 minutes after the trigger
EvaluateWaitTrigger(side, contract, path, window) ==
  LET live  == Live(contract, path)
      state[t \in 0 .. LastAge(path)] ==
        IF t = 0 THEN [matchedAt |-> None, trigger |-> None, invalidation |-> None]
        ELSE IF t \in live THEN WaitStep(contract, path, state[t - 1], t) ELSE state[t - 1]
      end   == state[LastAge(path)]
      price == path[end.trigger]
      moved == price - contract.triggerPrice
      chase == CASE side = "LONG"  -> Max({0, moved})
                 [] side = "SHORT" -> Max({0, -moved})
                 [] OTHER          -> Max({moved, -moved})
      after == {t \in DOMAIN path : t \in end.trigger .. end.trigger + window}
  IN  IF DOMAIN path = {} THEN [available |-> FALSE]
      ELSE [available |-> TRUE,
            trigger |-> end.trigger,
            invalidation |-> end.invalidation,
            expired |-> end.trigger = None /\ end.invalidation = None
                        /\ contract.expiry > 0 /\ LastAge(path) >= contract.expiry,
            chase |-> IF end.trigger = None THEN None ELSE chase,
            chaseExceeded |-> end.trigger # None /\ chase > contract.maxChase,
            postTrigger |->
              IF end.trigger = None \/ side = "NEUTRAL" THEN None
              ELSE ExcursionFromReference(side, price,
                     [s \in {t - end.trigger : t \in after} |-> path[s + end.trigger]], window)]
-----------------------------------------------------------------------------
\* evaluateManagementDecision: the moves for and against within each horizon
EvaluateManagementDecision(side, anchor, path, horizons) ==
  IF side = "NEUTRAL" \/ anchor <= 0 \/ DOMAIN path = {} THEN [available |-> FALSE]
  ELSE [available |-> TRUE,
        horizons |-> [h \in horizons |-> ExcursionFromReference(side, anchor, path, h)]]

AtLeastZero(n) == IF n = None THEN None ELSE Max({0, n})
Negated(n)     == IF n = None THEN None ELSE -n

\* scoreHorizon of values [return, up, down], each of which may be null
ScoreHorizon(side, values) ==
  LET signed == IF side = "LONG" THEN values.return ELSE Negated(values.return)
      up     == AtLeastZero(values.up)
      down   == AtLeastZero(Negated(values.down))
      moves  == {values.up, values.down} \ {None}
      none   == [signed |-> None, favorable |-> None, adverse |-> None,
                 correct |-> None, opportunity |-> None]
  IN  IF side = "NEUTRAL"
      THEN [none EXCEPT !.opportunity =
              IF moves = {} THEN None ELSE Max(moves \cup {-m : m \in moves})]
      ELSE [none EXCEPT !.signed = signed,
              !.favorable = IF side = "LONG" THEN up ELSE down,
              !.adverse   = IF side = "LONG" THEN down ELSE up,
              !.correct   = IF signed = None THEN None ELSE signed > 0]

\* decisionClass
DecisionClass(decision) ==
  CASE decision = "ENTER_NOW"    -> "ENTER"
    [] decision = "WAIT_TRIGGER" -> "WAIT"
    [] decision = "NO_TRADE"     -> "ABSTAIN"
    [] decision = "DATA_BLOCKED" -> "DATA_BLOCKED"
    [] OTHER                     -> "POSITION_MANAGEMENT"

\* The columns of a run that scoreRun fills, from the 30 minute horizon.  v2
\* gives a direction to ENTER_NOW only and an opportunity to abstentions only.
ScoreColumns(version, decision, side, values) ==
  LET scored == ScoreHorizon(IF version = "eval-v2" /\ decision # "ENTER_NOW"
                             THEN "NEUTRAL" ELSE side, values)
      of(decisions, n) == IF version = "eval-v1" \/ decision \in decisions THEN n ELSE None
  IN  [signed      |-> of({"ENTER_NOW"}, scored.signed),
       correct     |-> of({"ENTER_NOW"}, scored.correct),
       opportunity |-> of({"WAIT_TRIGGER", "NO_TRADE"}, scored.opportunity)]
-----------------------------------------------------------------------------
Management == {"HOLD", "PARTIAL_EXIT", "EXIT", "MOVE_STOP", "CHANGE_TP"}

\* decisionEvaluation of scoreRunV2FromOutcome, by the decision of an output.  The
\* older form of outputs may wait without a contract.  times: the constants of
\* evaluation-v2.ts, in the units of the path
DecisionEvaluation(output, path, anchor, times) ==
  CASE output.decision = "ENTER_NOW" ->
         EvaluateEnterPlan(output.plan, path, times.firstMinute)
    [] output.decision = "WAIT_TRIGGER" /\ output.contract # None ->
         EvaluateWaitTrigger(output.side, output.contract, path, times.afterTrigger)
    [] output.decision \in Management ->
         EvaluateManagementDecision(output.side, anchor, path, times.horizons)
    [] OTHER -> [available |-> TRUE]   \* nothing to be scored

\* decisionEvaluationV2: what became of a decision that was logged live.  There may
\* be no outcome, so no anchor, and its payload may lack a plan or a contract.
RecordedEvaluation(decision, path, anchor, times) ==
  LET unavailable == [available |-> FALSE] IN
  IF anchor = None \/ DOMAIN path = {} THEN unavailable
  ELSE CASE decision.decision = "ENTER_NOW" /\ decision.side # "NEUTRAL" ->
              IF decision.plan = None THEN unavailable
              ELSE EvaluateEnterPlan(decision.plan, path, times.firstMinute)
         [] decision.decision = "WAIT_TRIGGER" ->
              IF decision.contract = None THEN unavailable
              ELSE EvaluateWaitTrigger(decision.side, decision.contract, path, times.afterTrigger)
         [] decision.decision \in Management ->
              EvaluateManagementDecision(decision.side, anchor, path, times.horizons)
         [] OTHER -> [available |-> TRUE]

Score(output, path, anchor, times) ==
  [class |-> DecisionClass(output.decision),
   evaluation |-> DecisionEvaluation(output, path, anchor, times)]

\* aggregateEvalV2PathQuality: scores are counted by their class, and what came
\* of them within it.
Summary(scores) ==
  LET of(class) == {i \in DOMAIN scores :
                      scores[i].class = class /\ scores[i].evaluation.available}
      enter  == of("ENTER")
      wait   == of("WAIT")
      replayed == {i \in wait : "trigger" \in DOMAIN scores[i].evaluation}
      tp1(o) == Cardinality({i \in enter : scores[i].evaluation.targets[1].ordering = o})
      count(S) == Cardinality(S)
  IN  [unavailable |-> count({i \in DOMAIN scores : ~scores[i].evaluation.available}),
       enter |-> [samples |-> count(enter),
                  targetFirst |-> tp1("TARGET_FIRST"), stopFirst |-> tp1("STOP_FIRST"),
                  ambiguous |-> tp1("AMBIGUOUS_SAME_SAMPLE")],
       wait |-> [samples |-> count(wait),
                 triggerHit |-> count({i \in replayed : scores[i].evaluation.trigger # None}),
                 invalidated |-> count({i \in replayed : scores[i].evaluation.invalidation # None}),
                 expired |-> count({i \in replayed : scores[i].evaluation.expired}),
                 chaseExceeded |-> count({i \in replayed : scores[i].evaluation.chaseExceeded})],
       management |-> count(of("POSITION_MANAGEMENT"))]

\* experimentSummary, of rows that may have an output, and a final score
ExperimentSummary(rows) ==
  LET count(Test(_)) == Cardinality({i \in DOMAIN rows : Test(rows[i])})
  IN  [totalRuns |-> Len(rows),
       outputRecordedRuns |-> count(LAMBDA row : row.output),
       finalScoredRuns    |-> count(LAMBDA row : row.final),
       directional |-> count(LAMBDA row : row.columns.signed # None),
       correct     |-> count(LAMBDA row : row.columns.correct = TRUE),
       abstain     |-> count(LAMBDA row : row.columns.opportunity # None)]
-----------------------------------------------------------------------------
\* The same path and plan seen from the other side of the price c.
Mirrored(path, c) == [t \in DOMAIN path |-> 2 * c - path[t]]
OtherSide(side) == IF side = "LONG" THEN "SHORT" ELSE "LONG"
MirroredPlan(plan, c) ==
  [plan EXCEPT !.side = OtherSide(@), !.entry = 2 * c - @, !.stop = 2 * c - @,
               !.targets = [i \in DOMAIN @ |-> 2 * c - @[i]]]

\* The stop and the targets are on their sides of the entry.
WellFormed(plan) ==
  /\ SignedMove(plan.side, plan.entry, plan.stop) < 0
  /\ \A i \in DOMAIN plan.targets : SignedMove(plan.side, plan.entry, plan.targets[i]) > 0

\* A plan's score does not depend on its side, and its parts agree: a level is
\* hit if and only if the excursion reaches it, no later than the excursion is
\* at its end, and which of two levels came first is never ambiguous.
EnterScoreAgrees(plan, path, firstMinute, c) ==
  LET score == EvaluateEnterPlan(plan, path, firstMinute) IN
  (WellFormed(plan) /\ score.available) =>
    /\ score = EvaluateEnterPlan(MirroredPlan(plan, c), Mirrored(path, c), firstMinute)
    /\ (score.stopHit # None) <=>
         (score.excursion.mae >= -SignedMove(plan.side, plan.entry, plan.stop))
    /\ score.stopHit # None => score.stopHit <= score.excursion.timeToMae
    /\ score.initialAdverse <= score.excursion.mae
    /\ \A i \in DOMAIN plan.targets :
         LET target == score.targets[i] IN
         /\ (target.hit # None) <=>
              (score.excursion.mfe >= SignedMove(plan.side, plan.entry, plan.targets[i]))
         /\ target.hit # None => target.hit <= score.excursion.timeToMfe
         /\ target.ordering # "AMBIGUOUS_SAME_SAMPLE"
         /\ target.beforeStop <=> target.ordering = "TARGET_FIRST"

\* The condition of the contract has held for its window at t.
Confirmed(contract, path, t) ==
  \E s \in DOMAIN path :
    /\ s <= t /\ t - s >= contract.confirm
    /\ \A u \in DOMAIN path : u \in s .. t =>
         ConditionMet(contract.triggerCondition, path[u], contract.triggerPrice)

\* The replayed trigger is what the contract says: the first sample at which the
\* condition has held for the window, unless the contract was invalidated at it
\* or before, or had expired; and one of the two, or neither, is what happened.
WaitScoreAgrees(side, contract, path, window) ==
  LET score  == EvaluateWaitTrigger(side, contract, path, window)
      live   == Live(contract, path)
      invalidated == First({t \in live :
        ConditionMet(contract.invalidationCondition, path[t], contract.invalidationPrice)})
      confirmed == First({t \in live : Confirmed(contract, path, t)})
  IN  score.available =>
        /\ score.trigger = IF Before(confirmed, invalidated) THEN confirmed ELSE None
        /\ score.invalidation = IF Before(confirmed, invalidated) THEN None ELSE invalidated
        /\ score.expired => score.trigger = None /\ score.invalidation = None
        /\ score.chaseExceeded => score.trigger # None
        /\ score.postTrigger # None => score.postTrigger.timeToMfe # 0

\* Over a longer horizon the moves for and against a position can only be
\* larger, and what is for the one side is against the other.
ManagementScoreAgrees(anchor, path, horizons) ==
  LET long  == EvaluateManagementDecision("LONG", anchor, path, horizons)
      short == EvaluateManagementDecision("SHORT", anchor, path, horizons)
  IN  long.available => \A h \in horizons :
        /\ long.horizons[h].mfe = short.horizons[h].mae
        /\ long.horizons[h].mae = short.horizons[h].mfe
        /\ \A k \in horizons : h < k => long.horizons[h].mfe <= long.horizons[k].mfe

\* No score is counted twice: an entry is won, lost or neither, a trigger was hit,
\* invalidated, expired or none of these, and the classes add up to the scores.
SummaryAddsUp(outputs, path, anchor, times) ==
  LET scores == [i \in DOMAIN outputs |-> Score(outputs[i], path, anchor, times)]
      summary == Summary(scores)
      unscored == Cardinality({i \in DOMAIN scores :
                    scores[i].class \in {"ABSTAIN", "DATA_BLOCKED"}})
  IN  /\ summary.enter.ambiguous = 0
      /\ summary.enter.targetFirst + summary.enter.stopFirst <= summary.enter.samples
      /\ summary.wait.triggerHit + summary.wait.invalidated + summary.wait.expired
           <= summary.wait.samples
      /\ summary.wait.chaseExceeded <= summary.wait.triggerHit
      /\ summary.unavailable + summary.enter.samples + summary.wait.samples
           + summary.management + unscored = Len(scores)

\* A decision is scored alike whether it was logged live or is the output of a
\* replay, and a plan or a trigger that is not known is not scored.
RecordedAgrees(decision, path, anchor, times) ==
  LET recorded == RecordedEvaluation(decision, path, anchor, times) IN
  /\ recorded.available => recorded = DecisionEvaluation(decision, path, anchor, times)
  /\ recorded.available /\ decision.decision = "WAIT_TRIGGER" => decision.contract # None
  /\ recorded.available => DOMAIN path # {}

\* No run of an experiment counts both for its direction and for what it passed
\* up, and none before its score is final.  One run is pending, one has no output.
RunsAddUp(columns) ==
  LET none    == [signed |-> None, correct |-> None, opportunity |-> None]
      summary == ExperimentSummary(<<[output |-> TRUE, final |-> TRUE, columns |-> columns],
                                     [output |-> TRUE, final |-> FALSE, columns |-> none],
                                     [output |-> FALSE, final |-> FALSE, columns |-> none]>>)
  IN  /\ summary.correct <= summary.directional
      /\ summary.directional + summary.abstain <= summary.finalScoredRuns
      /\ summary.finalScoredRuns <= summary.outputRecordedRuns
      /\ summary.outputRecordedRuns <= summary.totalRuns

\* What is said of a direction does not depend on the side either, and no
\* decision is scored both for its direction and for what it passed up.
ColumnsAgree(version, decision, side, values) ==
  LET other == [return |-> Negated(values.return),
                up |-> Negated(values.down), down |-> Negated(values.up)]
      columns == ScoreColumns(version, decision, side, values)
  IN  /\ side # "NEUTRAL" =>
           /\ columns = ScoreColumns(version, decision, OtherSide(side), other)
           /\ ScoreHorizon(side, values) = ScoreHorizon(OtherSide(side), other)
      /\ columns.signed = None \/ columns.opportunity = None
      /\ RunsAddUp(columns)
      /\ (columns.correct = None) <=> (columns.signed = None)
      /\ version = "eval-v2" /\ DecisionClass(decision) \in {"POSITION_MANAGEMENT", "DATA_BLOCKED"}
           => columns.signed = None /\ columns.opportunity = None
=============================================================================
