------------------------------ MODULE Experiments ------------------------------
(***************************************************************************)
(* Replay experiments of the relay worker (worker/src/phase16-eval.ts): an *)
(* experiment is registered, a run is started for one trial of it on a     *)
(* replay case, and the output of the run is recorded and scored.          *)
(*                                                                         *)
(* Requests run concurrently and without transactions: one action is one   *)
(* statement of one request.  Any statement may fail, which the client is  *)
(* told, or end the worker.                                                *)
(***************************************************************************)
EXTENDS Naturals, FiniteSets

CONSTANTS
  Configs,      \* what an experiment may be registered with
  Runs,         \* run ids
  Trials,       \* trials of the one experiment on the one replay case
  Outputs,      \* what a run may report
  Clients,      \* who sends requests
  MaxRequests   \* bound: requests

None == "none"

\* What is stored and reported is something.
ASSUME ExperimentsAssumption ==
  None \notin Configs \cup Trials \cup Outputs /\ MaxRequests \in Nat

VARIABLES
  config,      \* replay_experiments: the configuration of the experiment
  finalized,   \* replay_case_outcomes: is the outcome of the case final?
  runs,        \* replay_eval_runs: per run id, its row
  request,     \* per client, the request the worker runs for it
  accepted,    \* the configurations, runs and outputs clients were told are stored
  sent         \* requests so far

vars == <<config, finalized, runs, request, accepted, sent>>

NoRun == [trial |-> None, status |-> None, output |-> None, score |-> None]
Statuses == {"PENDING", "OUTPUT_RECORDED", "SCORED"}
Run == [trial : Trials, status : Statuses, output : Outputs \cup {None},
        score : Outputs \cup {None}]   \* a score is known by the output it is of
Idle == [pc |-> "idle"]

TypeOK ==
  /\ config \in Configs \cup {None} /\ finalized \in BOOLEAN
  /\ runs \in [Runs -> Run \cup {NoRun}]
  /\ request \in [Clients ->
       {Idle} \cup [pc : {"register", "insert experiment"}, config : Configs]
              \cup [pc : {"start", "trial", "insert run"}, run : Runs, trial : Trials]
              \cup [pc : {"output", "write", "score"}, run : Runs, output : Outputs]]
  /\ accepted \in [config : SUBSET Configs, run : SUBSET (Runs \X Trials),
                   output : SUBSET (Runs \X Outputs)]
  /\ sent \in 0 .. MaxRequests

Init ==
  /\ config = None /\ finalized = FALSE
  /\ runs = [r \in Runs |-> NoRun]
  /\ request = [c \in Clients |-> Idle]
  /\ accepted = [config |-> {}, run |-> {}, output |-> {}]
  /\ sent = 0
-----------------------------------------------------------------------------
At(c, pc) == request[c].pc = pc
Goto(c, pc) == request' = [request EXCEPT ![c].pc = pc]
Done(c) == request' = [request EXCEPT ![c] = Idle]
Accept(kind, what) == accepted' = [accepted EXCEPT ![kind] = @ \cup {what}]
Store == <<config, finalized, runs>>

\* A client sends a request, again after an error or not.
Send(c) ==
  /\ At(c, "idle") /\ sent < MaxRequests
  /\ sent' = sent + 1
  /\ \E r \in [pc : {"register"}, config : Configs]
             \cup [pc : {"start"}, run : Runs, trial : Trials]
             \cup [pc : {"output"}, run : Runs, output : Outputs] :
       request' = [request EXCEPT ![c] = r]
  /\ UNCHANGED <<Store, accepted>>

\* The client is told of a failure, or of nothing at all.
Fails(c) ==
  /\ ~At(c, "idle")
  /\ Done(c)
  /\ UNCHANGED <<Store, accepted, sent>>

\* The last outcomes of the replay case are in.
OutcomeFinal ==
  /\ ~finalized
  /\ finalized' = TRUE
  /\ UNCHANGED <<config, runs, request, accepted, sent>>
-----------------------------------------------------------------------------
\* registerExperiment: the id may be in use for the same configuration only.
Register(c) ==
  /\ At(c, "register")
  /\ \/ config = None /\ Goto(c, "insert experiment") /\ UNCHANGED accepted
     \/ config = request[c].config /\ Done(c) /\ Accept("config", config)
     \/ config \notin {None, request[c].config} /\ Done(c) /\ UNCHANGED accepted
  /\ UNCHANGED <<Store, sent>>

InsertExperiment(c) ==
  /\ At(c, "insert experiment") /\ config = None   \* the primary key
  /\ config' = request[c].config
  /\ Done(c) /\ Accept("config", config')
  /\ UNCHANGED <<finalized, runs, sent>>
-----------------------------------------------------------------------------
\* startRun up to loadRun: the run may exist, as the same trial or another one.
StartRun(c) ==
  LET row == runs[request[c].run] IN
  /\ At(c, "start")
  /\ \/ /\ config # None /\ finalized /\ row = NoRun
        /\ Goto(c, "trial") /\ UNCHANGED accepted
     \/ /\ config # None /\ finalized /\ row.trial = request[c].trial
        /\ Done(c) /\ Accept("run", <<request[c].run, row.trial>>)
     \/ /\ config = None \/ ~finalized \/ row.trial \notin {None, request[c].trial}
        /\ Done(c) /\ UNCHANGED accepted
  /\ UNCHANGED <<Store, sent>>

TrialTaken(trial) == \E r \in Runs : runs[r].trial = trial

\* loadRunByTrial
LookupTrial(c) ==
  /\ At(c, "trial")
  /\ IF TrialTaken(request[c].trial) THEN Done(c) ELSE Goto(c, "insert run")
  /\ UNCHANGED <<Store, accepted, sent>>

\* The primary key, and the unique index over experiment, decision and trial
Insertable(run, trial) == runs[run] = NoRun /\ ~TrialTaken(trial)

InsertRun(c) ==
  LET r == request[c] IN
  /\ At(c, "insert run") /\ Insertable(r.run, r.trial)
  /\ runs' = [runs EXCEPT ![r.run] =
       [trial |-> r.trial, status |-> "PENDING", output |-> None, score |-> None]]
  /\ Done(c) /\ Accept("run", <<r.run, r.trial>>)
  /\ UNCHANGED <<config, finalized, sent>>
-----------------------------------------------------------------------------
\* recordOutput up to its branches: a first output, the same again, another one.
RecordOutput(c) ==
  LET row == runs[request[c].run] IN
  /\ At(c, "output")
  /\ \/ row # NoRun /\ row.output = None /\ Goto(c, "write") /\ UNCHANGED accepted
     \/ /\ row # NoRun /\ row.output = request[c].output
        /\ IF row.status = "SCORED"
           THEN Done(c) /\ Accept("output", <<request[c].run, row.output>>)
           ELSE Goto(c, "score") /\ UNCHANGED accepted
     \/ /\ row = NoRun \/ row.output \notin {None, request[c].output}
        /\ Done(c) /\ UNCHANGED accepted
  /\ UNCHANGED <<Store, sent>>

\* Mutant: the UPDATE has lost its WHERE.
OverwriteOutput(c) ==
  LET r == request[c] IN
  /\ At(c, "write")
  /\ runs' = [runs EXCEPT ![r.run] = [@ EXCEPT !.output = r.output, !.status = "OUTPUT_RECORDED"]]
  /\ Goto(c, "score")
  /\ UNCHANGED <<config, finalized, accepted, sent>>

\* UPDATE ... WHERE output_payload IS NULL: another request may have been
\* faster, and this one goes on all the same.
WriteOutput(c) ==
  LET r == request[c] IN
  /\ At(c, "write")
  /\ runs' = IF runs[r.run].output # None THEN runs
             ELSE [runs EXCEPT ![r.run] =
                    [@ EXCEPT !.output = r.output, !.status = "OUTPUT_RECORDED"]]
  /\ Goto(c, "score")
  /\ UNCHANGED <<config, finalized, accepted, sent>>

\* persistScore: the score of the output that was sent.
PersistScore(c) ==
  LET r == request[c] IN
  /\ At(c, "score")
  /\ runs' = [runs EXCEPT ![r.run] = [@ EXCEPT !.score = r.output, !.status = "SCORED"]]
  /\ Done(c) /\ Accept("output", <<r.run, r.output>>)
  /\ UNCHANGED <<config, finalized, sent>>
-----------------------------------------------------------------------------
Next ==
  \/ OutcomeFinal
  \/ \E c \in Clients :
       \/ Send(c) \/ Fails(c)
       \/ Register(c) \/ InsertExperiment(c)
       \/ StartRun(c) \/ LookupTrial(c) \/ InsertRun(c)
       \/ RecordOutput(c) \/ WriteOutput(c) \/ PersistScore(c)

Spec == Init /\ [][Next]_vars
-----------------------------------------------------------------------------
\* What a client was told is stored, is: the configuration as it was sent, the
\* run as the one trial of its kind, and an output with a final score.
AcceptedIsStored ==
  /\ \A k \in accepted.config : config = k
  /\ \A a \in accepted.run : runs[a[1]].trial = a[2]
  /\ \A r, s \in Runs : r # s /\ runs[r] # NoRun => runs[r].trial # runs[s].trial
  /\ \A a \in accepted.output : runs[a[1]].status = "SCORED" /\ runs[a[1]].score # None

\* An output that is stored stays as it is, also when two clients report for
\* the same run at the same time, and a scored run stays scored.
StoredOutputStays ==
  [][\A r \in Runs :
       /\ runs[r] # NoRun => runs'[r].trial = runs[r].trial
       /\ runs[r].output # None => runs'[r].output = runs[r].output
       /\ runs[r].status = "SCORED" => runs'[r].status = "SCORED"]_vars

\* Both of these: what a client was told is stored, is, and stays.
ExperimentsKeepTheirWord == []AcceptedIsStored /\ StoredOutputStays

\* Reusing a run id with another output is a conflict
\* (docs/PHASE16B_EXPERIMENT_REGISTRY.md:78): no two outputs of a run are accepted.
OneOutputAccepted ==
  \A r \in Runs, o, p \in Outputs : {<<r, o>>, <<r, p>>} \subseteq accepted.output => o = p
=============================================================================
