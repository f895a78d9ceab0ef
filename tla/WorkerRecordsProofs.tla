-------------------------- MODULE WorkerRecordsProofs --------------------------
(***************************************************************************)
(* Proofs about what the worker keeps of decisions.                        *)
(*                                                                         *)
(* Experiments, for any number of clients, runs and requests: what a       *)
(* client was told is stored, is, and what is stored stays, however the    *)
(* statements of requests interleave and whichever of them fail.           *)
(*                                                                         *)
(* DecisionLineage, for any decisions, plans, prices and uploads: a        *)
(* decision is linked to a plan that followed it, and its row only         *)
(* advances while plans differ and uploads do not overlap.                 *)
(*                                                                         *)
(* SnapshotGates, PositionSizing and PositionAdjustment, for any market,   *)
(* position, plan and request: gates are right at every age, and what is   *)
(* accepted can be placed and loses no more than was allowed.              *)
(*                                                                         *)
(* PathEvaluation, for any stored samples, plan, contract and horizons:    *)
(* how a replayed decision is scored follows from the prices after it.     *)
(***************************************************************************)
EXTENDS MCWorkerRecords, FiniteSetTheorems, FunctionTheorems, WellFoundedInduction, TLAPS

Rows == Run \cup {NoRun}
Registering == [pc : {"register", "insert experiment"}, config : Configs]
Starting == [pc : {"start", "trial", "insert run"}, run : Runs, trial : Trials]
Reporting == [pc : {"output", "write", "score"}, run : Runs, output : Outputs]
Answers ==
  [config : SUBSET Configs, run : SUBSET (Runs \X Trials), output : SUBSET (Runs \X Outputs)]
RequestRecords == {Idle} \cup Registering \cup Starting \cup Reporting

\* How far a request is tells what it is.
LEMMA RequestKinds ==
  ASSUME NEW q \in RequestRecords
  PROVE  /\ q.pc \in {"register", "insert experiment"} <=> q \in Registering
         /\ q.pc \in {"start", "trial", "insert run"} <=> q \in Starting
         /\ q.pc \in {"output", "write", "score"} <=> q \in Reporting
         /\ q.pc = "idle" <=> q = Idle
<1>1. Idle.pc = "idle"
  BY DEF Idle
<1>2. \A x \in Registering : x.pc \in {"register", "insert experiment"}
  BY DEF Registering
<1>3. \A x \in Starting : x.pc \in {"start", "trial", "insert run"}
  BY DEF Starting
<1>4. \A x \in Reporting : x.pc \in {"output", "write", "score"}
  BY DEF Reporting
<1>5. QED
  BY <1>1, <1>2, <1>3, <1>4 DEF RequestRecords

\* What a request carries depends on how far it is, and stays while it goes on.
LEMMA RegistrationTyped ==
  ASSUME NEW q \in RequestRecords, q.pc \in {"register", "insert experiment"},
         NEW pc \in {"register", "insert experiment"}
  PROVE  q.config \in Configs /\ [q EXCEPT !.pc = pc] \in RequestRecords
<1>1. q \in Registering
  BY RequestKinds
<1>2. q.config \in Configs /\ [q EXCEPT !.pc = pc] \in Registering
  BY <1>1 DEF Registering
<1>3. QED
  BY <1>2 DEF RequestRecords

\* What a request to start a run carries
LEMMA StartTyped ==
  ASSUME NEW q \in RequestRecords, q.pc \in {"start", "trial", "insert run"},
         NEW pc \in {"start", "trial", "insert run"}
  PROVE  /\ q.run \in Runs /\ q.trial \in Trials
         /\ [q EXCEPT !.pc = pc] \in RequestRecords
<1>1. q \in Starting
  BY RequestKinds
<1>2. q.run \in Runs /\ q.trial \in Trials /\ [q EXCEPT !.pc = pc] \in Starting
  BY <1>1 DEF Starting
<1>3. QED
  BY <1>2 DEF RequestRecords

\* What a request to report an output, or to score it, carries
LEMMA OutputTyped ==
  ASSUME NEW q \in RequestRecords, q.pc \in {"output", "write", "score"},
         NEW pc \in {"output", "write", "score"}
  PROVE  /\ q.run \in Runs /\ q.output \in Outputs
         /\ [q EXCEPT !.pc = pc] \in RequestRecords
         /\ [q EXCEPT !.pc = pc].pc = pc /\ [q EXCEPT !.pc = pc].run = q.run
<1>1. q \in Reporting
  BY RequestKinds
<1>2. /\ q.run \in Runs /\ q.output \in Outputs /\ [q EXCEPT !.pc = pc] \in Reporting
      /\ [q EXCEPT !.pc = pc].pc = pc /\ [q EXCEPT !.pc = pc].run = q.run
  BY <1>1 DEF Reporting
<1>3. QED
  BY <1>2 DEF RequestRecords

\* A report is of something: an output that is not empty.
LEMMA ReportTyped ==
  ASSUME NEW q \in RequestRecords, q.pc \in {"output", "write", "score"}
  PROVE  q.run \in Runs /\ q.output \in Outputs /\ q.output # None
<1>1. q \in Reporting
  BY RequestKinds
<1>2. QED
  BY <1>1, ExperimentsAssumption DEF Reporting

\* The rows of runs that statements write are rows.
LEMMA RowsTyped ==
  ASSUME NEW row \in Run, NEW o \in Outputs
  PROVE  /\ [row EXCEPT !.output = o, !.status = "OUTPUT_RECORDED"] \in Run
         /\ [row EXCEPT !.score = o, !.status = "SCORED"] \in Run
BY DEF Run, Statuses

\* What a client is told is added to what clients were told.
LEMMA AcceptTyped ==
  ASSUME accepted \in Answers
  PROVE  /\ \A k \in Configs : Accept("config", k) => accepted' \in Answers
         /\ \A r \in Runs, t \in Trials : Accept("run", <<r, t>>) => accepted' \in Answers
         /\ \A r \in Runs, o \in Outputs : Accept("output", <<r, o>>) => accepted' \in Answers
BY DEF Answers, Accept

\* Types in the words of this module.
LEMMA Typed ==
  TypeOK <=>
    /\ config \in Configs \cup {None} /\ finalized \in BOOLEAN
    /\ runs \in [Runs -> Rows]
    /\ request \in [Clients -> RequestRecords]
    /\ accepted \in Answers
    /\ sent \in 0 .. MaxRequests
BY DEF TypeOK, Rows, RequestRecords, Registering, Starting, Reporting, Answers

(***************************************************************************)
(* What a request relies on after its first statement: the run it is about *)
(* exists, and once it goes on to score there is an output.  A run that is *)
(* scored has an output and a score.                                       *)
(***************************************************************************)
Reliable ==
  /\ \A c \in Clients :
       /\ request[c].pc \in {"write", "score"} => runs[request[c].run] # NoRun
       /\ request[c].pc = "score" => runs[request[c].run].output # None
  /\ \A r \in Runs :
       runs[r].status = "SCORED" => runs[r].output # None /\ runs[r].score # None

\* Nothing is stored.
LEMMA TypeInit == Init => TypeOK
<1>1. Init => accepted \in Answers
  BY DEF Init, Answers
<1>2. Init => sent \in 0 .. MaxRequests
  BY ExperimentsAssumption DEF Init
<1>3. Init => /\ config \in Configs \cup {None} /\ finalized \in BOOLEAN
              /\ runs \in [Runs -> Rows] /\ request \in [Clients -> RequestRecords]
  BY DEF Init, Rows, RequestRecords
<1>4. QED
  BY <1>1, <1>2, <1>3, Typed

\* Statements keep the types: what they write to a run, they write to one that is.
LEMMA TypeNext == TypeOK /\ Reliable /\ [Next]_vars => TypeOK'
<1>1. SUFFICES ASSUME TypeOK, Reliable, [Next]_vars
               PROVE  TypeOK'
  OBVIOUS
<1>2. /\ config \in Configs \cup {None} /\ finalized \in BOOLEAN
      /\ runs \in [Runs -> Rows]
      /\ request \in [Clients -> RequestRecords]
      /\ accepted \in Answers
      /\ sent \in 0 .. MaxRequests
  BY <1>1, Typed
<1>3. /\ config' \in Configs \cup {None} /\ finalized' \in BOOLEAN
      /\ runs' \in [Runs -> Rows]
      /\ request' \in [Clients -> RequestRecords]
      /\ accepted' \in Answers
      /\ sent' \in 0 .. MaxRequests
      => TypeOK'
  BY DEF TypeOK, Rows, RequestRecords, Registering, Starting, Reporting, Answers
<1>4. ASSUME NEW c \in Clients
      PROVE  /\ request[c] \in RequestRecords /\ Idle \in RequestRecords
             /\ Done(c) => request' \in [Clients -> RequestRecords]
             /\ \A pc : [request[c] EXCEPT !.pc = pc] \in RequestRecords /\ Goto(c, pc) =>
                  request' \in [Clients -> RequestRecords]
  BY <1>2 DEF Done, Goto, RequestRecords
<1>5. CASE UNCHANGED vars
  BY <1>2, <1>3, <1>5 DEF vars
<1>6. CASE OutcomeFinal
  BY <1>2, <1>3, <1>6 DEF OutcomeFinal
<1>7. ASSUME NEW c \in Clients, Send(c)
      PROVE  TypeOK'
  <2>1. PICK r \in [pc : {"register"}, config : Configs]
                   \cup [pc : {"start"}, run : Runs, trial : Trials]
                   \cup [pc : {"output"}, run : Runs, output : Outputs] :
          request' = [request EXCEPT ![c] = r]
    BY <1>7 DEF Send
  <2>2. r \in RequestRecords
    BY DEF RequestRecords, Registering, Starting, Reporting
  <2>3. request' \in [Clients -> RequestRecords]
    BY <1>2, <2>1, <2>2
  <2>4. sent' \in 0 .. MaxRequests
    BY <1>1, <1>2, <1>7, ExperimentsAssumption DEF Send
  <2>5. QED
    BY <1>2, <1>3, <1>7, <2>3, <2>4 DEF Send, Store
<1>8. ASSUME NEW c \in Clients, Fails(c)
      PROVE  TypeOK'
  BY <1>2, <1>3, <1>4, <1>8 DEF Fails, Store
<1>9. ASSUME NEW c \in Clients, Register(c) \/ InsertExperiment(c)
      PROVE  TypeOK'
  <2>1. /\ request[c].config \in Configs
        /\ [request[c] EXCEPT !.pc = "insert experiment"] \in RequestRecords
    BY <1>4, <1>9, RegistrationTyped DEF Register, InsertExperiment, At
  <2>2. request' \in [Clients -> RequestRecords]
    BY <1>4, <1>9, <2>1 DEF Register, InsertExperiment
  <2>3. CASE Register(c)
    <3>1. UNCHANGED accepted \/ (config \in Configs /\ Accept("config", config))
      BY <1>9, <2>1, <2>3 DEF Register
    <3>2. accepted' \in Answers
      BY <1>2, <3>1, AcceptTyped
    <3>3. QED
      BY <1>2, <1>3, <2>2, <2>3, <3>2 DEF Register, Store
  <2>4. CASE InsertExperiment(c)
    <3>1. config' \in Configs /\ Accept("config", config')
      BY <2>1, <2>4 DEF InsertExperiment
    <3>2. accepted' \in Answers
      BY <1>2, <3>1, AcceptTyped
    <3>3. QED
      BY <1>2, <1>3, <2>2, <2>4, <3>1, <3>2 DEF InsertExperiment
  <2>5. QED
    BY <1>9, <2>3, <2>4
<1>10. ASSUME NEW c \in Clients, StartRun(c) \/ LookupTrial(c) \/ InsertRun(c)
       PROVE  TypeOK'
  <2>1. /\ request[c].run \in Runs /\ request[c].trial \in Trials
        /\ \A pc \in {"trial", "insert run"} : [request[c] EXCEPT !.pc = pc] \in RequestRecords
    BY <1>4, <1>10, StartTyped DEF StartRun, LookupTrial, InsertRun, At
  <2>2. request' \in [Clients -> RequestRecords]
    BY <1>4, <1>10, <2>1 DEF StartRun, LookupTrial, InsertRun
  <2>3. \/ UNCHANGED accepted
        \/ Accept("run", <<request[c].run, request[c].trial>>)
    BY <1>10 DEF StartRun, LookupTrial, InsertRun
  <2>4. accepted' \in Answers
    BY <1>2, <2>1, <2>3, AcceptTyped
  <2>5. CASE StartRun(c) \/ LookupTrial(c)
    BY <1>2, <1>3, <2>2, <2>4, <2>5 DEF StartRun, LookupTrial, Store
  <2>6. CASE InsertRun(c)
    <3>1. [trial |-> request[c].trial, status |-> "PENDING", output |-> None,
           score |-> None] \in Rows
      BY <2>1 DEF Rows, Run, Statuses
    <3>2. runs' \in [Runs -> Rows]
      BY <1>2, <2>6, <3>1 DEF InsertRun
    <3>3. QED
      BY <1>2, <1>3, <2>2, <2>4, <2>6, <3>2 DEF InsertRun
  <2>7. QED
    BY <1>10, <2>5, <2>6
<1>11. ASSUME NEW c \in Clients, RecordOutput(c)
       PROVE  TypeOK'
  <2>1. /\ request[c].run \in Runs /\ request[c].output \in Outputs
        /\ \A pc \in {"write", "score"} : [request[c] EXCEPT !.pc = pc] \in RequestRecords
    BY <1>4, <1>11, OutputTyped DEF RecordOutput, At
  <2>2. request' \in [Clients -> RequestRecords]
    BY <1>4, <1>11, <2>1 DEF RecordOutput
  <2>3. \/ UNCHANGED accepted
        \/ Accept("output", <<request[c].run, request[c].output>>)
    BY <1>11 DEF RecordOutput
  <2>4. accepted' \in Answers
    BY <1>2, <2>1, <2>3, AcceptTyped
  <2>5. QED
    BY <1>2, <1>3, <1>11, <2>2, <2>4 DEF RecordOutput, Store
<1>12. ASSUME NEW c \in Clients, WriteOutput(c) \/ PersistScore(c)
       PROVE  TypeOK'
  <2>1. /\ request[c].run \in Runs /\ request[c].output \in Outputs
        /\ [request[c] EXCEPT !.pc = "score"] \in RequestRecords
    BY <1>4, <1>12, OutputTyped DEF WriteOutput, PersistScore, At
  <2>2. runs[request[c].run] \in Run
    BY <1>1, <1>2, <1>12, <2>1 DEF Reliable, WriteOutput, PersistScore, At, Rows
  <2>3. runs' \in [Runs -> Rows]
    <3>1. \A row \in Rows : [runs EXCEPT ![request[c].run] = row] \in [Runs -> Rows]
      BY <1>2
    <3>2. \/ UNCHANGED runs
          \/ runs' = [runs EXCEPT ![request[c].run] =
                       [@ EXCEPT !.output = request[c].output, !.status = "OUTPUT_RECORDED"]]
          \/ runs' = [runs EXCEPT ![request[c].run] =
                       [@ EXCEPT !.score = request[c].output, !.status = "SCORED"]]
      BY <1>12 DEF WriteOutput, PersistScore
    <3>3. /\ [runs[request[c].run] EXCEPT !.output = request[c].output,
                                         !.status = "OUTPUT_RECORDED"] \in Rows
          /\ [runs[request[c].run] EXCEPT !.score = request[c].output,
                                         !.status = "SCORED"] \in Rows
      BY <2>1, <2>2, RowsTyped DEF Rows
    <3>4. QED
      BY <1>2, <3>1, <3>2, <3>3
  <2>4. request' \in [Clients -> RequestRecords]
    BY <1>4, <1>12, <2>1 DEF WriteOutput, PersistScore
  <2>5. \/ UNCHANGED accepted
        \/ Accept("output", <<request[c].run, request[c].output>>)
    BY <1>12 DEF WriteOutput, PersistScore
  <2>6. accepted' \in Answers
    BY <1>2, <2>1, <2>5, AcceptTyped
  <2>7. QED
    BY <1>2, <1>3, <1>12, <2>3, <2>4, <2>6 DEF WriteOutput, PersistScore
<1>13. QED
  BY <1>1, <1>5, <1>6, <1>7, <1>8, <1>9, <1>10, <1>11, <1>12 DEF Next
-----------------------------------------------------------------------------
(***************************************************************************)
(* What a run has, it keeps.                                               *)
(***************************************************************************)
Keeps(old, new) ==
  /\ old # NoRun => new # NoRun /\ new.trial = old.trial
  /\ old.output # None => new.output = old.output
  /\ old.status = "SCORED" => new.status = "SCORED"
  /\ old.score # None => new.score # None

\* What one statement makes of the run r
Written(r, new) ==
  /\ r \in Runs /\ runs' = [runs EXCEPT ![r] = new]
  /\ \/ /\ runs[r] = NoRun /\ new \in Run
        /\ new.status = "PENDING" /\ ~TrialTaken(new.trial)
     \/ /\ runs[r] \in Run /\ new.trial = runs[r].trial /\ new \in Run
        /\ runs[r].output = None /\ new.output # None
        /\ new.status = "OUTPUT_RECORDED" /\ new.score = runs[r].score
     \/ /\ runs[r] \in Run /\ new.trial = runs[r].trial /\ new \in Run
        /\ new.output = runs[r].output /\ new.output # None
        /\ new.status = "SCORED" /\ new.score # None

\* A statement writes a new run, a first output or a score.
LEMMA Statements ==
  ASSUME TypeOK, Reliable, NEW c \in Clients, ~UNCHANGED runs,
         InsertRun(c) \/ WriteOutput(c) \/ PersistScore(c)
  PROVE  \E new \in Run : Written(request[c].run, new)
<1>1. runs \in [Runs -> Rows] /\ request \in [Clients -> RequestRecords]
  BY Typed
<1>2. CASE InsertRun(c)
  <2> DEFINE new == [trial |-> request[c].trial, status |-> "PENDING",
                     output |-> None, score |-> None]
             r == request[c].run
  <2>1. r \in Runs /\ request[c].trial \in Trials
    BY <1>1, <1>2, StartTyped DEF InsertRun, At
  <2>2. /\ runs' = [runs EXCEPT ![r] = new] /\ runs[r] = NoRun
        /\ ~TrialTaken(request[c].trial)
    BY <1>2 DEF InsertRun, Insertable
  <2>3. new \in Run /\ new.status = "PENDING" /\ new.trial = request[c].trial
    BY <2>1 DEF Run, Statuses
  <2> HIDE DEF new
  <2>4. QED
    BY <2>1, <2>2, <2>3 DEF Written
<1>3. CASE WriteOutput(c)
  <2> DEFINE r == request[c].run
             new == [runs[r] EXCEPT !.output = request[c].output, !.status = "OUTPUT_RECORDED"]
  <2>1. r \in Runs /\ request[c].output \in Outputs /\ request[c].output # None
    BY <1>1, <1>3, ReportTyped DEF WriteOutput, At
  <2>2. runs[r] \in Run
    BY <1>1, <1>3, <2>1 DEF Reliable, WriteOutput, At, Rows
  <2>3. runs[r].output = None /\ runs' = [runs EXCEPT ![r] = new]
    BY <1>3 DEF WriteOutput
  <2>4. /\ new \in Run /\ new.trial = runs[r].trial /\ new.output = request[c].output
        /\ new.status = "OUTPUT_RECORDED" /\ new.score = runs[r].score
    BY <2>1, <2>2 DEF Run, Statuses
  <2> HIDE DEF new
  <2>5. QED
    BY <2>1, <2>2, <2>3, <2>4 DEF Written
<1>4. CASE PersistScore(c)
  <2> DEFINE r == request[c].run
             new == [runs[r] EXCEPT !.score = request[c].output, !.status = "SCORED"]
  <2>1. r \in Runs /\ request[c].output \in Outputs /\ request[c].output # None
    BY <1>1, <1>4, ReportTyped DEF PersistScore, At
  <2>2. runs[r] \in Run /\ runs[r].output # None
    BY <1>1, <1>4, <2>1 DEF Reliable, PersistScore, At, Rows
  <2>3. runs' = [runs EXCEPT ![r] = new]
    BY <1>4 DEF PersistScore
  <2>4. /\ new \in Run /\ new.trial = runs[r].trial /\ new.output = runs[r].output
        /\ new.status = "SCORED" /\ new.score = request[c].output
    BY <2>1, <2>2 DEF Run, Statuses
  <2> HIDE DEF new
  <2>5. QED
    BY <2>1, <2>2, <2>3, <2>4 DEF Written
<1>5. QED
  BY <1>2, <1>3, <1>4

\* Only these statements write runs.
LEMMA OnlyStatements ==
  ASSUME [Next]_vars, ~UNCHANGED runs
  PROVE  \E c \in Clients : InsertRun(c) \/ WriteOutput(c) \/ PersistScore(c)
BY DEF Next, vars, OutcomeFinal, Send, Fails, Register, InsertExperiment, StartRun,
       LookupTrial, RecordOutput, Store

\* Whatever happens, a run that is there stays, with its trial, its output, and
\* its being scored.
LEMMA RunsStay ==
  ASSUME TypeOK, Reliable, [Next]_vars
  PROVE  \A r \in Runs : Keeps(runs[r], runs'[r])
<1>1. runs \in [Runs -> Rows]
  BY Typed
<1>2. \A row \in Rows : Keeps(row, row)
  BY DEF Keeps
<1>3. CASE UNCHANGED runs
  BY <1>1, <1>2, <1>3
<1>4. ASSUME NEW s \in Runs, NEW new \in Run, Written(s, new)
      PROVE  \A r \in Runs : Keeps(runs[r], runs'[r])
  <2>1. /\ NoRun.output = None /\ NoRun.status = None /\ NoRun.score = None
        /\ NoRun.trial = None /\ None \notin Trials
    BY ExperimentsAssumption DEF NoRun
  <2>2. new # NoRun
    BY <2>1 DEF Run
  <2>3. None # "SCORED"
    BY DEF None
  <2>4. runs[s].status = "SCORED" => runs[s].output # None
    BY DEF Reliable
  <2>5. Keeps(runs[s], new)
    BY <1>4, <2>1, <2>2, <2>3, <2>4 DEF Written, Keeps
  <2>6. \A r \in Runs : runs'[r] = IF r = s THEN new ELSE runs[r]
    BY <1>1, <1>4 DEF Written
  <2>7. QED
    BY <1>1, <1>2, <2>5, <2>6
<1>5. QED
  <2>1. CASE ~UNCHANGED runs
    <3>1. PICK c \in Clients : InsertRun(c) \/ WriteOutput(c) \/ PersistScore(c)
      BY <2>1, OnlyStatements
    <3>2. PICK new \in Run : Written(request[c].run, new)
      BY <2>1, <3>1, Statements
    <3>3. request[c].run \in Runs
      BY <3>2 DEF Written
    <3>4. QED
      BY <1>4, <3>2, <3>3
  <2>2. QED
    BY <1>3, <2>1
-----------------------------------------------------------------------------
(***************************************************************************)
(* What requests rely on holds when they get there.                        *)
(***************************************************************************)
\* Where request c stands, it stands on this run.
Stands(q) ==
  /\ q.pc \in {"write", "score"} => runs[q.run] # NoRun
  /\ q.pc = "score" => runs[q.run].output # None

\* A request that does not move still has what it relies on.
LEMMA StandsStill ==
  ASSUME NEW q \in RequestRecords, Stands(q),
         \A r \in Runs : Keeps(runs[r], runs'[r]),
         NEW p, p = q
  PROVE  /\ p.pc \in {"write", "score"} => runs'[p.run] # NoRun
         /\ p.pc = "score" => runs'[p.run].output # None
<1>1. q.pc \in {"write", "score"} => q.run \in Runs
  BY OutputTyped
<1>2. QED
  BY <1>1 DEF Stands, Keeps

\* Every statement leads a request where it has what it relies on.
LEMMA RequestsReliable ==
  ASSUME TypeOK, Reliable, [Next]_vars, NEW c \in Clients
  PROVE  /\ request'[c].pc \in {"write", "score"} => runs'[request'[c].run] # NoRun
         /\ request'[c].pc = "score" => runs'[request'[c].run].output # None
<1>1. /\ request \in [Clients -> RequestRecords] /\ request[c] \in RequestRecords
      /\ \A r \in Runs : Keeps(runs[r], runs'[r])
      /\ Stands(request[c])
  BY Typed, RunsStay DEF Reliable, Stands
<1>2. CASE request'[c] = request[c]
  BY <1>1, <1>2, StandsStill
<1>3. CASE request'[c].pc \notin {"write", "score"}
  BY <1>3
<1>4. CASE RecordOutput(c)
  <2>1. request[c].run \in Runs /\ request[c].output # None
    BY <1>1, <1>4, ReportTyped DEF RecordOutput, At
  <2>2. \/ Done(c)
        \/ Goto(c, "write") /\ runs[request[c].run] # NoRun
        \/ /\ Goto(c, "score") /\ runs[request[c].run] # NoRun
           /\ runs[request[c].run].output # None
    BY <1>4, <2>1 DEF RecordOutput
  <2>3. CASE Done(c)
    BY <1>1, <1>3, <2>3 DEF Done, Idle
  <2>4. CASE ~Done(c)
    <3>1. PICK pc \in {"write", "score"} : Goto(c, pc) /\ (pc = "score" =>
                                             runs[request[c].run].output # None)
      BY <2>2, <2>4
    <3>2. request'[c] = [request[c] EXCEPT !.pc = pc]
      BY <1>1, <3>1 DEF Goto
    <3>3. request'[c].run = request[c].run /\ request'[c].pc = pc
      BY <1>1, <1>4, <3>2, OutputTyped DEF RecordOutput, At
    <3>4. runs[request[c].run] # NoRun
      BY <2>2, <2>4
    <3>5. QED
      BY <1>1, <2>1, <3>1, <3>3, <3>4 DEF Keeps
  <2>5. QED
    BY <2>3, <2>4
<1>5. CASE WriteOutput(c)
  <2>1. /\ request[c].run \in Runs /\ request[c].output # None
        /\ [request[c] EXCEPT !.pc = "score"].run = request[c].run
    BY <1>1, <1>5, OutputTyped, ExperimentsAssumption DEF WriteOutput, At
  <2>2. request'[c].run = request[c].run
    BY <1>1, <1>5, <2>1 DEF WriteOutput, Goto
  <2>3. runs[request[c].run] # NoRun
    BY <1>1, <1>5 DEF WriteOutput, At, Stands
  <2>4. runs'[request[c].run].output # None
    <3>1. CASE runs[request[c].run].output # None
      BY <1>1, <2>1, <3>1 DEF Keeps
    <3>2. CASE runs[request[c].run].output = None
      <4>1. runs[request[c].run] \in Run /\ runs \in [Runs -> Rows]
        BY <2>1, <2>3, Typed DEF Rows
      <4>2. runs'[request[c].run] =
              [runs[request[c].run] EXCEPT !.output = request[c].output,
                                           !.status = "OUTPUT_RECORDED"]
        BY <1>5, <2>1, <3>2, <4>1 DEF WriteOutput
      <4>3. QED
        BY <2>1, <4>1, <4>2 DEF Run
    <3>3. QED
      BY <3>1, <3>2
  <2>5. QED
    BY <1>1, <2>1, <2>2, <2>3, <2>4 DEF Keeps
<1>6. ASSUME NEW d \in Clients,
             \/ Send(d) \/ Fails(d) \/ Register(d) \/ InsertExperiment(d)
             \/ StartRun(d) \/ LookupTrial(d) \/ InsertRun(d)
             \/ RecordOutput(d) \/ WriteOutput(d) \/ PersistScore(d),
             d # c
      PROVE  request'[c] = request[c]
  BY <1>1, <1>6 DEF Send, Fails, Register, InsertExperiment, StartRun, LookupTrial,
     InsertRun, RecordOutput, WriteOutput, PersistScore, Done, Goto
<1>7. CASE Send(c)
  <2>1. request'[c].pc \in {"register", "start", "output"}
    BY <1>1, <1>7 DEF Send
  <2>2. QED
    BY <1>3, <2>1
<1>8. CASE Done(c)
  BY <1>1, <1>3, <1>8 DEF Done, Idle
<1>9. CASE Register(c) \/ StartRun(c) \/ LookupTrial(c)
  <2>1. CASE Goto(c, "insert experiment") \/ Goto(c, "trial") \/ Goto(c, "insert run")
    <3>1. PICK pc \in {"insert experiment", "trial", "insert run"} : Goto(c, pc)
      BY <2>1
    <3>2. request'[c] = [request[c] EXCEPT !.pc = pc] /\ "pc" \in DOMAIN request[c]
      BY <1>1, <3>1 DEF Goto, RequestRecords, Idle, Registering, Starting, Reporting
    <3>3. QED
      BY <1>3, <3>2
  <2>2. QED
    BY <1>8, <1>9, <2>1 DEF Register, StartRun, LookupTrial
<1>10. CASE Fails(c) \/ InsertExperiment(c) \/ InsertRun(c) \/ PersistScore(c)
  BY <1>8, <1>10 DEF Fails, InsertExperiment, InsertRun, PersistScore
<1>11. CASE OutcomeFinal \/ UNCHANGED vars
  BY <1>2, <1>11 DEF OutcomeFinal, vars
<1>12. QED
  BY <1>2, <1>4, <1>5, <1>6, <1>7, <1>9, <1>10, <1>11 DEF Next

\* A run that is scored has been reported for and has a score.
LEMMA ReliableNext == TypeOK /\ Reliable /\ [Next]_vars => Reliable'
<1>1. SUFFICES ASSUME TypeOK, Reliable, [Next]_vars
               PROVE  Reliable'
  OBVIOUS
<1>2. \A r \in Runs : runs'[r].status = "SCORED" =>
                        runs'[r].output # None /\ runs'[r].score # None
  <2>1. CASE UNCHANGED runs
    BY <1>1, <2>1 DEF Reliable
  <2>2. CASE ~UNCHANGED runs
    <3>1. PICK c \in Clients : InsertRun(c) \/ WriteOutput(c) \/ PersistScore(c)
      BY <1>1, <2>2, OnlyStatements
    <3>2. PICK new \in Run : Written(request[c].run, new)
      BY <1>1, <2>2, <3>1, Statements
    <3>3. new.status = "SCORED" => new.output # None /\ new.score # None
      BY <3>2 DEF Written
    <3>4. runs \in [Runs -> Rows]
      BY <1>1, Typed
    <3>5. \A r \in Runs : runs'[r] = IF r = request[c].run THEN new ELSE runs[r]
      BY <3>2, <3>4 DEF Written
    <3>6. QED
      BY <1>1, <3>3, <3>5 DEF Reliable
  <2>3. QED
    BY <2>1, <2>2
<1>3. QED
  BY <1>1, <1>2, RequestsReliable DEF Reliable
-----------------------------------------------------------------------------
(***************************************************************************)
(* What clients were told.                                                 *)
(***************************************************************************)
\* No two runs are of one trial.
TrialsDiffer ==
  \A r, s \in Runs : r # s /\ runs[r] # NoRun => runs[r].trial # runs[s].trial

\* A run is only inserted for a trial that has none (the unique index).
LEMMA TrialsStayDifferent ==
  ASSUME TypeOK, Reliable, TrialsDiffer, [Next]_vars
  PROVE  TrialsDiffer'
<1>1. CASE UNCHANGED runs
  BY <1>1 DEF TrialsDiffer
<1>2. CASE ~UNCHANGED runs
  <2>1. PICK c \in Clients : InsertRun(c) \/ WriteOutput(c) \/ PersistScore(c)
    BY <1>2, OnlyStatements
  <2>2. PICK new \in Run : Written(request[c].run, new)
    BY <1>2, <2>1, Statements
  <2>3. runs \in [Runs -> Rows] /\ request[c].run \in Runs
    BY <2>2, Typed DEF Written
  <2>4. \A r \in Runs : runs'[r] = IF r = request[c].run THEN new ELSE runs[r]
    BY <2>2, <2>3 DEF Written
  <2>5. NoRun \notin Run
    BY ExperimentsAssumption DEF NoRun, Run
  <2>6. CASE runs[request[c].run] = NoRun
    <3>1. \A r \in Runs : runs[r].trial # new.trial
      BY <2>2, <2>5, <2>6 DEF Written, TrialTaken
    <3>2. QED
      BY <2>4, <3>1 DEF TrialsDiffer
  <2>7. CASE runs[request[c].run] # NoRun
    <3>1. new.trial = runs[request[c].run].trial
      BY <2>2, <2>7 DEF Written
    <3>2. QED
      BY <2>3, <2>4, <2>7, <3>1 DEF TrialsDiffer
  <2>8. QED
    BY <2>6, <2>7
<1>3. QED
  BY <1>1, <1>2

\* The configuration that was accepted is the one that is stored.
LEMMA ConfigurationStays ==
  ASSUME TypeOK, \A k \in accepted.config : config = k, [Next]_vars
  PROVE  \A k \in accepted'.config : config' = k
<1>1. /\ accepted \in Answers /\ config \in Configs \cup {None} /\ None \notin Configs
      /\ request \in [Clients -> RequestRecords]
  BY Typed, ExperimentsAssumption
<1>2. config = None => accepted.config = {}
  BY <1>1 DEF Answers
<1>3. CASE accepted'.config = accepted.config /\ UNCHANGED config
  BY <1>3
<1>4. ASSUME NEW c \in Clients, Register(c)
      PROVE  \A k \in accepted'.config : config' = k
  <2>1. UNCHANGED config /\ (Accept("config", config) \/ UNCHANGED accepted)
    BY <1>4 DEF Register, Store
  <2>2. accepted'.config \subseteq accepted.config \cup {config}
    BY <1>1, <2>1 DEF Accept, Answers
  <2>3. QED
    BY <2>1, <2>2
<1>5. ASSUME NEW c \in Clients, InsertExperiment(c)
      PROVE  \A k \in accepted'.config : config' = k
  <2>1. accepted'.config = accepted.config \cup {config'}
    BY <1>1, <1>5 DEF InsertExperiment, Accept, Answers
  <2>2. QED
    BY <1>2, <1>5, <2>1 DEF InsertExperiment
<1>6. ASSUME NEW c \in Clients,
             \/ Send(c) \/ Fails(c) \/ StartRun(c) \/ LookupTrial(c) \/ InsertRun(c)
             \/ RecordOutput(c) \/ WriteOutput(c) \/ PersistScore(c)
      PROVE  accepted'.config = accepted.config /\ UNCHANGED config
  <2>1. \A kind \in {"run", "output"} : \A what :
          Accept(kind, what) => accepted'.config = accepted.config
    BY <1>1 DEF Accept, Answers
  <2>2. QED
    BY <1>6, <2>1 DEF Send, Fails, StartRun, LookupTrial, InsertRun, RecordOutput,
       WriteOutput, PersistScore, Store
<1>7. CASE OutcomeFinal \/ UNCHANGED vars
  BY <1>3, <1>7 DEF OutcomeFinal, vars
<1>8. QED
  BY <1>3, <1>4, <1>5, <1>6, <1>7 DEF Next

\* A run that was accepted is there, of its trial.
LEMMA AcceptedRunStays ==
  ASSUME TypeOK, Reliable, [Next]_vars,
         \A a \in accepted.run : runs[a[1]].trial = a[2]
  PROVE  \A a \in accepted'.run : runs'[a[1]].trial = a[2]
<1>1. /\ accepted \in Answers /\ runs \in [Runs -> Rows]
      /\ request \in [Clients -> RequestRecords]
      /\ \A r \in Runs : Keeps(runs[r], runs'[r])
  BY Typed, RunsStay
<1>2. NoRun.trial \notin Trials
  BY ExperimentsAssumption DEF NoRun
<1>3. \A a \in accepted.run : runs'[a[1]].trial = a[2]
  <2>1. \A a \in accepted.run : a[1] \in Runs /\ a[2] \in Trials
    BY <1>1 DEF Answers
  <2>2. QED
    BY <1>1, <1>2, <2>1 DEF Keeps
<1>4. CASE accepted'.run = accepted.run
  BY <1>3, <1>4
<1>5. ASSUME NEW c \in Clients, StartRun(c) \/ InsertRun(c)
      PROVE  \A a \in accepted'.run : runs'[a[1]].trial = a[2]
  <2> DEFINE r == request[c].run
             t == request[c].trial
  <2>1. r \in Runs /\ t \in Trials
    BY <1>1, <1>5, StartTyped DEF StartRun, InsertRun, At
  <2>2. CASE Accept("run", <<r, t>>) /\ runs'[r].trial = t
    <3>1. accepted'.run = accepted.run \cup {<<r, t>>}
      BY <1>1, <2>2 DEF Accept, Answers
    <3>2. QED
      BY <1>3, <2>2, <3>1
  <2>3. CASE StartRun(c)
    BY <1>4, <2>1, <2>2, <2>3 DEF StartRun, Store
  <2>4. CASE InsertRun(c)
    <3>1. runs'[r].trial = t
      BY <1>1, <2>1, <2>4 DEF InsertRun
    <3>2. QED
      BY <2>2, <2>4, <3>1 DEF InsertRun
  <2>5. QED
    BY <1>5, <2>3, <2>4
<1>6. ASSUME NEW c \in Clients,
             \/ Send(c) \/ Fails(c) \/ Register(c) \/ InsertExperiment(c) \/ LookupTrial(c)
             \/ RecordOutput(c) \/ WriteOutput(c) \/ PersistScore(c)
      PROVE  accepted'.run = accepted.run
  <2>1. \A kind \in {"config", "output"} : \A what :
          Accept(kind, what) => accepted'.run = accepted.run
    BY <1>1 DEF Accept, Answers
  <2>2. QED
    BY <1>6, <2>1 DEF Send, Fails, Register, InsertExperiment, LookupTrial, RecordOutput,
       WriteOutput, PersistScore
<1>7. CASE OutcomeFinal \/ UNCHANGED vars
  BY <1>4, <1>7 DEF OutcomeFinal, vars
<1>8. QED
  BY <1>4, <1>5, <1>6, <1>7 DEF Next

\* An output that was accepted is of a run that is scored.
LEMMA AcceptedOutputStays ==
  ASSUME TypeOK, Reliable, [Next]_vars,
         \A a \in accepted.output : runs[a[1]].status = "SCORED" /\ runs[a[1]].score # None
  PROVE  \A a \in accepted'.output : runs'[a[1]].status = "SCORED" /\ runs'[a[1]].score # None
<1>1. /\ accepted \in Answers /\ runs \in [Runs -> Rows]
      /\ request \in [Clients -> RequestRecords]
      /\ \A r \in Runs : Keeps(runs[r], runs'[r])
  BY Typed, RunsStay
<1>2. \A a \in accepted.output : runs'[a[1]].status = "SCORED" /\ runs'[a[1]].score # None
  <2>1. \A a \in accepted.output : a[1] \in Runs
    BY <1>1 DEF Answers
  <2>2. QED
    BY <1>1, <2>1 DEF Keeps
<1>3. CASE accepted'.output = accepted.output
  BY <1>2, <1>3
<1>4. ASSUME NEW c \in Clients, RecordOutput(c) \/ PersistScore(c)
      PROVE  \A a \in accepted'.output : runs'[a[1]].status = "SCORED" /\ runs'[a[1]].score # None
  <2> DEFINE r == request[c].run
             o == request[c].output
  <2>1. r \in Runs /\ o \in Outputs /\ o # None
    BY <1>1, <1>4, ReportTyped DEF RecordOutput, PersistScore, At
  <2>2. CASE Accept("output", <<r, o>>) /\ runs'[r].status = "SCORED" /\ runs'[r].score # None
    <3>1. accepted'.output = accepted.output \cup {<<r, o>>}
      BY <1>1, <2>2 DEF Accept, Answers
    <3>2. QED
      BY <1>2, <2>2, <3>1
  <2>3. CASE RecordOutput(c)
    <3>1. CASE UNCHANGED accepted
      BY <1>3, <3>1
    <3>2. CASE ~UNCHANGED accepted
      <4>1. /\ runs[r].output = o /\ runs[r].status = "SCORED"
            /\ Accept("output", <<r, o>>) /\ UNCHANGED runs
        BY <2>3, <3>2 DEF RecordOutput, Store
      <4>2. QED
        BY <2>1, <2>2, <4>1 DEF Reliable
    <3>3. QED
      BY <3>1, <3>2
  <2>4. CASE PersistScore(c)
    <3>1. runs[r] \in Run
      BY <1>1, <2>1, <2>4 DEF Reliable, PersistScore, At, Rows
    <3>2. runs'[r].status = "SCORED" /\ runs'[r].score = o
      BY <1>1, <2>1, <2>4, <3>1 DEF PersistScore, Run
    <3>3. QED
      BY <2>1, <2>2, <2>4, <3>2 DEF PersistScore
  <2>5. QED
    BY <1>4, <2>3, <2>4
<1>5. ASSUME NEW c \in Clients,
             \/ Send(c) \/ Fails(c) \/ Register(c) \/ InsertExperiment(c)
             \/ StartRun(c) \/ LookupTrial(c) \/ InsertRun(c) \/ WriteOutput(c)
      PROVE  accepted'.output = accepted.output
  <2>1. \A kind \in {"config", "run"} : \A what :
          Accept(kind, what) => accepted'.output = accepted.output
    BY <1>1 DEF Accept, Answers
  <2>2. QED
    BY <1>5, <2>1 DEF Send, Fails, Register, InsertExperiment, StartRun, LookupTrial,
       InsertRun, WriteOutput
<1>6. CASE OutcomeFinal \/ UNCHANGED vars
  BY <1>3, <1>6 DEF OutcomeFinal, vars
<1>7. QED
  BY <1>3, <1>4, <1>5, <1>6 DEF Next
-----------------------------------------------------------------------------
Kept == TypeOK /\ Reliable /\ AcceptedIsStored

\* Nothing is stored and nothing was said to be.
LEMMA KeptInit == Init => Kept
<1>1. SUFFICES ASSUME Init
               PROVE  Kept
  OBVIOUS
<1>2. TypeOK
  BY <1>1, TypeInit
<1>3. Reliable
  <2>1. \A c \in Clients : request[c].pc = "idle"
    BY <1>1 DEF Init, Idle
  <2>2. \A r \in Runs : runs[r].status = "none"
    BY <1>1 DEF Init, NoRun, None
  <2>3. QED
    BY <2>1, <2>2 DEF Reliable
<1>4. AcceptedIsStored
  BY <1>1 DEF Init, AcceptedIsStored
<1>5. QED
  BY <1>2, <1>3, <1>4 DEF Kept

\* Every statement keeps it.
LEMMA KeptNext == Kept /\ [Next]_vars => Kept'
<1>1. SUFFICES ASSUME Kept, [Next]_vars
               PROVE  Kept'
  OBVIOUS
<1>2. TypeOK /\ Reliable /\ AcceptedIsStored
  BY <1>1 DEF Kept
<1>3. TypeOK' /\ Reliable'
  BY <1>1, <1>2, TypeNext, ReliableNext
<1>4. AcceptedIsStored'
  <2>1. \A k \in accepted'.config : config' = k
    BY <1>1, <1>2, ConfigurationStays DEF AcceptedIsStored
  <2>2. \A a \in accepted'.run : runs'[a[1]].trial = a[2]
    BY <1>1, <1>2, AcceptedRunStays DEF AcceptedIsStored
  <2>3. TrialsDiffer'
    <3>1. TrialsDiffer
      BY <1>2 DEF AcceptedIsStored, TrialsDiffer
    <3>2. QED
      BY <1>1, <1>2, <3>1, TrialsStayDifferent
  <2>4. \A a \in accepted'.output : runs'[a[1]].status = "SCORED" /\ runs'[a[1]].score # None
    BY <1>1, <1>2, AcceptedOutputStays DEF AcceptedIsStored
  <2>5. QED
    BY <2>1, <2>2, <2>3, <2>4 DEF AcceptedIsStored, TrialsDiffer
<1>5. QED
  BY <1>3, <1>4 DEF Kept

\* The tables, and the requests about them, keep their types.
THEOREM TypeCorrect == Spec => []TypeOK
<1>1. Init => Kept
  BY KeptInit
<1>2. Kept /\ [Next]_vars => Kept'
  BY KeptNext
<1>3. Kept => TypeOK
  BY DEF Kept
<1>4. QED
  BY <1>1, <1>2, <1>3, PTL DEF Spec

\* What a client was told is stored, is, and what is stored stays: a request
\* that was overtaken between its lookup and its statement neither replaces an
\* output nor undoes a score (registerExperiment, startRun, recordOutput).
THEOREM WordIsKept == Spec => ExperimentsKeepTheirWord
<1>1. Init => Kept
  BY KeptInit
<1>2. Kept /\ [Next]_vars => Kept'
  BY KeptNext
<1>3. Kept => AcceptedIsStored
  BY DEF Kept
<1>4. Kept /\ [Next]_vars =>
        [\A r \in Runs :
           /\ runs[r] # NoRun => runs'[r].trial = runs[r].trial
           /\ runs[r].output # None => runs'[r].output = runs[r].output
           /\ runs[r].status = "SCORED" => runs'[r].status = "SCORED"]_vars
  BY RunsStay DEF Kept, Keeps
<1>5. QED
  BY <1>1, <1>2, <1>3, <1>4, PTL DEF Spec, ExperimentsKeepTheirWord, StoredOutputStays
-----------------------------------------------------------------------------
(***************************************************************************)
(* The lineage of decisions: what its rows and uploads are made of.        *)
(***************************************************************************)
Stages == {"LOCKED", "ENTERED", "CLOSED", "CANCELLED"}
QualityType == [entry : Int, mfe : Int, mae : Int]
TradeType == [status : {"NONE", "OPEN", "CLOSED"}, entry : Int, last : Int]
PlanType ==
  {p \in [values : Values, lockedAt : Int, status : Stages, trade : TradeType] :
     p.status = "LOCKED" => p.trade.status = "NONE"}
DecisionType == [values : Values, at : Int]
RowType ==
  [plan : Nat \ {0}, status : Stages, trade : Nat, ended : BOOLEAN, quality : QualityType]
SyncType ==
  [pc : {"existing", "match", "upsert"}, plan : Nat \ {0}, is : PlanType, mark : Int,
   decision : Nat, previous : QualityType]

\* No row is told from a row by its plan, no decision by its values.
LEMMA RowOrNot ==
  /\ \A r \in RowType : r # Lineage!NoRow /\ r.plan \in Nat \ {0}
  /\ Lineage!NoRow.plan = 0 /\ Lineage!NoDecision \notin DecisionType
<1>1. Lineage!NoRow.plan = 0
  BY DEF Lineage!NoRow, Lineage!None
<1>2. \A r \in RowType : r.plan \in Nat \ {0}
  BY DEF RowType
<1>3. ASSUME Lineage!NoDecision \in DecisionType
      PROVE  FALSE
  <2>1. DOMAIN Lineage!NoDecision = {"values", "at"}
    BY <1>3 DEF DecisionType
  <2>2. DOMAIN Lineage!NoDecision = {"at"}
    BY DEF Lineage!NoDecision
  <2>3. QED
    BY <2>1, <2>2
<1>4. QED
  BY <1>1, <1>2, <1>3

LEMMA MaxOfTwo ==
  ASSUME NEW a \in Int, NEW b \in Int
  PROVE  /\ Lineage!Max({a, b}) \in Int
         /\ Lineage!Max({a, b}) >= a /\ Lineage!Max({a, b}) >= b
<1>1. \E m \in {a, b} : \A x \in {a, b} : m >= x
  <2>1. CASE a >= b
    BY <2>1
  <2>2. CASE b >= a
    BY <2>2
  <2>3. QED
    BY <2>1, <2>2
<1>2. /\ Lineage!Max({a, b}) \in {a, b}
      /\ \A x \in {a, b} : Lineage!Max({a, b}) >= x
  BY <1>1 DEF Lineage!Max
<1>3. QED
  BY <1>2

\* Extremes only grow on those of the uploads before.
LEMMA QualityGrows ==
  ASSUME NEW plan, NEW trade \in TradeType, NEW mark \in Int, NEW previous \in QualityType
  PROVE  \A q \in Lineage!Quality(plan, trade, mark, previous) :
           q \in QualityType /\ q.mfe >= previous.mfe /\ q.mae >= previous.mae
<1> DEFINE entry == Lineage!Known(previous.entry, trade.entry)
           price == Lineage!SamplePrice(trade, mark)
           up == Lineage!Favorable(plan.side, entry, price)
           down == Lineage!Adverse(plan.side, entry, price)
           mfe == Lineage!Max({previous.mfe, up})
           mae == Lineage!Max({previous.mae, down})
<1>1. /\ trade.entry \in Int /\ trade.last \in Int /\ previous.entry \in Int
      /\ previous.mfe \in Int /\ previous.mae \in Int
  BY DEF TradeType, QualityType
<1>2. entry \in Int /\ price \in Int
  BY <1>1 DEF Lineage!Known, Lineage!SamplePrice
<1> HIDE DEF entry, price
<1>3. up \in Int /\ down \in Int
  BY <1>2 DEF Lineage!Favorable, Lineage!Adverse, Lineage!AtLeastZero
<1> HIDE DEF up, down
<1>4. /\ mfe \in Int /\ mae \in Int /\ mfe >= previous.mfe /\ mae >= previous.mae
  BY <1>1, <1>3, MaxOfTwo
<1>5. Lineage!Quality(plan, trade, mark, previous)
        \subseteq {[entry |-> entry, mfe |-> mfe, mae |-> mae]}
  BY DEF Lineage!Quality, entry, price, up, down
<1> HIDE DEF mfe, mae
<1>6. QED
  BY <1>2, <1>4, <1>5 DEF QualityType

\* A row that an upload inserts or merges: of its plan; and if the upload knew
\* what the row said, further than that.
LEMMA UpsertedRow ==
  ASSUME NEW old \in RowType \cup {Lineage!NoRow}, NEW s \in SyncType
  PROVE  LET r == Lineage!Upserted(old, s)
         IN  /\ r \in RowType /\ r.plan = s.plan
             /\ r.trade \in {0, s.plan} \/ (old # Lineage!NoRow /\ r.trade = old.trade)
             /\ r.ended => s.is.trade.status = "CLOSED" \/ (old # Lineage!NoRow /\ old.ended)
             /\ old # Lineage!NoRow =>
                  /\ old.trade = s.plan => r.trade = s.plan
                  /\ old.ended /\ s.is.trade.status = "CLOSED" => r.ended
                  /\ s.previous = old.quality =>
                       /\ r.quality.mfe >= old.quality.mfe /\ r.quality.mae >= old.quality.mae
                       /\ old.quality.entry # 0 => r.quality.entry = old.quality.entry
<1> DEFINE had == old # Lineage!NoRow
           told == Lineage!QualityOf(s)
           earlier == IF had THEN old.quality ELSE Lineage!Untold
           said == CHOOSE q \in told : TRUE
           entry == Lineage!Known(earlier.entry, said.entry)
           quality == IF told = {} THEN earlier ELSE [said EXCEPT !.entry = entry]
           trade == IF s.is.trade = Lineage!NoTrade THEN 0 ELSE s.plan
           known == IF trade # 0 \/ ~had THEN trade ELSE old.trade
           ended == IF trade # 0 \/ ~had THEN s.is.trade.status = "CLOSED" ELSE old.ended
           r == Lineage!Upserted(old, s)
<1>1. /\ s.plan \in Nat \ {0} /\ s.is \in PlanType /\ s.is.status \in Stages
      /\ s.is.trade \in TradeType /\ s.mark \in Int /\ s.previous \in QualityType
  BY DEF SyncType, PlanType
<1>2. earlier \in QualityType
  BY DEF RowType, QualityType, Lineage!Untold, Lineage!Unknown
<1>3. \A q \in told : q \in QualityType /\ q.mfe >= s.previous.mfe /\ q.mae >= s.previous.mae
  BY <1>1, QualityGrows DEF Lineage!QualityOf
<1>4. r = [plan |-> s.plan, status |-> s.is.status, trade |-> known, ended |-> ended,
           quality |-> quality]
  BY DEF Lineage!Upserted, Lineage!None
<1> HIDE DEF told, earlier, r
<1>5. /\ quality \in QualityType
      /\ s.previous = earlier =>
           /\ quality.mfe >= earlier.mfe /\ quality.mae >= earlier.mae
           /\ earlier.entry # 0 => quality.entry = earlier.entry
  <2>1. CASE told = {}
    BY <1>2, <2>1 DEF QualityType
  <2>2. CASE told # {}
    <3>1. said \in told
      BY <2>2
    <3>2. said \in QualityType /\ said.mfe >= s.previous.mfe /\ said.mae >= s.previous.mae
      BY <1>3, <3>1
    <3> HIDE DEF said
    <3>3. /\ entry \in Int /\ (earlier.entry # 0 => entry = earlier.entry)
          /\ said.mfe \in Int /\ said.mae \in Int
      BY <1>2, <3>2 DEF Lineage!Known, Lineage!Unknown, QualityType
    <3> HIDE DEF entry
    <3>4. /\ quality \in QualityType /\ quality.entry = entry
          /\ quality.mfe = said.mfe /\ quality.mae = said.mae
      BY <2>2, <3>2, <3>3 DEF QualityType
    <3> HIDE DEF quality
    <3>5. QED
      BY <3>2, <3>3, <3>4
  <2>3. QED
    BY <2>1, <2>2
<1>6. had => earlier = old.quality /\ old.trade \in Nat /\ old.ended \in BOOLEAN
  BY DEF earlier, RowType
<1>7. trade \in {0, s.plan} /\ (s.is.trade.status = "CLOSED" => trade = s.plan)
  BY DEF Lineage!NoTrade
<1> HIDE DEF trade, quality
<1> HIDE DEF had
<1>8. /\ known \in Nat /\ ended \in BOOLEAN
      /\ known \in {0, s.plan} \/ (had /\ known = old.trade)
      /\ ended => s.is.trade.status = "CLOSED" \/ (had /\ old.ended)
      /\ had => /\ old.trade = s.plan => known = s.plan
                /\ old.ended /\ s.is.trade.status = "CLOSED" => ended
  <2>1. CASE trade # 0 \/ ~had
    <3>1. known = trade /\ ended = (s.is.trade.status = "CLOSED")
      BY <2>1
    <3> HIDE DEF known, ended
    <3>2. known \in {0, s.plan} /\ known \in Nat /\ ended \in BOOLEAN
      BY <1>1, <1>7, <3>1
    <3>3. ended <=> s.is.trade.status = "CLOSED"
      BY <3>1
    <3>4. had => known = s.plan
      BY <1>7, <2>1, <3>1
    <3>5. QED
      BY <3>2, <3>3, <3>4
  <2>2. CASE trade = 0 /\ had
    <3>1. known = old.trade /\ ended = old.ended
      BY <2>2
    <3> HIDE DEF known, ended
    <3>2. QED
      BY <1>6, <1>7, <2>2, <3>1
  <2>3. QED
    BY <2>1, <2>2
<1> HIDE DEF known, ended
<1>9. r \in RowType /\ r.plan = s.plan
  BY <1>1, <1>4, <1>5, <1>8 DEF RowType
<1>10. r.trade = known /\ r.ended = ended /\ r.quality = quality
  BY <1>4
<1>11. had /\ s.previous = old.quality =>
         /\ r.quality.mfe >= old.quality.mfe /\ r.quality.mae >= old.quality.mae
         /\ old.quality.entry # 0 => r.quality.entry = old.quality.entry
  BY <1>5, <1>6, <1>10
<1>12. QED
  BY <1>8, <1>9, <1>10, <1>11 DEF r, had
-----------------------------------------------------------------------------
(***************************************************************************)
(* The lineage of decisions: its invariant.                                *)
(***************************************************************************)
Told(d) == rows[d] # Lineage!NoRow
Decided == {d \in Decisions : decisions[d] # Lineage!NoDecision}

\* The plan says what the decision said, and was locked in the window after it.
LinkedTo(p, d) ==
  /\ p \in DOMAIN plans /\ decisions[d] # Lineage!NoDecision
  /\ plans[p].values = decisions[d].values
  /\ plans[p].lockedAt - decisions[d].at \in 0 .. Lookback

LineageTyped ==
  /\ now \in Int /\ plans \in Seq(PlanType) /\ IsFiniteSet(Decided)
  /\ decisions \in [Decisions -> DecisionType \cup {Lineage!NoDecision}]
  /\ syncs \in SUBSET SyncType /\ IsFiniteSet(syncs)
  /\ rows \in [Decisions -> RowType \cup {Lineage!NoRow}]

RowsLinked ==
  \A d \in Decisions : Told(d) =>
    LinkedTo(rows[d].plan, d) /\ \A e \in Decisions \ {d} : rows[e].plan # rows[d].plan

\* What an upload carries is of its plan; it writes to a decision that says the same.
SyncOk(s) ==
  /\ s.plan \in DOMAIN plans
  /\ s.is.values = plans[s.plan].values /\ s.is.lockedAt = plans[s.plan].lockedAt
  /\ s.is.trade.status = "CLOSED" => plans[s.plan].trade.status = "CLOSED"
  /\ s.pc = "upsert" => s.decision \in Decisions /\ LinkedTo(s.plan, s.decision)

\* Nobody has written since the upload has read: it knows what the row says.
SyncKnows(s) ==
  \A d \in Decisions : Told(d) /\ s.plan = rows[d].plan =>
    /\ rows[d].ended => s.is.trade.status = "CLOSED"
    /\ s.pc # "match"
    /\ s.pc = "upsert" => s.previous = rows[d].quality

PlansDiffer == \A p, q \in DOMAIN plans : plans[p].values = plans[q].values => p = q

\* A row is of the trade of its plan alone.
RowsOwn ==
  \A d \in Decisions : Told(d) =>
    /\ rows[d].trade \in {0, rows[d].plan}
    /\ rows[d].ended => plans[rows[d].plan].trade.status = "CLOSED"

Apart ==
  /\ PlansDiffer /\ RowsOwn
  /\ \A s, t \in syncs : s = t
  /\ \A s \in syncs : SyncKnows(s)

LineageInv ==
  /\ LineageTyped /\ RowsLinked
  /\ \A s \in syncs : SyncOk(s)
  /\ ~alike => Apart

\* What never happens to a plan or a decision
Lasting ==
  /\ \A p \in DOMAIN plans :
       /\ p \in DOMAIN plans' /\ plans'[p].values = plans[p].values
       /\ plans'[p].lockedAt = plans[p].lockedAt
       /\ plans[p].trade.status = "CLOSED" => plans'[p].trade.status = "CLOSED"
  /\ \A d \in Decisions : decisions[d] # Lineage!NoDecision => decisions'[d] = decisions[d]

LEMMA LinkLasts ==
  ASSUME Lasting, NEW p, NEW d \in Decisions, LinkedTo(p, d)
  PROVE  LinkedTo(p, d)'
BY DEF Lasting, LinkedTo

LEMMA SyncLasts ==
  ASSUME Lasting, NEW s, SyncOk(s)
  PROVE  SyncOk(s)'
<1>1. s.pc = "upsert" => s.decision \in Decisions /\ LinkedTo(s.plan, s.decision)'
  BY LinkLasts DEF SyncOk
<1>2. QED
  BY <1>1 DEF Lasting, SyncOk

\* A step of the app: a decision, or something that happens to its plans
LEMMA AppMoves ==
  ASSUME LineageInv, Lasting, LineageTyped', UNCHANGED <<syncs, rows, alike>>,
         ~alike => PlansDiffer'
  PROVE  LineageInv'
<1>1. RowsLinked'
  <2> SUFFICES ASSUME NEW d \in Decisions, Told(d)'
               PROVE  /\ LinkedTo(rows[d].plan, d)'
                      /\ \A e \in Decisions \ {d} : rows'[e].plan # rows'[d].plan
    BY DEF RowsLinked
  <2>1. LinkedTo(rows[d].plan, d) /\ \A e \in Decisions \ {d} : rows[e].plan # rows[d].plan
    BY DEF LineageInv, RowsLinked, Told
  <2>2. LinkedTo(rows[d].plan, d)'
    <3>1. PICK p : p = rows[d].plan
      OBVIOUS
    <3>2. LinkedTo(p, d)'
      BY <2>1, <3>1, LinkLasts
    <3>3. QED
      BY <3>1, <3>2 DEF LinkedTo
  <2>3. QED
    BY <2>1, <2>2
<1>2. ASSUME NEW s \in syncs PROVE SyncOk(s)'
  BY SyncLasts DEF LineageInv
<1>3. ASSUME ~alike PROVE Apart'
  <2>1. Apart
    BY <1>3 DEF LineageInv
  <2>2. RowsOwn'
    <3> SUFFICES ASSUME NEW d \in Decisions, Told(d)
                 PROVE  /\ rows[d].trade \in {0, rows[d].plan}
                        /\ rows[d].ended => plans'[rows[d].plan].trade.status = "CLOSED"
      BY DEF RowsOwn, Told
    <3>1. rows[d].plan \in DOMAIN plans
      BY DEF LineageInv, RowsLinked, LinkedTo
    <3>2. QED
      BY <2>1, <3>1 DEF Apart, RowsOwn, Lasting
  <2>3. ASSUME NEW s \in syncs PROVE SyncKnows(s)'
    BY <2>1 DEF Apart, SyncKnows, Told
  <2>4. QED
    BY <1>3, <2>1, <2>2, <2>3 DEF Apart
<1>4. QED
  BY <1>1, <1>2, <1>3 DEF LineageInv

\* A statement of an upload, or its end: the others go on as before.
LEMMA SyncMoves ==
  ASSUME LineageInv, NEW new, new \in SUBSET SyncType, IsFiniteSet(new), NEW old, syncs' = old \cup new,
         old \subseteq syncs, UNCHANGED <<now, decisions, plans, rows, alike>>,
         \A t \in new : SyncOk(t) /\ (~alike => SyncKnows(t)),
         ~alike => \A s, t \in syncs' : s = t
  PROVE  LineageInv'
<1>1. LineageTyped'
  <2>1. IsFiniteSet(old)
    BY FS_Subset DEF LineageInv, LineageTyped
  <2>2. IsFiniteSet(syncs')
    BY <2>1, FS_Union
  <2>3. Decided' = Decided
    BY DEF Decided
  <2>4. QED
    BY <2>2, <2>3 DEF LineageInv, LineageTyped
<1>2. RowsLinked'
  BY DEF LineageInv, RowsLinked, Told, LinkedTo
<1>3. ASSUME NEW s \in syncs' PROVE SyncOk(s)' /\ (~alike => SyncKnows(s)')
  <2>1. SyncOk(s) /\ (~alike => SyncKnows(s))
    BY DEF LineageInv, Apart
  <2>2. SyncOk(s)'
    BY <2>1 DEF SyncOk, LinkedTo
  <2>3. ~alike => SyncKnows(s)'
    BY <2>1 DEF SyncKnows, Told
  <2>4. QED
    BY <2>2, <2>3
<1>4. ASSUME ~alike PROVE Apart'
  BY <1>3, <1>4 DEF LineageInv, Apart, PlansDiffer, RowsOwn, Told
<1>5. QED
  BY <1>1, <1>2, <1>3, <1>4 DEF LineageInv
-----------------------------------------------------------------------------
(***************************************************************************)
(* The lineage of decisions: its steps.                                    *)
(***************************************************************************)
LEMMA LineageChoices ==
  /\ Lineage!ValuesSaid \subseteq Values /\ Lineage!MarkPrices \subseteq Int
  /\ Lineage!NoTrade \in TradeType /\ Lineage!NoTrade.status = "NONE"
  /\ Lineage!Untold \in QualityType
<1>1. (CHOOSE v \in Values : TRUE) \in Values
  BY LineageAssumption
<1>2. (CHOOSE p \in Prices : TRUE) \in Prices
  BY LineageAssumption
<1>3. Lineage!ValuesSaid \subseteq Values
  BY <1>1 DEF Lineage!ValuesSaid
<1>4. Lineage!MarkPrices \subseteq Prices
  BY <1>2 DEF Lineage!MarkPrices
<1>5. Lineage!MarkPrices \subseteq Int
  BY <1>4, LineageAssumption
<1>6. Lineage!NoTrade \in TradeType /\ Lineage!NoTrade.status = "NONE"
  BY DEF Lineage!NoTrade, Lineage!Unknown, TradeType
<1>7. Lineage!Untold \in QualityType
  BY DEF Lineage!Untold, Lineage!Unknown, QualityType
<1>8. QED
  BY <1>3, <1>5, <1>6, <1>7

LEMMA TicksKeep ==
  ASSUME LineageInv, Lineage!Tick
  PROVE  LineageInv'
<1>1. Lasting
  BY DEF Lineage!Tick, Lasting
<1>2. LineageTyped' /\ UNCHANGED <<syncs, rows, alike>> /\ (~alike => PlansDiffer')
  BY DEF Lineage!Tick, LineageInv, LineageTyped, Decided, Apart, PlansDiffer
<1>3. QED
  BY <1>1, <1>2, AppMoves

LEMMA DecisionsKeep ==
  ASSUME LineageInv, NEW d \in Decisions, Lineage!Decide(d)
  PROVE  LineageInv'
<1>1. PICK v \in Values : decisions' = [decisions EXCEPT ![d] = [values |-> v, at |-> now]]
  BY LineageChoices DEF Lineage!Decide
<1>2. /\ decisions[d] = Lineage!NoDecision
      /\ UNCHANGED <<now, plans, syncs, rows, alike>>
  BY DEF Lineage!Decide
<1>3. /\ decisions \in [Decisions -> DecisionType \cup {Lineage!NoDecision}]
      /\ now \in Int /\ IsFiniteSet(Decided)
  BY DEF LineageInv, LineageTyped
<1>4. [values |-> v, at |-> now] \in DecisionType
  BY <1>3 DEF DecisionType
<1>5. Lasting
  BY <1>1, <1>2, <1>3 DEF Lasting
<1>6. Decided' = Decided \cup {d}
  BY <1>1, <1>3, <1>4, RowOrNot DEF Decided
<1>7. IsFiniteSet(Decided)'
  BY <1>3, <1>6, FS_AddElement
<1>8. decisions' \in [Decisions -> DecisionType \cup {Lineage!NoDecision}]
  BY <1>1, <1>3, <1>4
<1>9. LineageTyped'
  BY <1>2, <1>7, <1>8 DEF LineageInv, LineageTyped
<1>10. ~alike => PlansDiffer'
  BY <1>2 DEF LineageInv, Apart, PlansDiffer
<1>11. QED
  BY <1>2, <1>5, <1>9, <1>10, AppMoves

\* A plan that is locked says what none before it said, unless all are alike.
LEMMA LocksKeep ==
  ASSUME LineageInv, Lineage!Lock
  PROVE  LineageInv'
<1> DEFINE NewPlan(v) == [values |-> v, lockedAt |-> now, status |-> "LOCKED",
                          trade |-> Lineage!NoTrade]
<1>1. PICK v \in Values :
        /\ alike \/ \A p \in DOMAIN plans : plans[p].values # v
        /\ plans' = Append(plans, NewPlan(v))
  BY LineageChoices DEF Lineage!Lock
<1>2. UNCHANGED <<now, decisions, syncs, rows, alike>>
  BY DEF Lineage!Lock
<1>3. plans \in Seq(PlanType) /\ now \in Int
  BY DEF LineageInv, LineageTyped
<1>4. NewPlan(v) \in PlanType /\ NewPlan(v).values = v
  BY <1>3, LineageChoices DEF PlanType, Stages
<1> DEFINE plan == NewPlan(v)
<1> HIDE DEF NewPlan
<1>5. /\ plans' \in Seq(PlanType) /\ DOMAIN plans = 1 .. Len(plans)
      /\ DOMAIN plans' = 1 .. Len(plans) + 1 /\ Len(plans) \in Nat
      /\ \A p \in DOMAIN plans : plans'[p] = plans[p]
      /\ plans'[Len(plans) + 1] = NewPlan(v)
  BY <1>1, <1>3, <1>4
<1>6. Lasting
  BY <1>2, <1>5 DEF Lasting
<1>7. LineageTyped'
  BY <1>2, <1>5 DEF LineageInv, LineageTyped, Decided
<1>8. ASSUME ~alike PROVE PlansDiffer'
  <2>1. PlansDiffer /\ \A p \in DOMAIN plans : plans[p].values # v
    BY <1>1, <1>8 DEF LineageInv, Apart
  <2>2. QED
    BY <1>4, <1>5, <2>1 DEF PlansDiffer
<1>9. QED
  BY <1>2, <1>6, <1>7, <1>8, AppMoves

\* A plan is cancelled, entered or closed: it keeps what it says.
LEMMA PlansKeep ==
  ASSUME LineageInv, Lineage!PlanMoves
  PROVE  LineageInv'
<1> DEFINE last == Len(plans)
           plan == plans[last]
<1>1. /\ plans \in Seq(PlanType) /\ plans # <<>>
      /\ UNCHANGED <<now, decisions, syncs, rows, alike>>
  BY DEF LineageInv, LineageTyped, Lineage!PlanMoves
<1>2. last \in DOMAIN plans /\ plan \in PlanType
  BY <1>1
<1> DEFINE Becomes(new) ==
             /\ new \in PlanType /\ plans' = [plans EXCEPT ![last] = new]
             /\ new.values = plan.values /\ new.lockedAt = plan.lockedAt
             /\ plan.trade.status = "CLOSED" => new.trade.status = "CLOSED"
<1>3. ASSUME plan.status = "LOCKED", plans' = [plans EXCEPT ![last].status = "CANCELLED"]
      PROVE  \E new : Becomes(new)
  <2> DEFINE new == [plan EXCEPT !.status = "CANCELLED"]
  <2>1. plans' = [plans EXCEPT ![last] = new]
    BY <1>3
  <2> HIDE DEF plan, last
  <2>2. /\ new \in PlanType /\ new.values = plan.values /\ new.lockedAt = plan.lockedAt
        /\ new.trade = plan.trade
    BY <1>2 DEF PlanType, Stages
  <2> HIDE DEF new
  <2>3. Becomes(new)
    BY <2>1, <2>2
  <2>4. QED
    BY <2>3
<1>4. ASSUME NEW price \in Lineage!MarkPrices, plan.status = "LOCKED",
             plans' = [plans EXCEPT ![last].status = "ENTERED",
                         ![last].trade = [status |-> "OPEN", entry |-> price,
                                          last |-> Lineage!Unknown]]
      PROVE  \E new : Becomes(new)
  <2> DEFINE trade == [status |-> "OPEN", entry |-> price, last |-> Lineage!Unknown]
             new == [plan EXCEPT !.status = "ENTERED", !.trade = trade]
  <2>1. plans' = [plans EXCEPT ![last] = new]
    BY <1>2, <1>4
  <2>2. trade \in TradeType
    BY LineageChoices DEF TradeType, Lineage!Unknown
  <2>3. plan.trade.status = "NONE"
    BY <1>2, <1>4 DEF PlanType
  <2> HIDE DEF trade, plan, last
  <2>4. new \in PlanType /\ new.values = plan.values /\ new.lockedAt = plan.lockedAt
    BY <1>2, <2>2 DEF PlanType, Stages
  <2> HIDE DEF new
  <2>5. Becomes(new)
    BY <2>1, <2>3, <2>4
  <2>6. QED
    BY <2>5
<1>5. ASSUME NEW price \in Lineage!MarkPrices, plan.status = "ENTERED",
             plans' = [plans EXCEPT ![last].status = "CLOSED",
                         ![last].trade.status = "CLOSED", ![last].trade.last = price]
      PROVE  \E new : Becomes(new)
  <2> DEFINE trade == [plan.trade EXCEPT !.status = "CLOSED", !.last = price]
             new == [plan EXCEPT !.status = "CLOSED", !.trade = trade]
  <2>1. plans' = [plans EXCEPT ![last] = new]
    BY <1>2, <1>5
  <2>2. trade \in TradeType /\ trade.status = "CLOSED"
    BY <1>2, LineageChoices DEF TradeType, PlanType
  <2> HIDE DEF trade, plan, last
  <2>3. /\ new \in PlanType /\ new.values = plan.values /\ new.lockedAt = plan.lockedAt
        /\ new.trade = trade
    BY <1>2, <2>2 DEF PlanType, Stages
  <2> HIDE DEF new
  <2>4. Becomes(new)
    BY <2>1, <2>2, <2>3
  <2>5. QED
    BY <2>4
<1>6. \E new : Becomes(new)
  <2>1. \/ plan.status = "LOCKED" /\ plans' = [plans EXCEPT ![last].status = "CANCELLED"]
        \/ /\ plan.status = "LOCKED"
           /\ \E price \in Lineage!MarkPrices :
                plans' = [plans EXCEPT ![last].status = "ENTERED",
                            ![last].trade = [status |-> "OPEN", entry |-> price,
                                             last |-> Lineage!Unknown]]
        \/ /\ plan.status = "ENTERED"
           /\ \E price \in Lineage!MarkPrices :
                plans' = [plans EXCEPT ![last].status = "CLOSED",
                            ![last].trade.status = "CLOSED", ![last].trade.last = price]
    BY DEF Lineage!PlanMoves
  <2> HIDE DEF Becomes
  <2>2. QED
    BY <1>3, <1>4, <1>5, <2>1
<1>7. PICK new : Becomes(new)
  BY <1>6
<1>8. /\ plans' \in Seq(PlanType) /\ DOMAIN plans' = DOMAIN plans
      /\ \A p \in DOMAIN plans : plans'[p] = IF p = last THEN new ELSE plans[p]
  BY <1>1, <1>2, <1>7
<1>9. Lasting
  BY <1>1, <1>7, <1>8 DEF Lasting
<1>10. LineageTyped'
  BY <1>1, <1>8 DEF LineageInv, LineageTyped, Decided
<1>11. ~alike => PlansDiffer'
  <2>1. \A p \in DOMAIN plans : plans'[p].values = plans[p].values
    BY <1>7, <1>8
  <2>2. QED
    BY <1>8, <2>1 DEF LineageInv, Apart, PlansDiffer
<1>12. QED
  BY <1>1, <1>9, <1>10, <1>11, AppMoves
-----------------------------------------------------------------------------
(***************************************************************************)
(* The latest of the decisions that match is one of them.                  *)
(***************************************************************************)
\* A set of numbers that is not empty has a least one: what an argument by
\* smallest counterexample rests on.
LEMMA LeastNumber ==
  ASSUME NEW T \in SUBSET Nat, T # {}
  PROVE  \E x \in T : \A y \in T : x <= y
<1> DEFINE R == OpToRel(<, Nat)
<1>1. IsWellFoundedOn(R, Nat)
  BY NatLessThanWellFounded
<1>2. \A x, y \in Nat : x < y => <<x, y>> \in R
  BY DEF OpToRel
<1> HIDE DEF R
<1>3. PICK x \in T : \A y \in T : ~ (<<y, x>> \in R)
  BY <1>1, WFMin
<1>4. ASSUME NEW y \in T
      PROVE  x <= y
  <2>1. x \in Nat /\ y \in Nat
    BY <1>3
  <2>2. ~ (y < x)
    BY <1>2, <1>3, <2>1
  <2>3. QED
    BY <2>1, <2>2
<1>5. QED
  BY <1>3, <1>4

\* Max is what its name says: a smallest set without a maximum would have one
\* after all, the larger of an element and the maximum of the rest.
LEMMA MaxOfFinite ==
  ASSUME NEW S \in SUBSET Int, S # {}, IsFiniteSet(S)
  PROVE  Lineage!Max(S) \in S /\ \A x \in S : x <= Lineage!Max(S)
<1> DEFINE Unbounded(T) == T # {} /\ IsFiniteSet(T) /\ ~ \E m \in T : \A x \in T : m >= x
           sizes == {Cardinality(T) : T \in {U \in SUBSET Int : Unbounded(U)}}
<1>1. SUFFICES ASSUME Unbounded(S)
               PROVE  FALSE
  BY DEF Lineage!Max
<1>2. sizes \in SUBSET Nat /\ sizes # {}
  BY <1>1, FS_CardinalityType
<1>3. PICK n \in sizes : \A k \in sizes : n <= k
  BY <1>2, LeastNumber
<1>4. PICK T \in SUBSET Int : Unbounded(T) /\ Cardinality(T) = n
  BY <1>3
<1>5. PICK t \in T : TRUE
  BY <1>4
<1> DEFINE U == T \ {t}
<1>6. IsFiniteSet(U) /\ Cardinality(U) = Cardinality(T) - 1
  BY <1>4, <1>5, FS_RemoveElement
<1>7. U # {}
  BY <1>4, <1>5
<1>8. ~Unbounded(U)
  <2>1. SUFFICES ASSUME Unbounded(U)
                 PROVE  FALSE
    OBVIOUS
  <2>2. Cardinality(U) \in sizes
    BY <1>4, <2>1
  <2>3. n \in Nat /\ n <= n - 1
    BY <1>2, <1>3, <1>4, <1>6, <2>2
  <2>4. QED
    BY <2>3
<1>9. PICK m \in U : \A x \in U : m >= x
  BY <1>6, <1>7, <1>8
<1>10. m >= t \/ t >= m
  BY <1>5, <1>9
<1>11. \E k \in T : \A x \in T : k >= x
  BY <1>5, <1>9, <1>10
<1>12. QED
  BY <1>4, <1>11
-----------------------------------------------------------------------------
(***************************************************************************)
(* The lineage of decisions: the statements of an upload.                  *)
(***************************************************************************)
\* The size of the uploads is that of FiniteSets.
LEMMA SameSize == \A S : Lineage!Cardinality(S) = Cardinality(S)
BY DEF Lineage!Cardinality, Cardinality

LEMMA UploadsKeep ==
  ASSUME LineageInv, Lineage!Upload
  PROVE  LineageInv'
<1> DEFINE last == Len(plans)
           Started(mark) == [pc |-> "existing", plan |-> last, is |-> plans[last], mark |-> mark,
                             decision |-> 0, previous |-> Lineage!Untold]
<1>1. PICK mark \in Int : syncs' = syncs \cup {Started(mark)}
  BY LineageChoices DEF Lineage!Upload, Lineage!None
<1>2. /\ Cardinality(syncs) < Lineage!InFlight /\ plans # <<>>
      /\ UNCHANGED <<now, decisions, plans, rows, alike>>
  BY SameSize DEF Lineage!Upload
<1>3. plans \in Seq(PlanType) /\ syncs \in SUBSET SyncType /\ IsFiniteSet(syncs)
  BY DEF LineageInv, LineageTyped
<1>4. last \in DOMAIN plans /\ plans[last] \in PlanType /\ last \in Nat \ {0}
  BY <1>2, <1>3
<1> DEFINE t == Started(mark)
<1>5. t \in SyncType /\ t.plan = last /\ t.is = plans[last] /\ t.pc = "existing"
  BY <1>4, LineageChoices DEF SyncType
<1> HIDE DEF Started
<1>6. SyncOk(t)
  BY <1>4, <1>5 DEF SyncOk
<1>7. ASSUME ~alike PROVE SyncKnows(t) /\ syncs = {}
  <2>1. Cardinality(syncs) < 1
    BY <1>2, <1>7 DEF Lineage!InFlight
  <2>2. Cardinality(syncs) = 0
    BY <1>3, <2>1, FS_CardinalityType
  <2>3. syncs = {}
    BY <1>3, <2>2, FS_EmptySet
  <2>4. RowsOwn
    BY <1>7 DEF LineageInv, Apart
  <2>5. QED
    BY <1>5, <2>3, <2>4 DEF SyncKnows, RowsOwn
<1> HIDE DEF t
<1>8. {t} \in SUBSET SyncType /\ IsFiniteSet({t}) /\ syncs' = syncs \cup {t} /\ syncs \subseteq syncs
  BY <1>1, <1>5, FS_Singleton DEF t
<1>9. ~alike => \A x, y \in syncs' : x = y
  BY <1>7, <1>8
<1>10. \A x \in {t} : SyncOk(x) /\ (~alike => SyncKnows(x))
  BY <1>6, <1>7
<1>11. QED
  BY <1>2, <1>8, <1>9, <1>10, SyncMoves

\* One statement of an upload: what it was is replaced by what it has become.
LEMMA StatementKeeps ==
  ASSUME LineageInv, NEW s \in syncs, NEW t \in SyncType, syncs' = (syncs \ {s}) \cup {t},
         UNCHANGED <<now, decisions, plans, rows, alike>>, SyncOk(t), ~alike => SyncKnows(t)
  PROVE  LineageInv'
<1> DEFINE new == {t}
           old == syncs \ {s}
<1>1. new \in SUBSET SyncType /\ IsFiniteSet(new) /\ old \subseteq syncs /\ syncs' = old \cup new
  BY FS_Singleton
<1>2. ASSUME ~alike PROVE \A x, y \in syncs' : x = y
  <2>1. \A x \in syncs : x = s
    BY <1>2 DEF LineageInv, Apart
  <2>2. syncs \ {s} = {}
    BY <2>1
  <2>3. syncs' = {t}
    BY <2>2
  <2>4. QED
    BY <2>3
<1>3. ~alike => \A x, y \in syncs' : x = y
  BY <1>2
<1>4. \A x \in new : SyncOk(x) /\ (~alike => SyncKnows(x))
  OBVIOUS
<1> HIDE DEF new, old
<1>5. QED
  BY <1>1, <1>3, <1>4, SyncMoves

\* The upload has failed, or found nothing.
LEMMA EndKeeps ==
  ASSUME LineageInv, NEW s \in syncs, syncs' = (syncs \ {s}) \cup {},
         UNCHANGED <<now, decisions, plans, rows, alike>>
  PROVE  LineageInv'
<1>1. {} \in SUBSET SyncType /\ IsFiniteSet({}) /\ syncs \ {s} \subseteq syncs
  BY FS_EmptySet
<1>2. ~alike => \A x, y \in syncs' : x = y
  BY DEF LineageInv, Apart
<1>3. \A x \in {} : SyncOk(x) /\ (~alike => SyncKnows(x))
  OBVIOUS
<1>4. QED
  BY <1>1, <1>2, <1>3, SyncMoves

LEMMA ExistingKeeps ==
  ASSUME LineageInv, NEW s \in syncs, Lineage!FindExisting(s)
  PROVE  LineageInv'
<1> DEFINE found == {d \in Decisions : rows[d].plan = s.plan}
<1>1. /\ UNCHANGED <<now, decisions, plans, rows, alike>>
      /\ IF found = {} THEN syncs' = (syncs \ {s}) \cup {[s EXCEPT !.pc = "match"]}
         ELSE \E d \in found :
                syncs' = (syncs \ {s}) \cup
                  {[s EXCEPT !.pc = "upsert", !.decision = d, !.previous = rows[d].quality]}
  BY DEF Lineage!FindExisting, Lineage!Step
<1>2. s \in SyncType /\ SyncOk(s) /\ (~alike => SyncKnows(s)) /\ s.plan \in Nat \ {0}
  BY DEF LineageInv, LineageTyped, Apart, SyncType
<1>3. CASE found = {}
  <2> DEFINE t == [s EXCEPT !.pc = "match"]
  <2>1. /\ t \in SyncType /\ t.plan = s.plan /\ t.is = s.is /\ t.pc = "match"
    BY <1>2 DEF SyncType
  <2>2. syncs' = (syncs \ {s}) \cup {t}
    BY <1>1, <1>3
  <2> HIDE DEF t
  <2>3. SyncOk(t)
    BY <1>2, <2>1 DEF SyncOk
  <2>4. SyncKnows(t)
    BY <1>3, <2>1 DEF SyncKnows
  <2>5. QED
    BY <1>1, <2>1, <2>2, <2>3, <2>4, StatementKeeps
<1>4. CASE found # {}
  <2>1. PICK d \in found :
          syncs' = (syncs \ {s}) \cup
            {[s EXCEPT !.pc = "upsert", !.decision = d, !.previous = rows[d].quality]}
    BY <1>1, <1>4
  <2>2. /\ d \in Decisions /\ rows[d].plan = s.plan /\ Told(d) /\ rows[d] \in RowType
        /\ rows[d].quality \in QualityType /\ d \in Nat
    BY <1>2, RowOrNot, LineageAssumption DEF LineageInv, LineageTyped, Told, RowType
  <2> DEFINE t == [s EXCEPT !.pc = "upsert", !.decision = d, !.previous = rows[d].quality]
  <2>3. /\ t \in SyncType /\ t.plan = s.plan /\ t.is = s.is /\ t.pc = "upsert"
        /\ t.decision = d /\ t.previous = rows[d].quality
    BY <1>2, <2>2 DEF SyncType
  <2> HIDE DEF t
  <2>4. LinkedTo(rows[d].plan, d) /\ \A e \in Decisions \ {d} : rows[e].plan # rows[d].plan
    BY <2>2 DEF LineageInv, RowsLinked
  <2>5. SyncOk(t)
    BY <1>2, <2>2, <2>3, <2>4 DEF SyncOk
  <2>6. ~alike => SyncKnows(t)
    BY <1>2, <2>2, <2>3, <2>4 DEF SyncKnows
  <2>7. syncs' = (syncs \ {s}) \cup {t}
    BY <2>1 DEF t
  <2>8. QED
    BY <1>1, <2>3, <2>5, <2>6, <2>7, StatementKeeps
<1>5. QED
  BY <1>3, <1>4

LEMMA MatchKeeps ==
  ASSUME LineageInv, NEW s \in syncs, Lineage!FindMatch(s)
  PROVE  LineageInv'
<1> DEFINE found == {d \in Decisions : Lineage!Matches(s.is, d)}
           d == Lineage!Max(found)
           t == [s EXCEPT !.pc = "upsert", !.decision = d]
<1>1. /\ UNCHANGED <<now, decisions, plans, rows, alike>> /\ s.pc = "match"
      /\ found = {} => syncs' = (syncs \ {s}) \cup {}
      /\ found # {} => syncs' = (syncs \ {s}) \cup {t}
  BY DEF Lineage!FindMatch, Lineage!Step
<1>2. s \in SyncType /\ SyncOk(s) /\ (~alike => SyncKnows(s))
  BY DEF LineageInv, LineageTyped, Apart
<1>3. CASE found = {}
  BY <1>1, <1>3, EndKeeps
<1>4. CASE found # {}
  <2>1. found \in SUBSET Nat /\ IsFiniteSet(found)
    <3>1. found \subseteq Decided
      BY DEF Lineage!Matches, Decided
    <3>2. QED
      BY <3>1, FS_Subset, LineageAssumption DEF LineageInv, LineageTyped
  <2> HIDE DEF found
  <2>2. d \in found
    BY <1>4, <2>1, MaxOfFinite
  <2>3. d \in Decisions /\ Lineage!Matches(s.is, d) /\ d \in Nat
    BY <2>1, <2>2 DEF found
  <2> HIDE DEF d
  <2>4. /\ t \in SyncType /\ t.plan = s.plan /\ t.is = s.is /\ t.pc = "upsert" /\ t.decision = d
    BY <1>2, <2>3 DEF SyncType
  <2> HIDE DEF t
  <2>5. /\ s.is.lockedAt \in Int /\ s.is.values = plans[s.plan].values
        /\ s.is.lockedAt = plans[s.plan].lockedAt /\ s.plan \in DOMAIN plans
    BY <1>2 DEF SyncOk, SyncType, PlanType
  <2>6. decisions[d].at \in Int
    BY <2>3 DEF LineageInv, LineageTyped, DecisionType, Lineage!Matches
  <2>7. s.is.lockedAt - decisions[d].at \in 0 .. Lookback
    BY <2>3, <2>5, <2>6, LineageAssumption DEF Lineage!Matches
  <2>8. LinkedTo(s.plan, d)
    BY <2>3, <2>5, <2>7 DEF LinkedTo, Lineage!Matches
  <2>9. SyncOk(t)
    BY <1>2, <2>3, <2>4, <2>8 DEF SyncOk
  <2>10. ~alike => SyncKnows(t)
    BY <1>1, <1>2, <2>4 DEF SyncKnows
  <2>11. QED
    BY <1>1, <1>4, <2>4, <2>9, <2>10, StatementKeeps
<1>5. QED
  BY <1>3, <1>4

\* Rows move on unless plans are alike; the other steps leave them alone.
RowsAdvance == LineageInv' /\ (~alike => Lineage!RowMovesOn)

LEMMA RowsRest ==
  ASSUME LineageInv, UNCHANGED rows
  PROVE  Lineage!RowMovesOn
<1>1. ASSUME NEW d \in Decisions, Told(d)
      PROVE  rows[d].quality.mfe \in Int /\ rows[d].quality.mae \in Int
  BY <1>1 DEF LineageInv, LineageTyped, Told, RowType, QualityType
<1>2. QED
  BY <1>1 DEF Lineage!RowMovesOn, Told

\* The row of the decision is written: of the same plan as before, if plans differ.
LEMMA UpsertMoves ==
  ASSUME LineageInv, NEW s \in syncs, Lineage!Upsert(s)
  PROVE  RowsAdvance
<1> DEFINE d == s.decision
           old == rows[d]
           r == Lineage!Upserted(old, s)
<1>1. /\ s.pc = "upsert" /\ syncs' = (syncs \ {s}) \cup {}
      /\ UNCHANGED <<now, decisions, plans, alike>>
  BY DEF Lineage!Upsert, Lineage!Step
<1>2. /\ s \in SyncType /\ SyncOk(s) /\ (~alike => SyncKnows(s) /\ Apart)
      /\ d \in Decisions /\ LinkedTo(s.plan, d) /\ s.plan \in Nat \ {0}
  BY <1>1 DEF LineageInv, LineageTyped, Apart, SyncOk, SyncType
<1>3. CASE UNCHANGED rows
  BY <1>1, <1>3, EndKeeps, RowsRest DEF RowsAdvance
<1>4. CASE rows' = [rows EXCEPT ![d] = r] /\ \A e \in Decisions \ {d} : rows[e].plan # s.plan
  <2>1. rows \in [Decisions -> RowType \cup {Lineage!NoRow}] /\ old \in RowType \cup {Lineage!NoRow}
    BY <1>2 DEF LineageInv, LineageTyped
  <2>2. /\ r \in RowType /\ r.plan = s.plan
        /\ r.trade \in {0, s.plan} \/ (Told(d) /\ r.trade = old.trade)
        /\ r.ended => s.is.trade.status = "CLOSED" \/ (Told(d) /\ old.ended)
        /\ Told(d) =>
             /\ old.trade = s.plan => r.trade = s.plan
             /\ old.ended /\ s.is.trade.status = "CLOSED" => r.ended
             /\ s.previous = old.quality =>
                  /\ r.quality.mfe >= old.quality.mfe /\ r.quality.mae >= old.quality.mae
                  /\ old.quality.entry # 0 => r.quality.entry = old.quality.entry
    <3> HIDE DEF old
    <3>1. QED
      BY <1>2, <2>1, UpsertedRow DEF Told, old
  <2> HIDE DEF r
  <2>3. rows'[d] = r /\ \A e \in Decisions \ {d} : rows'[e] = rows[e]
    BY <1>2, <1>4, <2>1
  <2>4. LineageTyped'
    <3>1. IsFiniteSet(syncs')
      BY <1>1, FS_Subset DEF LineageInv, LineageTyped
    <3>2. rows' \in [Decisions -> RowType \cup {Lineage!NoRow}]
      BY <1>4, <2>1, <2>2
    <3>3. QED
      BY <1>1, <3>1, <3>2 DEF LineageInv, LineageTyped, Decided
  <2>5. RowsLinked'
    <3> SUFFICES ASSUME NEW e \in Decisions, Told(e)'
                 PROVE  /\ LinkedTo(rows'[e].plan, e)
                        /\ \A f \in Decisions \ {e} : rows'[f].plan # rows'[e].plan
      BY <1>1 DEF RowsLinked, LinkedTo
    <3>1. CASE e = d
      BY <1>2, <1>4, <2>2, <2>3, <3>1
    <3>2. CASE e # d
      <4>1. Told(e) /\ rows'[e] = rows[e]
        BY <2>3, <3>2 DEF Told
      <4>2. LinkedTo(rows[e].plan, e) /\ \A f \in Decisions \ {e} : rows[f].plan # rows[e].plan
        BY <4>1 DEF LineageInv, RowsLinked
      <4>3. QED
        BY <1>4, <2>2, <2>3, <3>2, <4>1, <4>2
    <3>3. QED
      BY <3>1, <3>2
  <2>6. \A t \in syncs' : SyncOk(t)'
    BY <1>1 DEF LineageInv, SyncOk, LinkedTo
  <2>7. ASSUME ~alike PROVE Apart' /\ Lineage!RowMovesOn
    <3>1. syncs' = {} /\ SyncKnows(s) /\ PlansDiffer /\ RowsOwn
      BY <1>1, <1>2, <2>7 DEF Apart
    <3>2. ASSUME Told(d) PROVE old.plan = s.plan /\ old \in RowType
      <4>1. LinkedTo(old.plan, d) /\ old \in RowType
        BY <1>2, <2>1, <3>2 DEF LineageInv, RowsLinked, Told
      <4>2. QED
        BY <1>2, <3>1, <4>1 DEF PlansDiffer, LinkedTo
    <3>3. ASSUME Told(d)
          PROVE  /\ old.trade \in {0, s.plan}
                 /\ old.ended => plans[s.plan].trade.status = "CLOSED"
                 /\ old.ended => s.is.trade.status = "CLOSED"
                 /\ s.previous = old.quality
      BY <1>1, <1>2, <3>1, <3>2, <3>3 DEF RowsOwn, SyncKnows
    <3>4. RowsOwn'
      <4> SUFFICES ASSUME NEW e \in Decisions, Told(e)'
                   PROVE  /\ rows'[e].trade \in {0, rows'[e].plan}
                          /\ rows'[e].ended => plans[rows'[e].plan].trade.status = "CLOSED"
        BY <1>1 DEF RowsOwn
      <4>1. CASE e = d
        BY <1>2, <2>2, <2>3, <3>3, <4>1 DEF SyncOk
      <4>2. CASE e # d
        BY <2>3, <3>1, <4>2 DEF RowsOwn, Told
      <4>3. QED
        BY <4>1, <4>2
    <3>5. Apart'
      BY <1>1, <3>1, <3>4 DEF Apart, PlansDiffer
    <3>6. ASSUME NEW e \in Decisions, Told(e)
          PROVE  LET was == rows[e]
                     new == rows'[e]
                 IN  /\ new.plan = was.plan
                     /\ new.quality.mfe >= was.quality.mfe /\ new.quality.mae >= was.quality.mae
                     /\ was.quality.entry # 0 => new.quality.entry = was.quality.entry
                     /\ was.trade # 0 => new.trade = was.trade
                     /\ was.ended => new.ended
      <4>1. CASE e = d
        BY <2>2, <2>3, <3>2, <3>3, <3>6, <4>1
      <4>2. CASE e # d
        <5>1. rows[e].quality.mfe \in Int /\ rows[e].quality.mae \in Int
          BY <2>1, <3>6 DEF Told, RowType, QualityType
        <5>2. QED
          BY <2>3, <4>2, <5>1
      <4>3. QED
        BY <4>1, <4>2
    <3>7. QED
      BY <3>5, <3>6 DEF Lineage!RowMovesOn, Told, Lineage!Unknown, Lineage!None
  <2>8. QED
    BY <1>1, <2>4, <2>5, <2>6, <2>7 DEF LineageInv, RowsAdvance
<1>5. QED
  BY <1>3, <1>4 DEF Lineage!Upsert

LEMMA LineageNext == LineageInv /\ [Lineage!Next]_(Lineage!vars) => RowsAdvance
<1> SUFFICES ASSUME LineageInv, [Lineage!Next]_(Lineage!vars) PROVE RowsAdvance
  OBVIOUS
<1>1. CASE UNCHANGED Lineage!vars
  <2>1. /\ UNCHANGED <<syncs, rows, alike>> /\ Lasting /\ LineageTyped' /\ (~alike => PlansDiffer')
    BY <1>1 DEF Lineage!vars, Lasting, LineageInv, LineageTyped, Decided, Apart, PlansDiffer
  <2>2. QED
    BY <2>1, AppMoves, RowsRest DEF RowsAdvance
<1>2. CASE \/ Lineage!Tick \/ Lineage!Lock \/ Lineage!PlanMoves \/ Lineage!Upload
           \/ \E d \in Decisions : Lineage!Decide(d)
  <2>1. UNCHANGED rows
    BY <1>2 DEF Lineage!Tick, Lineage!Lock, Lineage!PlanMoves, Lineage!Upload, Lineage!Decide
  <2>2. LineageInv'
    BY <1>2, TicksKeep, LocksKeep, PlansKeep, UploadsKeep, DecisionsKeep
  <2>3. QED
    BY <2>1, <2>2, RowsRest DEF RowsAdvance
<1>3. ASSUME NEW s \in syncs, Lineage!FindExisting(s) \/ Lineage!FindMatch(s) \/ Lineage!SyncFails(s)
      PROVE  RowsAdvance
  <2>1. UNCHANGED rows
    BY <1>3 DEF Lineage!FindExisting, Lineage!FindMatch, Lineage!SyncFails
  <2>2. LineageInv'
    BY <1>3, ExistingKeeps, MatchKeeps, EndKeeps DEF Lineage!SyncFails, Lineage!Step
  <2>3. QED
    BY <2>1, <2>2, RowsRest DEF RowsAdvance
<1>4. ASSUME NEW s \in syncs, Lineage!Upsert(s)
      PROVE  RowsAdvance
  BY <1>4, UpsertMoves
<1>5. QED
  BY <1>1, <1>2, <1>3, <1>4 DEF Lineage!Next

LEMMA LineageInit == Lineage!Init => LineageInv
<1> SUFFICES ASSUME Lineage!Init PROVE LineageInv
  OBVIOUS
<1>1. /\ now = 1 /\ plans = <<>> /\ syncs = {}
      /\ decisions = [d \in Decisions |-> Lineage!NoDecision]
      /\ rows = [d \in Decisions |-> Lineage!NoRow]
  BY DEF Lineage!Init
<1>2. Decided = {}
  BY <1>1 DEF Decided
<1>3. LineageTyped
  BY <1>1, <1>2, FS_EmptySet DEF LineageTyped
<1>4. DOMAIN plans = {} /\ \A d \in Decisions : ~Told(d)
  BY <1>1 DEF Told
<1>5. QED
  BY <1>1, <1>3, <1>4 DEF LineageInv, RowsLinked, Apart, PlansDiffer, RowsOwn

LEMMA LineageImplies == LineageInv => Lineage!LinkedPlanIsTheDecisions
BY DEF LineageInv, RowsLinked, LinkedTo, Told, Lineage!LinkedPlanIsTheDecisions
-----------------------------------------------------------------------------
\* For any decisions, values, prices, window of time and number of uploads in
\* flight: what findMatchingDecision and upsertLineage link is a plan that said
\* what its decision said, in the window after it, however syncs overlap or
\* fail; no plan is linked to two decisions; and a row follows one plan and one
\* trade to its end, as long as plans differ and uploads wait for their answer.
THEOREM LineageIsSound ==
  Lineage!Spec => []Lineage!LinkedPlanIsTheDecisions /\ Lineage!LineageOnlyAdvances
<1>1. Lineage!Spec => []LineageInv
  <2>1. LineageInv /\ [Lineage!Next]_(Lineage!vars) => LineageInv'
    BY LineageNext DEF RowsAdvance
  <2>2. QED
    BY <2>1, LineageInit, PTL DEF Lineage!Spec
<1>2. LineageInv /\ [Lineage!Next]_(Lineage!vars) => [~alike => Lineage!RowMovesOn]_(Lineage!vars)
  BY LineageNext DEF RowsAdvance
<1>3. QED
  BY <1>1, <1>2, LineageImplies, PTL DEF Lineage!Spec, Lineage!LineageOnlyAdvances
-----------------------------------------------------------------------------
\* The scenes that the model checker explores are of these two specifications.
LEMMA ScenesAreSpecified == MCSpec => Spec /\ Lineage!Spec
<1>1. MCInit => Init /\ Lineage!Init
  BY DEF MCInit
<1>2. [MCNext]_<<scene, case, lineage, vars>> => [Next]_vars /\ [Lineage!Next]_(Lineage!vars)
  BY DEF MCNext, lineage, Lineage!vars
<1>3. QED
  BY <1>1, <1>2, PTL DEF MCSpec, Spec, Lineage!Spec

\* Also there, the row of a decision is of the plan that followed it and only
\* advances (findMatchingDecision, upsertLineage).
THEOREM LineageHoldsInScenes == MCSpec => LineageHolds
BY ScenesAreSpecified, LineageIsSound, PTL DEF LineageHolds

\* Also there, what a client was told is stored, is, and stays (recordOutput).
THEOREM WordIsKeptInScenes == MCSpec => ExperimentsKeepTheirWord
BY ScenesAreSpecified, WordIsKept, PTL
-----------------------------------------------------------------------------
\* What the market data and the account say of themselves: ages are in seconds,
\* a clock may be ahead or behind, and the rest may be anything.
SnapshotState(s) == s.age \in [Adjust!Sources -> Nat \cup {Null}] /\ s.skew \in Int

\* What the gates of a snapshot ask for
Skewed(s) == s.skew \notin -10 .. 10
MarketOk(s) ==
  /\ s.missing.market = {} /\ ~Skewed(s)
  /\ ~ \E x \in Adjust!MarketCritical : Adjust!Unavailable(s, x)
EntryOk(s) ==
  /\ s.missing.market = {} /\ s.missing.entry = {} /\ ~Skewed(s)
  /\ ~ \E x \in Adjust!EntryCritical : Adjust!Unavailable(s, x)

GatesOf(s, g) ==
  /\ (g.marketAnalysisAvailable <=> MarketOk(s))
  /\ (g.entryAllowed <=> EntryOk(s))
  /\ {g.entryAllowed, g.positionManagementAvailable, g.analysisGate.analysisAllowed} \subseteq BOOLEAN
  /\ (g.degraded <=> ~Adjust!AllNormal(s))
  /\ g.quality = IF EntryOk(s) /\ Adjust!AllNormal(s) THEN "GREEN"
                 ELSE IF MarketOk(s) \/ g.positionManagementAvailable THEN "YELLOW" ELSE "RED"
  /\ (g.analysisGate.analysisAllowed <=> EntryOk(s))
  /\ g.quality = "GREEN" => g.analysisGate.overallStatus = "NORMAL"
  /\ g.quality = "YELLOW" => g.analysisGate.overallStatus = "DELAYED"
  /\ ~EntryOk(s) => "ENTRY_DATA_UNAVAILABLE" \in g.criticalBlockers

\* What generateSnapshot makes of it
LEMMA GatesFields ==
  ASSUME NEW s, SnapshotState(s)
  PROVE  GatesOf(s, Adjust!Gates(s))
<1> DEFINE g == Adjust!Gates(s)
<1>1. /\ (g.marketAnalysisAvailable <=> MarketOk(s))
      /\ (g.entryAllowed <=> EntryOk(s))
      /\ {g.entryAllowed, g.positionManagementAvailable, g.analysisGate.analysisAllowed} \subseteq BOOLEAN
      /\ (g.degraded <=> ~Adjust!AllNormal(s))
      /\ g.quality = IF EntryOk(s) /\ Adjust!AllNormal(s) THEN "GREEN"
                     ELSE IF MarketOk(s) \/ g.positionManagementAvailable THEN "YELLOW" ELSE "RED"
  BY DEF Adjust!Gates, MarketOk, EntryOk, Skewed
<1>2. /\ (g.analysisGate.analysisAllowed <=> EntryOk(s))
      /\ g.quality = "GREEN" => g.analysisGate.overallStatus = "NORMAL"
      /\ g.quality = "YELLOW" => g.analysisGate.overallStatus = "DELAYED"
  BY DEF Adjust!Gates, MarketOk, EntryOk, Skewed
<1>3. ~EntryOk(s) => "ENTRY_DATA_UNAVAILABLE" \in g.criticalBlockers
  BY DEF Adjust!Gates, MarketOk, EntryOk, Skewed
<1>4. QED
  BY <1>1, <1>2, <1>3 DEF GatesOf

LEMMA GateIsRecord ==
  ASSUME NEW s, SnapshotState(s)
  PROVE  LET gate == Adjust!Gates(s).analysisGate
         IN  gate = [analysisAllowed |-> gate.analysisAllowed, overallStatus |-> gate.overallStatus]
BY DEF Adjust!Gates

\* The gate of an analysis, served late, allows no more and calls nothing normal.
LEMMA AgedGate ==
  ASSUME NEW s, SnapshotState(s), NEW a \in Nat
  PROVE  LET gate == Adjust!Gates(s).analysisGate
             aged == Adjust!AnalysisGate(Adjust!Gates(s), a)
         IN  /\ a > 15 => aged.analysisAllowed = FALSE /\ aged.overallStatus # "NORMAL"
             /\ a <= 15 => aged.analysisAllowed = gate.analysisAllowed
             /\ a \in 9 .. 15 => aged.overallStatus # "NORMAL"
             /\ a <= 8 => aged.overallStatus = gate.overallStatus
<1> DEFINE gate == Adjust!Gates(s).analysisGate
           allowed == gate.analysisAllowed
           status == gate.overallStatus
           delayed == [gate EXCEPT !.overallStatus = "DELAYED"]
<1>1. gate = [analysisAllowed |-> allowed, overallStatus |-> status]
  BY GateIsRecord
<1>2. Adjust!AnalysisGate(Adjust!Gates(s), a) =
        IF a > 15 THEN [analysisAllowed |-> FALSE, overallStatus |-> "STALE"]
        ELSE IF a > 8 /\ status = "NORMAL"
        THEN delayed
        ELSE gate
  BY DEF Adjust!AnalysisGate, Adjust!EntryMaxAge, Adjust!Delayed
<1>3. delayed.analysisAllowed = allowed /\ delayed.overallStatus = "DELAYED"
  <2> HIDE DEF gate, allowed, status
  <2>1. QED
    BY <1>1
<1> HIDE DEF delayed
<1> DEFINE aged == Adjust!AnalysisGate(Adjust!Gates(s), a)
<1>4. a > 15 => aged.analysisAllowed = FALSE /\ aged.overallStatus # "NORMAL"
  BY <1>2
<1>5. a <= 15 => aged.analysisAllowed = allowed
  <2>1. a <= 15 => ~(a > 15)
    OBVIOUS
  <2>2. a <= 15 => aged = delayed \/ aged = gate
    BY <1>2, <2>1
  <2>3. QED
    BY <1>3, <2>2
<1>6. a \in 9 .. 15 => aged.overallStatus # "NORMAL"
  BY <1>2, <1>3
<1>7. a <= 8 => aged.overallStatus = status
  BY <1>2, <1>3
<1>8. QED
  BY <1>4, <1>5, <1>6, <1>7 

\* What is left of gates that are served at an age
AgedOf(g, v, a) ==
  /\ (v.marketAnalysisAvailable <=> (g.marketAnalysisAvailable /\ a <= 15))
  /\ v.entryAllowed \in BOOLEAN
  /\ (v.entryAllowed <=> (g.entryAllowed /\ a <= 15))
  /\ (v.positionManagementAvailable <=> (g.positionManagementAvailable /\ a <= 30))
  /\ v.quality = IF a > 15 THEN (IF v.positionManagementAvailable THEN "YELLOW" ELSE "RED")
                 ELSE IF a > 8 /\ g.quality = "GREEN" THEN "YELLOW" ELSE g.quality
  /\ (v.degraded <=> (g.degraded \/ a \in 9 .. 15))
  /\ g.criticalBlockers \subseteq v.criticalBlockers
  /\ a > 15 => v.criticalBlockers # {}
  /\ v.analysisGate = Adjust!AnalysisGate(g, a)

LEMMA AgedFields ==
  ASSUME NEW g, NEW a \in Nat
  PROVE  AgedOf(g, Adjust!Aged(g, a), a)
<1> DEFINE v == Adjust!Aged(g, a)
<1>1. /\ (v.marketAnalysisAvailable <=> (g.marketAnalysisAvailable /\ a <= 15))
      /\ v.entryAllowed \in BOOLEAN
      /\ (v.entryAllowed <=> (g.entryAllowed /\ a <= 15))
      /\ (v.positionManagementAvailable <=> (g.positionManagementAvailable /\ a <= 30))
      /\ v.quality = IF a > 15 THEN (IF v.positionManagementAvailable THEN "YELLOW" ELSE "RED")
                     ELSE IF a > 8 /\ g.quality = "GREEN" THEN "YELLOW" ELSE g.quality
  BY DEF Adjust!Aged, Adjust!EntryMaxAge, Adjust!StaleAfter, Adjust!Delayed
<1>2. v.degraded <=> (g.degraded \/ a \in 9 .. 15)
  <2>1. v.degraded = (g.degraded \/ a \in 9 .. 15)
    BY DEF Adjust!Aged, Adjust!EntryMaxAge, Adjust!StaleAfter, Adjust!Delayed
  <2>2. QED
    BY <2>1
<1>5. v.analysisGate = Adjust!AnalysisGate(g, a)
  BY DEF Adjust!Aged, Adjust!EntryMaxAge, Adjust!StaleAfter, Adjust!Delayed
<1>3. /\ g.criticalBlockers \subseteq v.criticalBlockers
      /\ a > 15 => v.criticalBlockers # {}
  BY DEF Adjust!Aged, Adjust!EntryMaxAge, Adjust!StaleAfter, Adjust!Delayed
<1>4. QED
  BY <1>1, <1>2, <1>3, <1>5 DEF AgedOf

\* A clock that is behind hides no more of the age than it is behind.
LEMMA SeenAges ==
  ASSUME NEW age \in Nat, NEW later \in Nat, age <= later, NEW skew \in Int
  PROVE  /\ Adjust!SeenAge(age, skew) \in Nat
         /\ Adjust!SeenAge(age, skew) <= Adjust!SeenAge(later, skew)
         /\ age <= Adjust!SeenAge(age, skew) + (IF skew > 0 THEN skew ELSE 0)
BY DEF Adjust!SeenAge

\* An entry needs all that an analysis of the market needs.
LEMMA EntryNeedsMarket ==
  ASSUME NEW s, EntryOk(s)
  PROVE  MarketOk(s)
BY DEF EntryOk, MarketOk, Adjust!EntryCritical

LEMMA Thresholds ==
  ASSUME NEW x
  PROVE  Adjust!Threshold(x)[2] \in Nat
BY DEF Adjust!Threshold

\* Where an entry is allowed no source that it needs is missing or stale.
LEMMA CriticalSources ==
  ASSUME NEW s, SnapshotState(s), EntryOk(s), NEW x \in Adjust!EntryCritical
  PROVE  s.age[x] # Null /\ s.age[x] \in Nat /\ s.age[x] <= Adjust!Threshold(x)[2]
<1>1. Adjust!SourceHealth(s, x) \notin {"STALE", "INSUFFICIENT_DATA"}
  BY DEF EntryOk, Adjust!Unavailable
<1>2. x \in Adjust!Sources
  BY DEF Adjust!Sources, Adjust!Required
<1>3. s.age[x] \in Nat \cup {Null}
  BY <1>2 DEF SnapshotState
<1>4. QED
  BY <1>1, <1>3, Thresholds DEF Adjust!SourceHealth

\* The gates, the quality and the blockers agree at any age,
LEMMA GatesAgreeAtAnyAge ==
  ASSUME NEW s, SnapshotState(s), NEW age \in Nat
  PROVE  Adjust!GatesAgree(s, Adjust!Aged(Adjust!Gates(s), Adjust!SeenAge(age, s.skew)), age)
<1> DEFINE a == Adjust!SeenAge(age, s.skew)
           g == Adjust!Gates(s)
           v == Adjust!Aged(g, a)
           late == 15 + (IF s.skew > 0 THEN s.skew ELSE 0)
<1>1. a \in Nat /\ s.skew \in Int /\ age <= a + (IF s.skew > 0 THEN s.skew ELSE 0)
  <2>1. s.skew \in Int /\ age <= age
    BY DEF SnapshotState
  <2>2. QED
    BY <2>1, SeenAges
<1>2. GatesOf(s, g) /\ AgedOf(g, v, a)
  BY <1>1, GatesFields, AgedFields
<1>3. /\ a > 15 => v.analysisGate.analysisAllowed = FALSE /\ v.analysisGate.overallStatus # "NORMAL"
      /\ a <= 15 => v.analysisGate.analysisAllowed = g.analysisGate.analysisAllowed
      /\ a \in 9 .. 15 => v.analysisGate.overallStatus # "NORMAL"
      /\ a <= 8 => v.analysisGate.overallStatus = g.analysisGate.overallStatus
  <2>1. v.analysisGate = Adjust!AnalysisGate(g, a)
    BY <1>2 DEF AgedOf
  <2>2. QED
    BY <1>1, <2>1, AgedGate
<1>4. \A x \in Adjust!EntryCritical :
        EntryOk(s) => s.age[x] # Null /\ s.age[x] \in Nat /\ s.age[x] <= Adjust!Threshold(x)[2]
  BY CriticalSources
<1>5. EntryOk(s) => s.skew <= 10 /\ s.missing.market = {} /\ s.missing.entry = {}
  BY <1>1 DEF EntryOk, Skewed
<1> HIDE DEF a, g, v
<1>6. EntryOk(s) => MarketOk(s)
  BY EntryNeedsMarket
<1>7. (v.quality = "RED") <=> ~v.marketAnalysisAvailable /\ ~v.positionManagementAvailable
  BY <1>1, <1>2, <1>6 DEF GatesOf, AgedOf
<1>8. v.quality = "GREEN" => v.entryAllowed /\ ~v.degraded
  BY <1>1, <1>2 DEF GatesOf, AgedOf
<1>9. v.entryAllowed => a <= 15 /\ EntryOk(s) /\ v.marketAnalysisAvailable
  BY <1>1, <1>2, <1>6 DEF GatesOf, AgedOf
<1>10. v.entryAllowed =>
         /\ late <= 25 /\ s.missing.market \cup s.missing.entry = {}
         /\ \A x \in Adjust!EntryCritical :
              s.age[x] # Null /\ s.age[x] + age <= Adjust!Threshold(x)[2] + late
  BY <1>1, <1>4, <1>5, <1>9, Thresholds
<1>11. v.analysisGate.analysisAllowed = v.entryAllowed
  <2>1. CASE a > 15
    <3>1. v.analysisGate.analysisAllowed = FALSE
      BY <1>3, <2>1
    <3>2. ~(a <= 15)
      BY <1>1, <2>1
    <3>3. v.entryAllowed \in BOOLEAN /\ ~v.entryAllowed
      BY <1>2, <3>2 DEF AgedOf
    <3>4. QED
      BY <3>1, <3>3
  <2>2. CASE a <= 15
    <3>1. v.analysisGate.analysisAllowed = g.analysisGate.analysisAllowed
      BY <1>3, <2>2
    <3>2. g.analysisGate.analysisAllowed <=> v.entryAllowed
      BY <1>2, <2>2 DEF GatesOf, AgedOf
    <3>3. g.analysisGate.analysisAllowed \in BOOLEAN /\ v.entryAllowed \in BOOLEAN
      BY <1>2 DEF GatesOf, AgedOf
    <3>4. QED
      BY <3>1, <3>2, <3>3
  <2>3. QED
    BY <1>1, <2>1, <2>2
<1>12. v.analysisGate.overallStatus = "NORMAL" /\ v.quality # "RED" => v.quality = "GREEN"
  BY <1>1, <1>2, <1>3 DEF GatesOf, AgedOf
<1>13. ~v.entryAllowed => v.criticalBlockers # {}
  BY <1>1, <1>2 DEF GatesOf, AgedOf
<1>14. QED
  <2>1. Adjust!GatesAgree(s, v, age)
    BY <1>7, <1>8, <1>9, <1>10, <1>11, <1>12, <1>13 DEF Adjust!GatesAgree, Adjust!EntryMaxAge
  <2>2. QED
    BY <2>1 DEF v, g, a

\* and what is not permitted is not permitted later.
LEMMA GatesOnlyClose ==
  ASSUME NEW s, SnapshotState(s), NEW age \in Nat, NEW later \in Nat, age <= later
  PROVE  Adjust!AgeOnlyRestricts(Adjust!Aged(Adjust!Gates(s), Adjust!SeenAge(age, s.skew)),
                                 Adjust!Aged(Adjust!Gates(s), Adjust!SeenAge(later, s.skew)))
<1> DEFINE a == Adjust!SeenAge(age, s.skew)
           b == Adjust!SeenAge(later, s.skew)
           g == Adjust!Gates(s)
           v == Adjust!Aged(g, a)
           w == Adjust!Aged(g, b)
<1>1. a \in Nat /\ b \in Nat /\ a <= b
  <2>1. s.skew \in Int
    BY DEF SnapshotState
  <2>2. QED
    BY <2>1, SeenAges
<1>2. GatesOf(s, g) /\ AgedOf(g, v, a) /\ AgedOf(g, w, b)
  BY <1>1, GatesFields, AgedFields
<1>3. EntryOk(s) => MarketOk(s)
  BY EntryNeedsMarket
<1> HIDE DEF a, b, g, v, w
<1>4. /\ w.marketAnalysisAvailable => v.marketAnalysisAvailable
      /\ w.entryAllowed => v.entryAllowed
      /\ w.positionManagementAvailable => v.positionManagementAvailable
  BY <1>1, <1>2 DEF AgedOf
<1>5. v.quality \in {"GREEN", "YELLOW", "RED"} /\ w.quality \in {"GREEN", "YELLOW", "RED"}
  BY <1>2 DEF GatesOf, AgedOf
<1>6. w.quality = "GREEN" => v.quality = "GREEN"
  BY <1>1, <1>2 DEF GatesOf, AgedOf
<1>7. v.quality = "RED" => w.quality = "RED"
  BY <1>1, <1>2, <1>3 DEF GatesOf, AgedOf
<1>8. Adjust!Rank(w.quality) <= Adjust!Rank(v.quality)
  BY <1>5, <1>6, <1>7 DEF Adjust!Rank
<1>9. QED
  BY <1>4, <1>8 DEF Adjust!AgeOnlyRestricts, v, w, g, a, b

\* Whatever the sources, the account and the clocks say, and at whatever ages the
\* worker serves it, a snapshot permits an entry only on data that is no older than
\* the thresholds and the skew allow, says the same of itself in its gates, its
\* quality and its blockers, and permits no more later (generateSnapshot,
\* relay-freshness.ts).
THEOREM GatesAreRight ==
  ASSUME NEW s, SnapshotState(s), NEW ages \in SUBSET Nat
  PROVE  Adjust!GatesHold(s, ages)
<1> DEFINE served == [age \in ages |-> Adjust!Aged(Adjust!Gates(s), Adjust!SeenAge(age, s.skew))]
<1>1. ASSUME NEW age \in ages
      PROVE  /\ Adjust!GatesAgree(s, served[age], age)
             /\ \A later \in ages :
                  age <= later => Adjust!AgeOnlyRestricts(served[age], served[later])
  <2>1. age \in Nat /\ ages \subseteq Nat
    OBVIOUS
  <2>2. QED
    BY <2>1, GatesAgreeAtAnyAge, GatesOnlyClose
<1>2. QED
  BY <1>1 DEF Adjust!GatesHold
-----------------------------------------------------------------------------
\* Division of natural numbers, as the provers are told of it
LEMMA Quotient ==
  ASSUME NEW n \in Nat, NEW d \in Nat \ {0}
  PROVE  /\ n \div d \in Nat /\ (n \div d) * d <= n
         /\ \A k \in Nat : k * d <= n => k <= n \div d
OBVIOUS

LEMMA NoRemainder ==
  ASSUME NEW n \in Nat, NEW d \in Nat \ {0}, n % d = 0
  PROVE  n \div d \in Nat /\ n = (n \div d) * d
OBVIOUS

LEMMA Multiple ==
  ASSUME NEW k \in Nat, NEW d \in Nat \ {0}
  PROVE  k * d \in Nat /\ (k * d) % d = 0 /\ (k * d) \div d = k
OBVIOUS

LEMMA Products ==
  ASSUME NEW a \in Nat, NEW b \in Nat
  PROVE  a * b \in Nat /\ (a # 0 /\ b # 0 => a * b # 0)
OBVIOUS

LEMMA ProductGrows ==
  ASSUME NEW a \in Nat, NEW b \in Nat, a <= b, NEW c \in Nat, NEW d \in Nat, b * c <= d
  PROVE  a * c <= d
OBVIOUS

\* A quotient that is rounded down to a step is the largest multiple of the step
\* that is not above it.
LEMMA FloorIsGreatest ==
  ASSUME NEW a \in Nat, NEW b \in Nat \ {0}, NEW step \in Nat \ {0}
  PROVE  LET r == Size!FloorToStep(<<a, b>>, step)
         IN  /\ r \in Nat /\ r % step = 0 /\ r * b <= a
             /\ \A k \in Nat : (k * step) * b <= a => k * step <= r
<1> DEFINE d == b * step
           m == a \div d
           r == m * step
<1>1. d \in Nat \ {0}
  BY Products
<1>2. Size!FloorToStep(<<a, b>>, step) = r
  BY DEF Size!FloorToStep
<1> HIDE DEF d
<1>3. m \in Nat /\ m * d <= a /\ \A k \in Nat : k * d <= a => k <= m
  BY <1>1, Quotient
<1> HIDE DEF m
<1>4. r \in Nat /\ r % step = 0
  BY <1>3, Multiple
<1>5. r * b <= a
  <2>1. (m * step) * b = m * (b * step)
    BY <1>3
  <2>2. QED
    BY <1>3, <2>1 DEF d
<1>6. ASSUME NEW k \in Nat, (k * step) * b <= a
      PROVE  k * step <= r
  <2>1. (k * step) * b = k * (b * step)
    OBVIOUS
  <2>2. k <= m
    BY <1>3, <1>6, <2>1 DEF d
  <2>3. QED
    BY <1>3, <2>2
<1> HIDE DEF r
<1>7. QED
  BY <1>2, <1>4, <1>5, <1>6

\* Max and Min of two, and of up to three
LEMMA LargerOfTwo ==
  ASSUME NEW a \in Nat, NEW b \in Nat, NEW S, S = {a, b}
  PROVE  Size!Max(S) \in Nat /\ a <= Size!Max(S) /\ b <= Size!Max(S)
<1>1. \E x \in S : \A y \in S : x >= y
  OBVIOUS
<1>2. Size!Max(S) \in S /\ \A y \in S : Size!Max(S) >= y
  BY <1>1 DEF Size!Max
<1>3. QED
  BY <1>2

LEMMA MinOfSome ==
  ASSUME NEW S \in SUBSET Nat, S # {}
  PROVE  Size!Min(S) \in S /\ \A x \in S : Size!Min(S) <= x
<1>1. \E x \in S : \A y \in S : x <= y
  BY LeastNumber
<1>2. QED
  BY <1>1 DEF Size!Min

\* Closed at its break-even price a position makes and loses nothing.
LEMMA BreakevenIsNeutralFor ==
  ASSUME NEW side \in Sides, NEW entry \in Int, NEW market,
         market.entryFee \in Int, market.exitFee \in Int,
         market.entrySlippage \in Int, market.exitSlippage \in Int,
         NEW funding \in Int, side = "LONG" \/ funding = 0,
         NEW plan, plan.side = side, plan.entry = entry,
         NEW scaled, LET exit == Size!BreakevenExitPrice(plan, market, funding)
                     IN  scaled.side = side /\ scaled.entry = entry * exit[2]
  PROVE  Size!NetPnl(scaled, Size!BreakevenExitPrice(plan, market, funding)[1], 1, market, funding) = 0
<1> DEFINE f == market.entryFee + market.entrySlippage + funding
           x == market.exitFee + market.exitSlippage
<1>1. f \in Int /\ x \in Int
  OBVIOUS
<1>2. CASE side = "LONG"
  <2>1. /\ Size!BreakevenExitPrice(plan, market, funding) = <<entry * 1000 + entry * f, 1000 - x>>
        /\ scaled.entry = entry * (1000 - x)
    BY <1>2 DEF Size!BreakevenExitPrice
  <2> DEFINE e == entry * 1000 + entry * f
             n == entry * (1000 - x)
  <2>2. Size!NetPnl(scaled, e, 1, market, funding) = 1 * ((e - n) * 1000 - n * f - e * x)
    BY <1>2, <2>1 DEF Size!NetPnl, Size!FundingRate
  <2> HIDE DEF f, x
  <2>3. (e - n) * 1000 - n * f - e * x = 0
    BY <1>1
  <2>4. QED
    BY <2>1, <2>2, <2>3
<1>3. CASE side = "SHORT"
  <2>1. /\ Size!BreakevenExitPrice(plan, market, funding) = <<entry * 1000 - entry * f, 1000 + x>>
        /\ scaled.entry = entry * (1000 + x)
    BY <1>3 DEF Size!BreakevenExitPrice
  <2> DEFINE e == entry * 1000 - entry * f
             n == entry * (1000 + x)
  <2>2. Size!NetPnl(scaled, e, 1, market, funding) = 1 * ((n - e) * 1000 - n * f - e * x)
    BY <1>3, <2>1 DEF Size!NetPnl, Size!FundingRate
  <2> HIDE DEF f, x
  <2>3. (n - e) * 1000 - n * f - e * x = 0
    BY <1>1
  <2>4. QED
    BY <2>1, <2>2, <2>3
<1>4. QED
  BY <1>2, <1>3 DEF Sides
-----------------------------------------------------------------------------
SizeModes == {"MARGIN_USDT", "QUANTITY_BTC", "NOTIONAL_USDT", "MAX_LOSS_USDT"}

\* A plan with a size, and a market that says all that it is validated with; the
\* targets, the gates and the names of snapshots may be anything.
SizedPlan(p) ==
  p \in [side : Sides, entry : Nat \ {0}, stop : Nat, leverage : Nat \ {0}, sizeMode : SizeModes,
         sizeValue : Nat, maxLoss : Nat \cup {Null}, targets : {p.targets}, snapshot : {p.snapshot}]

PricedMarket(m) ==
  /\ m \in [snapshot : {m.snapshot}, gates : {m.gates}, brackets : {m.brackets},
            step : Nat \ {0}, tick : Nat \ {0}, minQuantity : Nat, minNotional : Nat,
            available : Nat \cup {Null}, maxLoss : Nat \cup {Null},
            entryFee : Nat, exitFee : Nat, entrySlippage : Nat, exitSlippage : Nat]
  /\ m.brackets # {} /\ IsFiniteSet(m.brackets)
  /\ \A b \in m.brackets : b.floor \in Nat /\ b.cap \in Nat

LEMMA BreakevenNeutral ==
  ASSUME NEW plan, SizedPlan(plan), NEW market, PricedMarket(market), NEW funding \in Int
  PROVE  Size!BreakevenIsNeutral(plan, market, funding)
<1> DEFINE exit == Size!BreakevenExitPrice(plan, market, funding)
           scaled == [plan EXCEPT !.entry = @ * exit[2]]
<1>1. scaled.side = plan.side /\ scaled.entry = plan.entry * exit[2]
  BY DEF SizedPlan
<1> HIDE DEF scaled
<1>2. /\ market.entryFee \in Int /\ market.exitFee \in Int
      /\ market.entrySlippage \in Int /\ market.exitSlippage \in Int
      /\ plan.side \in Sides /\ plan.entry \in Int
  BY DEF SizedPlan, PricedMarket
<1>3. plan.side = "LONG" \/ funding = 0 => Size!NetPnl(scaled, exit[1], 1, market, funding) = 0
  BY <1>1, <1>2, BreakevenIsNeutralFor
<1>4. QED
  BY <1>3 DEF Size!BreakevenIsNeutral, scaled

LEMMA SlippageIsMost ==
  ASSUME NEW market, PricedMarket(market)
  PROVE  /\ Size!Slippage(market) \in Nat
         /\ market.entrySlippage <= Size!Slippage(market)
         /\ market.exitSlippage <= Size!Slippage(market)
<1>1. market.entrySlippage \in Nat /\ market.exitSlippage \in Nat
  BY DEF PricedMarket
<1> DEFINE both == {market.entrySlippage, market.exitSlippage}
<1>2. Size!Slippage(market) = Size!Max(both)
  BY DEF Size!Slippage
<1>3. both = {market.entrySlippage, market.exitSlippage}
  OBVIOUS
<1> HIDE DEF both
<1>4. QED
  BY <1>1, <1>2, <1>3, LargerOfTwo

LEMMA UnitLoses ==
  ASSUME NEW plan, SizedPlan(plan), NEW market, PricedMarket(market), plan.stop # plan.entry
  PROVE  Size!LossPerUnit(plan, market) \in Nat \ {0}
<1> DEFINE s == Size!Slippage(market)
           a == plan.entry * (market.entryFee + s)
           b == plan.stop * (market.exitFee + s)
           c == Size!Distance(plan.entry, plan.stop)
<1>1. /\ s \in Nat /\ market.entryFee \in Nat /\ market.exitFee \in Nat
      /\ plan.entry \in Nat /\ plan.stop \in Nat
  BY SlippageIsMost DEF PricedMarket, SizedPlan
<1>2. c \in Nat \ {0}
  BY <1>1 DEF Size!Distance
<1> HIDE DEF s, c
<1>3. a \in Nat /\ b \in Nat
  BY <1>1, Products
<1> HIDE DEF a, b
<1>4. c * 1000 + a + b \in Nat \ {0}
  BY <1>2, <1>3
<1>5. QED
  BY <1>4 DEF Size!LossPerUnit, a, b, c, s

\* A size is a quotient.
LEMMA SizeIsQuotient ==
  ASSUME NEW plan, SizedPlan(plan), NEW market, PricedMarket(market), plan.stop # plan.entry
  PROVE  LET q == Size!RequestedQuantity(plan, market)
         IN  q = <<q[1], q[2]>> /\ q[1] \in Nat /\ q[2] \in Nat \ {0}
<1> DEFINE loss == Size!LossPerUnit(plan, market)
           p == Size!ProvisionalQuantity(plan, market)
           q == Size!RequestedQuantity(plan, market)
<1>1. /\ plan.sizeMode \in SizeModes /\ plan.sizeValue \in Nat /\ plan.leverage \in Nat
      /\ plan.entry \in Nat \ {0} /\ market.step \in Nat \ {0}
  BY DEF SizedPlan, PricedMarket
<1>2. loss \in Nat \ {0}
  BY UnitLoses
<1> HIDE DEF loss
<1>3. /\ plan.sizeMode = "MARGIN_USDT" => p = <<plan.sizeValue * plan.leverage, plan.entry>>
      /\ plan.sizeMode = "QUANTITY_BTC" => p = <<plan.sizeValue, 1>>
      /\ plan.sizeMode = "NOTIONAL_USDT" => p = <<plan.sizeValue, plan.entry>>
      /\ plan.sizeMode = "MAX_LOSS_USDT" => p = <<plan.sizeValue * 1000, loss>>
  BY DEF Size!ProvisionalQuantity, loss
<1> HIDE DEF p
<1>4. plan.sizeValue * plan.leverage \in Nat /\ plan.sizeValue * 1000 \in Nat
  BY <1>1
<1>5. CASE plan.sizeMode = "MAX_LOSS_USDT"
  <2>1. q = <<Size!FloorToStep(<<plan.sizeValue * 1000, loss>>, market.step), 1>>
    BY <1>3, <1>5 DEF Size!RequestedQuantity, p
  <2>2. Size!FloorToStep(<<plan.sizeValue * 1000, loss>>, market.step) \in Nat
    BY <1>1, <1>2, <1>4, FloorIsGreatest
  <2> HIDE DEF q
  <2>3. QED
    BY <2>1, <2>2 DEF q
<1>6. CASE plan.sizeMode # "MAX_LOSS_USDT"
  <2>1. q = p
    BY <1>6 DEF Size!RequestedQuantity, p
  <2> HIDE DEF q
  <2>2. q = <<q[1], q[2]>> /\ q[1] \in Nat /\ q[2] \in Nat \ {0}
    BY <1>1, <1>3, <1>4, <1>6, <2>1 DEF SizeModes
  <2>3. QED
    BY <2>2 DEF q
<1>7. QED
  BY <1>5, <1>6

\* What a size that is not turned down for it comes to
LEMMA NoReasons ==
  ASSUME NEW plan, NEW market, NEW bracket, Size!SizeReasons(plan, market, bracket) = {}
  PROVE  LET q == Size!RequestedQuantity(plan, market)
             loss == Size!MaxLoss(plan, market)
         IN  /\ Size!Aligned(q[1], q[2] * market.step)
             /\ ~ (q[1] < market.minQuantity * q[2])
             /\ ~ (q[1] * plan.entry > bracket.cap * q[2])
             /\ market.available # Null =>
                  ~ (q[1] * plan.entry > market.available * plan.leverage * q[2])
             /\ loss # Null => ~ (q[1] * Size!LossPerUnit(plan, market) > loss * 1000 * q[2])
<1> DEFINE q == Size!RequestedQuantity(plan, market)
           loss == Size!MaxLoss(plan, market)
           reasons == Size!SizeReasons(plan, market, bracket)
<1>1. /\ ~ Size!Aligned(q[1], q[2] * market.step) => "QUANTITY_NOT_ALIGNED_TO_STEP_SIZE" \in reasons
      /\ q[1] < market.minQuantity * q[2] => "BELOW_MIN_QUANTITY" \in reasons
      /\ q[1] * plan.entry > bracket.cap * q[2] => "NOTIONAL_EXCEEDS_BINANCE_BRACKET" \in reasons
      /\ market.available # Null /\ q[1] * plan.entry > market.available * plan.leverage * q[2]
           => "INSUFFICIENT_AVAILABLE_MARGIN" \in reasons
      /\ loss # Null /\ q[1] * Size!LossPerUnit(plan, market) > loss * 1000 * q[2]
           => "MAX_LOSS_EXCEEDED" \in reasons
  BY DEF Size!SizeReasons
<1> HIDE DEF reasons
<1>2. QED
  BY <1>1 DEF reasons

LEMMA FewReasons ==
  ASSUME NEW plan, NEW market, NEW bracket
  PROVE  LET q == Size!RequestedQuantity(plan, market)
             loss == Size!MaxLoss(plan, market)
             reasons == Size!SizeReasons(plan, market, bracket)
         IN  /\ Size!Aligned(q[1], q[2] * market.step) => "QUANTITY_NOT_ALIGNED_TO_STEP_SIZE" \notin reasons
             /\ ~ (q[1] * plan.entry > bracket.cap * q[2]) => "NOTIONAL_EXCEEDS_BINANCE_BRACKET" \notin reasons
             /\ (market.available = Null \/ ~ (q[1] * plan.entry > market.available * plan.leverage * q[2]))
                  => "INSUFFICIENT_AVAILABLE_MARGIN" \notin reasons
             /\ (loss = Null \/ ~ (q[1] * Size!LossPerUnit(plan, market) > loss * 1000 * q[2]))
                  => "MAX_LOSS_EXCEEDED" \notin reasons
BY DEF Size!SizeReasons
-----------------------------------------------------------------------------
\* The quantity that is offered is the largest one that no limit is against.
LEMMA OfferIsGreatest ==
  ASSUME NEW plan, SizedPlan(plan), NEW market, PricedMarket(market), plan.stop # plan.entry,
         NEW bracket, bracket.cap \in Nat, NEW loss, loss = Size!MaxLoss(plan, market),
         loss \in Nat \cup {Null}, NEW unit, unit = Size!LossPerUnit(plan, market),
         NEW offer, offer = Size!MaximumQuantity(plan, market, bracket)
  PROVE  LET Fits(n) ==
               /\ n * plan.entry <= bracket.cap
               /\ market.available # Null => n * plan.entry <= market.available * plan.leverage
               /\ loss # Null => n * unit <= loss * 1000
         IN  /\ offer \in Nat /\ offer % market.step = 0 /\ Fits(offer)
             /\ \A k \in Nat : Fits(k * market.step) => k * market.step <= offer
<1> DEFINE step == market.step
           byCap == <<bracket.cap, plan.entry>>
           byMargin == <<market.available * plan.leverage, plan.entry>>
           byLoss == <<loss * 1000, unit>>
           Floor(q) == Size!FloorToStep(q, step)
           floors == {Floor(byCap)}
             \cup (IF market.available = Null THEN {} ELSE {Floor(byMargin)})
             \cup (IF loss = Null THEN {} ELSE {Floor(byLoss)})
<1>1. /\ plan.entry \in Nat \ {0} /\ plan.leverage \in Nat /\ step \in Nat \ {0}
      /\ market.available \in Nat \cup {Null}
  BY DEF SizedPlan, PricedMarket
<1>2. unit \in Nat \ {0}
  BY UnitLoses
<1>3. offer = Size!Min(floors)
  <2> DEFINE limits == {byCap} \cup (IF market.available = Null THEN {} ELSE {byMargin})
                         \cup (IF loss = Null THEN {} ELSE {byLoss})
  <2>1. offer = Size!Min({Floor(q) : q \in limits})
    BY DEF Size!MaximumQuantity
  <2> HIDE DEF Floor, byCap, byMargin, byLoss
  <2>2. {Floor(q) : q \in limits} = floors
    OBVIOUS
  <2>3. QED
    BY <2>1, <2>2
<1>4. /\ Floor(byCap) \in Nat /\ Floor(byCap) % step = 0 /\ Floor(byCap) * plan.entry <= bracket.cap
      /\ \A k \in Nat : (k * step) * plan.entry <= bracket.cap => k * step <= Floor(byCap)
  BY <1>1, FloorIsGreatest
<1>5. market.available # Null =>
        /\ Floor(byMargin) \in Nat /\ Floor(byMargin) % step = 0
        /\ Floor(byMargin) * plan.entry <= market.available * plan.leverage
        /\ \A k \in Nat : (k * step) * plan.entry <= market.available * plan.leverage
                            => k * step <= Floor(byMargin)
  <2>1. market.available # Null => market.available * plan.leverage \in Nat
    BY <1>1
  <2>2. QED
    BY <1>1, <2>1, FloorIsGreatest
<1>6. loss # Null =>
        /\ Floor(byLoss) \in Nat /\ Floor(byLoss) % step = 0 /\ Floor(byLoss) * unit <= loss * 1000
        /\ \A k \in Nat : (k * step) * unit <= loss * 1000 => k * step <= Floor(byLoss)
  <2> SUFFICES ASSUME loss # Null
               PROVE  /\ Floor(byLoss) \in Nat /\ Floor(byLoss) % step = 0
                      /\ Floor(byLoss) * unit <= loss * 1000
                      /\ \A k \in Nat : (k * step) * unit <= loss * 1000 => k * step <= Floor(byLoss)
    OBVIOUS
  <2> DEFINE most == loss * 1000
  <2>1. most \in Nat /\ unit \in Nat \ {0} /\ step \in Nat \ {0}
    BY <1>1, <1>2
  <2>2. LET x == Size!FloorToStep(<<most, unit>>, step)
        IN  /\ x \in Nat /\ x % step = 0 /\ x * unit <= most
            /\ \A k \in Nat : (k * step) * unit <= most => k * step <= x
    <3> HIDE DEF most, step
    <3>1. QED
      BY ONLY <2>1, FloorIsGreatest
  <2>3. QED
    BY <2>2
<1> HIDE DEF Floor, byCap, byMargin, byLoss
<1>7. floors \in SUBSET Nat /\ floors # {}
  BY <1>4, <1>5, <1>6
<1>8. offer \in floors /\ \A n \in floors : offer <= n
  BY <1>3, <1>7, MinOfSome
<1>9. /\ offer \in Nat /\ offer % step = 0
      /\ offer <= Floor(byCap)
      /\ market.available # Null => offer <= Floor(byMargin)
      /\ loss # Null => offer <= Floor(byLoss)
  BY <1>4, <1>5, <1>6, <1>8
<1>10. offer * plan.entry <= bracket.cap
  BY <1>1, <1>4, <1>9, ProductGrows
<1>11. market.available # Null => offer * plan.entry <= market.available * plan.leverage
  <2> SUFFICES ASSUME market.available # Null
               PROVE  offer * plan.entry <= market.available * plan.leverage
    OBVIOUS
  <2>1. market.available * plan.leverage \in Nat
    BY <1>1
  <2>2. /\ offer \in Nat /\ plan.entry \in Nat /\ Floor(byMargin) \in Nat
        /\ offer <= Floor(byMargin)
        /\ Floor(byMargin) * plan.entry <= market.available * plan.leverage
    BY <1>1, <1>5, <1>9
  <2>3. QED
    BY ONLY <2>1, <2>2, ProductGrows
<1>12. loss # Null => offer * unit <= loss * 1000
  <2> SUFFICES ASSUME loss # Null
               PROVE  offer * unit <= loss * 1000
    OBVIOUS
  <2>1. loss * 1000 \in Nat
    OBVIOUS
  <2>2. QED
    BY <1>2, <1>6, <1>9, <2>1, ProductGrows
<1>13. ASSUME NEW k \in Nat,
              (k * step) * plan.entry <= bracket.cap,
              market.available # Null => (k * step) * plan.entry <= market.available * plan.leverage,
              loss # Null => (k * step) * unit <= loss * 1000
       PROVE  k * step <= offer
  <2>1. k * step <= Floor(byCap)
    BY <1>4, <1>13
  <2>2. market.available # Null => k * step <= Floor(byMargin)
    BY <1>5, <1>13
  <2>3. loss # Null => k * step <= Floor(byLoss)
    BY <1>6, <1>13
  <2>4. QED
    BY <1>8, <2>1, <2>2, <2>3
<1>14. QED
  BY <1>9, <1>10, <1>11, <1>12, <1>13
-----------------------------------------------------------------------------
LEMMA Cancel ==
  ASSUME NEW a \in Nat, NEW c \in Nat, NEW b \in Nat \ {0}, a * b <= c * b
  PROVE  a <= c
OBVIOUS

LEMMA LossIsBounded ==
  ASSUME NEW n \in Nat, NEW unit \in Nat, NEW one \in Int, one >= -unit, NEW most \in Nat, n * unit <= most
  PROVE  n * one >= -most
<1>1. n * one >= n * (-unit)
  OBVIOUS
<1>2. n * (-unit) = -(n * unit)
  OBVIOUS
<1>3. n * one \in Int /\ n * unit \in Int
  OBVIOUS
<1>4. QED
  BY <1>1, <1>2, <1>3

LEMMA AtMost ==
  ASSUME NEW n \in Nat, NEW a \in Nat, NEW b \in Nat, a <= b
  PROVE  n * a <= n * b
OBVIOUS

\* At its stop one unit loses no more than lossPerUnit.
LEMMA StopLoses ==
  ASSUME NEW plan, SizedPlan(plan), NEW market, PricedMarket(market), Size!Sided(plan), NEW n \in Nat
  PROVE  \E one \in Int : /\ one >= - Size!LossPerUnit(plan, market)
                          /\ Size!NetPnl(plan, plan.stop, n, market, 0) = n * one
<1> DEFINE s == Size!Slippage(market)
           entry == plan.entry
           stop == plan.stop
           e == market.entryFee + market.entrySlippage
           x == market.exitFee + market.exitSlippage
           d == Size!Distance(entry, stop)
           one == (-d) * 1000 - entry * e - stop * x
<1>1. /\ s \in Nat /\ entry \in Nat /\ stop \in Nat
      /\ market.entryFee \in Nat /\ market.exitFee \in Nat
      /\ market.entrySlippage \in Nat /\ market.exitSlippage \in Nat
      /\ market.entrySlippage <= s /\ market.exitSlippage <= s /\ plan.side \in {"LONG", "SHORT"}
  BY SlippageIsMost DEF PricedMarket, SizedPlan, Sides
<1>2. d \in Nat
  BY <1>1 DEF Size!Distance
<1>3. (IF plan.side = "LONG" THEN stop - entry ELSE entry - stop) = -d
  BY <1>1 DEF Size!Sided, Size!Distance
<1>4. Size!FundingRate(plan, 0) = 0
  <2>1. Size!FundingRate(plan, 0) = IF plan.side = "LONG" THEN 0 ELSE -0
    BY DEF Size!FundingRate
  <2> DEFINE none == -0
  <2>2. none \in Int /\ none + 0 = 0
    BY \A z \in Int : -z + z = 0
  <2> HIDE DEF none
  <2>3. none = 0
    BY <2>2
  <2>4. QED
    BY <2>1, <2>3 DEF none
<1>5. Size!NetPnl(plan, stop, n, market, 0) = n * one
  <2>1. Size!NetPnl(plan, stop, n, market, 0) =
          n * ((IF plan.side = "LONG" THEN stop - entry ELSE entry - stop) * 1000
                 - entry * (market.entryFee + market.entrySlippage + Size!FundingRate(plan, 0))
                 - stop * (market.exitFee + market.exitSlippage))
    BY DEF Size!NetPnl
  <2>2. market.entryFee + market.entrySlippage + 0 = e
    BY <1>1
  <2> HIDE DEF d, e, x
  <2>3. QED
    BY <1>3, <1>4, <2>1, <2>2 DEF x
<1> HIDE DEF d, s
<1>6. entry * e <= entry * (market.entryFee + s) /\ entry * e \in Nat /\ entry * (market.entryFee + s) \in Nat
  BY <1>1, AtMost, Products
<1>7. stop * x <= stop * (market.exitFee + s) /\ stop * x \in Nat /\ stop * (market.exitFee + s) \in Nat
  BY <1>1, AtMost, Products
<1>8. Size!LossPerUnit(plan, market) = d * 1000 + entry * (market.entryFee + s) + stop * (market.exitFee + s)
  BY DEF Size!LossPerUnit, d, s
<1>9. one \in Int /\ one >= - Size!LossPerUnit(plan, market)
  <2> DEFINE a == entry * e
             b == stop * x
             f == entry * (market.entryFee + s)
             g == stop * (market.exitFee + s)
  <2>1. a <= f /\ a \in Nat /\ f \in Nat /\ b <= g /\ b \in Nat /\ g \in Nat
    BY <1>6, <1>7
  <2>2. Size!LossPerUnit(plan, market) = d * 1000 + f + g
    BY <1>8
  <2> HIDE DEF a, b, f, g
  <2>3. (-d) * 1000 - a - b \in Int /\ (-d) * 1000 - a - b >= -(d * 1000 + f + g)
    BY <1>2, <2>1
  <2>4. QED
    BY <2>2, <2>3 DEF a, b
<1>10. QED
  BY <1>5, <1>9

\* A size that nothing is said against
LEMMA SizeSafe ==
  ASSUME NEW plan, SizedPlan(plan), NEW market, PricedMarket(market), Size!Sided(plan),
         NEW bracket \in market.brackets, Null \notin Nat, Size!SizeReasons(plan, market, bracket) = {}
  PROVE  Size!SizeIsSafe(plan, market, bracket)
<1> DEFINE q == Size!RequestedQuantity(plan, market)
           a == q[1]
           b == q[2]
           step == market.step
           k == a \div (b * step)
           n == k * step
           loss == Size!MaxLoss(plan, market)
           unit == Size!LossPerUnit(plan, market)
           offer == Size!MaximumQuantity(plan, market, bracket)
           margin == market.available * plan.leverage
<1>1. /\ plan.entry \in Nat \ {0} /\ plan.leverage \in Nat /\ step \in Nat \ {0}
      /\ plan.stop # plan.entry /\ bracket.cap \in Nat /\ market.minQuantity \in Nat
      /\ market.available \in Nat \cup {Null} /\ loss \in Nat \cup {Null}
  BY DEF SizedPlan, PricedMarket, Size!Sided, Size!MaxLoss
<1>2. unit \in Nat \ {0}
  BY <1>1, UnitLoses
<1>3. a \in Nat /\ b \in Nat \ {0}
  BY <1>1, SizeIsQuotient
<1>4. /\ a % (b * step) = 0
      /\ ~ (a < market.minQuantity * b)
      /\ ~ (a * plan.entry > bracket.cap * b)
      /\ market.available # Null => ~ (a * plan.entry > margin * b)
      /\ loss # Null => ~ (a * unit > loss * 1000 * b)
  BY NoReasons DEF Size!Aligned
<1> HIDE DEF q, a, b, step, loss, unit, margin
<1>5. k \in Nat /\ a = k * (b * step)
  <2> DEFINE d == b * step
  <2>1. d \in Nat \ {0}
    BY <1>1, <1>3, Products
  <2>2. a % d = 0
    BY <1>4
  <2> HIDE DEF d
  <2>3. a \div d \in Nat /\ a = (a \div d) * d
    BY ONLY <1>3, <2>1, <2>2, NoRemainder
  <2>4. QED
    BY <2>3 DEF d, k
<1> HIDE DEF k
<1>6. n \in Nat /\ a = n * b
  BY <1>1, <1>3, <1>5
<1>7. a % b = 0 /\ a \div b = n
  BY <1>3, <1>6, Multiple
<1> HIDE DEF n
<1>8. market.minQuantity <= n
  <2>1. market.minQuantity * b <= n * b
    BY <1>1, <1>3, <1>4, <1>6
  <2>2. QED
    BY <1>1, <1>3, <1>6, <2>1, Cancel
<1>9. n * plan.entry <= bracket.cap
  <2>1. (n * plan.entry) * b <= bracket.cap * b /\ n * plan.entry \in Nat
    BY <1>1, <1>3, <1>4, <1>6
  <2>2. QED
    BY <1>1, <1>3, <2>1, Cancel
<1>10. market.available # Null => n * plan.entry <= margin
  <2> SUFFICES ASSUME market.available # Null
               PROVE  n * plan.entry <= margin
    OBVIOUS
  <2>1. margin \in Nat
    BY <1>1 DEF margin
  <2>2. (n * plan.entry) * b <= margin * b /\ n * plan.entry \in Nat
    BY <1>1, <1>3, <1>4, <1>6, <2>1
  <2>3. QED
    BY <1>3, <2>1, <2>2, Cancel
<1>11. loss # Null => n * unit <= loss * 1000
  <2> SUFFICES ASSUME loss # Null
               PROVE  n * unit <= loss * 1000
    OBVIOUS
  <2>1. loss * 1000 \in Nat
    BY <1>1
  <2>2. (n * unit) * b <= (loss * 1000) * b /\ n * unit \in Nat
    BY <1>2, <1>3, <1>4, <1>6, <2>1
  <2>3. QED
    BY <1>3, <2>1, <2>2, Cancel
<1>12. offer \in Nat /\ n <= offer
  BY <1>1, <1>5, <1>9, <1>10, <1>11, OfferIsGreatest DEF n, step, loss, unit, margin
<1>13. loss # Null => Size!NetPnl(plan, plan.stop, n, market, 0) >= -loss * 1000
  <2> SUFFICES ASSUME loss # Null
               PROVE  Size!NetPnl(plan, plan.stop, n, market, 0) >= -(loss * 1000)
    BY <1>1
  <2>1. PICK one \in Int : one >= -unit /\ Size!NetPnl(plan, plan.stop, n, market, 0) = n * one
    BY <1>6, StopLoses DEF unit
  <2>2. loss * 1000 \in Nat
    BY <1>1
  <2>3. QED
    BY <1>2, <1>6, <1>11, <2>1, <2>2, LossIsBounded
<1> HIDE DEF offer
<1>14. a % b = 0 /\ a \div b \in market.minQuantity .. offer
  BY <1>1, <1>6, <1>7, <1>8, <1>12
<1>15. QED
  BY <1>7, <1>13, <1>14 DEF Size!SizeIsSafe, q, a, b, loss, offer
-----------------------------------------------------------------------------
\* The bracket a size is validated with is one of those that are known.
LEMMA BracketIsKnown ==
  ASSUME NEW plan, NEW market, PricedMarket(market)
  PROVE  Size!BracketInApp(plan, market) \in market.brackets
<1> DEFINE all == market.brackets
           some == Size!BracketsOf(plan, market)
<1>1. /\ all # {} /\ IsFiniteSet(all) /\ \A b \in all : b.floor \in Nat
      /\ some \subseteq all
  BY DEF PricedMarket, Size!BracketsOf
<1>2. Size!BracketInApp(plan, market) =
        IF some # {} THEN CHOOSE b \in some : \A c \in some : b.floor <= c.floor
        ELSE CHOOSE b \in all : \A c \in all : c.floor <= b.floor
  BY DEF Size!BracketInApp
<1> HIDE DEF all, some
<1>3. CASE some # {}
  <2> DEFINE floors == {b.floor : b \in some}
  <2>1. floors \in SUBSET Nat /\ floors # {}
    BY <1>1, <1>3
  <2>2. PICK f \in floors : \A g \in floors : f <= g
    BY <2>1, LeastNumber
  <2>3. \E b \in some : \A c \in some : b.floor <= c.floor
    BY <2>2
  <2>4. QED
    BY <1>1, <1>2, <1>3, <2>3 DEF all
<1>4. CASE some = {}
  <2> DEFINE F == [b \in all |-> b.floor]
             floors == {b.floor : b \in all}
             last == Lineage!Max(floors)
  <2>1. F \in Surjection(all, floors)
    BY DEF Surjection
  <2>2. IsFiniteSet(floors)
    BY <1>1, <2>1, FS_Surjection
  <2>3. floors \in SUBSET Nat /\ floors # {}
    BY <1>1
  <2>4. last \in floors /\ \A x \in floors : x <= last
    <3> HIDE DEF floors
    <3>1. floors \in SUBSET Int
      BY <2>3
    <3>2. QED
      BY <2>2, <2>3, <3>1, MaxOfFinite
  <2> HIDE DEF last
  <2>5. \E b \in all : \A c \in all : c.floor <= b.floor
    BY <2>4
  <2>6. QED
    BY <1>2, <1>4, <2>5 DEF all
<1>5. QED
  BY <1>3, <1>4

LEMMA OfferSafe ==
  ASSUME NEW plan, SizedPlan(plan), NEW market, PricedMarket(market), plan.stop # plan.entry,
         NEW bracket \in market.brackets, Null \notin Nat
  PROVE  LET offered == [plan EXCEPT !.sizeMode = "QUANTITY_BTC", !.maxLoss = Size!MaxLoss(plan, market),
                                     !.sizeValue = Size!MaximumQuantity(plan, market, bracket)]
         IN  Size!SizeReasons(offered, market, bracket) \cap
               {"QUANTITY_NOT_ALIGNED_TO_STEP_SIZE", "NOTIONAL_EXCEEDS_BINANCE_BRACKET",
                "INSUFFICIENT_AVAILABLE_MARGIN", "MAX_LOSS_EXCEEDED"} = {}
<1> DEFINE loss == Size!MaxLoss(plan, market)
           unit == Size!LossPerUnit(plan, market)
           offer == Size!MaximumQuantity(plan, market, bracket)
           offered == [plan EXCEPT !.sizeMode = "QUANTITY_BTC", !.maxLoss = loss, !.sizeValue = offer]
           q == Size!RequestedQuantity(offered, market)
           reasons == Size!SizeReasons(offered, market, bracket)
<1>1. /\ plan.entry \in Nat /\ plan.leverage \in Nat /\ market.step \in Nat \ {0}
      /\ bracket.cap \in Nat /\ market.available \in Nat \cup {Null} /\ loss \in Nat \cup {Null}
      /\ market.maxLoss = loss \/ loss # Null
  BY DEF SizedPlan, PricedMarket, Size!MaxLoss
<1>2. /\ offer \in Nat /\ offer % market.step = 0
      /\ offer * plan.entry <= bracket.cap
      /\ market.available # Null => offer * plan.entry <= market.available * plan.leverage
      /\ loss # Null => offer * unit <= loss * 1000
  <2> HIDE DEF loss, unit, offer
  <2>1. QED
    BY <1>1, OfferIsGreatest DEF loss, unit, offer
<1>3. unit \in Nat
  BY UnitLoses
<1> HIDE DEF loss, unit, offer
<1>4. /\ offered.sizeMode = "QUANTITY_BTC" /\ offered.maxLoss = loss /\ offered.sizeValue = offer
      /\ offered.entry = plan.entry /\ offered.stop = plan.stop /\ offered.leverage = plan.leverage
  BY DEF SizedPlan
<1> HIDE DEF offered
<1>5. q = <<offer, 1>>
  BY <1>4 DEF Size!RequestedQuantity, Size!ProvisionalQuantity
<1>6. Size!LossPerUnit(offered, market) = unit
  BY <1>4 DEF Size!LossPerUnit, unit
<1>7. Size!MaxLoss(offered, market) = loss
  BY <1>1, <1>4 DEF Size!MaxLoss
<1>8. q[1] = offer /\ q[2] = 1
  BY <1>5
<1> HIDE DEF q
<1>9. Size!Aligned(q[1], q[2] * market.step)
  BY <1>1, <1>2, <1>8 DEF Size!Aligned
<1>10. ~ (q[1] * offered.entry > bracket.cap * q[2])
  <2>1. offer * plan.entry \in Nat
    BY <1>1, <1>2
  <2>2. QED
    BY <1>1, <1>2, <1>4, <1>8, <2>1
<1>11. market.available = Null \/ ~ (q[1] * offered.entry > market.available * offered.leverage * q[2])
  <2> SUFFICES ASSUME market.available # Null
               PROVE  ~ (q[1] * offered.entry > market.available * offered.leverage * q[2])
    OBVIOUS
  <2>1. offer * plan.entry \in Nat /\ market.available * plan.leverage \in Nat
    BY <1>1, <1>2
  <2>2. QED
    BY <1>2, <1>4, <1>8, <2>1
<1>12. loss = Null \/ ~ (q[1] * unit > loss * 1000 * q[2])
  <2> SUFFICES ASSUME loss # Null
               PROVE  ~ (q[1] * unit > loss * 1000 * q[2])
    OBVIOUS
  <2>1. offer * unit \in Nat /\ loss * 1000 \in Nat
    BY <1>1, <1>2, <1>3
  <2>2. QED
    BY <1>2, <1>8, <2>1
<1>13. /\ "QUANTITY_NOT_ALIGNED_TO_STEP_SIZE" \notin reasons
       /\ "NOTIONAL_EXCEEDS_BINANCE_BRACKET" \notin reasons
       /\ "INSUFFICIENT_AVAILABLE_MARGIN" \notin reasons
       /\ "MAX_LOSS_EXCEEDED" \notin reasons
  BY <1>6, <1>7, <1>9, <1>10, <1>11, <1>12, FewReasons DEF q
<1> HIDE DEF reasons
<1>14. QED
  BY <1>13 DEF reasons, offered, loss, offer

\* The worker accepts no plan that the app would not.
LEMMA WorkerAgreesWithApp ==
  ASSUME NEW plan, NEW market, PricedMarket(market), Null \notin Nat, NEW age, NEW maxAge,
         Size!ValidatePlan(plan, market, age, maxAge) = {}
  PROVE  Size!ValidateInApp(plan, market, TRUE) = {}
<1> DEFINE brackets == Size!BracketsOf(plan, market)
           bracket == CHOOSE b \in brackets : \A c \in brackets : b.floor <= c.floor
<1>1. /\ Size!Sided(plan) /\ brackets # {}
      /\ Size!SizeReasons(plan, market, bracket) = {}
  BY DEF Size!ValidatePlan
<1>2. Size!BracketInApp(plan, market) = bracket
  BY <1>1 DEF Size!BracketInApp
<1>3. market.brackets # {} /\ market.step \in Nat
  BY DEF PricedMarket
<1>4. {market.entryFee, market.exitFee, market.entrySlippage, market.exitSlippage} \subseteq Nat
  BY DEF PricedMarket
<1> HIDE DEF bracket
<1>5. QED
  BY <1>1, <1>2, <1>3, <1>4 DEF Size!ValidateInApp

LEMMA AcceptedInApp ==
  ASSUME NEW plan, NEW market, Size!ValidateInApp(plan, market, TRUE) = {}
  PROVE  /\ Size!Sided(plan)
         /\ Size!SizeReasons(plan, market, Size!BracketInApp(plan, market)) = {}
BY DEF Size!ValidateInApp

\* For any prices, costs, limits and brackets, a plan that the worker or the app
\* accepts has a size that is a multiple of the step, can be ordered, fits the
\* bracket and the margin and loses no more at its stop than was allowed, costs
\* included; the worker accepts none that the app would not; and the largest size
\* that is offered is accepted (costs.ts, POST /v1/plan/validate).
THEOREM PlansAreSafe ==
  ASSUME Null \notin Nat,
         NEW plan, SizedPlan(plan), Size!Sided(plan),
         NEW market, PricedMarket(market), NEW age, NEW maxAge
  PROVE  Size!ValidatedPlanIsSafe(plan, market, age, maxAge)
<1> DEFINE bracket == Size!BracketInApp(plan, market)
<1>1. bracket \in market.brackets
  BY BracketIsKnown
<1>2. plan.stop # plan.entry
  BY DEF Size!Sided
<1>3. Size!ValidatePlan(plan, market, age, maxAge) = {} => Size!ValidateInApp(plan, market, TRUE) = {}
  BY WorkerAgreesWithApp
<1>4. Size!ValidateInApp(plan, market, TRUE) = {} => Size!SizeIsSafe(plan, market, bracket)
  BY <1>1, AcceptedInApp, SizeSafe
<1> HIDE DEF bracket
<1>5. QED
  BY <1>1, <1>2, <1>3, <1>4, OfferSafe DEF Size!ValidatedPlanIsSafe, bracket
-----------------------------------------------------------------------------
AdjustFilters == [tick : Nat \ {0}, step : Nat \ {0}, minQuantity : Nat, minNotional : Nat]

\* A position, as a snapshot has it, and what may be asked of it
Position(c) ==
  c \in [side : {c.side}, quantity : Int, mark : Nat, stopQuantity : Nat, filters : AdjustFilters \cup {Null}]
Asked ==
  [action : {"PARTIAL_EXIT"}, snapshot : Int, quantity : Nat \cup {Null}, percent : Nat \cup {Null}]
  \cup [action : {"EXIT"}, snapshot : Int]
  \cup [action : {"MOVE_STOP"}, snapshot : Int, stop : Nat \cup {Null}]
  \cup [action : {"CHANGE_TP"}, snapshot : Int, targets : Seq([price : Nat, percent : Nat])]
Managed(c) == Position(c) /\ c.side \in Sides /\ c.quantity \in Nat /\ c.filters \in AdjustFilters

\* Rounded to a step
LEMMA FloorOfNumber ==
  ASSUME NEW n \in Nat, NEW step \in Nat \ {0}
  PROVE  LET r == Adjust!Floor(n, step)
         IN  r \in Nat /\ r % step = 0 /\ r <= n /\ n < r + step
<1> DEFINE k == n \div step
<1>1. k \in Nat /\ k * step <= n /\ n < k * step + step
  OBVIOUS
<1> HIDE DEF k
<1>2. k * step \in Nat /\ (k * step) % step = 0
  BY <1>1, Multiple
<1>3. QED
  BY <1>1, <1>2 DEF Adjust!Floor, k

LEMMA FloorOfMultiple ==
  ASSUME NEW n \in Nat, NEW step \in Nat \ {0}, n % step = 0
  PROVE  Adjust!Floor(n, step) = n
BY NoRemainder DEF Adjust!Floor

LEMMA CeilOfNumber ==
  ASSUME NEW n \in Nat, NEW step \in Nat \ {0}
  PROVE  LET r == Adjust!Ceil(n, step)
         IN  r \in Nat /\ r % step = 0 /\ n <= r
<1>1. n + step - 1 \in Nat
  OBVIOUS
<1> DEFINE r == Adjust!Floor(n + step - 1, step)
<1>2. r \in Nat /\ r % step = 0 /\ n + step - 1 < r + step
  BY <1>1, FloorOfNumber
<1> HIDE DEF r
<1>3. QED
  BY <1>2 DEF Adjust!Ceil, r

LEMMA CeilOfMultiple ==
  ASSUME NEW n \in Nat, NEW step \in Nat \ {0}, n % step = 0
  PROVE  Adjust!Ceil(n, step) = n
<1> DEFINE k == n \div step
           m == (n + step - 1) \div step
<1>1. k \in Nat /\ n = k * step
  BY NoRemainder
<1> HIDE DEF k
<1>2. m \in Nat /\ m * step <= n + step - 1 /\ n + step - 1 < m * step + step
  <2>1. n + step - 1 \in Nat
    OBVIOUS
  <2>2. QED
    BY <2>1
<1> HIDE DEF m
<1>3. k <= m
  <2> SUFFICES ASSUME m + 1 <= k
               PROVE  FALSE
    BY <1>1, <1>2
  <2>1. (m + 1) * step <= k * step
    BY <1>1, <1>2
  <2>2. QED
    BY <1>1, <1>2, <2>1
<1>4. m <= k
  <2> SUFFICES ASSUME k + 1 <= m
               PROVE  FALSE
    BY <1>1, <1>2
  <2>1. (k + 1) * step <= m * step
    BY <1>1, <1>2
  <2>2. QED
    BY <1>1, <1>2, <2>1
<1>5. m = k
  BY <1>1, <1>2, <1>3, <1>4
<1>6. QED
  BY <1>1, <1>5 DEF Adjust!Ceil, Adjust!Floor, m

\* The price that is set is on the side of the mark price of the one that was
\* asked for, and is set as it is when it is asked for.
LEMMA PriceIsConservative ==
  ASSUME NEW side \in Sides, NEW kind \in {"STOP", "TARGET"}, NEW price \in Nat, NEW tick \in Nat \ {0}
  PROVE  LET p == Adjust!ConservativePrice(side, kind, price, tick)
         IN  /\ p \in Nat /\ p % tick = 0
             /\ Adjust!ConservativePrice(side, kind, p, tick) = p
             /\ kind = "STOP" => ~Adjust!Profits(side, price, p)
             /\ kind = "TARGET" => ~Adjust!Profits(side, p, price)
<1> DEFINE up == (side = "LONG") = (kind = "STOP")
           p == Adjust!ConservativePrice(side, kind, price, tick)
<1>1. CASE up
  <2>1. p = Adjust!Ceil(price, tick)
    BY <1>1 DEF Adjust!ConservativePrice
  <2>2. p \in Nat /\ p % tick = 0 /\ price <= p
    BY <2>1, CeilOfNumber
  <2>3. Adjust!ConservativePrice(side, kind, p, tick) = Adjust!Ceil(p, tick)
    BY <1>1 DEF Adjust!ConservativePrice
  <2>4. Adjust!Ceil(p, tick) = p
    BY <2>2, CeilOfMultiple
  <2> HIDE DEF p
  <2>5. (kind = "STOP" <=> side = "LONG") /\ (kind = "TARGET" <=> side = "SHORT")
    BY <1>1 DEF Sides
  <2>6. /\ kind = "STOP" => ~Adjust!Profits(side, price, p)
        /\ kind = "TARGET" => ~Adjust!Profits(side, p, price)
    BY <2>2, <2>5 DEF Adjust!Profits
  <2>7. QED
    BY <2>2, <2>3, <2>4, <2>6 DEF p
<1>2. CASE ~up
  <2>1. p = Adjust!Floor(price, tick)
    BY <1>2 DEF Adjust!ConservativePrice
  <2>2. p \in Nat /\ p % tick = 0 /\ p <= price
    BY <2>1, FloorOfNumber
  <2>3. Adjust!ConservativePrice(side, kind, p, tick) = Adjust!Floor(p, tick)
    BY <1>2 DEF Adjust!ConservativePrice
  <2>4. Adjust!Floor(p, tick) = p
    BY <2>2, FloorOfMultiple
  <2> HIDE DEF p
  <2>5. (kind = "STOP" <=> side = "SHORT") /\ (kind = "TARGET" <=> side = "LONG")
    BY <1>2 DEF Sides
  <2>6. /\ kind = "STOP" => ~Adjust!Profits(side, price, p)
        /\ kind = "TARGET" => ~Adjust!Profits(side, p, price)
    BY <2>2, <2>5 DEF Adjust!Profits, Sides
  <2>7. QED
    BY <2>2, <2>3, <2>4, <2>6 DEF p
<1>3. QED
  BY <1>1, <1>2

\* A hundredth of a multiple of a hundred steps is a multiple of the step.
LEMMA Hundredth ==
  ASSUME NEW n \in Nat, NEW step \in Nat \ {0}
  PROVE  LET r == Adjust!Floor(n, 100 * step) \div 100
         IN  r \in Nat /\ r % step = 0
<1> DEFINE k == n \div (100 * step)
<1>1. k \in Nat /\ 100 * step \in Nat \ {0}
  OBVIOUS
<1>2. Adjust!Floor(n, 100 * step) = k * (100 * step)
  BY DEF Adjust!Floor
<1> HIDE DEF k
<1>3. k * (100 * step) = (k * step) * 100
  BY <1>1
<1>4. k * step \in Nat /\ (k * step) % step = 0
  BY <1>1, Multiple
<1>5. ((k * step) * 100) \div 100 = k * step
  <2> DEFINE m == k * step
  <2>1. m \in Nat
    BY <1>4
  <2> HIDE DEF m
  <2>2. (m * 100) \div 100 = m
    BY <2>1
  <2>3. QED
    BY <2>2 DEF m
<1>6. QED
  BY <1>2, <1>3, <1>4, <1>5

LEMMA HundredthOfMultiple ==
  ASSUME NEW n \in Nat, NEW step \in Nat \ {0}, n % step = 0
  PROVE  Adjust!Floor(n * 100, 100 * step) \div 100 = n
<1> DEFINE k == n \div step
<1>1. k \in Nat /\ n = k * step
  BY NoRemainder
<1> HIDE DEF k
<1>2. n * 100 = k * (100 * step) /\ n * 100 \in Nat /\ 100 * step \in Nat \ {0}
  BY <1>1
<1>3. (n * 100) % (100 * step) = 0
  <2> DEFINE d == 100 * step
  <2>1. (k * d) % d = 0
    <3>1. d \in Nat \ {0}
      BY <1>2
    <3> HIDE DEF d
    <3>2. QED
      BY <1>1, <3>1, Multiple
  <2>2. QED
    BY <1>2, <2>1
<1>4. Adjust!Floor(n * 100, 100 * step) = n * 100
  BY <1>2, <1>3, FloorOfMultiple
<1>5. (n * 100) \div 100 = n
  OBVIOUS
<1>6. QED
  BY <1>4, <1>5

\* What is left of a multiple by a multiple is one.
LEMMA RestOfMultiple ==
  ASSUME NEW whole \in Nat, NEW part \in Nat, NEW rest \in Nat, NEW step \in Nat \ {0},
         part + rest = whole, whole % step = 0, part % step = 0
  PROVE  rest % step = 0
<1> DEFINE k == whole \div step
           m == part \div step
<1>1. k \in Nat /\ m \in Nat /\ whole = k * step /\ part = m * step
  BY NoRemainder
<1> HIDE DEF k, m
<1>2. rest = (k - m) * step
  BY <1>1
<1>3. k - m \in Nat
  <2> SUFFICES ASSUME k + 1 <= m
               PROVE  FALSE
    BY <1>1
  <2>1. (k + 1) * step <= m * step
    BY <1>1
  <2>2. QED
    BY <1>1, <2>1
<1>4. QED
  BY <1>2, <1>3, Multiple

LEMMA RefusedForNothing ==
  ASSUME NEW condition, NEW error, Adjust!When(condition, error) = {}
  PROVE  ~condition
BY DEF Adjust!When

\* An order that can be placed
Placeable(quantity, price, f) == quantity >= f.minQuantity /\ quantity * price >= f.minNotional

LEMMA OrderIsPlaceable ==
  ASSUME NEW quantity \in Nat, NEW price \in Nat, NEW f \in AdjustFilters
  PROVE  Adjust!OrderErrors(quantity, price, f) = {} <=> Placeable(quantity, price, f)
<1>1. quantity * price \in Nat /\ f.minQuantity \in Nat /\ f.minNotional \in Nat
  BY DEF AdjustFilters
<1>2. QED
  BY <1>1 DEF Adjust!OrderErrors, Adjust!When, Placeable

\* An exit of all there is, of a position that is a multiple of the step
LEMMA AllCanBeLeft ==
  ASSUME NEW c, Managed(c), c.quantity % c.filters.step = 0, Placeable(c.quantity, c.mark, c.filters)
  PROVE  Adjust!Accepted(Adjust!Exit(c))
<1>1. c.filters \in AdjustFilters /\ c.quantity \in Nat /\ c.mark \in Nat
  BY DEF Managed, Position
<1>2. c.filters.step \in Nat \ {0}
  BY <1>1 DEF AdjustFilters
<1>3. Adjust!Floor(c.quantity, c.filters.step) = c.quantity
  BY <1>1, <1>2, FloorOfMultiple
<1>4. Adjust!OrderErrors(c.quantity, c.mark, c.filters) = {}
  BY <1>1, OrderIsPlaceable
<1>5. Adjust!Exit(c).errors = {}
  BY <1>3, <1>4 DEF Adjust!Exit, Adjust!When
<1>6. QED
  BY <1>5 DEF Adjust!Accepted

\* What is left of a position by an exit in part
ExitIsSafe(c, result) ==
  LET f == c.filters
  IN  /\ result.quantity \in Nat /\ result.remaining \in Nat /\ result.stops \in Nat
      /\ result.quantity % f.step = 0
      /\ result.quantity + result.remaining = c.quantity
      /\ result.remaining > 0 => Placeable(result.remaining, c.mark, f)

\* PARTIAL_EXIT, with a quantity or a percentage
LEMMA PartialExitIsSafe ==
  ASSUME Null \notin Nat, NEW c, Managed(c),
         NEW r \in [action : {"PARTIAL_EXIT"}, snapshot : Int, quantity : Nat \cup {Null},
                    percent : Nat \cup {Null}],
         Adjust!Accepted(Adjust!PartialExit(r, c))
  PROVE  LET result == Adjust!PartialExit(r, c)
         IN  /\ ExitIsSafe(c, result)
             /\ Adjust!PartialExit([r EXCEPT !.quantity = result.quantity, !.percent = Null], c) = result
<1> DEFINE f == c.filters
           sized == r.quantity # Null
           asked == IF sized THEN r.quantity * 100 ELSE c.quantity * r.percent
           aligned == Adjust!Floor(asked, 100 * f.step) \div 100
           left == c.quantity - aligned
           wrong == sized = (r.percent # Null)
           result == Adjust!PartialExit(r, c)
           answer(z, a) ==
             [errors |->
                Adjust!When(z, "REQUESTED_PERCENT_OUT_OF_RANGE")
                \cup Adjust!When(a = 0, "ALIGNED_QUANTITY_IS_ZERO")
                \cup Adjust!When(c.quantity - a <= 0, "PARTIAL_EXIT_MUST_LEAVE_POSITION")
                \cup (IF a > 0 THEN Adjust!OrderErrors(a, c.mark, f) ELSE {})
                \cup Adjust!When(c.quantity - a > 0 /\ c.quantity - a < f.minQuantity,
                                  "REMAINING_BELOW_MIN_QUANTITY")
                \cup Adjust!When(c.quantity - a > 0 /\ (c.quantity - a) * c.mark < f.minNotional,
                                  "REMAINING_BELOW_MIN_NOTIONAL"),
              quantity |-> a, remaining |-> Adjust!Max({0, c.quantity - a}),
              stops |-> c.stopQuantity]
<1>1. /\ c.quantity \in Nat /\ c.mark \in Nat /\ c.stopQuantity \in Nat /\ f \in AdjustFilters
      /\ f.step \in Nat \ {0} /\ f.minQuantity \in Nat /\ f.minNotional \in Nat
  BY DEF Managed, Position, AdjustFilters
<1>2. r.quantity \in Nat \cup {Null} /\ r.percent \in Nat \cup {Null}
  OBVIOUS
<1>3. ~wrong
  BY DEF Adjust!PartialExit, Adjust!Accepted
<1>4. result = answer(~sized /\ r.percent > 100, aligned)
  BY <1>3 DEF Adjust!PartialExit
<1>5. asked \in Nat
  BY <1>1, <1>2, <1>3
<1>6. aligned \in Nat /\ aligned % f.step = 0
  <2> HIDE DEF asked, f
  <2>1. QED
    BY <1>1, <1>5, Hundredth
<1>7. Adjust!Floor(aligned * 100, 100 * f.step) \div 100 = aligned
  <2> HIDE DEF aligned, f
  <2>1. QED
    BY <1>1, <1>6, HundredthOfMultiple
<1> HIDE DEF aligned, f
<1>8. /\ ~(left <= 0) /\ ~(~sized /\ r.percent > 100)
      /\ ~(left > 0 /\ left < f.minQuantity)
      /\ ~(left > 0 /\ left * c.mark < f.minNotional)
  BY <1>4 DEF Adjust!Accepted, Adjust!When
<1>9. left \in Nat /\ left > 0
  BY <1>1, <1>6, <1>8
<1>10. Adjust!Max({0, left}) = left
  <2> HIDE DEF left
  <2>1. \E x \in {0, left} : \A y \in {0, left} : x >= y
    BY <1>9
  <2>2. Adjust!Max({0, left}) \in {0, left} /\ \A y \in {0, left} : Adjust!Max({0, left}) >= y
    BY <2>1 DEF Adjust!Max
  <2>3. QED
    BY <1>9, <2>2
<1>11. ExitIsSafe(c, result)
  <2>1. result.quantity = aligned /\ result.remaining = left /\ result.stops = c.stopQuantity
    BY <1>4, <1>10
  <2>2. Placeable(left, c.mark, f)
    <3>1. left * c.mark \in Nat
      BY <1>1, <1>9
    <3>2. QED
      BY <1>1, <1>8, <1>9, <3>1 DEF Placeable
  <2>3. aligned + left = c.quantity
    BY <1>1, <1>6
  <2> HIDE DEF result, left
  <2>4. QED
    BY <1>1, <1>6, <1>9, <2>1, <2>2, <2>3 DEF ExitIsSafe, f
<1>12. Adjust!PartialExit([r EXCEPT !.quantity = aligned, !.percent = Null], c) = result
  <2> DEFINE again == [r EXCEPT !.quantity = aligned, !.percent = Null]
  <2>1. again.quantity = aligned /\ again.percent = Null /\ aligned # Null
    BY <1>6
  <2> HIDE DEF again
  <2> DEFINE asked2 == IF again.quantity # Null THEN again.quantity * 100 ELSE c.quantity * again.percent
             aligned2 == Adjust!Floor(asked2, 100 * f.step) \div 100
  <2>2. Adjust!PartialExit(again, c) =
          IF (again.quantity # Null) = (again.percent # Null)
          THEN [errors |-> {"EXACTLY_ONE_EXIT_SIZE_REQUIRED"}]
          ELSE answer(again.quantity = Null /\ again.percent > 100, aligned2)
    BY DEF Adjust!PartialExit, f
  <2>3. aligned2 = aligned
    BY <1>7, <2>1
  <2> HIDE DEF aligned2
  <2>4. Adjust!PartialExit(again, c) = answer(again.quantity = Null /\ again.percent > 100, aligned)
    <3> HIDE DEF answer
    <3>1. QED
      BY <2>1, <2>2, <2>3
  <2>5. Adjust!When(~sized /\ r.percent > 100, "REQUESTED_PERCENT_OUT_OF_RANGE")
          = Adjust!When(again.quantity = Null /\ again.percent > 100, "REQUESTED_PERCENT_OUT_OF_RANGE")
    BY <1>8, <2>1 DEF Adjust!When
  <2>6. answer(~sized /\ r.percent > 100, aligned)
          = answer(again.quantity = Null /\ again.percent > 100, aligned)
    BY <2>5
  <2> HIDE DEF answer
  <2>7. QED
    BY <1>4, <2>4, <2>6 DEF again
<1>13. result.quantity = aligned
  BY <1>4
<1>14. QED
  BY <1>11, <1>12, <1>13 DEF aligned, f

\* EXIT
LEMMA ExitOfAllIsSafe ==
  ASSUME NEW c, Managed(c), Adjust!Accepted(Adjust!Exit(c))
  PROVE  ExitIsSafe(c, Adjust!Exit(c)) /\ Adjust!Exit(c).remaining = 0
<1>1. c.quantity \in Nat /\ c.filters \in AdjustFilters /\ c.filters.step \in Nat \ {0}
  BY DEF Managed, Position, AdjustFilters
<1> DEFINE aligned == Adjust!Floor(c.quantity, c.filters.step)
<1>2. aligned \in Nat /\ aligned % c.filters.step = 0
  BY <1>1, FloorOfNumber
<1> HIDE DEF aligned
<1>3. /\ Adjust!Exit(c).quantity = aligned /\ Adjust!Exit(c).remaining = 0 /\ Adjust!Exit(c).stops = 0
      /\ Adjust!When(aligned # c.quantity, "POSITION_QUANTITY_NOT_STEP_ALIGNED") \subseteq Adjust!Exit(c).errors
  BY DEF Adjust!Exit, aligned
<1>4. aligned = c.quantity
  BY <1>3, RefusedForNothing DEF Adjust!Accepted, Adjust!When
<1> DEFINE result == Adjust!Exit(c)
<1> HIDE DEF result
<1>5. QED
  BY <1>1, <1>2, <1>3, <1>4 DEF ExitIsSafe, result

\* MOVE_STOP
LEMMA MovedStopIsSafe ==
  ASSUME Null \notin Nat, NEW c, Managed(c),
         NEW r \in [action : {"MOVE_STOP"}, snapshot : Int, stop : Nat \cup {Null}],
         Adjust!Accepted(Adjust!MoveStop(r, c))
  PROVE  LET result == Adjust!MoveStop(r, c)
         IN  /\ result.stops \in Nat /\ result.remaining \in Nat
             /\ result.price % c.filters.tick = 0
             /\ ~Adjust!Profits(c.side, r.stop, result.price)
             /\ Adjust!MoveStop([r EXCEPT !.stop = result.price], c) = result
<1> DEFINE price == Adjust!ConservativePrice(c.side, "STOP", r.stop, c.filters.tick)
           answer(p) ==
             [errors |-> Adjust!When(~Adjust!Profits(c.side, c.mark, p), "STOP_MUST_REMAIN_PROTECTIVE"),
              price |-> p, remaining |-> c.quantity, stops |-> c.quantity]
           again == [r EXCEPT !.stop = price]
<1>1. c.side \in Sides /\ c.quantity \in Nat /\ c.filters.tick \in Nat \ {0}
  BY DEF Managed, Position, AdjustFilters
<1>2. r.stop \in Nat
  BY DEF Adjust!MoveStop, Adjust!Accepted
<1>3. Adjust!MoveStop(r, c) = answer(price)
  BY <1>2 DEF Adjust!MoveStop
<1>4. /\ price \in Nat /\ price % c.filters.tick = 0
      /\ Adjust!ConservativePrice(c.side, "STOP", price, c.filters.tick) = price
      /\ ~Adjust!Profits(c.side, r.stop, price)
  BY <1>1, <1>2, PriceIsConservative
<1> HIDE DEF price
<1>5. again.stop = price /\ price # Null
  BY <1>4
<1> HIDE DEF again
<1>6. Adjust!MoveStop(again, c) = answer(price)
  <2>1. Adjust!MoveStop(again, c)
          = answer(Adjust!ConservativePrice(c.side, "STOP", again.stop, c.filters.tick))
    BY <1>5 DEF Adjust!MoveStop
  <2> HIDE DEF answer
  <2>2. QED
    BY <1>4, <1>5, <2>1
<1>7. answer(price).price = price /\ answer(price).stops = c.quantity /\ answer(price).remaining = c.quantity
  OBVIOUS
<1> HIDE DEF answer
<1>8. QED
  BY <1>1, <1>3, <1>4, <1>6, <1>7 DEF again

\* The sum of up to three natural numbers
LEMMA TotalOfFew ==
  ASSUME NEW q, Len(q) \in 1 .. 3, \A n \in 1 .. Len(q) : q[n] \in Nat
  PROVE  Adjust!Total(q) \in Nat
<1> DEFINE P(f) == f = [n \in 0 .. Len(q) |-> IF n = 0 THEN 0 ELSE f[n - 1] + q[n]]
           one == q[1]
           two == one + q[2]
           sum == [n \in 0 .. Len(q) |->
                     IF n = 0 THEN 0 ELSE IF n = 1 THEN one ELSE IF n = 2 THEN two ELSE two + q[3]]
           f == CHOOSE g : P(g)
<1> DEFINE k == Len(q)
<1>1. k \in Nat /\ k \in 1 .. 3 /\ \A n \in 1 .. k : q[n] \in Nat
  OBVIOUS
<1>2. P(sum)
  <2>1. ASSUME NEW n \in 0 .. Len(q)
        PROVE  sum[n] = IF n = 0 THEN 0 ELSE sum[n - 1] + q[n]
    <3>1. n \in {0, 1, 2, 3}
      <4> HIDE DEF k
      <4>1. n \in 0 .. k => n \in {0, 1, 2, 3}
        BY <1>1
      <4>2. QED
        BY <4>1 DEF k
    <3>2. n # 0 => n - 1 \in 0 .. Len(q)
      OBVIOUS
    <3>3. CASE n = 0
      BY <3>3
    <3>4. CASE n = 1
      BY <1>1, <3>2, <3>4
    <3>5. CASE n = 2
      BY <1>1, <3>2, <3>5
    <3>6. CASE n = 3
      BY <1>1, <3>2, <3>6
    <3>7. QED
      BY <3>1, <3>3, <3>4, <3>5, <3>6
  <2>2. QED
    BY <2>1
<1>3. P(f)
  BY <1>2
<1>4. Adjust!Total(q) = f[Len(q)]
  BY DEF Adjust!Total
<1> HIDE DEF f
<1>5. f[0] = 0
  BY <1>3
<1>6. \A n \in 1 .. Len(q) : f[n] = f[n - 1] + q[n]
  <2> SUFFICES ASSUME NEW n \in 1 .. Len(q)
               PROVE  f[n] = f[n - 1] + q[n]
    OBVIOUS
  <2>1. n \in 0 .. Len(q) /\ n # 0
    OBVIOUS
  <2>2. QED
    BY <1>3, <2>1
<1> HIDE DEF k
<1>7. f[1] \in Nat
  <2>1. 1 \in 1 .. k /\ 1 - 1 = 0
    BY <1>1
  <2>2. f[1] = f[0] + q[1] /\ q[1] \in Nat
    BY <1>1, <1>6, <2>1 DEF k
  <2>3. QED
    BY <1>5, <2>2
<1>8. k >= 2 => f[2] \in Nat
  <2> SUFFICES ASSUME k >= 2
               PROVE  f[2] \in Nat
    OBVIOUS
  <2>1. 2 \in 1 .. k /\ 2 - 1 = 1
    BY <1>1
  <2>2. f[2] = f[1] + q[2] /\ q[2] \in Nat
    BY <1>1, <1>6, <2>1 DEF k
  <2>3. QED
    BY <1>7, <2>2
<1>9. k = 3 => f[3] \in Nat
  <2> SUFFICES ASSUME k = 3
               PROVE  f[3] \in Nat
    OBVIOUS
  <2>1. 3 \in 1 .. k /\ 3 - 1 = 2
    BY <1>1
  <2>2. f[3] = f[2] + q[3] /\ q[3] \in Nat
    BY <1>1, <1>6, <2>1 DEF k
  <2>3. QED
    BY <1>8, <2>2
<1>10. k = 1 \/ k = 2 \/ k = 3
  BY <1>1
<1>11. f[k] \in Nat
  BY <1>7, <1>8, <1>9, <1>10
<1>12. QED
  BY <1>4, <1>11 DEF k

\* The targets that are set, and their percentages
TargetsOf(r, c) ==
  [i \in DOMAIN r.targets |->
     [price |-> Adjust!ConservativePrice(c.side, "TARGET", r.targets[i].price, c.filters.tick),
      quantity |-> Adjust!Share(c.quantity, r.targets[i].percent, c.filters.step)]]
Percents(r) == [i \in DOMAIN r.targets |-> r.targets[i].percent]

\* What is answered about some targets and their percentages
AllErrors(targets, percents, allocated, c) ==
  Adjust!When(Len(targets) \notin 1 .. 3, "TARGETS_REQUIRED")
    \cup Adjust!PercentErrors(percents) \cup Adjust!TargetErrors(targets, c)
    \cup Adjust!When(allocated > c.quantity, "TARGET_QUANTITY_EXCEEDS_POSITION")
AnswerAbout(targets, percents, c) ==
  LET allocated == Adjust!Total([i \in DOMAIN targets |-> targets[i].quantity])
  IN  [errors |-> AllErrors(targets, percents, allocated, c), targets |-> targets,
       allocated |-> allocated, remaining |-> c.quantity, stops |-> c.stopQuantity]

\* The answer depends on the targets that are set and the percentages only.
LEMMA TargetsAnswered ==
  ASSUME NEW r, NEW c
  PROVE  Adjust!ChangeTargets(r, c) = AnswerAbout(TargetsOf(r, c), Percents(r), c)
<1> DEFINE T == TargetsOf(r, c)
<1>1. DOMAIN T = DOMAIN r.targets
  BY DEF TargetsOf
<1>2. Percents(r) = [i \in DOMAIN T |-> r.targets[i].percent]
  BY <1>1 DEF Percents
<1>3. QED
  BY <1>2 DEF Adjust!ChangeTargets, AnswerAbout, AllErrors, TargetsOf

LEMMA AnswerFields ==
  ASSUME NEW targets, NEW percents, NEW c
  PROVE  LET answer == AnswerAbout(targets, percents, c)
             allocated == Adjust!Total([i \in DOMAIN targets |-> targets[i].quantity])
         IN  /\ answer.targets = targets /\ answer.allocated = allocated
             /\ answer.remaining = c.quantity /\ answer.stops = c.stopQuantity
             /\ answer.errors = AllErrors(targets, percents, allocated, c)
BY DEF AnswerAbout

LEMMA TargetRefusals ==
  ASSUME NEW targets, NEW percents, NEW allocated, NEW c, AllErrors(targets, percents, allocated, c) = {}
  PROVE  Len(targets) \in 1 .. 3 /\ ~(allocated > c.quantity)
<1>1. /\ Adjust!When(Len(targets) \notin 1 .. 3, "TARGETS_REQUIRED") = {}
      /\ Adjust!When(allocated > c.quantity, "TARGET_QUANTITY_EXCEEDS_POSITION") = {}
  BY DEF AllErrors
<1>2. Len(targets) \in 1 .. 3
  BY <1>1 DEF Adjust!When
<1>3. ~(allocated > c.quantity)
  BY <1>1 DEF Adjust!When
<1>4. QED
  BY <1>2, <1>3

\* CHANGE_TP, of up to three targets
LEMMA TargetsAreSafe ==
  ASSUME NEW c, Managed(c),
         NEW r \in [action : {"CHANGE_TP"}, snapshot : Int, targets : Seq([price : Nat, percent : Nat])],
         Adjust!Accepted(Adjust!ChangeTargets(r, c))
  PROVE  LET result == Adjust!ChangeTargets(r, c)
             again == [r EXCEPT !.targets = [i \in DOMAIN @ |-> [@[i] EXCEPT !.price = result.targets[i].price]]]
         IN  /\ result.stops \in Nat /\ result.remaining \in Nat
             /\ result.allocated <= c.quantity
             /\ \A i \in DOMAIN result.targets :
                  /\ result.targets[i].price % c.filters.tick = 0
                  /\ result.targets[i].quantity % c.filters.step = 0
                  /\ ~Adjust!Profits(c.side, result.targets[i].price, r.targets[i].price)
             /\ Adjust!ChangeTargets(again, c) = result
<1> DEFINE T == TargetsOf(r, c)
           result == Adjust!ChangeTargets(r, c)
           n == Len(r.targets)
           q == [i \in DOMAIN T |-> T[i].quantity]
           asked == [i \in DOMAIN r.targets |-> [r.targets[i] EXCEPT !.price = T[i].price]]
           again == [r EXCEPT !.targets = asked]
<1>1. /\ c.side \in Sides /\ c.quantity \in Nat /\ c.stopQuantity \in Nat /\ c.filters \in AdjustFilters
      /\ c.filters.tick \in Nat \ {0} /\ c.filters.step \in Nat \ {0}
  BY DEF Managed, Position, AdjustFilters
<1>2. /\ n \in Nat /\ DOMAIN r.targets = 1 .. n
      /\ \A i \in 1 .. n : r.targets[i] \in [price : Nat, percent : Nat]
  <2> DEFINE s == r.targets
             target == [price : Nat, percent : Nat]
  <2>1. s \in Seq(target)
    OBVIOUS
  <2> HIDE DEF s, target
  <2>2. Len(s) \in Nat /\ DOMAIN s = 1 .. Len(s) /\ \A i \in 1 .. Len(s) : s[i] \in target
    BY <2>1
  <2>3. QED
    BY <2>2 DEF s, target
<1>3. DOMAIN T = 1 .. n
  BY <1>2 DEF TargetsOf
<1>4. ASSUME NEW i \in 1 .. n
      PROVE  /\ T[i].price \in Nat /\ T[i].quantity \in Nat
             /\ T[i].price % c.filters.tick = 0 /\ T[i].quantity % c.filters.step = 0
             /\ ~Adjust!Profits(c.side, T[i].price, r.targets[i].price)
             /\ Adjust!ConservativePrice(c.side, "TARGET", T[i].price, c.filters.tick) = T[i].price
  <2> DEFINE price == r.targets[i].price
             percent == r.targets[i].percent
             p == Adjust!ConservativePrice(c.side, "TARGET", price, c.filters.tick)
             share == Adjust!Share(c.quantity, percent, c.filters.step)
  <2>1. T[i].price = p /\ T[i].quantity = share
    BY <1>2 DEF TargetsOf
  <2>2. price \in Nat /\ percent \in Nat /\ c.quantity * percent \in Nat
    BY <1>1, <1>2
  <2> HIDE DEF T, price, percent
  <2>3. /\ p \in Nat /\ p % c.filters.tick = 0 /\ ~Adjust!Profits(c.side, p, price)
        /\ Adjust!ConservativePrice(c.side, "TARGET", p, c.filters.tick) = p
    BY <1>1, <2>2, PriceIsConservative
  <2>4. share \in Nat /\ share % c.filters.step = 0
    BY <1>1, <2>2, Hundredth DEF Adjust!Share
  <2>5. QED
    BY <2>1, <2>3, <2>4 DEF price
<1>5. result = AnswerAbout(T, Percents(r), c)
  BY TargetsAnswered
<1>6. /\ Len(T) \in 1 .. 3
      /\ ~(Adjust!Total(q) > c.quantity)
      /\ result.targets = T /\ result.allocated = Adjust!Total(q)
      /\ result.remaining = c.quantity /\ result.stops = c.stopQuantity
  <2> HIDE DEF T, result
  <2>1. result.errors = {}
    BY DEF Adjust!Accepted, result
  <2>2. /\ result.targets = T /\ result.allocated = Adjust!Total(q)
        /\ result.remaining = c.quantity /\ result.stops = c.stopQuantity
        /\ result.errors = AllErrors(T, Percents(r), Adjust!Total(q), c)
    BY <1>5, AnswerFields
  <2>3. QED
    BY <2>1, <2>2, TargetRefusals
<1> HIDE DEF T, result
<1>7. Len(T) = n
  BY <1>2, <1>3
<1>8. Len(q) = n /\ \A i \in 1 .. n : q[i] \in Nat
  BY <1>2, <1>3, <1>4
<1> HIDE DEF q
<1>9. Adjust!Total(q) \in Nat
  BY <1>6, <1>7, <1>8, TotalOfFew
<1>10. result.allocated <= c.quantity
  BY <1>1, <1>6, <1>9
<1>11. again.targets = asked /\ DOMAIN asked = 1 .. n
  BY <1>2
<1>12. ASSUME NEW i \in 1 .. n
       PROVE  asked[i].price = T[i].price /\ asked[i].percent = r.targets[i].percent
  BY <1>2
<1> HIDE DEF again, asked
<1>13. TargetsOf(again, c) = T
  <2>1. ASSUME NEW i \in 1 .. n
        PROVE  [price |-> Adjust!ConservativePrice(c.side, "TARGET", again.targets[i].price, c.filters.tick),
                quantity |-> Adjust!Share(c.quantity, again.targets[i].percent, c.filters.step)]
               = [price |-> Adjust!ConservativePrice(c.side, "TARGET", r.targets[i].price, c.filters.tick),
                  quantity |-> Adjust!Share(c.quantity, r.targets[i].percent, c.filters.step)]
    <3>1. T[i].price = Adjust!ConservativePrice(c.side, "TARGET", r.targets[i].price, c.filters.tick)
      BY <1>2 DEF T, TargetsOf
    <3>2. QED
      BY <1>4, <1>11, <1>12, <3>1
  <2>2. QED
    BY <1>2, <1>11, <2>1 DEF TargetsOf, T
<1>14. Percents(again) = Percents(r)
  BY <1>2, <1>11, <1>12 DEF Percents
<1>15. Adjust!ChangeTargets(again, c) = result
  BY <1>5, <1>13, <1>14, TargetsAnswered
<1>16. [r EXCEPT !.targets = [i \in DOMAIN r.targets |->
                               [r.targets[i] EXCEPT !.price = result.targets[i].price]]] = again
  BY <1>6 DEF again, asked
<1>17. QED
  <2>1. \A i \in DOMAIN result.targets :
          /\ result.targets[i].price % c.filters.tick = 0
          /\ result.targets[i].quantity % c.filters.step = 0
          /\ ~Adjust!Profits(c.side, result.targets[i].price, r.targets[i].price)
    BY <1>3, <1>4, <1>6
  <2>2. result.stops \in Nat /\ result.remaining \in Nat
    BY <1>1, <1>6
  <2>3. QED
    BY <1>10, <1>15, <1>16, <2>1, <2>2 DEF result
-----------------------------------------------------------------------------
\* What a request is checked with when it is accepted
LEMMA WhatIsChecked ==
  ASSUME Null \notin Nat, NEW r \in Asked, NEW stored, stored # Null, Position(stored.context),
         NEW age \in Nat, Adjust!Accepted(Adjust!HandleRequest(r, stored, age))
  PROVE  /\ Adjust!HandleRequest(r, stored, age) = Adjust!Adjustment(r, stored.context)
         /\ \A other : other.snapshot = r.snapshot =>
              Adjust!HandleRequest(other, stored, age) = Adjust!Adjustment(other, stored.context)
         /\ Managed(stored.context)
         /\ age <= Adjust!StaleAfter /\ stored.gates.positionManagementAvailable
<1> DEFINE c == stored.context
           open == c.side \in {"LONG", "SHORT"} /\ c.quantity > 0
           managed == Adjust!Aged(stored.gates, age).positionManagementAvailable
<1>1. /\ stored.snapshot = r.snapshot /\ managed
      /\ ~(c.side \notin {"LONG", "SHORT"} \/ c.quantity <= 0) /\ c.filters # Null
  BY DEF Adjust!HandleRequest, Adjust!Accepted
<1>2. \A other : other.snapshot = r.snapshot =>
        Adjust!HandleRequest(other, stored, age) = Adjust!Adjustment(other, c)
  BY <1>1 DEF Adjust!HandleRequest
<1>3. Managed(c)
  BY <1>1 DEF Managed, Position, Sides
<1>4. age <= Adjust!StaleAfter /\ stored.gates.positionManagementAvailable
  <2> DEFINE g == stored.gates
             v == Adjust!Aged(g, age)
  <2>1. AgedOf(g, v, age)
    BY AgedFields
  <2> HIDE DEF v
  <2>2. v.positionManagementAvailable <=> (g.positionManagementAvailable /\ age <= 30)
    BY <2>1 DEF AgedOf
  <2>3. v.positionManagementAvailable
    BY <1>1 DEF v
  <2>4. QED
    BY <2>2, <2>3 DEF Adjust!StaleAfter
<1>5. QED
  BY <1>2, <1>3, <1>4

LEMMA StopsAreTold ==
  ASSUME NEW result, result.remaining \in Nat, result.stops \in Nat, result.remaining > 0
  PROVE  Adjust!StopWarnings(result) = {} <=> result.stops = result.remaining
BY DEF Adjust!StopWarnings, Adjust!When

\* Whatever is asked of whatever position, what is accepted is a multiple of the
\* step and the tick, closes no more than the position and leaves what can be left
\* later, risks no more than was asked for, and is accepted again as it is
\* (validatePositionAdjustment, POST /v1/position/validate).
THEOREM AdjustmentsAreSafe ==
  ASSUME Null \notin Nat, NEW r \in Asked, NEW stored, Position(stored.context), NEW age \in Nat
  PROVE  Adjust!AdjustmentIsSafe(r, stored, age)
<1> DEFINE result == Adjust!HandleRequest(r, stored, age)
           c == stored.context
           again == Adjust!Confirmation(r, result)
<1> SUFFICES ASSUME stored # Null, Adjust!Accepted(result)
             PROVE  Adjust!AdjustmentIsSafe(r, stored, age)
  BY DEF Adjust!AdjustmentIsSafe
<1>1. /\ result = Adjust!Adjustment(r, c)
      /\ \A other : other.snapshot = r.snapshot =>
           Adjust!HandleRequest(other, stored, age) = Adjust!Adjustment(other, c)
      /\ Managed(c) /\ age <= Adjust!StaleAfter /\ stored.gates.positionManagementAvailable
  BY WhatIsChecked
<1> HIDE DEF result
<1>2. CASE r.action = "PARTIAL_EXIT"
  <2>1. r \in [action : {"PARTIAL_EXIT"}, snapshot : Int, quantity : Nat \cup {Null}, percent : Nat \cup {Null}]
    BY <1>2 DEF Asked
  <2>2. result = Adjust!PartialExit(r, c)
    BY <1>1, <1>2 DEF Adjust!Adjustment
  <2>3. /\ ExitIsSafe(c, result)
        /\ Adjust!PartialExit([r EXCEPT !.quantity = result.quantity, !.percent = Null], c) = result
    <3> DEFINE partial == Adjust!PartialExit(r, c)
    <3>1. Adjust!Accepted(partial)
      BY <2>2
    <3>2. /\ ExitIsSafe(c, partial)
          /\ Adjust!PartialExit([r EXCEPT !.quantity = partial.quantity, !.percent = Null], c) = partial
      BY Zenon, <1>1, <2>1, <3>1, PartialExitIsSafe
    <3> HIDE DEF partial
    <3>3. QED
      BY <2>2, <3>2 DEF partial
  <2>4. again = [r EXCEPT !.quantity = result.quantity, !.percent = Null]
    BY <1>2 DEF Adjust!Confirmation
  <2>5. again.snapshot = r.snapshot /\ again.action = "PARTIAL_EXIT"
    BY <2>1, <2>4
  <2> HIDE DEF again
  <2>6. Adjust!HandleRequest(again, stored, age) = result
    BY <1>1, <2>3, <2>4, <2>5 DEF Adjust!Adjustment
  <2>7. ASSUME result.remaining > 0, c.quantity % c.filters.step = 0
        PROVE  Adjust!Accepted(Adjust!Exit([c EXCEPT !.quantity = result.remaining]))
    <3> DEFINE rest == [c EXCEPT !.quantity = result.remaining]
    <3>1. /\ Position(c) /\ c.side \in Sides /\ c.quantity \in Nat /\ c.filters \in AdjustFilters
          /\ c.filters.step \in Nat \ {0} /\ c.mark \in Nat /\ c.stopQuantity \in Nat
      BY <1>1 DEF Managed, Position, AdjustFilters
    <3>2. /\ result.remaining \in Nat /\ result.quantity \in Nat /\ result.quantity % c.filters.step = 0
          /\ result.quantity + result.remaining = c.quantity
          /\ Placeable(result.remaining, c.mark, c.filters)
      BY <2>3, <2>7 DEF ExitIsSafe
    <3>3. result.remaining % c.filters.step = 0
      BY <2>7, <3>1, <3>2, RestOfMultiple
    <3>4. /\ Position(rest) /\ rest.quantity = result.remaining /\ rest.filters = c.filters
          /\ rest.mark = c.mark /\ rest.side = c.side
      BY <3>1, <3>2 DEF Position
    <3> HIDE DEF rest
    <3>5. Managed(rest)
      BY <3>1, <3>2, <3>4 DEF Managed
    <3>6. Adjust!Accepted(Adjust!Exit(rest))
      BY <3>2, <3>3, <3>4, <3>5, AllCanBeLeft
    <3>7. QED
      BY <3>6 DEF rest
  <2>8. result.remaining > 0 => (Adjust!StopWarnings(result) = {} <=> result.stops = result.remaining)
    BY <2>3, StopsAreTold DEF ExitIsSafe
  <2>9. QED
    BY <1>1, <1>2, <2>3, <2>6, <2>7, <2>8 DEF Adjust!AdjustmentIsSafe, ExitIsSafe, again, result
<1>3. CASE r.action = "EXIT"
  <2>1. result = Adjust!Exit(c)
    BY <1>1, <1>3 DEF Adjust!Adjustment
  <2>2. ExitIsSafe(c, result) /\ result.remaining = 0
    BY <1>1, <2>1, ExitOfAllIsSafe
  <2>3. again = r
    BY <1>3 DEF Adjust!Confirmation
  <2>4. Adjust!HandleRequest(again, stored, age) = result
    BY <2>3 DEF result
  <2> HIDE DEF again
  <2>5. ~(result.remaining > 0)
    BY <2>2
  <2>6. QED
    BY <1>1, <1>3, <2>2, <2>4, <2>5 DEF Adjust!AdjustmentIsSafe, ExitIsSafe, again, result
<1>4. CASE r.action = "MOVE_STOP"
  <2>1. r \in [action : {"MOVE_STOP"}, snapshot : Int, stop : Nat \cup {Null}]
    BY <1>4 DEF Asked
  <2>2. result = Adjust!MoveStop(r, c)
    BY <1>1, <1>4 DEF Adjust!Adjustment
  <2>3. /\ result.stops \in Nat /\ result.remaining \in Nat
        /\ result.price % c.filters.tick = 0
        /\ ~Adjust!Profits(c.side, r.stop, result.price)
        /\ Adjust!MoveStop([r EXCEPT !.stop = result.price], c) = result
    BY <1>1, <2>1, <2>2, MovedStopIsSafe
  <2>4. again = [r EXCEPT !.stop = result.price]
    BY <1>4 DEF Adjust!Confirmation
  <2>5. again.snapshot = r.snapshot /\ again.action = "MOVE_STOP"
    BY <2>1, <2>4
  <2> HIDE DEF again
  <2>6. Adjust!HandleRequest(again, stored, age) = result
    BY <1>1, <2>3, <2>4, <2>5 DEF Adjust!Adjustment
  <2>7. result.remaining > 0 => (Adjust!StopWarnings(result) = {} <=> result.stops = result.remaining)
    BY <2>3, StopsAreTold
  <2>8. QED
    BY <1>1, <1>4, <2>3, <2>6, <2>7 DEF Adjust!AdjustmentIsSafe, again, result
<1>5. CASE r.action = "CHANGE_TP"
  <2>1. r \in [action : {"CHANGE_TP"}, snapshot : Int, targets : Seq([price : Nat, percent : Nat])]
    BY <1>5 DEF Asked
  <2>2. result = Adjust!ChangeTargets(r, c)
    BY <1>1, <1>5 DEF Adjust!Adjustment
  <2>3. again = [r EXCEPT !.targets =
                   [i \in DOMAIN @ |-> [@[i] EXCEPT !.price = result.targets[i].price]]]
    BY <1>5 DEF Adjust!Confirmation
  <2>4. /\ result.stops \in Nat /\ result.remaining \in Nat
        /\ result.allocated <= c.quantity
        /\ \A i \in DOMAIN result.targets :
             /\ result.targets[i].price % c.filters.tick = 0
             /\ result.targets[i].quantity % c.filters.step = 0
             /\ ~Adjust!Profits(c.side, result.targets[i].price, r.targets[i].price)
        /\ Adjust!ChangeTargets(again, c) = result
    <3> DEFINE changed == Adjust!ChangeTargets(r, c)
               same == [r EXCEPT !.targets =
                          [i \in DOMAIN @ |-> [@[i] EXCEPT !.price = changed.targets[i].price]]]
    <3>1. Adjust!Accepted(changed)
      BY <2>2
    <3>2. /\ changed.stops \in Nat /\ changed.remaining \in Nat
          /\ changed.allocated <= c.quantity
          /\ \A i \in DOMAIN changed.targets :
               /\ changed.targets[i].price % c.filters.tick = 0
               /\ changed.targets[i].quantity % c.filters.step = 0
               /\ ~Adjust!Profits(c.side, changed.targets[i].price, r.targets[i].price)
          /\ Adjust!ChangeTargets(same, c) = changed
      BY Zenon, <1>1, <2>1, <3>1, TargetsAreSafe
    <3>3. same = again
      BY <2>2, <2>3
    <3> HIDE DEF changed, same
    <3>4. QED
      BY <2>2, <3>2, <3>3 DEF changed
  <2>5. again.snapshot = r.snapshot /\ again.action = "CHANGE_TP"
    BY <2>1, <2>3
  <2> HIDE DEF again
  <2>6. Adjust!HandleRequest(again, stored, age) = result
    BY <1>1, <2>4, <2>5 DEF Adjust!Adjustment
  <2>7. result.remaining > 0 => (Adjust!StopWarnings(result) = {} <=> result.stops = result.remaining)
    BY <2>4, StopsAreTold
  <2>8. QED
    BY <1>1, <1>5, <2>4, <2>6, <2>7 DEF Adjust!AdjustmentIsSafe, again, result
<1>6. r.action \in {"PARTIAL_EXIT", "EXIT", "MOVE_STOP", "CHANGE_TP"}
  BY DEF Asked
<1>7. QED
  BY <1>2, <1>3, <1>4, <1>5, <1>6
-----------------------------------------------------------------------------
\* The case of a scene is one of those that were listed, and stays.
Listed == scene = "case" => case \in EvaluationCases \cup OrderCases \cup GateCases

LEMMA CaseStays == MCSpec => []Listed
<1>1. MCInit => Listed
  BY DEF MCInit, Listed
<1>2. Listed /\ [MCNext]_<<scene, case, lineage, vars>> => Listed'
  BY DEF MCNext, Listed
<1>3. QED
  BY <1>1, <1>2, PTL DEF MCSpec

LEMMA CaseOfKind ==
  ASSUME NEW x \in EvaluationCases \cup OrderCases \cup GateCases
  PROVE  /\ x.kind = "gates" => x.state \in MarketStates
         /\ x.kind = "size" => x.plan \in SizedPlans /\ x.market \in SizedSnapshots
         /\ x.kind = "adjust" => /\ x.request \in Requests /\ x.context \in Contexts
                                 /\ x.age \in {0, 31}
<1>1. x \in EvaluationCases => x.kind \notin {"gates", "size", "adjust"}
  BY DEF EvaluationCases
<1>2. x \in OrderCases =>
        /\ x.kind # "gates"
        /\ x.kind = "size" => x.plan \in SizedPlans /\ x.market \in SizedSnapshots
        /\ x.kind = "adjust" => /\ x.request \in Requests /\ x.context \in Contexts
                                /\ x.age \in {0, 31}
  BY DEF OrderCases
<1>3. x \in GateCases =>
        /\ x.kind \notin {"size", "adjust"}
        /\ x.kind = "gates" => x.state \in MarketStates
  BY DEF GateCases
<1>4. QED
  BY <1>1, <1>2, <1>3

\* What is listed is of the kinds that the theorems are about.
LEMMA ListedStates ==
  ASSUME NEW s \in MarketStates
  PROVE  SnapshotState(s)
<1> DEFINE C == [market : {0, 6, 15, 16}, depth : {1, 4}, openInterest : {0, Null},
                 errors : {{}, {"candle:15m"}}, skew : {-3, 0, 10, 11},
                 missing : [market : {{}, {"markPrice"}, {"lastPrice"}}, entry : {{}, {"indexPrice"}}],
                 position : {"NONE", "BINANCE_READ_ONLY"}, connected : {{"public", "market"}, {"market"}},
                 account : {"ok", "old", "lost"}]
           age(c) == [x \in Adjust!Sources |->
                        CASE x = "market" -> c.market [] x = "depth" -> c.depth
                          [] x = "openInterest" -> c.openInterest [] OTHER -> 0]
           account(c) == [configured |-> c.position # "NONE", connected |-> c.account # "lost",
                          age |-> IF c.account = "old" THEN 46 ELSE 45,
                          stream |-> IF c.account = "lost" THEN "ERROR" ELSE "CONNECTED"]
<1>1. PICK c \in C : s = [age |-> age(c), errors |-> c.errors, history |-> TRUE, missing |-> c.missing,
                          skew |-> c.skew, position |-> c.position, connected |-> c.connected,
                          account |-> account(c)]
  BY DEF MarketStates
<1>2. {c.market, c.depth, c.openInterest} \subseteq Nat \cup {Null} /\ c.skew \in Int
  OBVIOUS
<1> HIDE DEF C
<1>3. age(c) \in [Adjust!Sources -> Nat \cup {Null}]
  BY <1>2
<1> DEFINE ages == age(c)
           user == account(c)
<1> HIDE DEF ages, user
<1>4. s = [age |-> ages, errors |-> c.errors, history |-> TRUE, missing |-> c.missing,
           skew |-> c.skew, position |-> c.position, connected |-> c.connected, account |-> user]
  BY <1>1 DEF ages, user
<1>5. ages \in [Adjust!Sources -> Nat \cup {Null}]
  BY <1>3 DEF ages
<1>6. QED
  BY <1>2, <1>4, <1>5 DEF SnapshotState

LEMMA ListedPlans ==
  ASSUME NEW p \in SizedPlans
  PROVE  SizedPlan(p) /\ Size!Sided(p)
BY DEF SizedPlans, SizedPlan, SizeModes

LEMMA ListedMarkets ==
  ASSUME NEW m \in SizedSnapshots
  PROVE  PricedMarket(m)
<1>1. IsFiniteSet(Brackets) /\ Brackets # {} /\ \A b \in Brackets : b.floor \in Nat /\ b.cap \in Nat
  <2> DEFINE a == [floor |-> 0, cap |-> 30, leverage |-> 5, maintenance |-> 0, stale |-> FALSE]
             b == [floor |-> 30, cap |-> 60, leverage |-> 3, maintenance |-> 100, stale |-> FALSE]
  <2>1. Brackets = {a} \cup {b}
    BY DEF Brackets
  <2>2. a.floor \in Nat /\ a.cap \in Nat /\ b.floor \in Nat /\ b.cap \in Nat
    OBVIOUS
  <2> HIDE DEF a, b
  <2>3. IsFiniteSet({a}) /\ IsFiniteSet({b})
    BY FS_Singleton
  <2>4. IsFiniteSet({a} \cup {b})
    BY <2>3, FS_Union
  <2>5. QED
    BY <2>1, <2>2, <2>4
<1>2. m.brackets = Brackets
  BY DEF SizedSnapshots
<1>3. m \in [snapshot : {m.snapshot}, gates : {m.gates}, brackets : {m.brackets},
             step : Nat \ {0}, tick : Nat \ {0}, minQuantity : Nat, minNotional : Nat,
             available : Nat \cup {Null}, maxLoss : Nat \cup {Null},
             entryFee : Nat, exitFee : Nat, entrySlippage : Nat, exitSlippage : Nat]
  BY DEF SizedSnapshots
<1>4. QED
  BY <1>1, <1>2, <1>3 DEF PricedMarket

LEMMA ListedRequests == Requests \subseteq Asked
<1>1. [action : {"PARTIAL_EXIT"}, snapshot : {1, 2}, quantity : {Null, 1, 3, 4, 9}, percent : {Null, 40, 70, 100}]
        \subseteq Asked
  BY DEF Asked
<1>2. [action : {"EXIT"}, snapshot : {1}] \subseteq Asked
  BY DEF Asked
<1>3. [action : {"MOVE_STOP"}, snapshot : {1}, stop : {Null, 7, 8, 11, 13, 16}] \subseteq Asked
  BY DEF Asked
<1>4. [action : {"CHANGE_TP"}, snapshot : {1},
       targets : {<<a>> : a \in Targets} \cup {<<a, b>> : a, b \in Targets}] \subseteq Asked
  <2> DEFINE target == [price : Nat, percent : Nat]
  <2>1. Targets \subseteq target
    BY DEF Targets
  <2> HIDE DEF target
  <2>2. {<<a>> : a \in Targets} \cup {<<a, b>> : a, b \in Targets} \subseteq Seq(target)
    <3>1. ASSUME NEW t \in {<<a>> : a \in Targets} \cup {<<a, b>> : a, b \in Targets}
          PROVE  t \in Seq(target)
      <4>1. \A a, b \in Targets : <<a>> \in Seq(target) /\ <<a, b>> \in Seq(target)
        BY <2>1
      <4>2. CASE t \in {<<a>> : a \in Targets}
        <5>1. PICK a \in Targets : t = <<a>>
          BY <4>2
        <5>2. QED
          BY <4>1, <5>1
      <4>3. CASE t \in {<<a, b>> : a, b \in Targets}
        <5>1. PICK a \in Targets, b \in Targets : t = <<a, b>>
          BY <4>3
        <5>2. QED
          BY <4>1, <5>1
      <4>4. QED
        BY <4>2, <4>3
    <3>2. QED
      BY <3>1
  <2>3. QED
    BY <2>2 DEF Asked, target
<1>5. QED
  BY <1>1, <1>2, <1>3, <1>4 DEF Requests

LEMMA ListedPositions ==
  ASSUME NEW c \in Contexts
  PROVE  Position(c)
<1> DEFINE filters == [tick : {3}, step : {2}, minQuantity : {2, 4}, minNotional : {1, 50}]
<1>1. filters \subseteq AdjustFilters
  BY DEF AdjustFilters
<1>2. c \in [side : Sides, quantity : {4, 7, 8}, mark : {10, 12}, stopQuantity : {4, 8}, filters : filters]
  BY DEF Contexts
<1> HIDE DEF filters
<1>3. QED
  BY <1>1, <1>2 DEF Position

\* So it is in the cases that the model checker goes through, of the gates
\* (generateSnapshot, relay-freshness.ts)
THEOREM GatesHoldInScenes == MCSpec => []GatesHold
<1>1. Listed => GatesHold
  <2> SUFFICES ASSUME Listed, scene = "case", case.kind = "gates"
               PROVE  Adjust!GatesHold(case.state, ServedAges)
    BY DEF GatesHold
  <2>1. SnapshotState(case.state)
    BY CaseOfKind, ListedStates DEF Listed
  <2>2. ServedAges \in SUBSET Nat
    BY DEF ServedAges
  <2>3. QED
    BY <2>1, <2>2, GatesAreRight
<1>2. QED
  BY <1>1, CaseStays, PTL

\* and of the plans and adjustments that are validated (costs.ts,
\* position-adjustment.ts).
THEOREM OrdersAreSafeInScenes == MCSpec => []OrdersAreSafe
<1>1. Listed => OrdersAreSafe
  <2> SUFFICES ASSUME Listed, scene = "case"
               PROVE  OrdersAreSafe
    BY DEF OrdersAreSafe
  <2>1. case \in EvaluationCases \cup OrderCases \cup GateCases
    BY DEF Listed
  <2>2. ASSUME case.kind = "size"
        PROVE  /\ Size!ValidatedPlanIsSafe(case.plan, case.market, case.age, Adjust!EntryMaxAge)
               /\ \A funding \in {-1, 0, 1} : Size!BreakevenIsNeutral(case.plan, case.market, funding)
    <3>1. SizedPlan(case.plan) /\ Size!Sided(case.plan) /\ PricedMarket(case.market)
      BY <2>1, <2>2, CaseOfKind, ListedPlans, ListedMarkets
    <3>2. {-1, 0, 1} \subseteq Int
      OBVIOUS
    <3>3. QED
      BY <3>1, <3>2, PlansAreSafe, BreakevenNeutral, NullAssumption
  <2>3. ASSUME case.kind = "adjust"
        PROVE  Adjust!AdjustmentIsSafe(case.request,
                 [snapshot |-> 1, gates |-> GatesWith(case.managed), context |-> case.context], case.age)
    <3> DEFINE stored == [snapshot |-> 1, gates |-> GatesWith(case.managed), context |-> case.context]
    <3>1. case.request \in Asked /\ Position(case.context) /\ case.age \in Nat
      BY <2>1, <2>3, CaseOfKind, ListedRequests, ListedPositions
    <3>2. stored.context = case.context
      OBVIOUS
    <3> HIDE DEF stored
    <3>3. Adjust!AdjustmentIsSafe(case.request, stored, case.age)
      BY <3>1, <3>2, AdjustmentsAreSafe, NullAssumption
    <3>4. QED
      BY <3>3 DEF stored
  <2>4. QED
    BY <2>2, <2>3 DEF OrdersAreSafe
<1>2. QED
  BY <1>1, CaseStays, PTL
-----------------------------------------------------------------------------
(***************************************************************************)
(* Scores along a path of prices.                                          *)
(***************************************************************************)
IsPath(path) ==
  /\ IsFiniteSet(DOMAIN path) /\ DOMAIN path \subseteq Nat
  /\ path \in [DOMAIN path -> Int]

\* What has a greatest and a least element
LEMMA PathMax ==
  ASSUME NEW S \in SUBSET Int, S # {}, IsFiniteSet(S)
  PROVE  Path!Max(S) \in S /\ \A x \in S : x <= Path!Max(S)
<1>1. Path!Max(S) = Lineage!Max(S)
  BY DEF Path!Max, Lineage!Max
<1>2. QED
  BY <1>1, MaxOfFinite

\* The first of some ages, or null of none
LEMMA FirstIs ==
  ASSUME NEW S \in SUBSET Nat
  PROVE  /\ Path!First(S) = Null <=> S = {}
         /\ Path!First(S) # Null => Path!First(S) \in S
         /\ S # {} => Path!First(S) \in S /\ \A x \in S : Path!First(S) <= x
<1>1. CASE S = {}
  BY <1>1 DEF Path!First
<1>2. CASE S # {}
  <2>1. \E x \in S : \A y \in S : x <= y
    BY <1>2, LeastNumber
  <2>2. Path!Min(S) \in S /\ \A x \in S : Path!Min(S) <= x
    BY <2>1 DEF Path!Min
  <2>3. Path!First(S) = Path!Min(S)
    BY <1>2 DEF Path!First
  <2>4. Path!First(S) # Null
    BY <2>2, <2>3, NullAssumption
  <2>5. QED
    BY <1>2, <2>2, <2>3, <2>4
<1>3. QED
  BY <1>1, <1>2

\* There are only so many moves.
LEMMA FiniteMoves ==
  ASSUME NEW S, IsFiniteSet(S), NEW f \in [S -> Int]
  PROVE  /\ {f[t] : t \in S} \in SUBSET Int
         /\ IsFiniteSet({0} \cup {f[t] : t \in S})
<1> DEFINE T == {f[t] : t \in S}
<1>1. f \in [S -> T] /\ \A x \in T : \E t \in S : f[t] = x
  OBVIOUS
<1> HIDE DEF T
<1>2. f \in Surjection(S, T)
  BY <1>1, Fun_IsSurj
<1>3. IsFiniteSet(T)
  BY <1>2, FS_Surjection
<1>4. IsFiniteSet(T \cup {0}) /\ {0} \cup T = T \cup {0}
  BY <1>3, FS_AddElement
<1>5. QED
  BY <1>4 DEF T

\* The largest of some moves, or 0, and when it was reached first
Greatest(S, f) == Path!Max({0} \cup {f[t] : t \in S})
Reached(S, f) == Path!First({t \in S : Greatest(S, f) > 0 /\ f[t] = Greatest(S, f)})

LEMMA GreatestIs ==
  ASSUME NEW S \in SUBSET Nat, IsFiniteSet(S), NEW f \in [S -> Int]
  PROVE  /\ Greatest(S, f) \in Nat /\ \A t \in S : f[t] <= Greatest(S, f)
         /\ Greatest(S, f) > 0 => \E t \in S : f[t] = Greatest(S, f)
         /\ Greatest(S, f) > 0 => Reached(S, f) \in S /\ f[Reached(S, f)] = Greatest(S, f)
         /\ Greatest(S, f) = 0 => Reached(S, f) = Null
<1> DEFINE T == {0} \cup {f[t] : t \in S}
           g == Greatest(S, f)
           at == {t \in S : g > 0 /\ f[t] = g}
<1>1. T \in SUBSET Int /\ T # {} /\ IsFiniteSet(T) /\ 0 \in T
  <2> DEFINE M == {f[t] : t \in S}
  <2>1. M \in SUBSET Int
    OBVIOUS
  <2>2. IsFiniteSet({0} \cup M)
    BY FiniteMoves
  <2> HIDE DEF M
  <2>3. {0} \cup M \in SUBSET Int /\ {0} \cup M # {} /\ 0 \in {0} \cup M
    BY <2>1
  <2>4. QED
    BY <2>2, <2>3 DEF M
<1>2. g \in T /\ \A x \in T : x <= g
  <2> HIDE DEF T
  <2>1. Path!Max(T) \in T /\ \A x \in T : x <= Path!Max(T)
    BY <1>1, PathMax
  <2>2. QED
    BY <2>1 DEF Greatest, T
<1> HIDE DEF g
<1>3. g \in Nat /\ \A t \in S : f[t] <= g
  BY <1>1, <1>2
<1>4. g > 0 => \E t \in S : f[t] = g
  BY <1>2
<1> HIDE DEF T
<1>5. at \in SUBSET Nat /\ Reached(S, f) = Path!First(at)
  BY DEF Reached, g
<1>6. g > 0 => Reached(S, f) \in S /\ f[Reached(S, f)] = g
  <2>1. g > 0 => at # {}
    BY <1>4
  <2>2. g > 0 => Reached(S, f) \in at
    BY <1>5, <2>1, FirstIs
  <2>3. QED
    BY <2>2
<1>7. g = 0 => Reached(S, f) = Null
  <2>1. g = 0 => at = {}
    OBVIOUS
  <2>2. QED
    BY <1>5, <2>1, FirstIs
<1>8. QED
  BY <1>3, <1>4, <1>6, <1>7 DEF g

\* What was seen of a path by some age, and what had moved then
Seen(path, maxAge) == {t \in DOMAIN path : t <= maxAge}
For(side, reference, path, maxAge) ==
  [t \in Seen(path, maxAge) |-> Path!SignedMove(side, reference, path[t])]
Against(side, reference, path, maxAge) ==
  [t \in Seen(path, maxAge) |-> -Path!SignedMove(side, reference, path[t])]

LEMMA MovesAreNumbers ==
  ASSUME NEW path, IsPath(path), NEW side, NEW reference \in Int, NEW maxAge \in Int
  PROVE  /\ Seen(path, maxAge) \in SUBSET Nat /\ Seen(path, maxAge) \subseteq DOMAIN path
         /\ IsFiniteSet(Seen(path, maxAge))
         /\ For(side, reference, path, maxAge) \in [Seen(path, maxAge) -> Int]
         /\ Against(side, reference, path, maxAge) \in [Seen(path, maxAge) -> Int]
<1>1. Seen(path, maxAge) \in SUBSET Nat /\ Seen(path, maxAge) \subseteq DOMAIN path
  BY DEF Seen, IsPath
<1>2. IsFiniteSet(Seen(path, maxAge))
  BY <1>1, FS_Subset DEF IsPath
<1>3. \A t \in Seen(path, maxAge) : Path!SignedMove(side, reference, path[t]) \in Int
  BY <1>1 DEF Path!SignedMove, IsPath
<1>4. QED
  BY <1>1, <1>2, <1>3 DEF For, Against

LEMMA ExcursionIs ==
  ASSUME NEW path, IsPath(path), NEW side, NEW reference \in Int, NEW maxAge \in Int
  PROVE  LET seen == Seen(path, maxAge)
             up   == For(side, reference, path, maxAge)
             down == Against(side, reference, path, maxAge)
         IN  Path!ExcursionFromReference(side, reference, path, maxAge)
               = [mfe |-> Greatest(seen, up), mae |-> Greatest(seen, down),
                  timeToMfe |-> Reached(seen, up), timeToMae |-> Reached(seen, down)]
<1> DEFINE seen == Seen(path, maxAge)
           up   == For(side, reference, path, maxAge)
           down == Against(side, reference, path, maxAge)
           move(t) == Path!SignedMove(side, reference, path[t])
           mfe == Path!Max({0} \cup {move(t) : t \in seen})
           mae == Path!Max({0} \cup {-move(t) : t \in seen})
<1>1. /\ \A t \in seen : up[t] = move(t) /\ down[t] = -move(t)
  BY DEF For, Against
<1>2. /\ {up[t] : t \in seen} = {move(t) : t \in seen}
      /\ {down[t] : t \in seen} = {-move(t) : t \in seen}
  <2> HIDE DEF up, down, move, seen
  <2>1. QED
    BY <1>1
<1>3. mfe = Greatest(seen, up) /\ mae = Greatest(seen, down)
  BY <1>2 DEF Greatest
<1>4. /\ {t \in seen : mfe > 0 /\ move(t) = mfe}
           = {t \in seen : Greatest(seen, up) > 0 /\ up[t] = Greatest(seen, up)}
      /\ {t \in seen : mae > 0 /\ -move(t) = mae}
           = {t \in seen : Greatest(seen, down) > 0 /\ down[t] = Greatest(seen, down)}
  <2> HIDE DEF up, down, move, seen, mfe, mae
  <2>1. QED
    BY <1>1, <1>3
<1>5. /\ Path!First({t \in seen : mfe > 0 /\ move(t) = mfe}) = Reached(seen, up)
      /\ Path!First({t \in seen : mae > 0 /\ -move(t) = mae}) = Reached(seen, down)
  <2> HIDE DEF up, down, move, seen, mfe, mae
  <2>1. QED
    BY <1>4 DEF Reached
<1>6. Path!ExcursionFromReference(side, reference, path, maxAge)
        = [mfe |-> mfe, mae |-> mae,
           timeToMfe |-> Path!First({t \in seen : mfe > 0 /\ move(t) = mfe}),
           timeToMae |-> Path!First({t \in seen : mae > 0 /\ -move(t) = mae})]
  BY DEF Path!ExcursionFromReference, Seen
<1>7. QED
  BY <1>3, <1>5, <1>6

\* What an excursion tells: the largest moves, and ages at which they were seen.
LEMMA ExcursionTells ==
  ASSUME NEW path, IsPath(path), NEW side, NEW reference \in Int, NEW maxAge \in Int
  PROVE  LET told == Path!ExcursionFromReference(side, reference, path, maxAge)
             seen == Seen(path, maxAge)
             move(t) == Path!SignedMove(side, reference, path[t])
         IN  /\ told.mfe \in Nat /\ told.mae \in Nat
             /\ \A t \in seen : move(t) <= told.mfe /\ -move(t) <= told.mae
             /\ told.mfe > 0 => told.timeToMfe \in seen /\ move(told.timeToMfe) = told.mfe
             /\ told.mae > 0 => told.timeToMae \in seen /\ -move(told.timeToMae) = told.mae
             /\ told.mfe = 0 => told.timeToMfe = Null
             /\ told.mae = 0 => told.timeToMae = Null
<1> DEFINE told == Path!ExcursionFromReference(side, reference, path, maxAge)
           seen == Seen(path, maxAge)
           move(t) == Path!SignedMove(side, reference, path[t])
           up   == For(side, reference, path, maxAge)
           down == Against(side, reference, path, maxAge)
<1>1. \A t \in seen : up[t] = move(t) /\ down[t] = -move(t)
  BY DEF For, Against
<1>2. /\ told.mfe = Greatest(seen, up) /\ told.mae = Greatest(seen, down)
      /\ told.timeToMfe = Reached(seen, up) /\ told.timeToMae = Reached(seen, down)
  BY ExcursionIs
<1>3. seen \in SUBSET Nat /\ IsFiniteSet(seen) /\ up \in [seen -> Int] /\ down \in [seen -> Int]
  BY MovesAreNumbers
<1> HIDE DEF told, seen, up, down, move
<1>4. /\ Greatest(seen, up) \in Nat /\ \A t \in seen : up[t] <= Greatest(seen, up)
      /\ Greatest(seen, up) > 0 =>
           Reached(seen, up) \in seen /\ up[Reached(seen, up)] = Greatest(seen, up)
      /\ Greatest(seen, up) = 0 => Reached(seen, up) = Null
  BY <1>3, GreatestIs
<1>5. /\ Greatest(seen, down) \in Nat /\ \A t \in seen : down[t] <= Greatest(seen, down)
      /\ Greatest(seen, down) > 0 =>
           Reached(seen, down) \in seen /\ down[Reached(seen, down)] = Greatest(seen, down)
      /\ Greatest(seen, down) = 0 => Reached(seen, down) = Null
  BY <1>3, GreatestIs
<1>6. QED
  <2>1. /\ told.mfe \in Nat /\ told.mae \in Nat
        /\ \A t \in seen : move(t) <= told.mfe /\ -move(t) <= told.mae
    BY <1>1, <1>2, <1>4, <1>5
  <2>2. told.mfe > 0 => told.timeToMfe \in seen /\ move(told.timeToMfe) = told.mfe
    BY <1>1, <1>2, <1>4
  <2>3. told.mae > 0 => told.timeToMae \in seen /\ -move(told.timeToMae) = told.mae
    BY <1>1, <1>2, <1>5
  <2>4. (told.mfe = 0 => told.timeToMfe = Null) /\ (told.mae = 0 => told.timeToMae = Null)
    BY <1>2, <1>4, <1>5
  <2>5. QED
    BY <2>1, <2>2, <2>3, <2>4 DEF told, seen, move

\* Over a longer horizon the moves for and against a position can only be larger,
\* and what is for the one side is against the other.
LEMMA ManagementAgrees ==
  ASSUME NEW path, IsPath(path), NEW anchor \in Int, NEW horizons \in SUBSET Int
  PROVE  Path!ManagementScoreAgrees(anchor, path, horizons)
<1> DEFINE long(h) == Path!ExcursionFromReference("LONG", anchor, path, h)
           short(h) == Path!ExcursionFromReference("SHORT", anchor, path, h)
<1>1. ASSUME NEW h \in horizons
      PROVE  long(h).mfe = short(h).mae /\ long(h).mae = short(h).mfe
  <2>1. For("LONG", anchor, path, h) = Against("SHORT", anchor, path, h)
    <3>1. \A t \in Seen(path, h) :
            Path!SignedMove("LONG", anchor, path[t]) = -Path!SignedMove("SHORT", anchor, path[t])
      BY DEF Path!SignedMove, IsPath, Seen
    <3>2. QED
      BY <3>1 DEF For, Against
  <2>2. Against("LONG", anchor, path, h) = For("SHORT", anchor, path, h)
    <3>1. \A t \in Seen(path, h) :
            -Path!SignedMove("LONG", anchor, path[t]) = Path!SignedMove("SHORT", anchor, path[t])
      BY DEF Path!SignedMove, IsPath, Seen
    <3>2. QED
      BY <3>1 DEF For, Against
  <2>3. /\ long(h).mfe = Greatest(Seen(path, h), For("LONG", anchor, path, h))
        /\ long(h).mae = Greatest(Seen(path, h), Against("LONG", anchor, path, h))
    BY ExcursionIs
  <2>4. /\ short(h).mfe = Greatest(Seen(path, h), For("SHORT", anchor, path, h))
        /\ short(h).mae = Greatest(Seen(path, h), Against("SHORT", anchor, path, h))
    BY ExcursionIs
  <2>5. QED
    BY <2>1, <2>2, <2>3, <2>4
<1>2. ASSUME NEW h \in horizons, NEW k \in horizons, h < k
      PROVE  long(h).mfe <= long(k).mfe
  <2>1. Seen(path, h) \subseteq Seen(path, k)
    BY <1>2 DEF Seen, IsPath
  <2>2. /\ long(h).mfe \in Nat
        /\ long(h).mfe > 0 => \E t \in Seen(path, h) :
             Path!SignedMove("LONG", anchor, path[t]) = long(h).mfe
    <3>1. /\ long(h).mfe \in Nat
          /\ long(h).mfe > 0 =>
               /\ long(h).timeToMfe \in Seen(path, h)
               /\ Path!SignedMove("LONG", anchor, path[long(h).timeToMfe]) = long(h).mfe
      BY ExcursionTells
    <3>2. QED
      BY <3>1
  <2>3. /\ long(k).mfe \in Nat
        /\ \A t \in Seen(path, k) : Path!SignedMove("LONG", anchor, path[t]) <= long(k).mfe
    BY ExcursionTells
  <2> HIDE DEF long
  <2>4. QED
    BY <2>1, <2>2, <2>3
<1>3. QED
  <2> DEFINE of(side) == Path!EvaluateManagementDecision(side, anchor, path, horizons)
  <2>1. ASSUME of("LONG").available
        PROVE  /\ \A h \in horizons : of("LONG").horizons[h] = long(h)
               /\ \A h \in horizons : of("SHORT").horizons[h] = short(h)
    <3>1. ~(anchor <= 0 \/ DOMAIN path = {})
      BY <2>1 DEF Path!EvaluateManagementDecision
    <3>2. QED
      BY <3>1 DEF Path!EvaluateManagementDecision
  <2> HIDE DEF of, long, short
  <2>2. of("LONG").available => \A h \in horizons :
          /\ of("LONG").horizons[h].mfe = of("SHORT").horizons[h].mae
          /\ of("LONG").horizons[h].mae = of("SHORT").horizons[h].mfe
          /\ \A k \in horizons : h < k => of("LONG").horizons[h].mfe <= of("LONG").horizons[k].mfe
    BY <1>1, <1>2, <2>1
  <2>3. QED
    BY <2>2 DEF of, Path!ManagementScoreAgrees

\* Seen from the other side of a price, what moves is the same.
LEMMA MovesAreMirrored ==
  ASSUME NEW path, IsPath(path), NEW side, NEW reference \in Int, NEW maxAge \in Int, NEW c \in Int
  PROVE  /\ IsPath(Path!Mirrored(path, c)) /\ 2 * c - reference \in Int
         /\ Path!ExcursionFromReference(side, reference, path, maxAge)
              = Path!ExcursionFromReference(Path!OtherSide(side), 2 * c - reference,
                                            Path!Mirrored(path, c), maxAge)
<1> DEFINE other == Path!OtherSide(side)
           mirror == Path!Mirrored(path, c)
<1>1. DOMAIN mirror = DOMAIN path /\ \A t \in DOMAIN path : mirror[t] = 2 * c - path[t]
  BY DEF Path!Mirrored
<1>2. IsPath(mirror)
  <2>1. \A t \in DOMAIN path : 2 * c - path[t] \in Int
    BY DEF IsPath
  <2>2. mirror = [t \in DOMAIN path |-> 2 * c - path[t]]
    BY DEF Path!Mirrored
  <2>3. QED
    BY <1>1, <2>1, <2>2 DEF IsPath
<1>3. Seen(mirror, maxAge) = Seen(path, maxAge)
  BY <1>1 DEF Seen
<1>4. \A t \in Seen(path, maxAge) :
        Path!SignedMove(other, 2 * c - reference, mirror[t]) = Path!SignedMove(side, reference, path[t])
  BY <1>1 DEF Seen, IsPath, Path!SignedMove, Path!OtherSide
<1>5. For(other, 2 * c - reference, mirror, maxAge) = For(side, reference, path, maxAge)
  BY <1>3, <1>4 DEF For
<1>6. Against(other, 2 * c - reference, mirror, maxAge) = Against(side, reference, path, maxAge)
  BY <1>3, <1>4 DEF Against
<1>7. 2 * c - reference \in Int
  OBVIOUS
<1> DEFINE there == 2 * c - reference
<1> HIDE DEF mirror, other, there
<1>8. there \in Int
  BY <1>7 DEF there
<1>9. Path!ExcursionFromReference(other, there, mirror, maxAge)
        = [mfe |-> Greatest(Seen(mirror, maxAge), For(other, there, mirror, maxAge)),
           mae |-> Greatest(Seen(mirror, maxAge), Against(other, there, mirror, maxAge)),
           timeToMfe |-> Reached(Seen(mirror, maxAge), For(other, there, mirror, maxAge)),
           timeToMae |-> Reached(Seen(mirror, maxAge), Against(other, there, mirror, maxAge))]
  BY <1>2, <1>8, ExcursionIs
<1>10. Path!ExcursionFromReference(side, reference, path, maxAge)
        = [mfe |-> Greatest(Seen(path, maxAge), For(side, reference, path, maxAge)),
           mae |-> Greatest(Seen(path, maxAge), Against(side, reference, path, maxAge)),
           timeToMfe |-> Reached(Seen(path, maxAge), For(side, reference, path, maxAge)),
           timeToMae |-> Reached(Seen(path, maxAge), Against(side, reference, path, maxAge))]
  BY ExcursionIs
<1>11. QED
  BY <1>2, <1>3, <1>5, <1>6, <1>7, <1>9, <1>10 DEF mirror, other, there

LEMMA HitsAreMirrored ==
  ASSUME NEW path, IsPath(path), NEW side, NEW kind, NEW level \in Int, NEW c \in Int
  PROVE  Path!FirstHit(Path!OtherSide(side), kind, 2 * c - level, Path!Mirrored(path, c))
           = Path!FirstHit(side, kind, level, path)
<1> DEFINE mirror == Path!Mirrored(path, c)
           there == {t \in DOMAIN mirror :
             Path!PlanLevelHit(Path!OtherSide(side), kind, 2 * c - level, mirror[t])}
           here == {t \in DOMAIN path : Path!PlanLevelHit(side, kind, level, path[t])}
<1>1. DOMAIN mirror = DOMAIN path /\ \A t \in DOMAIN path : mirror[t] = 2 * c - path[t]
  BY DEF Path!Mirrored
<1>2. \A t \in DOMAIN path : path[t] \in Int
  BY DEF IsPath
<1> HIDE DEF mirror
<1>3. \A t \in DOMAIN path :
        Path!PlanLevelHit(Path!OtherSide(side), kind, 2 * c - level, mirror[t])
          <=> Path!PlanLevelHit(side, kind, level, path[t])
  BY <1>1, <1>2 DEF Path!PlanLevelHit, Path!OtherSide
<1>4. there = here
  BY <1>1, <1>3
<1>5. QED
  BY <1>4 DEF Path!FirstHit, mirror

\* A level is hit if and only if the path goes as far as it.
LEMMA LevelsAreReached ==
  ASSUME NEW path, IsPath(path), NEW side \in {"LONG", "SHORT"}, NEW entry \in Int, NEW level \in Int
  PROVE  LET hit(kind) == Path!FirstHit(side, kind, level, path)
             far == Path!SignedMove(side, entry, level)
             move(t) == Path!SignedMove(side, entry, path[t])
         IN  /\ \A kind \in {"STOP", "TARGET"} :
                  hit(kind) # Null => hit(kind) \in DOMAIN path
             /\ hit("STOP") # Null => move(hit("STOP")) <= far
             /\ \A t \in DOMAIN path : move(t) <= far => hit("STOP") # Null /\ hit("STOP") <= t
             /\ hit("TARGET") # Null => move(hit("TARGET")) >= far
             /\ \A t \in DOMAIN path : move(t) >= far => hit("TARGET") # Null /\ hit("TARGET") <= t
<1> DEFINE at(kind) == {t \in DOMAIN path : Path!PlanLevelHit(side, kind, level, path[t])}
           hit(kind) == Path!FirstHit(side, kind, level, path)
           far == Path!SignedMove(side, entry, level)
           move(t) == Path!SignedMove(side, entry, path[t])
<1>1. \A kind : hit(kind) = Path!First(at(kind))
  BY DEF Path!FirstHit
<1>2. \A kind : at(kind) \in SUBSET Nat /\ at(kind) \subseteq DOMAIN path
  BY DEF IsPath
<1>3. \A t \in DOMAIN path : (t \in at("STOP") <=> move(t) <= far) /\ (t \in at("TARGET") <=> move(t) >= far)
  BY DEF IsPath, Path!PlanLevelHit, Path!SignedMove
<1> HIDE DEF at, hit, far, move
<1>4. \A kind : /\ hit(kind) = Null <=> at(kind) = {}
                /\ hit(kind) # Null => hit(kind) \in at(kind)
                /\ at(kind) # {} => hit(kind) \in at(kind) /\ \A x \in at(kind) : hit(kind) <= x
  BY <1>1, <1>2, FirstIs
<1>5. /\ \A kind \in {"STOP", "TARGET"} : hit(kind) # Null => hit(kind) \in DOMAIN path
      /\ hit("STOP") # Null => move(hit("STOP")) <= far
      /\ \A t \in DOMAIN path : move(t) <= far => hit("STOP") # Null /\ hit("STOP") <= t
      /\ hit("TARGET") # Null => move(hit("TARGET")) >= far
      /\ \A t \in DOMAIN path : move(t) >= far => hit("TARGET") # Null /\ hit("TARGET") <= t
  BY <1>2, <1>3, <1>4
<1>6. QED
  BY <1>5 DEF hit, far, move

LEMMA LastAgeIs ==
  ASSUME NEW path, IsPath(path)
  PROVE  Path!LastAge(path) \in Nat /\ \A t \in DOMAIN path : t <= Path!LastAge(path)
<1>1. IsFiniteSet({0} \cup DOMAIN path)
  <2>1. IsFiniteSet(DOMAIN path \cup {0}) /\ {0} \cup DOMAIN path = DOMAIN path \cup {0}
    BY FS_AddElement DEF IsPath
  <2>2. QED
    BY <2>1
<1>2. {0} \cup DOMAIN path \in SUBSET Int /\ 0 \in {0} \cup DOMAIN path
  BY DEF IsPath
<1>3. Path!LastAge(path) \in {0} \cup DOMAIN path
      /\ \A x \in {0} \cup DOMAIN path : x <= Path!LastAge(path)
  <2> DEFINE S == {0} \cup DOMAIN path
  <2> HIDE DEF S
  <2>1. S \in SUBSET Int /\ S # {} /\ IsFiniteSet(S)
    BY <1>1, <1>2 DEF S
  <2>2. Path!Max(S) \in S /\ \A x \in S : x <= Path!Max(S)
    BY <2>1, PathMax
  <2>3. QED
    BY <2>2 DEF S, Path!LastAge
<1>4. QED
  BY <1>3 DEF IsPath

Plans == [side : {"LONG", "SHORT"}, entry : Int, stop : Int, targets : Seq(Int)]

\* The parts of an entry's score agree: a level is hit if and only if the excursion
\* reaches it, no later than the excursion is at its end.
LEMMA StopsAgree ==
  ASSUME NEW path, IsPath(path), NEW plan \in Plans, Path!WellFormed(plan)
  PROVE  LET told == Path!ExcursionFromReference(plan.side, plan.entry, path, Path!LastAge(path))
             hit == Path!FirstHit(plan.side, "STOP", plan.stop, path)
         IN  /\ hit # Null <=> told.mae >= -Path!SignedMove(plan.side, plan.entry, plan.stop)
             /\ hit # Null => hit <= told.timeToMae
             /\ hit # Null => hit \in DOMAIN path
                              /\ Path!SignedMove(plan.side, plan.entry, path[hit]) < 0
<1> DEFINE last == Path!LastAge(path)
           told == Path!ExcursionFromReference(plan.side, plan.entry, path, last)
           hit == Path!FirstHit(plan.side, "STOP", plan.stop, path)
           far == Path!SignedMove(plan.side, plan.entry, plan.stop)
           move(t) == Path!SignedMove(plan.side, plan.entry, path[t])
<1>1. /\ plan.side \in {"LONG", "SHORT"} /\ plan.entry \in Int /\ plan.stop \in Int
      /\ far \in Int /\ far < 0
  BY DEF Plans, Path!WellFormed, Path!SignedMove
<1>2. Seen(path, last) = DOMAIN path /\ last \in Int
  BY LastAgeIs DEF Seen
<1>3. \A t \in DOMAIN path : move(t) \in Int
  BY <1>1 DEF IsPath, Path!SignedMove
<1>4. /\ told.mae \in Nat /\ \A t \in DOMAIN path : -move(t) <= told.mae
      /\ told.mae > 0 => told.timeToMae \in DOMAIN path /\ -move(told.timeToMae) = told.mae
  BY <1>1, <1>2, ExcursionTells
<1>5. /\ hit # Null => hit \in DOMAIN path /\ move(hit) <= far
      /\ \A t \in DOMAIN path : move(t) <= far => hit # Null /\ hit <= t
  BY <1>1, LevelsAreReached
<1> HIDE DEF last, told, hit, far, move
<1>6. hit # Null => told.mae >= -far /\ hit \in DOMAIN path /\ move(hit) < 0
  BY <1>1, <1>3, <1>4, <1>5
<1>7. told.mae >= -far => hit # Null /\ hit <= told.timeToMae
  <2>1. ASSUME told.mae >= -far
        PROVE  told.timeToMae \in DOMAIN path /\ move(told.timeToMae) <= far
    BY <1>1, <1>3, <1>4, <2>1
  <2>2. QED
    BY <1>5, <2>1
<1>8. QED
  BY <1>6, <1>7 DEF last, told, hit, far, move

LEMMA TargetsAgree ==
  ASSUME NEW path, IsPath(path), NEW plan \in Plans, Path!WellFormed(plan),
         NEW i \in DOMAIN plan.targets
  PROVE  LET told == Path!ExcursionFromReference(plan.side, plan.entry, path, Path!LastAge(path))
             hit == Path!FirstHit(plan.side, "TARGET", plan.targets[i], path)
         IN  /\ hit # Null <=> told.mfe >= Path!SignedMove(plan.side, plan.entry, plan.targets[i])
             /\ hit # Null => hit <= told.timeToMfe
             /\ hit # Null => hit \in DOMAIN path
                              /\ Path!SignedMove(plan.side, plan.entry, path[hit]) > 0
<1> DEFINE last == Path!LastAge(path)
           level == plan.targets[i]
           told == Path!ExcursionFromReference(plan.side, plan.entry, path, last)
           hit == Path!FirstHit(plan.side, "TARGET", level, path)
           far == Path!SignedMove(plan.side, plan.entry, level)
           move(t) == Path!SignedMove(plan.side, plan.entry, path[t])
<1>1. /\ plan.side \in {"LONG", "SHORT"} /\ plan.entry \in Int /\ level \in Int
      /\ far \in Int /\ far > 0
  <2>1. plan.side \in {"LONG", "SHORT"} /\ plan.entry \in Int /\ level \in Int
    BY DEF Plans
  <2>2. far > 0
    BY DEF Path!WellFormed
  <2> HIDE DEF level
  <2>3. far \in Int
    BY <2>1 DEF Path!SignedMove
  <2>4. QED
    BY <2>1, <2>2, <2>3
<1>2. Seen(path, last) = DOMAIN path /\ last \in Int
  BY LastAgeIs DEF Seen
<1>3. \A t \in DOMAIN path : move(t) \in Int
  BY <1>1 DEF IsPath, Path!SignedMove
<1>4. /\ told.mfe \in Nat /\ \A t \in DOMAIN path : move(t) <= told.mfe
      /\ told.mfe > 0 => told.timeToMfe \in DOMAIN path /\ move(told.timeToMfe) = told.mfe
  BY <1>1, <1>2, ExcursionTells
<1> HIDE DEF level
<1>5. /\ hit # Null => hit \in DOMAIN path /\ move(hit) >= far
      /\ \A t \in DOMAIN path : move(t) >= far => hit # Null /\ hit <= t
  BY <1>1, LevelsAreReached
<1> HIDE DEF last, told, hit, far, move
<1>6. hit # Null => told.mfe >= far /\ hit \in DOMAIN path /\ move(hit) > 0
  BY <1>1, <1>3, <1>4, <1>5
<1>7. told.mfe >= far => hit # Null /\ hit <= told.timeToMfe
  <2>1. ASSUME told.mfe >= far
        PROVE  told.timeToMfe \in DOMAIN path /\ move(told.timeToMfe) >= far
    BY <1>1, <1>3, <1>4, <2>1
  <2>2. QED
    BY <1>5, <2>1
<1>8. QED
  BY <1>6, <1>7 DEF last, told, hit, far, move, level

\* Which of a target and the stop came first is never ambiguous.
LEMMA OrderIsKnown ==
  ASSUME NEW path, IsPath(path), NEW plan \in Plans, Path!WellFormed(plan),
         NEW i \in DOMAIN plan.targets
  PROVE  LET hit  == Path!FirstHit(plan.side, "TARGET", plan.targets[i], path)
             stop == Path!FirstHit(plan.side, "STOP", plan.stop, path)
         IN  /\ Path!Ordering(hit, stop) # "AMBIGUOUS_SAME_SAMPLE"
             /\ Path!Before(hit, stop) <=> Path!Ordering(hit, stop) = "TARGET_FIRST"
<1> DEFINE hit  == Path!FirstHit(plan.side, "TARGET", plan.targets[i], path)
           stop == Path!FirstHit(plan.side, "STOP", plan.stop, path)
           move(t) == Path!SignedMove(plan.side, plan.entry, path[t])
<1>1. stop # Null => stop \in DOMAIN path /\ move(stop) < 0
  BY StopsAgree
<1>2. hit # Null => hit \in DOMAIN path /\ move(hit) > 0
  BY TargetsAgree
<1>3. \A t \in DOMAIN path : t \in Nat /\ move(t) \in Int
  BY DEF IsPath, Path!SignedMove, Plans
<1> HIDE DEF hit, stop, move
<1>4. hit # Null /\ stop # Null => hit \in Nat /\ stop \in Nat /\ hit # stop
  BY <1>1, <1>2, <1>3
<1>5. (hit # Null \/ stop # Null) => Path!Before(hit, stop) \/ Path!Before(stop, hit)
  BY <1>4 DEF Path!Before
<1>6. /\ Path!Ordering(hit, stop) # "AMBIGUOUS_SAME_SAMPLE"
      /\ Path!Before(hit, stop) <=> Path!Ordering(hit, stop) = "TARGET_FIRST"
  <2>1. CASE hit = Null /\ stop = Null
    BY <2>1 DEF Path!Ordering, Path!Before
  <2>2. CASE Path!Before(hit, stop)
    BY <1>4, <2>2 DEF Path!Ordering, Path!Before
  <2>3. CASE ~(hit = Null /\ stop = Null) /\ ~Path!Before(hit, stop)
    BY <1>5, <2>3 DEF Path!Ordering
  <2>4. QED
    BY <2>1, <2>2, <2>3
<1>7. QED
  BY <1>6 DEF hit, stop

\* A plan that is mirrored is one of the other side, and as good.
LEMMA PlanIsMirrored ==
  ASSUME NEW plan \in Plans, NEW c \in Int
  PROVE  LET mirror == Path!MirroredPlan(plan, c)
         IN  /\ mirror.side = Path!OtherSide(plan.side) /\ mirror.entry = 2 * c - plan.entry
             /\ mirror.stop = 2 * c - plan.stop
             /\ DOMAIN mirror.targets = DOMAIN plan.targets
             /\ mirror.targets = [i \in DOMAIN plan.targets |-> 2 * c - plan.targets[i]]
             /\ plan.targets = <<>> <=> mirror.targets = <<>>
<1>1. LET mirror == Path!MirroredPlan(plan, c)
      IN  /\ mirror.side = Path!OtherSide(plan.side) /\ mirror.entry = 2 * c - plan.entry
          /\ mirror.stop = 2 * c - plan.stop
          /\ mirror.targets = [i \in DOMAIN plan.targets |-> 2 * c - plan.targets[i]]
  BY DEF Path!MirroredPlan, Plans
<1>2. plan.targets = <<>> <=> [i \in DOMAIN plan.targets |-> 2 * c - plan.targets[i]] = <<>>
  <2>1. plan.targets \in Seq(Int)
    BY DEF Plans
  <2> DEFINE targets == plan.targets
             there == [i \in DOMAIN targets |-> 2 * c - targets[i]]
  <2>2. targets \in Seq(Int)
    BY <2>1
  <2> HIDE DEF targets
  <2>3. there \in Seq(Int) /\ Len(there) = Len(targets)
    <3>1. Len(targets) \in Nat /\ there \in [1 .. Len(targets) -> Int]
      BY <2>2
    <3> HIDE DEF there
    <3>2. QED
      BY <3>1
  <2>4. \A q \in Seq(Int) : q = <<>> <=> Len(q) = 0
    OBVIOUS
  <2> HIDE DEF there
  <2>5. targets = <<>> <=> there = <<>>
    BY <2>2, <2>3, <2>4
  <2>6. QED
    BY <2>5 DEF targets, there
<1>3. QED
  BY <1>1, <1>2

\* A plan's score does not depend on its side.
LEMMA EnterIsMirrored ==
  ASSUME NEW path, IsPath(path), NEW plan \in Plans, NEW firstMinute \in Int, NEW c \in Int
  PROVE  Path!EvaluateEnterPlan(plan, path, firstMinute)
           = Path!EvaluateEnterPlan(Path!MirroredPlan(plan, c), Path!Mirrored(path, c), firstMinute)
<1> DEFINE there == Path!Mirrored(path, c)
           mirror == Path!MirroredPlan(plan, c)
           last == Path!LastAge(path)
           other == Path!OtherSide(plan.side)
<1>1. /\ mirror.side = other /\ mirror.entry = 2 * c - plan.entry
      /\ mirror.stop = 2 * c - plan.stop
      /\ DOMAIN mirror.targets = DOMAIN plan.targets
      /\ \A i \in DOMAIN plan.targets : mirror.targets[i] = 2 * c - plan.targets[i]
      /\ plan.targets = <<>> <=> mirror.targets = <<>>
  <2>1. /\ mirror.side = other /\ mirror.entry = 2 * c - plan.entry
        /\ mirror.stop = 2 * c - plan.stop
        /\ DOMAIN mirror.targets = DOMAIN plan.targets
        /\ mirror.targets = [i \in DOMAIN plan.targets |-> 2 * c - plan.targets[i]]
        /\ plan.targets = <<>> <=> mirror.targets = <<>>
    BY PlanIsMirrored
  <2> HIDE DEF mirror, other
  <2>2. QED
    BY <2>1
<1>2. /\ plan.entry \in Int /\ plan.stop \in Int
      /\ \A i \in DOMAIN plan.targets : plan.targets[i] \in Int
  BY DEF Plans
<1>3. DOMAIN there = DOMAIN path
  BY DEF Path!Mirrored
<1>4. Path!LastAge(there) = last /\ last \in Int
  BY <1>3, LastAgeIs DEF Path!LastAge
<1>5. /\ Path!ExcursionFromReference(plan.side, plan.entry, path, last)
           = Path!ExcursionFromReference(other, 2 * c - plan.entry, there, last)
      /\ Path!ExcursionFromReference(plan.side, plan.entry, path, firstMinute)
           = Path!ExcursionFromReference(other, 2 * c - plan.entry, there, firstMinute)
  BY <1>2, <1>4, MovesAreMirrored
<1>6. Path!FirstHit(plan.side, "STOP", plan.stop, path)
        = Path!FirstHit(other, "STOP", 2 * c - plan.stop, there)
  BY <1>2, HitsAreMirrored
<1>7. \A i \in DOMAIN plan.targets :
        Path!FirstHit(plan.side, "TARGET", plan.targets[i], path)
          = Path!FirstHit(other, "TARGET", 2 * c - plan.targets[i], there)
  <2>1. TAKE i \in DOMAIN plan.targets
  <2> DEFINE level == plan.targets[i]
  <2>2. level \in Int
    BY <1>2
  <2> HIDE DEF level
  <2>3. Path!FirstHit(plan.side, "TARGET", level, path)
          = Path!FirstHit(other, "TARGET", 2 * c - level, there)
    BY <2>2, HitsAreMirrored
  <2>4. QED
    BY <2>3 DEF level
<1>8. plan.entry = plan.stop <=> 2 * c - plan.entry = 2 * c - plan.stop
  BY <1>2
<1> HIDE DEF there, mirror, last, other
<1>9. Path!FirstHit(mirror.side, "STOP", mirror.stop, there)
        = Path!FirstHit(plan.side, "STOP", plan.stop, path)
  BY <1>1, <1>6
<1>10. \A i \in DOMAIN plan.targets :
         Path!FirstHit(mirror.side, "TARGET", mirror.targets[i], there)
           = Path!FirstHit(plan.side, "TARGET", plan.targets[i], path)
  BY <1>1, <1>7
<1>11. /\ Path!ExcursionFromReference(mirror.side, mirror.entry, there, Path!LastAge(there))
            = Path!ExcursionFromReference(plan.side, plan.entry, path, Path!LastAge(path))
       /\ Path!ExcursionFromReference(mirror.side, mirror.entry, there, firstMinute)
            = Path!ExcursionFromReference(plan.side, plan.entry, path, firstMinute)
  BY <1>1, <1>4, <1>5 DEF last
<1>12. (mirror.targets = <<>> \/ DOMAIN there = {} \/ mirror.entry = mirror.stop)
         <=> (plan.targets = <<>> \/ DOMAIN path = {} \/ plan.entry = plan.stop)
  BY <1>1, <1>3, <1>8
<1> DEFINE one(p, at, stopHit, i) ==
             LET hit == Path!FirstHit(p.side, "TARGET", p.targets[i], at)
             IN  [hit |-> hit, ordering |-> Path!Ordering(hit, stopHit),
                  beforeStop |-> Path!Before(hit, stopHit)]
           told(p, at) == [i \in DOMAIN p.targets |-> one(p, at, Path!FirstHit(p.side, "STOP", p.stop, at), i)]
<1>13. told(mirror, there) = told(plan, path)
  <2>1. \A i \in DOMAIN plan.targets :
          one(mirror, there, Path!FirstHit(mirror.side, "STOP", mirror.stop, there), i)
            = one(plan, path, Path!FirstHit(plan.side, "STOP", plan.stop, path), i)
    BY <1>9, <1>10
  <2> HIDE DEF one
  <2>2. QED
    BY <1>1, <2>1
<1>14. \A p, at : Path!EvaluateEnterPlan(p, at, firstMinute) =
         IF p.targets = <<>> \/ DOMAIN at = {} \/ p.entry = p.stop
         THEN [available |-> FALSE]
         ELSE [available |-> TRUE,
               excursion |-> Path!ExcursionFromReference(p.side, p.entry, at, Path!LastAge(at)),
               initialAdverse |-> Path!ExcursionFromReference(p.side, p.entry, at, firstMinute).mae,
               stopHit |-> Path!FirstHit(p.side, "STOP", p.stop, at),
               targets |-> told(p, at)]
  BY DEF Path!EvaluateEnterPlan
<1> HIDE DEF told
<1>15. Path!EvaluateEnterPlan(plan, path, firstMinute) = Path!EvaluateEnterPlan(mirror, there, firstMinute)
  BY <1>9, <1>11, <1>12, <1>13, <1>14
<1>16. QED
  BY <1>15 DEF mirror, there

\* A plan's score does not depend on its side, and its parts agree.
LEMMA EnterAgrees ==
  ASSUME NEW path, IsPath(path), NEW plan \in Plans, NEW firstMinute \in Int, NEW c \in Int
  PROVE  Path!EnterScoreAgrees(plan, path, firstMinute, c)
<1> DEFINE score == Path!EvaluateEnterPlan(plan, path, firstMinute)
           last == Path!LastAge(path)
           all == Path!ExcursionFromReference(plan.side, plan.entry, path, last)
           early == Path!ExcursionFromReference(plan.side, plan.entry, path, firstMinute)
           stop == Path!FirstHit(plan.side, "STOP", plan.stop, path)
           hit(i) == Path!FirstHit(plan.side, "TARGET", plan.targets[i], path)
           far(level) == Path!SignedMove(plan.side, plan.entry, level)
           Agrees == /\ stop # Null <=> all.mae >= -far(plan.stop)
                     /\ stop # Null => stop <= all.timeToMae
                     /\ early.mae <= all.mae
                     /\ \A i \in DOMAIN plan.targets :
                          /\ hit(i) # Null <=> all.mfe >= far(plan.targets[i])
                          /\ hit(i) # Null => hit(i) <= all.timeToMfe
                          /\ Path!Ordering(hit(i), stop) # "AMBIGUOUS_SAME_SAMPLE"
                          /\ Path!Before(hit(i), stop) <=> Path!Ordering(hit(i), stop) = "TARGET_FIRST"
<1>1. early.mae <= all.mae
  <2> DEFINE move(t) == Path!SignedMove(plan.side, plan.entry, path[t])
  <2>1. last \in Int /\ Seen(path, last) = DOMAIN path /\ Seen(path, firstMinute) \subseteq DOMAIN path
    BY LastAgeIs DEF Seen
  <2>2. plan.entry \in Int
    BY DEF Plans
  <2>3. /\ early.mae \in Nat
        /\ early.mae > 0 => early.timeToMae \in Seen(path, firstMinute)
                            /\ -move(early.timeToMae) = early.mae
    BY <2>2, ExcursionTells
  <2>4. all.mae \in Nat /\ \A t \in DOMAIN path : -move(t) <= all.mae
    BY <2>1, <2>2, ExcursionTells
  <2> HIDE DEF early, all, move
  <2>5. QED
    BY <2>1, <2>3, <2>4
<1>2. ASSUME Path!WellFormed(plan) PROVE Agrees
  <2>1. (stop # Null <=> all.mae >= -far(plan.stop)) /\ (stop # Null => stop <= all.timeToMae)
    BY <1>2, StopsAgree
  <2>2. \A i \in DOMAIN plan.targets :
          (hit(i) # Null <=> all.mfe >= far(plan.targets[i])) /\ (hit(i) # Null => hit(i) <= all.timeToMfe)
    BY <1>2, TargetsAgree
  <2>3. \A i \in DOMAIN plan.targets :
          /\ Path!Ordering(hit(i), stop) # "AMBIGUOUS_SAME_SAMPLE"
          /\ Path!Before(hit(i), stop) <=> Path!Ordering(hit(i), stop) = "TARGET_FIRST"
    BY <1>2, OrderIsKnown
  <2> HIDE DEF stop, hit, all, early, far
  <2>4. QED
    BY <1>1, <2>1, <2>2, <2>3
<1>3. ASSUME score.available
      PROVE  /\ score.excursion = all /\ score.initialAdverse = early.mae /\ score.stopHit = stop
             /\ \A i \in DOMAIN plan.targets :
                  /\ score.targets[i].hit = hit(i)
                  /\ score.targets[i].ordering = Path!Ordering(hit(i), stop)
                  /\ score.targets[i].beforeStop = Path!Before(hit(i), stop)
  <2>1. ~(plan.targets = <<>> \/ DOMAIN path = {} \/ plan.entry = plan.stop)
    BY <1>3 DEF Path!EvaluateEnterPlan
  <2>2. QED
    BY <2>1 DEF Path!EvaluateEnterPlan
<1>4. score = Path!EvaluateEnterPlan(Path!MirroredPlan(plan, c), Path!Mirrored(path, c), firstMinute)
  BY EnterIsMirrored
<1> HIDE DEF score, last, all, early, stop, hit, far
<1>5. ASSUME Path!WellFormed(plan), score.available
      PROVE  /\ score = Path!EvaluateEnterPlan(Path!MirroredPlan(plan, c), Path!Mirrored(path, c), firstMinute)
             /\ score.stopHit # Null <=> score.excursion.mae >= -far(plan.stop)
             /\ score.stopHit # Null => score.stopHit <= score.excursion.timeToMae
             /\ score.initialAdverse <= score.excursion.mae
             /\ \A i \in DOMAIN plan.targets :
                  /\ score.targets[i].hit # Null <=> score.excursion.mfe >= far(plan.targets[i])
                  /\ score.targets[i].hit # Null => score.targets[i].hit <= score.excursion.timeToMfe
                  /\ score.targets[i].ordering # "AMBIGUOUS_SAME_SAMPLE"
                  /\ score.targets[i].beforeStop <=> score.targets[i].ordering = "TARGET_FIRST"
  <2>1. Agrees
    BY <1>2, <1>5
  <2>2. QED
    BY <1>3, <1>4, <1>5, <2>1
<1>6. QED
  BY <1>5 DEF Path!EnterScoreAgrees, score, far

\* What holds of 0 and of the next number holds of all numbers up to the last.
LEMMA UpToLast ==
  ASSUME NEW last \in Nat, NEW T, 0 \in T, \A n \in 1 .. last : n - 1 \in T => n \in T
  PROVE  \A n \in 0 .. last : n \in T
<1> DEFINE Missing == {n \in 0 .. last : n \notin T}
<1>1. ASSUME Missing # {}
      PROVE  FALSE
  <2>1. Missing \in SUBSET Nat
    OBVIOUS
  <2> HIDE DEF Missing
  <2>2. PICK m \in Missing : \A n \in Missing : m <= n
    BY <1>1, <2>1, LeastNumber
  <2>3. m \in 0 .. last /\ m \notin T
    BY <2>2 DEF Missing
  <2>4. m \in 1 .. last
    BY <2>3
  <2>5. m - 1 \in 0 .. last /\ ~(m <= m - 1)
    BY <2>4
  <2>6. m - 1 \in T
    BY <2>2, <2>5 DEF Missing
  <2>7. QED
    BY <2>3, <2>4, <2>6
<1>2. QED
  BY <1>1

\* A step can be taken again and again.
Iterates(f, S, first, step, last) ==
  /\ f \in [0 .. last -> S] /\ f[0] = first
  /\ \A n \in 1 .. last : f[n] = step[<<f[n - 1], n>>]

LEMMA Iterated ==
  ASSUME NEW last \in Nat, NEW S, NEW first \in S, NEW step \in [S \X (1 .. last) -> S]
  PROVE  \E f : Iterates(f, S, first, step, last)
<1> DEFINE Taken(f, m) == /\ f \in [0 .. m -> S] /\ f[0] = first
                          /\ \A n \in 1 .. m : f[n] = step[<<f[n - 1], n>>]
           T == {m \in 0 .. last : \E f : Taken(f, m)}
<1>1. 0 \in T
  <2> DEFINE f == [n \in 0 .. 0 |-> first]
  <2>1. f \in [0 .. 0 -> S] /\ f[0] = first /\ 1 .. 0 = {}
    OBVIOUS
  <2> HIDE DEF f
  <2>2. Taken(f, 0)
    BY <2>1
  <2>3. QED
    BY <2>2
<1>2. ASSUME NEW m \in 1 .. last, m - 1 \in T
      PROVE  m \in T
  <2>1. PICK g : Taken(g, m - 1)
    BY <1>2
  <2> DEFINE f == [n \in 0 .. m |-> IF n = m THEN step[<<g[m - 1], m>>] ELSE g[n]]
  <2>2. m \in 0 .. last /\ m - 1 \in 0 .. m - 1 /\ 0 \in 0 .. m - 1 /\ m \in 0 .. m
    OBVIOUS
  <2>3. \A n \in 0 .. m : n # m => n \in 0 .. m - 1
    OBVIOUS
  <2>4. step[<<g[m - 1], m>>] \in S
    BY <2>1, <2>2
  <2>5. f \in [0 .. m -> S]
    BY <2>1, <2>3, <2>4
  <2>6. f[0] = first
    BY <2>1, <2>2
  <2>7. ASSUME NEW n \in 1 .. m
        PROVE  f[n] = step[<<f[n - 1], n>>]
    <3>1. n \in 0 .. m /\ n - 1 \in 0 .. m /\ n - 1 # m
      OBVIOUS
    <3>2. f[n - 1] = g[n - 1]
      BY <3>1
    <3>3. CASE n = m
      BY <3>1, <3>2, <3>3
    <3>4. CASE n # m
      <4>1. n \in 1 .. m - 1
        BY <3>4
      <4>2. QED
        BY <2>1, <3>1, <3>2, <3>4, <4>1
    <3>5. QED
      BY <3>3, <3>4
  <2> HIDE DEF f
  <2>8. Taken(f, m)
    BY <2>5, <2>6, <2>7
  <2>9. QED
    BY <2>2, <2>8
<1>3. last \in T
  <2> HIDE DEF T
  <2>1. last \in 0 .. last
    OBVIOUS
  <2>2. QED
    BY <1>1, <1>2, <2>1, UpToLast
<1>4. PICK f : Taken(f, last)
  BY <1>3
<1>5. QED
  BY <1>4 DEF Iterates

\* A condition that has been met at every live age since s
Holds(live, met, s, t) == \A u \in live : u \in s .. t => u \in met
\* It has been met for as long as it takes.
Sure(live, met, confirm, t) ==
  \E s \in live : s <= t /\ t - s >= confirm /\ Holds(live, met, s, t)

WaitStates(live) ==
  [matchedAt : live \cup {Null}, trigger : live \cup {Null}, invalidation : live \cup {Null}]

\* What the loop knows at t: the first age at which it is sure, unless it was
\* invalidated by then, or that neither has been, and how long it has been met
Waited(live, met, invalid, confirm, r, t) ==
  /\ r \in WaitStates(live) /\ (r.trigger = Null \/ r.invalidation = Null)
  /\ r.trigger # Null =>
       /\ r.trigger <= t /\ Sure(live, met, confirm, r.trigger)
       /\ \A s \in live : s < r.trigger => ~Sure(live, met, confirm, s)
       /\ \A s \in live : s <= r.trigger => s \notin invalid
  /\ r.invalidation # Null =>
       /\ r.invalidation <= t /\ r.invalidation \in invalid
       /\ \A s \in live : s < r.invalidation => s \notin invalid /\ ~Sure(live, met, confirm, s)
  /\ r.trigger = Null /\ r.invalidation = Null =>
       /\ \A s \in live : s <= t => s \notin invalid /\ ~Sure(live, met, confirm, s)
       /\ r.matchedAt # Null => r.matchedAt <= t /\ Holds(live, met, r.matchedAt, t)
       /\ \A s \in live : s <= t /\ (r.matchedAt = Null \/ s < r.matchedAt) => ~Holds(live, met, s, t)

\* Nothing is learnt at an age that is not of a sample.
LEMMA WaitedStays ==
  ASSUME NEW live \in SUBSET (Nat \ {0}), NEW met, NEW invalid, NEW confirm \in Int, NEW r,
         NEW t \in Nat \ {0}, Waited(live, met, invalid, confirm, r, t - 1), t \notin live
  PROVE  Waited(live, met, invalid, confirm, r, t)
<1>1. \A s \in live : s <= t - 1 <=> s <= t
  OBVIOUS
<1>2. \A s \in live : Holds(live, met, s, t - 1) <=> Holds(live, met, s, t)
  BY DEF Holds
<1>3. \A x \in live \cup {Null} : x # Null => x \in live
  OBVIOUS
<1>4. r \in WaitStates(live) /\ r.trigger \in live \cup {Null}
      /\ r.invalidation \in live \cup {Null} /\ r.matchedAt \in live \cup {Null}
  BY DEF Waited, WaitStates
<1>5. QED
  BY <1>1, <1>2, <1>3, <1>4 DEF Waited

\* Once it is decided, nothing matters any more.
LEMMA WaitedIsDecided ==
  ASSUME NEW live \in SUBSET (Nat \ {0}), NEW met, NEW invalid, NEW confirm \in Int, NEW r,
         NEW t \in Nat \ {0}, Waited(live, met, invalid, confirm, r, t - 1),
         r.trigger # Null \/ r.invalidation # Null
  PROVE  Waited(live, met, invalid, confirm, r, t)
<1>1. r \in WaitStates(live) /\ r.trigger \in live \cup {Null} /\ r.invalidation \in live \cup {Null}
  BY DEF Waited, WaitStates
<1>2. (r.trigger # Null => r.trigger \in Nat) /\ (r.invalidation # Null => r.invalidation \in Nat)
  BY <1>1
<1>3. (r.trigger # Null => r.trigger <= t) /\ (r.invalidation # Null => r.invalidation <= t)
  BY <1>2 DEF Waited
<1>4. QED
  BY <1>1, <1>3 DEF Waited

\* A sample invalidates what is waited for.
LEMMA WaitedIsInvalid ==
  ASSUME NEW live \in SUBSET (Nat \ {0}), NEW met, NEW invalid, NEW confirm \in Int,
         NEW r, NEW y, NEW t \in live, Waited(live, met, invalid, confirm, r, t - 1),
         r.trigger = Null, r.invalidation = Null, t \in invalid,
         y \in WaitStates(live), y.trigger = Null, y.invalidation = t
  PROVE  Waited(live, met, invalid, confirm, y, t)
<1>1. \A s \in live : s < t => s <= t - 1
  <2> SUFFICES ASSUME NEW s \in live, s < t PROVE s <= t - 1
    OBVIOUS
  <2>1. t \in Nat /\ s \in Nat
    OBVIOUS
  <2>2. QED
    BY <2>1
<1>2. \A s \in live : s < t => s \notin invalid /\ ~Sure(live, met, confirm, s)
  BY <1>1 DEF Waited
<1>3. t # Null
  BY NullAssumption
<1>4. t <= t
  OBVIOUS
<1>5. QED
  BY <1>2, <1>3, <1>4 DEF Waited

\* A sample that does not match starts the window anew.
LEMMA WaitedIsReset ==
  ASSUME NEW live \in SUBSET (Nat \ {0}), NEW met, NEW invalid, NEW confirm \in Int,
         NEW r, NEW y, NEW t \in live, Waited(live, met, invalid, confirm, r, t - 1),
         r.trigger = Null, r.invalidation = Null, t \notin invalid, t \notin met,
         y \in WaitStates(live), y.trigger = Null, y.invalidation = Null, y.matchedAt = Null
  PROVE  Waited(live, met, invalid, confirm, y, t)
<1>1. \A s \in live : s <= t => ~Holds(live, met, s, t)
  BY DEF Holds
<1>2. ~Sure(live, met, confirm, t)
  BY <1>1 DEF Sure
<1>3. \A s \in live : s <= t => s \notin invalid /\ ~Sure(live, met, confirm, s)
  <2>1. \A s \in live : s <= t => s <= t - 1 \/ s = t
    OBVIOUS
  <2>2. QED
    BY <1>2, <2>1 DEF Waited
<1>4. QED
  BY <1>1, <1>3 DEF Waited

\* A sample that matches goes on with the window, or ends it.
LEMMA WaitedIsMet ==
  ASSUME NEW live \in SUBSET (Nat \ {0}), NEW met, NEW invalid, NEW confirm \in Int,
         NEW r, NEW y, NEW t \in live, Waited(live, met, invalid, confirm, r, t - 1),
         r.trigger = Null, r.invalidation = Null, t \notin invalid, t \in met,
         NEW since, since = IF r.matchedAt = Null THEN t ELSE r.matchedAt,
         y \in WaitStates(live), y.invalidation = Null, y.matchedAt = since,
         y.trigger = IF t - since >= confirm THEN t ELSE Null
  PROVE  Waited(live, met, invalid, confirm, y, t)
<1>1. r.matchedAt \in live \cup {Null} /\ t # Null
  BY NullAssumption DEF Waited, WaitStates
<1>2. since \in live /\ since <= t
  <2>1. CASE r.matchedAt = Null
    BY <2>1
  <2>2. CASE r.matchedAt # Null
    <3>1. r.matchedAt \in live /\ r.matchedAt <= t - 1
      BY <1>1, <2>2 DEF Waited
    <3>2. QED
      BY <2>2, <3>1
  <2>3. QED
    BY <2>1, <2>2
<1>3. \A s \in live : s <= t => s <= t - 1 \/ s = t
  OBVIOUS
<1>4. Holds(live, met, since, t)
  <2>1. CASE r.matchedAt = Null
    BY <2>1 DEF Holds
  <2>2. CASE r.matchedAt # Null
    <3>1. Holds(live, met, since, t - 1)
      BY <2>2 DEF Waited
    <3>2. \A u \in live : u \in since .. t => u \in since .. t - 1 \/ u = t
      BY <1>2
    <3>3. QED
      BY <3>1, <3>2 DEF Holds
  <2>3. QED
    BY <2>1, <2>2
<1>5. \A s \in live : s < since => ~Holds(live, met, s, t)
  <2>1. \A s \in live : s < since => s <= t - 1
    BY <1>2
  <2>2. \A s \in live : s < since => ~Holds(live, met, s, t - 1)
    <3>1. CASE r.matchedAt = Null
      BY <2>1, <3>1 DEF Waited
    <3>2. CASE r.matchedAt # Null
      BY <2>1, <3>2 DEF Waited
    <3>3. QED
      BY <3>1, <3>2
  <2>3. \A s \in live : Holds(live, met, s, t) => Holds(live, met, s, t - 1)
    BY DEF Holds
  <2>4. QED
    BY <2>2, <2>3
<1>6. Sure(live, met, confirm, t) <=> t - since >= confirm
  <2>1. t - since >= confirm => Sure(live, met, confirm, t)
    BY <1>2, <1>4 DEF Sure
  <2>2. ASSUME Sure(live, met, confirm, t)
        PROVE  t - since >= confirm
    <3>1. PICK s \in live : s <= t /\ t - s >= confirm /\ Holds(live, met, s, t)
      BY <2>2 DEF Sure
    <3>2. ~(s < since)
      BY <1>5, <3>1
    <3>3. QED
      BY <1>2, <3>1, <3>2
  <2>3. QED
    BY <2>1, <2>2
<1>7. \A s \in live : s < t => s \notin invalid /\ ~Sure(live, met, confirm, s)
  <2>1. \A s \in live : s < t => s <= t - 1
    OBVIOUS
  <2>2. QED
    BY <2>1 DEF Waited
<1>8. CASE t - since >= confirm
  <2>1. y.trigger = t /\ y.trigger # Null
    BY <1>1, <1>8
  <2>2. Sure(live, met, confirm, t)
    BY <1>6, <1>8
  <2>3. t <= t /\ \A s \in live : s <= t => s \notin invalid
    <3>1. \A s \in live : s <= t => s < t \/ s = t
      OBVIOUS
    <3>2. QED
      BY <1>7, <3>1
  <2>4. QED
    BY <1>7, <2>1, <2>2, <2>3 DEF Waited
<1>9. CASE ~(t - since >= confirm)
  <2>1. y.trigger = Null /\ since # Null
    BY <1>2, <1>9, NullAssumption
  <2>2. ~Sure(live, met, confirm, t)
    BY <1>6, <1>9
  <2>3. \A s \in live : s <= t => s \notin invalid /\ ~Sure(live, met, confirm, s)
    <3>1. \A s \in live : s <= t => s < t \/ s = t
      OBVIOUS
    <3>2. QED
      BY <1>7, <2>2, <3>1
  <2>4. QED
    BY <1>2, <1>4, <1>5, <2>1, <2>3 DEF Waited
<1>10. QED
  BY <1>8, <1>9

IsContract(contract) ==
  /\ contract.triggerPrice \in Int /\ contract.invalidationPrice \in Int
  /\ contract.expiry \in Int /\ contract.confirm \in Int

\* When the conditions of a contract are met
MetAt(contract, path) ==
  {t \in Path!Live(contract, path) :
     Path!ConditionMet(contract.triggerCondition, path[t], contract.triggerPrice)}
InvalidAt(contract, path) ==
  {t \in Path!Live(contract, path) :
     Path!ConditionMet(contract.invalidationCondition, path[t], contract.invalidationPrice)}

WaitedOn(contract, path, r, t) ==
  Waited(Path!Live(contract, path), MetAt(contract, path), InvalidAt(contract, path),
         contract.confirm, r, t)

\* What one round of the loop knows follows from what the one before knew.
LEMMA WaitStepIs ==
  ASSUME NEW path, IsPath(path), 0 \notin DOMAIN path, NEW contract, IsContract(contract),
         NEW t \in Path!Live(contract, path), NEW r, WaitedOn(contract, path, r, t - 1)
  PROVE  WaitedOn(contract, path, Path!WaitStep(contract, path, r, t), t)
<1> DEFINE live == Path!Live(contract, path)
           met == MetAt(contract, path)
           invalid == InvalidAt(contract, path)
           confirm == contract.confirm
           since == IF r.matchedAt = Null THEN t ELSE r.matchedAt
           trigger == IF t - since >= confirm THEN t ELSE Null
           y == Path!WaitStep(contract, path, r, t)
<1>1. live \in SUBSET (Nat \ {0}) /\ confirm \in Int /\ t \in live
  BY DEF Path!Live, IsPath, IsContract
<1>2. /\ t \in met <=> Path!ConditionMet(contract.triggerCondition, path[t], contract.triggerPrice)
      /\ t \in invalid <=> Path!ConditionMet(contract.invalidationCondition, path[t],
                                             contract.invalidationPrice)
  BY <1>1 DEF MetAt, InvalidAt
<1>3. y = IF r.trigger # Null \/ r.invalidation # Null THEN r
          ELSE IF t \in invalid THEN [r EXCEPT !.invalidation = t]
          ELSE IF t \notin met THEN [r EXCEPT !.matchedAt = Null]
          ELSE [r EXCEPT !.matchedAt = since, !.trigger = trigger]
  BY <1>2 DEF Path!WaitStep
<1>4. Waited(live, met, invalid, confirm, r, t - 1)
  BY DEF WaitedOn
<1>5. r \in WaitStates(live) /\ since \in live \cup {Null} /\ trigger \in live \cup {Null}
  BY <1>1, <1>4 DEF Waited, WaitStates
<1> HIDE DEF live, met, invalid, confirm, since, trigger, y
<1>6. CASE r.trigger # Null \/ r.invalidation # Null
  <2>1. y = r
    BY <1>3, <1>6
  <2>2. t \in Nat \ {0}
    BY <1>1
  <2>3. Waited(live, met, invalid, confirm, r, t)
    BY <1>1, <1>4, <1>6, <2>2, WaitedIsDecided
  <2>4. QED
    BY <2>1, <2>3 DEF WaitedOn, y, live, met, invalid, confirm
<1>7. CASE r.trigger = Null /\ r.invalidation = Null /\ t \in invalid
  <2>1. y = [r EXCEPT !.invalidation = t]
    BY <1>3, <1>7
  <2>2. y \in WaitStates(live) /\ y.trigger = Null /\ y.invalidation = t
    BY <1>1, <1>5, <1>7, <2>1 DEF WaitStates
  <2>3. Waited(live, met, invalid, confirm, y, t)
    BY <1>1, <1>4, <1>7, <2>2, WaitedIsInvalid
  <2>4. QED
    BY <2>3 DEF WaitedOn, y, live, met, invalid, confirm
<1>8. CASE r.trigger = Null /\ r.invalidation = Null /\ t \notin invalid /\ t \notin met
  <2>1. y = [r EXCEPT !.matchedAt = Null]
    BY <1>3, <1>8
  <2>2. y \in WaitStates(live) /\ y.trigger = Null /\ y.invalidation = Null /\ y.matchedAt = Null
    BY <1>5, <1>8, <2>1 DEF WaitStates
  <2>3. Waited(live, met, invalid, confirm, y, t)
    BY <1>1, <1>4, <1>8, <2>2, WaitedIsReset
  <2>4. QED
    BY <2>3 DEF WaitedOn, y, live, met, invalid, confirm
<1>9. CASE r.trigger = Null /\ r.invalidation = Null /\ t \notin invalid /\ t \in met
  <2>1. y = [r EXCEPT !.matchedAt = since, !.trigger = trigger]
    BY <1>3, <1>9
  <2>2. y \in WaitStates(live) /\ y.invalidation = Null /\ y.matchedAt = since /\ y.trigger = trigger
    BY <1>5, <1>9, <2>1 DEF WaitStates
  <2>3. Waited(live, met, invalid, confirm, y, t)
    <3>1. since = IF r.matchedAt = Null THEN t ELSE r.matchedAt
      BY DEF since
    <3>2. y.trigger = IF t - since >= confirm THEN t ELSE Null
      BY <2>2 DEF trigger
    <3>3. QED
      BY <1>1, <1>4, <1>9, <2>2, <3>1, <3>2, WaitedIsMet
  <2>4. QED
    BY <2>3 DEF WaitedOn, y, live, met, invalid, confirm
<1>10. QED
  BY <1>6, <1>7, <1>8, <1>9

\* The loop of evaluateWaitTrigger, by age
NothingYet == [matchedAt |-> Null, trigger |-> Null, invalidation |-> Null]
WaitUpTo(contract, path) ==
  CHOOSE f : f = [t \in 0 .. Path!LastAge(path) |->
                    IF t = 0 THEN NothingYet
                    ELSE IF t \in Path!Live(contract, path)
                    THEN Path!WaitStep(contract, path, f[t - 1], t) ELSE f[t - 1]]

LEMMA WaitLoopIs ==
  ASSUME NEW path, IsPath(path), 0 \notin DOMAIN path, NEW contract, IsContract(contract)
  PROVE  WaitedOn(contract, path, WaitUpTo(contract, path)[Path!LastAge(path)], Path!LastAge(path))
<1> DEFINE L == Path!LastAge(path)
           live == Path!Live(contract, path)
           After(r, t) == IF t \in live THEN Path!WaitStep(contract, path, r, t) ELSE r
           All == WaitStates(live)
           step == [x \in All \X (1 .. L) |-> After(x[1], x[2])]
           Solves(f) == f = [t \in 0 .. L |-> IF t = 0 THEN NothingYet ELSE After(f[t - 1], t)]
           c == WaitUpTo(contract, path)
<1>1. L \in Nat /\ live \in SUBSET (Nat \ {0})
  BY LastAgeIs DEF Path!Live, IsPath
<1>2. c = CHOOSE f : Solves(f)
  BY DEF WaitUpTo
<1> HIDE DEF c
<1>3. NothingYet \in All
  BY DEF NothingYet, WaitStates
<1>4. ASSUME NEW r \in All, NEW t \in 1 .. L
      PROVE  After(r, t) \in All
  <2>1. ASSUME t \in live
        PROVE  Path!WaitStep(contract, path, r, t) \in All
    <3>1. /\ \A x \in live \cup {Null} : [r EXCEPT !.invalidation = x] \in All
          /\ \A x \in live \cup {Null} : [r EXCEPT !.matchedAt = x] \in All
          /\ \A x, z \in live \cup {Null} : [r EXCEPT !.matchedAt = x, !.trigger = z] \in All
      BY DEF WaitStates
    <3>2. r.matchedAt \in live \cup {Null}
      BY DEF WaitStates
    <3> HIDE DEF live, All
    <3>3. QED
      BY <2>1, <3>1, <3>2 DEF Path!WaitStep
  <2>2. QED
    BY <2>1
<1> HIDE DEF All, After
<1>5. step \in [All \X (1 .. L) -> All]
  BY <1>4
<1>6. PICK f : Iterates(f, All, NothingYet, step, L)
  <2> HIDE DEF L, step
  <2>1. QED
    BY <1>1, <1>3, <1>5, Iterated
<1>7. \A t \in 1 .. L : f[t] = After(f[t - 1], t)
  <2> SUFFICES ASSUME NEW t \in 1 .. L PROVE f[t] = After(f[t - 1], t)
    OBVIOUS
  <2>1. t - 1 \in 0 .. L
    BY <1>1
  <2>2. <<f[t - 1], t>> \in All \X (1 .. L)
    BY <1>6, <2>1 DEF Iterates
  <2>3. QED
    BY <1>6, <2>2 DEF Iterates
<1> HIDE DEF step
<1>8. Solves(f)
  <2> DEFINE g == [t \in 0 .. L |-> IF t = 0 THEN NothingYet ELSE After(f[t - 1], t)]
  <2>1. ASSUME NEW t \in 0 .. L
        PROVE  f[t] = g[t]
    <3>1. t # 0 => t \in 1 .. L
      BY <1>1
    <3>2. QED
      BY <1>6, <1>7, <3>1 DEF Iterates
  <2>2. QED
    BY <1>6, <2>1 DEF Iterates
<1>9. Solves(c)
  BY <1>2, <1>8
<1>10. c[0] = NothingYet /\ \A t \in 1 .. L : c[t] = After(c[t - 1], t)
  <2> HIDE DEF L
  <2>1. 0 \in 0 .. L /\ \A t \in 1 .. L : t \in 0 .. L /\ t # 0
    BY <1>1
  <2>2. QED
    BY <1>9, <2>1
<1> DEFINE T == {t \in 0 .. L : WaitedOn(contract, path, c[t], t)}
<1>11. \A t \in 0 .. L : t \in T
  <2>1. WaitedOn(contract, path, NothingYet, 0)
    <3>1. \A s \in live : ~(s <= 0)
      BY <1>1
    <3>2. /\ NothingYet.matchedAt = Null /\ NothingYet.trigger = Null /\ NothingYet.invalidation = Null
      BY DEF NothingYet
    <3>3. NothingYet \in WaitStates(live)
      BY <1>3 DEF All
    <3>4. QED
      BY <3>1, <3>2, <3>3 DEF WaitedOn, Waited
  <2>2. ASSUME NEW t \in 1 .. L, WaitedOn(contract, path, c[t - 1], t - 1)
        PROVE  WaitedOn(contract, path, c[t], t)
    <3>1. CASE t \in live
      <4>1. c[t] = Path!WaitStep(contract, path, c[t - 1], t)
        BY <1>10, <3>1 DEF After
      <4>2. QED
        BY <2>2, <3>1, <4>1, WaitStepIs
    <3>2. CASE t \notin live
      <4>1. c[t] = c[t - 1]
        BY <1>10, <3>2 DEF After
      <4>2. contract.confirm \in Int /\ t \in Nat \ {0}
        BY <1>1 DEF IsContract
      <4>3. Waited(live, MetAt(contract, path), InvalidAt(contract, path), contract.confirm, c[t - 1], t)
        BY <1>1, <2>2, <3>2, <4>2, WaitedStays DEF WaitedOn
      <4>4. QED
        BY <4>1, <4>3 DEF WaitedOn
    <3>3. QED
      BY <3>1, <3>2
  <2>3. 0 \in T
    BY <1>1, <1>10, <2>1
  <2>4. ASSUME NEW t \in 1 .. L, t - 1 \in T
        PROVE  t \in T
    BY <1>1, <2>2, <2>4
  <2> HIDE DEF T, L
  <2>5. QED
    BY <1>1, <2>3, <2>4, UpToLast
<1>12. L \in 0 .. L
  BY <1>1
<1>13. QED
  BY <1>11, <1>12 DEF c

\* The path from some age on
From(path, at, window) ==
  [s \in {t - at : t \in {u \in DOMAIN path : u \in at .. at + window}} |-> path[s + at]]

\* The path after a trigger is one, and starts at its price.
LEMMA AfterTriggerIsPath ==
  ASSUME NEW path, IsPath(path), NEW at \in DOMAIN path, NEW window \in Nat
  PROVE  LET later == From(path, at, window)
         IN  IsPath(later) /\ 0 \in DOMAIN later /\ later[0] = path[at]
<1> DEFINE after == {t \in DOMAIN path : t \in at .. at + window}
           f == [t \in after |-> t - at]
           ages == {t - at : t \in after}
           later == [s \in ages |-> path[s + at]]
<1>1. at \in Nat /\ at \in after /\ after \subseteq Nat /\ after \subseteq DOMAIN path
  BY DEF IsPath
<1>2. IsFiniteSet(after)
  BY <1>1, FS_Subset DEF IsPath
<1>3. f \in [after -> Int] /\ ages = {f[t] : t \in after}
  BY <1>1
<1>4. IsFiniteSet({0} \cup {f[t] : t \in after})
  <2> HIDE DEF f, after
  <2>1. QED
    BY <1>2, <1>3, FiniteMoves
<1>5. IsFiniteSet(ages)
  <2> HIDE DEF ages, f, after
  <2>1. ages \subseteq {0} \cup {f[t] : t \in after}
    BY <1>3
  <2>2. QED
    BY <1>4, <2>1, FS_Subset
<1>6. ages \subseteq Nat /\ \A s \in ages : s + at \in DOMAIN path
  BY <1>1
<1>7. 0 \in ages /\ 0 + at = at
  BY <1>1
<1>8. \A s \in ages : path[s + at] \in Int
  BY <1>6 DEF IsPath
<1> HIDE DEF ages
<1>9. later \in [ages -> Int] /\ DOMAIN later = ages /\ later[0] = path[at]
  BY <1>7, <1>8
<1>10. IsPath(later) /\ 0 \in DOMAIN later /\ later[0] = path[at]
  BY <1>5, <1>6, <1>7, <1>9 DEF IsPath
<1>11. QED
  BY <1>10 DEF ages, From

\* At the trigger nothing has been gained yet.
LEMMA NothingGainedYet ==
  ASSUME NEW path, IsPath(path), 0 \in DOMAIN path, NEW side, NEW window \in Int
  PROVE  Path!ExcursionFromReference(side, path[0], path, window).timeToMfe # 0
<1> DEFINE told == Path!ExcursionFromReference(side, path[0], path, window)
<1>1. path[0] \in Int /\ Path!SignedMove(side, path[0], path[0]) = 0
  BY DEF IsPath, Path!SignedMove
<1>2. /\ told.mfe \in Nat
      /\ told.mfe > 0 => Path!SignedMove(side, path[0], path[told.timeToMfe]) = told.mfe
      /\ told.mfe = 0 => told.timeToMfe = Null
  BY <1>1, ExcursionTells
<1> HIDE DEF told
<1>3. told.timeToMfe # 0
  BY <1>1, <1>2, NullAssumption
<1>4. QED
  BY <1>3 DEF told

\* The replayed trigger is the first sample at which the condition has held for the
\* window of the contract, unless the contract was invalidated by then.
LEMMA TriggerIsFirst ==
  ASSUME NEW path, IsPath(path), 0 \notin DOMAIN path, NEW contract, IsContract(contract)
  PROVE  LET live == Path!Live(contract, path)
             end == WaitUpTo(contract, path)[Path!LastAge(path)]
             invalidated == Path!First({t \in live : Path!ConditionMet(
               contract.invalidationCondition, path[t], contract.invalidationPrice)})
             confirmed == Path!First({t \in live : Path!Confirmed(contract, path, t)})
         IN  /\ end.trigger = IF Path!Before(confirmed, invalidated) THEN confirmed ELSE Null
             /\ end.invalidation = IF Path!Before(confirmed, invalidated) THEN Null ELSE invalidated
             /\ end.trigger # Null => end.trigger \in DOMAIN path
<1> DEFINE L == Path!LastAge(path)
           live == Path!Live(contract, path)
           met == MetAt(contract, path)
           invalid == InvalidAt(contract, path)
           sure == {t \in live : Path!Confirmed(contract, path, t)}
           r == WaitUpTo(contract, path)[L]
           confirmed == Path!First(sure)
           invalidated == Path!First(invalid)
<1>1. live \in SUBSET Nat /\ live \subseteq DOMAIN path /\ \A t \in live : t <= L
  BY LastAgeIs DEF Path!Live, IsPath
<1>2. Waited(live, met, invalid, contract.confirm, r, L)
  BY WaitLoopIs DEF WaitedOn
<1>3. \A t \in live, u \in DOMAIN path : u <= t => u \in live
  BY DEF Path!Live, IsPath, IsContract
<1>4. \A t \in live : t \in sure <=> Sure(live, met, contract.confirm, t)
  <2> SUFFICES ASSUME NEW t \in live
               PROVE  t \in sure <=> Sure(live, met, contract.confirm, t)
    OBVIOUS
  <2> DEFINE Meets(u) == Path!ConditionMet(contract.triggerCondition, path[u], contract.triggerPrice)
  <2>1. \A u \in live : u \in met <=> Meets(u)
    BY DEF MetAt
  <2>2. \A s \in live : Holds(live, met, s, t) <=> \A u \in DOMAIN path : u \in s .. t => Meets(u)
    <3> HIDE DEF live, met, Meets
    <3>1. TAKE s \in live
    <3>2. s \in Nat /\ t \in Nat
      BY <1>1
    <3>3. \A u \in s .. t : u <= t
      BY <3>2
    <3>4. \A u \in DOMAIN path : u \in s .. t => u \in live
      BY <1>3, <3>3
    <3>5. QED
      BY <1>1, <2>1, <3>4 DEF Holds
  <2>3. t \in sure <=> \E s \in DOMAIN path :
          s <= t /\ t - s >= contract.confirm /\ \A u \in DOMAIN path : u \in s .. t => Meets(u)
    BY DEF Path!Confirmed
  <2> HIDE DEF live, met, Meets, sure
  <2>4. QED
    BY <1>1, <1>3, <2>2, <2>3 DEF Sure
<1>5. sure \in SUBSET Nat /\ invalid \in SUBSET Nat /\ sure \subseteq live /\ invalid \subseteq live
  BY <1>1 DEF InvalidAt
<1>6. r.trigger \in live \cup {Null} /\ r.invalidation \in live \cup {Null}
  BY <1>2 DEF Waited, WaitStates
<1> HIDE DEF L, live, met, invalid, sure, r
<1>7. /\ confirmed = Null <=> sure = {}
      /\ sure # {} => confirmed \in sure /\ \A x \in sure : confirmed <= x
  BY <1>5, FirstIs
<1>8. /\ invalidated = Null <=> invalid = {}
      /\ invalid # {} => invalidated \in invalid /\ \A x \in invalid : invalidated <= x
  BY <1>5, FirstIs
<1> HIDE DEF confirmed, invalidated
<1>9. CASE r.trigger # Null
  <2>1. /\ r.trigger \in sure /\ r.invalidation = Null
        /\ \A s \in sure : ~(s < r.trigger)
        /\ \A s \in invalid : ~(s <= r.trigger)
    BY <1>2, <1>4, <1>5, <1>6, <1>9 DEF Waited
  <2>2. confirmed \in sure /\ confirmed <= r.trigger /\ confirmed # Null
    BY <1>7, <2>1
  <2>3. confirmed = r.trigger
    <3>1. confirmed \in Nat /\ r.trigger \in Nat /\ ~(confirmed < r.trigger)
      BY <1>5, <2>1, <2>2
    <3>2. QED
      BY <2>2, <3>1
  <2>4. Path!Before(confirmed, invalidated)
    <3>1. CASE invalid = {}
      BY <1>8, <2>2, <3>1 DEF Path!Before
    <3>2. CASE invalid # {}
      <4>1. invalidated \in Nat /\ confirmed \in Nat /\ ~(invalidated <= confirmed)
        BY <1>5, <1>8, <2>1, <2>2, <2>3, <3>2
      <4>2. confirmed < invalidated
        BY <4>1
      <4>3. QED
        BY <2>2, <4>2 DEF Path!Before
    <3>3. QED
      BY <3>1, <3>2
  <2>5. QED
    BY <1>1, <1>6, <1>9, <2>1, <2>3, <2>4
         DEF confirmed, invalidated, sure, invalid, InvalidAt, live, r, L
<1>10. CASE r.invalidation # Null
  <2>1. /\ r.invalidation \in invalid /\ r.trigger = Null
        /\ \A s \in live : s < r.invalidation => s \notin invalid /\ s \notin sure
    BY <1>2, <1>4, <1>6, <1>10 DEF Waited
  <2>2. invalidated \in invalid /\ invalidated <= r.invalidation
    BY <1>8, <2>1
  <2>3. invalidated = r.invalidation
    <3>1. invalidated \in live /\ invalidated \in Nat /\ r.invalidation \in Nat
      BY <1>1, <1>5, <2>1, <2>2
    <3>2. ~(invalidated < r.invalidation)
      BY <2>1, <2>2, <3>1
    <3>3. QED
      BY <2>2, <3>1, <3>2
  <2>4. ~Path!Before(confirmed, invalidated)
    BY <1>5, <1>7, <1>10, <2>1, <2>3 DEF Path!Before
  <2>5. QED
    BY <2>1, <2>3, <2>4 DEF confirmed, invalidated, sure, invalid, InvalidAt, live, r, L
<1>11. CASE r.trigger = Null /\ r.invalidation = Null
  <2>1. sure = {} /\ invalid = {}
    BY <1>1, <1>2, <1>4, <1>5, <1>11 DEF Waited
  <2>2. confirmed = Null /\ invalidated = Null
    BY <1>7, <1>8, <2>1
  <2>3. ~Path!Before(confirmed, invalidated)
    BY <2>2 DEF Path!Before
  <2>4. QED
    BY <1>11, <2>2, <2>3 DEF confirmed, invalidated, sure, invalid, InvalidAt, live, r, L
<1>12. QED
  BY <1>9, <1>10, <1>11

\* The replayed trigger is what the contract says.
LEMMA WaitAgrees ==
  ASSUME NEW path, IsPath(path), 0 \notin DOMAIN path, NEW contract, IsContract(contract),
         NEW side, NEW window \in Nat
  PROVE  Path!WaitScoreAgrees(side, contract, path, window)
<1> DEFINE score == Path!EvaluateWaitTrigger(side, contract, path, window)
           live == Path!Live(contract, path)
           end == WaitUpTo(contract, path)[Path!LastAge(path)]
           later == From(path, end.trigger, window)
           invalidated == Path!First({t \in live : Path!ConditionMet(
             contract.invalidationCondition, path[t], contract.invalidationPrice)})
           confirmed == Path!First({t \in live : Path!Confirmed(contract, path, t)})
<1>1. ASSUME score.available
      PROVE  /\ score.trigger = end.trigger /\ score.invalidation = end.invalidation
             /\ score.expired => end.trigger = Null /\ end.invalidation = Null
             /\ score.chaseExceeded => end.trigger # Null
             /\ score.postTrigger =
                  IF end.trigger = Null \/ side = "NEUTRAL" THEN Null
                  ELSE Path!ExcursionFromReference(side, path[end.trigger], later, window)
  <2>1. DOMAIN path # {}
    BY <1>1 DEF Path!EvaluateWaitTrigger
  <2>2. QED
    BY <2>1 DEF Path!EvaluateWaitTrigger, WaitUpTo, NothingYet, From
<1>2. /\ end.trigger = IF Path!Before(confirmed, invalidated) THEN confirmed ELSE Null
      /\ end.invalidation = IF Path!Before(confirmed, invalidated) THEN Null ELSE invalidated
      /\ end.trigger # Null => end.trigger \in DOMAIN path
  BY TriggerIsFirst
<1>3. end.trigger # Null =>
        Path!ExcursionFromReference(side, path[end.trigger], later, window).timeToMfe # 0
  <2> SUFFICES ASSUME end.trigger # Null
               PROVE  Path!ExcursionFromReference(side, path[end.trigger], later, window).timeToMfe # 0
    OBVIOUS
  <2>1. IsPath(later) /\ 0 \in DOMAIN later /\ later[0] = path[end.trigger]
    BY <1>2, AfterTriggerIsPath
  <2> HIDE DEF later
  <2>2. Path!ExcursionFromReference(side, later[0], later, window).timeToMfe # 0
    BY <2>1, NothingGainedYet
  <2>3. QED
    BY <2>1, <2>2
<1> HIDE DEF score, end, later, invalidated, confirmed
<1>4. score.available =>
        /\ score.trigger = IF Path!Before(confirmed, invalidated) THEN confirmed ELSE Null
        /\ score.invalidation = IF Path!Before(confirmed, invalidated) THEN Null ELSE invalidated
        /\ score.expired => score.trigger = Null /\ score.invalidation = Null
        /\ score.chaseExceeded => score.trigger # Null
        /\ score.postTrigger # Null => score.postTrigger.timeToMfe # 0
  BY <1>1, <1>2, <1>3
<1>5. QED
  BY <1>4 DEF Path!WaitScoreAgrees, score, invalidated, confirmed, live

\* The samples of a decision make a path, in whatever order they were stored.
LEMMA NormalizedIsPath ==
  ASSUME NEW points \in Seq(Int \X Int)
  PROVE  LET path == Path!NormalizePricePath(points) IN IsPath(path) /\ 0 \notin DOMAIN path
<1> DEFINE valid == {i \in DOMAIN points : points[i][1] > 0 /\ points[i][2] > 0}
           f == [i \in valid |-> points[i][1]]
           ages == {points[i][1] : i \in valid}
           last(age) == Path!Max({i \in valid : points[i][1] = age})
           path == Path!NormalizePricePath(points)
<1>1. path = [age \in ages |-> points[last(age)][2]]
  BY DEF Path!NormalizePricePath
<1>2. \A i \in DOMAIN points : points[i][1] \in Int /\ points[i][2] \in Int
  OBVIOUS
<1>3. valid \subseteq 1 .. Len(points) /\ Len(points) \in Nat
  OBVIOUS
<1>4. IsFiniteSet(valid)
  BY <1>3, FS_Interval, FS_Subset
<1>5. /\ \A i \in valid : points[i][1] \in Nat \ {0} /\ points[i][2] \in Int
      /\ ages \subseteq Nat \ {0} /\ f \in [valid -> Int] /\ ages = {f[i] : i \in valid}
  <2>1. \A i \in valid : /\ points[i][1] \in Nat \ {0} /\ points[i][2] \in Int
                          /\ f[i] = points[i][1]
    BY <1>2
  <2> HIDE DEF valid
  <2>2. ages = {f[i] : i \in valid} /\ f \in [valid -> Int]
    BY <2>1
  <2>3. ages \subseteq Nat \ {0}
    BY <2>1
  <2>4. QED
    BY <2>1, <2>2, <2>3
<1> HIDE DEF valid, f, path
<1>6. IsFiniteSet(ages)
  <2> HIDE DEF ages
  <2>1. IsFiniteSet({0} \cup {f[i] : i \in valid})
    BY <1>4, <1>5, FiniteMoves
  <2>2. QED
    BY <1>5, <2>1, FS_Subset
<1>7. ASSUME NEW age \in ages
      PROVE  points[last(age)][2] \in Int
  <2> DEFINE at == {i \in valid : points[i][1] = age}
  <2>1. at # {} /\ at \subseteq valid /\ at \in SUBSET Int
    <3>1. \E i \in valid : points[i][1] = age
      BY DEF ages
    <3>2. \A i \in valid : i \in Int
      BY <1>3
    <3>3. at # {}
      BY <3>1
    <3>4. at \subseteq valid /\ at \in SUBSET Int
      BY <3>2
    <3>5. QED
      BY <3>3, <3>4
  <2>2. IsFiniteSet(at)
    BY <1>4, <2>1, FS_Subset
  <2> HIDE DEF at
  <2>3. Path!Max(at) \in at
    BY <2>1, <2>2, PathMax
  <2>4. last(age) \in valid
    BY <2>1, <2>3 DEF at
  <2>5. QED
    BY <1>5, <2>4
<1> HIDE DEF last, ages
<1>8. IsPath(path) /\ 0 \notin DOMAIN path
  BY <1>1, <1>5, <1>6, <1>7 DEF IsPath
<1>9. QED
  BY <1>8 DEF path

\* How a replayed decision is scored is so along whatever samples were stored: an
\* entry's score is the same for either side, and says that a level was hit if and
\* only if the price went as far; a trigger is what the contract says; and what
\* moved for a position only grows (evaluation-v2.ts).
THEOREM ScoresAgree ==
  ASSUME NEW points \in Seq(Int \X Int)
  PROVE  LET path == Path!NormalizePricePath(points)
         IN  /\ \A plan \in Plans, firstMinute, c \in Int :
                  Path!EnterScoreAgrees(plan, path, firstMinute, c)
             /\ \A side, contract : IsContract(contract) =>
                  \A window \in Nat : Path!WaitScoreAgrees(side, contract, path, window)
             /\ \A anchor \in Int, horizons \in SUBSET Int :
                  Path!ManagementScoreAgrees(anchor, path, horizons)
<1> DEFINE path == Path!NormalizePricePath(points)
<1>1. IsPath(path) /\ 0 \notin DOMAIN path
  BY NormalizedIsPath
<1> HIDE DEF path
<1>2. \A plan \in Plans, firstMinute, c \in Int : Path!EnterScoreAgrees(plan, path, firstMinute, c)
  BY <1>1, EnterAgrees
<1>3. \A side, contract : IsContract(contract) =>
        \A window \in Nat : Path!WaitScoreAgrees(side, contract, path, window)
  BY <1>1, WaitAgrees
<1>4. \A anchor \in Int, horizons \in SUBSET Int : Path!ManagementScoreAgrees(anchor, path, horizons)
  BY <1>1, ManagementAgrees
<1>5. QED
  BY <1>2, <1>3, <1>4 DEF path

LEMMA ScoredCases ==
  ASSUME NEW x \in EvaluationCases \cup OrderCases \cup GateCases
  PROVE  /\ x.kind = "enter" => x.path \in RawPaths /\ x.plan \in EnterPlans
         /\ x.kind = "wait" => x.path \in RawPaths /\ x.contract \in Contracts
         /\ x.kind = "manage" => x.path \in RawPaths /\ x.anchor \in {0, 2}
<1>1. x \in EvaluationCases =>
        /\ x.kind = "enter" => x.path \in RawPaths /\ x.plan \in EnterPlans
        /\ x.kind = "wait" => x.path \in RawPaths /\ x.contract \in Contracts
        /\ x.kind = "manage" => x.path \in RawPaths /\ x.anchor \in {0, 2}
  BY DEF EvaluationCases
<1>2. x \in OrderCases \cup GateCases => x.kind \notin {"enter", "wait", "manage"}
  BY DEF OrderCases, GateCases
<1>3. QED
  BY <1>1, <1>2

LEMMA ListedPaths == RawPaths \subseteq Seq(Int \X Int)
<1> DEFINE P == {<<1, 1>>, <<1, 4>>, <<2, 2>>, <<2, 3>>, <<4, 1>>, <<4, 4>>}
<1>1. P \subseteq Int \X Int
  OBVIOUS
<1>2. RawPaths = UNION {[1 .. n -> P] : n \in 0 .. 3}
  BY DEF RawPaths
<1> HIDE DEF P
<1>3. \A n \in 0 .. 3 : \A p \in [1 .. n -> P] : p \in Seq(Int \X Int)
  BY <1>1
<1>4. QED
  BY <1>2, <1>3

LEMMA ListedContracts == EnterPlans \subseteq Plans /\ \A contract \in Contracts : IsContract(contract)
<1>1. EnterPlans \subseteq Plans
  <2> DEFINE targets == {<<3>>, <<4, 1>>, <<1, 2>>}
  <2>1. targets \subseteq Seq(Int)
    OBVIOUS
  <2>2. EnterPlans = [side : Sides, entry : {2, 3}, stop : {1, 3, 4}, targets : targets]
    BY DEF EnterPlans
  <2> HIDE DEF targets
  <2>3. QED
    BY <2>1, <2>2 DEF Plans, Sides
<1>2. \A contract \in Contracts : IsContract(contract)
  BY DEF Contracts, IsContract
<1>3. QED
  BY <1>1, <1>2

\* So it is in the cases that the model checker goes through, of what is told of an
\* entry, a trigger and a position (evaluation-v2.ts).
THEOREM ScoresAgreeInScenes ==
  MCSpec => [](scene = "case" /\ case.kind \in {"enter", "wait", "manage"} => TellsWhatIsSo)
<1> DEFINE path == Path!NormalizePricePath(case.path)
<1>1. ASSUME Listed, scene = "case", case.kind \in {"enter", "wait", "manage"}
      PROVE  TellsWhatIsSo
  <2>1. /\ case.kind = "enter" => case.path \in RawPaths /\ case.plan \in EnterPlans
        /\ case.kind = "wait" => case.path \in RawPaths /\ case.contract \in Contracts
        /\ case.kind = "manage" => case.path \in RawPaths /\ case.anchor \in {0, 2}
    BY <1>1, ScoredCases DEF Listed
  <2>2. case.path \in Seq(Int \X Int)
    BY <1>1, <2>1, ListedPaths
  <2>3. Times.firstMinute \in Int /\ Times.afterTrigger \in Nat /\ Times.horizons \in SUBSET Int
    BY DEF Times
  <2>4. /\ \A plan \in Plans, firstMinute, c \in Int :
             Path!EnterScoreAgrees(plan, path, firstMinute, c)
        /\ \A side, contract : IsContract(contract) =>
             \A window \in Nat : Path!WaitScoreAgrees(side, contract, path, window)
        /\ \A anchor \in Int, horizons \in SUBSET Int :
             Path!ManagementScoreAgrees(anchor, path, horizons)
    BY <2>2, ScoresAgree
  <2> HIDE DEF path
  <2>5. CASE case.kind = "enter"
    <3>1. Path!EnterScoreAgrees(case.plan, path, Times.firstMinute, 3)
      BY <2>1, <2>3, <2>4, <2>5, ListedContracts
    <3>2. QED
      BY <2>5, <3>1 DEF TellsWhatIsSo, path
  <2>6. CASE case.kind = "wait"
    <3>1. Path!WaitScoreAgrees(case.side, case.contract, path, Times.afterTrigger)
      BY <2>1, <2>3, <2>4, <2>6, ListedContracts
    <3>2. QED
      BY <2>6, <3>1 DEF TellsWhatIsSo, path
  <2>7. CASE case.kind = "manage"
    <3>1. Path!ManagementScoreAgrees(case.anchor, path, Times.horizons)
      BY <2>1, <2>3, <2>4, <2>7
    <3>2. QED
      BY <2>7, <3>1 DEF TellsWhatIsSo, path
  <2>8. QED
    BY <1>1, <2>5, <2>6, <2>7
<1>2. QED
  BY <1>1, CaseStays, PTL
=============================================================================
