----------------------------- MODULE ContextUpload -----------------------------
(***************************************************************************)
(* From the items of external/service.ts to what the relay serves.         *)
(* relay/context-uploader.ts sends a payload per horizon, one after the    *)
(* other, behind a digest of what it sent last; worker/src/index.ts keeps  *)
(* the newest payload of each horizon and a summary of the first.          *)
(*                                                                         *)
(* A request that was given up may be served later, and an uploader that   *)
(* was replaced finishes what it is sending.  An item is named by the time *)
(* it was published; the times of uploads are numbers of their own, since  *)
(* only their order matters to the rows.                                   *)
(***************************************************************************)
EXTENDS Integers, Sequences, FiniteSetsExt

CONSTANTS
  LastItem,    \* items are published at 1 .. LastItem
  MaxItems,    \* MAX_ITEMS of the service
  Past,        \* how far back the items of a horizon reach
  Uploaders,   \* bound: uploaders made, one after the other
  MaxFaults,   \* bound: requests that fail or are lost
  MaxRepeats   \* bound: uploads in which nothing but ages has changed

Items == 1 .. LastItem
Horizons == <<"INTRADAY", "SWING", "MACRO">>
Names == {"INTRADAY", "SWING", "MACRO"}

ASSUME ContextUploadAssumption ==
  /\ {LastItem, MaxItems, Uploaders} \subseteq Nat \ {0}
  /\ {MaxFaults, MaxRepeats} \subseteq Nat
  /\ Past \in [Names -> Nat]

VARIABLES
  clock,     \* what is published by now; sources may be ahead by one item
  items,     \* the items the service holds
  current,   \* the number of the configured uploader
  upload,    \* per uploader: the upload it is about, and the last completed
  requests,  \* requests that are under way or were given up
  relay,     \* the rows of the worker: per horizon, and the summary
  spent      \* the faults and the repeats so far

vars == <<clock, items, current, upload, requests, relay, spent>>

Contents == [Names -> SUBSET Items]
Row == [at : Nat, items : SUBSET Items]
Request == [by : 1 .. Uploaders, step : DOMAIN Horizons, row : Row,
            state : {"sent", "half", "saved", "failed"}]

TypeOK ==
  /\ clock \in 0 .. LastItem /\ items \subseteq Items
  /\ current \in 1 .. Uploaders
  /\ DOMAIN upload = 1 .. Uploaders
  /\ \A u \in DOMAIN upload :
       /\ upload[u].step \in 0 .. Len(Horizons)   \* 0: idle
       /\ {upload[u].at, upload[u].completed} \subseteq Nat
       /\ {upload[u].contents, upload[u].digest} \subseteq Contents
  /\ \A r \in requests : r \in Request
  /\ relay.rows \in [Names -> Row] /\ relay.summary \in Row
  /\ spent \in [faults : 0 .. MaxFaults, repeats : 0 .. MaxRepeats]

Nothing == [h \in Names |-> {}]
NoRow == [at |-> 0, items |-> {}]

Init ==
  /\ clock = 0 /\ items = {}
  /\ current = 1
  /\ upload = [u \in 1 .. Uploaders |->
       [step |-> 0, at |-> 0, contents |-> Nothing, digest |-> Nothing, completed |-> 0]]
  /\ requests = {}
  /\ relay = [rows |-> [h \in Names |-> NoRow], summary |-> NoRow]
  /\ spent = [faults |-> 0, repeats |-> 0]
-----------------------------------------------------------------------------
(***************************************************************************)
(* The items of the service.                                               *)
(***************************************************************************)
\* merge: the oldest items go while there are too many.
Limited(held) == {i \in held : Cardinality({j \in held : j > i}) < MaxItems}

\* item(): published five minutes from now at the latest
Acceptable(i) == i <= clock + 1

\* A source answers with an item.
Merge(i) ==
  /\ i \notin items /\ Acceptable(i)
  /\ items' = Limited(items \cup {i})
  /\ UNCHANGED <<clock, current, upload, requests, relay, spent>>

TimePasses ==
  /\ clock < LastItem
  /\ clock' = clock + 1
  /\ UNCHANGED <<items, current, upload, requests, relay, spent>>

\* getSnapshot(horizon)
Snapshot(h) == {i \in items : i >= clock - Past[h]}
-----------------------------------------------------------------------------
(***************************************************************************)
(* The uploader.                                                           *)
(***************************************************************************)
\* Date.now(), later than all that was uploaded before
Now == 1 + Max({0} \cup {relay.rows[h].at : h \in Names}
                   \cup {r.row.at : r \in requests})

RequestOf(u, step, at, contents) ==
  [by |-> u, step |-> step, state |-> "sent",
   row |-> [at |-> at, items |-> contents[Horizons[step]]]]

\* upload, unless the digest is that of the last one; the digest of payloads
\* that differ in their ages alone differs too.
Begin(u) ==
  LET contents == [h \in Names |-> Snapshot(h)]
      repeated == contents = upload[u].digest
  IN /\ u = current /\ upload[u].step = 0
     /\ repeated => spent.repeats < MaxRepeats
     /\ spent' = [spent EXCEPT !.repeats = IF repeated THEN @ + 1 ELSE @]
     /\ upload' = [upload EXCEPT ![u].step = 1, ![u].at = Now, ![u].contents = contents]
     /\ requests' = requests \cup {RequestOf(u, 1, Now, contents)}
     /\ UNCHANGED <<clock, items, current, relay>>

Awaited(r) == upload[r.by].step = r.step /\ upload[r.by].at = r.row.at

\* The next horizon, or the digest once all of them were accepted.
Advance(u) ==
  LET now == upload[u]
      next == RequestOf(u, now.step + 1, now.at, now.contents)
  IN IF now.step < Len(Horizons)
     THEN <<[upload EXCEPT ![u].step = @ + 1], {next}>>
     ELSE <<[upload EXCEPT ![u].step = 0, ![u].at = 0, ![u].contents = Nothing,
                           ![u].digest = now.contents, ![u].completed = now.at], {}>>

\* Mutant: the digest is kept, whether or not the upload was accepted.
AbandonAsSent(u) ==
  <<[upload EXCEPT ![u].step = 0, ![u].at = 0, ![u].contents = Nothing,
                   ![u].digest = upload[u].contents], {}>>

\* An error ends the upload, with the digest as it was.
Abandon(u) == <<[upload EXCEPT ![u].step = 0, ![u].at = 0, ![u].contents = Nothing], {}>>

AfterAnswer(r) == IF r.state = "saved" THEN Advance(r.by) ELSE Abandon(r.by)

\* The answer to the request the uploader waits for.
Answered(r) ==
  /\ Awaited(r) /\ r.state \in {"saved", "failed"}
  /\ upload' = AfterAnswer(r)[1]
  /\ requests' = (requests \ {r}) \cup AfterAnswer(r)[2]
  /\ UNCHANGED <<clock, items, current, relay, spent>>

\* Fifteen seconds without an answer: the request stays where it is.
TimesOut(r) ==
  /\ Awaited(r) /\ spent.faults < MaxFaults
  /\ upload' = Abandon(r.by)[1]
  /\ spent' = [spent EXCEPT !.faults = @ + 1]
  /\ UNCHANGED <<clock, items, current, requests, relay>>

\* Another relay configuration: a new uploader, while the old one finishes.
Configure ==
  /\ current < Uploaders
  /\ current' = current + 1
  /\ UNCHANGED <<clock, items, upload, requests, relay, spent>>
-----------------------------------------------------------------------------
(***************************************************************************)
(* The worker.                                                             *)
(***************************************************************************)
Becomes(r, state) ==
  requests' = (requests \ {r}) \cup {[r EXCEPT !.state = state]}

\* Mutant: the row is replaced by whatever comes last.
Replace(old, new) == new

\* ON CONFLICT DO UPDATE ... WHERE excluded.generated_at >= generated_at
Upsert(old, new) == IF new.at >= old.at THEN new ELSE old

\* PUT /v1/context/latest: refused for an item dated ahead, or stored.
Receive(r) ==
  /\ r.state = "sent"
  /\ IF \E i \in r.row.items : i > clock
     THEN Becomes(r, "failed") /\ UNCHANGED relay
     ELSE /\ relay' = [relay EXCEPT !.rows[Horizons[r.step]] = Upsert(@, r.row)]
          /\ Becomes(r, IF Horizons[r.step] = "INTRADAY" THEN "half" ELSE "saved")
  /\ UNCHANGED <<clock, items, current, upload, spent>>

\* saveContext goes on to the summary of the INTRADAY context.
Summarize(r) ==
  /\ r.state = "half"
  /\ relay' = [relay EXCEPT !.summary = Upsert(@, r.row)]
  /\ Becomes(r, "saved")
  /\ UNCHANGED <<clock, items, current, upload, spent>>

\* A statement fails, or the worker ends before or between its two.
Fails(r) ==
  /\ r.state \in {"sent", "half"} /\ spent.faults < MaxFaults
  /\ Becomes(r, "failed")
  /\ spent' = [spent EXCEPT !.faults = @ + 1]
  /\ UNCHANGED <<clock, items, current, upload, relay>>

\* A request that was given up is lost, or its answer is.
Forget(r) ==
  /\ ~Awaited(r)
  /\ requests' = requests \ {r}
  /\ UNCHANGED <<clock, items, current, upload, relay, spent>>
-----------------------------------------------------------------------------
Next ==
  \/ \E i \in Items : Merge(i)
  \/ TimePasses
  \/ \E u \in 1 .. Uploaders : Begin(u)
  \/ \E r \in requests : \/ Answered(r) \/ TimesOut(r) \/ Forget(r)
                         \/ Receive(r) \/ Summarize(r) \/ Fails(r)
  \/ Configure

\* The interval comes round, every request is answered or given up, and time
\* catches up with an item that is dated ahead.
Fairness ==
  /\ WF_vars(TimePasses)
  /\ \A u \in 1 .. Uploaders : WF_vars(Begin(u))
  /\ WF_vars(\E r \in requests :
       Awaited(r) /\ (Answered(r) \/ Receive(r) \/ Summarize(r)))

Spec == Init /\ [][Next]_vars /\ Fairness
-----------------------------------------------------------------------------
\* Whatever order requests are served in, also those that were given up, no
\* context is replaced by an older one.
ServedContextOnlyAdvances ==
  [][/\ \A h \in Names : relay'.rows[h].at >= relay.rows[h].at
     /\ relay'.summary.at >= relay.summary.at]_vars

\* What an uploader believes delivered is served, in every horizon and in the
\* summary, or something newer is.  The summary never runs ahead of the row.
CompletedUploadIsServed ==
  /\ \A u \in 1 .. Uploaders, h \in Names :
       upload[u].completed <= relay.rows[h].at /\ upload[u].completed <= relay.summary.at
  /\ relay.summary.at <= relay.rows["INTRADAY"].at

\* An item that the service keeps is served at last, also when it was dated
\* ahead and the worker refused every payload with it for a while.
ContextArrives ==
  \A i \in Items : i \in items ~> (i \in relay.rows["MACRO"].items \/ i \notin items)
=============================================================================
