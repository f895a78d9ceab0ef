---------------------------- MODULE ExternalContext ----------------------------
(***************************************************************************)
(* How external/service.ts follows its sources: a chain of requests and    *)
(* timers for each polled source, and a socket for the announcements of    *)
(* the exchange.  Both are replaced when their credentials change, while   *)
(* requests of the old chain are in flight and the old socket still has    *)
(* its close event to deliver.                                             *)
(*                                                                         *)
(* setTimeout, and setInterval for the pings, overwrite the handle of the  *)
(* one before: a timer whose handle is gone cannot be cleared any more and *)
(* is counted as stray.                                                    *)
(***************************************************************************)
EXTENDS Integers, FiniteSets

CONSTANTS
  Feeds,        \* the polled sources that need no credentials
  Naver,        \* the polled source that does
  SocketIds,    \* bound: the announcement sockets that exist at a time
  NoSocket,
  MaxChains,    \* bound: requests and timers of a source at a time
  MaxStrays     \* bound: reconnect timers without a handle at a time

Polled == Feeds \cup {Naver}
Statuses == {"DISABLED", "INITIALIZING", "NORMAL", "DISCONNECTED"}

VARIABLES
  life,       \* the service was constructed, started, or stopped for good
  keys,       \* the credentials stored, of Naver and of the exchange
  chain,      \* per polled source: its status, requests and timers
  sockets,    \* per announcement socket: its phase
  notices     \* status, current socket, reconnect timers, pinged socket

vars == <<life, keys, chain, sockets, notices>>

Chain == [status : Statuses, timer : BOOLEAN, strays : 0 .. MaxChains,
          collecting : 0 .. MaxChains]
Phases == {"none", "connecting", "open", "closing"}

TypeOK ==
  /\ life \in {"constructed", "running", "stopped"}
  /\ keys \in SUBSET {"naver", "exchange"}
  /\ chain \in [Polled -> Chain]
  /\ sockets \in [SocketIds -> Phases]
  /\ notices \in [status : Statuses, current : SocketIds \cup {NoSocket},
                  retry : BOOLEAN, strays : 0 .. MaxStrays,
                  pinged : SocketIds \cup {NoSocket}]

Running == life = "running"

\* initialHealth(disabled)
Initially(enabled) == IF enabled THEN "INITIALIZING" ELSE "DISABLED"

Init ==
  /\ life = "constructed"
  /\ keys \in SUBSET {"naver", "exchange"}
  /\ chain = [p \in Polled |->
       [status |-> Initially(p = Naver => "naver" \in keys),
        timer |-> FALSE, strays |-> 0, collecting |-> 0]]
  /\ sockets = [s \in SocketIds |-> "none"]
  /\ notices = [status |-> Initially("exchange" \in keys), current |-> NoSocket,
                retry |-> FALSE, strays |-> 0, pinged |-> NoSocket]
-----------------------------------------------------------------------------
(***************************************************************************)
(* The polled sources.                                                     *)
(***************************************************************************)
Length(c) == c.collecting + c.strays + (IF c.timer THEN 1 ELSE 0)

\* collect(source), up to its first await
Collect(c) == [c EXCEPT !.collecting = @ + 1]

\* setTimeout and timers.set
SetTimer(c) ==
  [c EXCEPT !.timer = TRUE, !.strays = IF c.timer THEN @ + 1 ELSE @]

\* Mutant: only a collection that succeeds is followed by another.
RetryOnSuccess(p, status) ==
  /\ chain[p].collecting > 0
  /\ LET done == [chain[p] EXCEPT !.collecting = @ - 1, !.status = status]
     IN  chain' = [chain EXCEPT ![p] =
           IF Running /\ status = "NORMAL" THEN SetTimer(done) ELSE done]
  /\ UNCHANGED <<life, keys, sockets, notices>>

\* collect(source) ends: it succeeds or fails, and waits for its next attempt.
CollectEnds(p, status) ==
  /\ chain[p].collecting > 0
  /\ LET done == [chain[p] EXCEPT !.collecting = @ - 1, !.status = status]
     IN  chain' = [chain EXCEPT ![p] = IF Running THEN SetTimer(done) ELSE done]
  /\ UNCHANGED <<life, keys, sockets, notices>>

CollectSucceeds(p) == CollectEnds(p, "NORMAL")
CollectFails(p) == CollectEnds(p, "DISCONNECTED")

\* A timer ends the wait: collect(source), which returns if the service stopped.
TimerFires(p) ==
  /\ \/ chain[p].timer /\ LET fired == [chain[p] EXCEPT !.timer = FALSE]
                          IN chain' = [chain EXCEPT ![p] =
                               IF Running THEN Collect(fired) ELSE fired]
     \/ chain[p].strays > 0 /\ LET fired == [chain[p] EXCEPT !.strays = @ - 1]
                               IN chain' = [chain EXCEPT ![p] =
                                    IF Running THEN Collect(fired) ELSE fired]
  /\ UNCHANGED <<life, keys, sockets, notices>>

\* reloadNaver, after the credentials were saved or deleted
ReloadNaver ==
  /\ Length(chain[Naver]) < MaxChains
  /\ \E given \in BOOLEAN :
       LET fresh == [chain[Naver] EXCEPT !.timer = FALSE, !.status = Initially(given)]
       IN /\ keys' = IF given THEN keys \cup {"naver"} ELSE keys \ {"naver"}
          /\ chain' = [chain EXCEPT ![Naver] =
                         IF given /\ Running THEN Collect(fresh) ELSE fresh]
  /\ UNCHANGED <<life, sockets, notices>>
-----------------------------------------------------------------------------
(***************************************************************************)
(* The announcements.  A step leaves `n` as the new notices and `ss` as    *)
(* the new sockets, once connectAnnouncements has been through them.       *)
(***************************************************************************)
Connected(n, ss, given) ==
  IF ~given
  THEN sockets' = ss /\ notices' = [n EXCEPT !.status = "DISABLED"]
  ELSE \E s \in {s \in SocketIds : ss[s] = "none"} :
         /\ sockets' = [ss EXCEPT ![s] = "connecting"]
         /\ notices' = [n EXCEPT !.current = s]

\* socket.close(): the close event is still to come.
Closing(ss, s) == [t \in SocketIds |-> IF t = s THEN "closing" ELSE ss[t]]

Start ==
  /\ life = "constructed"
  /\ life' = "running"
  /\ Connected(notices, sockets, "exchange" \in keys)
  /\ chain' = [p \in Polled |-> IF chain[p].status = "DISABLED" THEN chain[p]
                                ELSE Collect(chain[p])]
  /\ UNCHANGED keys

\* stop, on quit
Stop ==
  /\ Running
  /\ life' = "stopped"
  /\ chain' = [p \in Polled |-> [chain[p] EXCEPT !.timer = FALSE]]
  /\ sockets' = Closing(sockets, notices.current)
  /\ notices' = [notices EXCEPT !.retry = FALSE, !.current = NoSocket, !.pinged = NoSocket]
  /\ UNCHANGED keys

\* reloadAnnouncements, after the credentials were saved or deleted
ReloadAnnouncements ==
  /\ \E given \in BOOLEAN :
       LET fresh == [notices EXCEPT !.retry = FALSE, !.pinged = NoSocket,
                                    !.current = NoSocket, !.status = Initially(given)]
           ss    == Closing(sockets, notices.current)
       IN /\ keys' = IF given THEN keys \cup {"exchange"} ELSE keys \ {"exchange"}
          /\ IF Running THEN Connected(fresh, ss, given)
             ELSE sockets' = ss /\ notices' = fresh
  /\ UNCHANGED <<life, chain>>

\* onopen, also of a socket that was replaced meanwhile
Opens(s) ==
  /\ sockets[s] = "connecting"
  /\ sockets' = [sockets EXCEPT ![s] = "open"]
  /\ notices' = [notices EXCEPT !.status = "NORMAL", !.pinged = s]
  /\ UNCHANGED <<life, keys, chain>>

\* onclose of any socket: the ping, whosever it is, and another attempt.
AfterClose(n, s) ==
  [n EXCEPT !.pinged = NoSocket, !.status = "DISCONNECTED",
            !.current = IF @ = s THEN NoSocket ELSE @,
            !.retry = TRUE, !.strays = IF n.retry THEN @ + 1 ELSE @]

Closes(s) ==
  /\ sockets[s] # "none"
  /\ notices.retry => notices.strays < MaxStrays
  /\ sockets' = [sockets EXCEPT ![s] = "none"]
  /\ notices' = IF Running THEN AfterClose(notices, s)
                ELSE [notices EXCEPT !.pinged = NoSocket]
  /\ UNCHANGED <<life, keys, chain>>

\* The timer of a close event: connectAnnouncements
Retry ==
  /\ \E fired \in {n \in {[notices EXCEPT !.retry = FALSE], [notices EXCEPT !.strays = @ - 1]} :
                     n # notices /\ n.strays >= 0} :
       IF Running THEN Connected(fired, sockets, "exchange" \in keys)
       ELSE sockets' = sockets /\ notices' = fired
  /\ UNCHANGED <<life, keys, chain>>
-----------------------------------------------------------------------------
(***************************************************************************)
(* What is shown, when the sources `overdue` last succeeded too long ago.  *)
(***************************************************************************)
Announcements == "announcements"

\* currentHealth; nothing is ever too old of the announcements
CurrentHealth(overdue) ==
  [p \in Polled \cup {Announcements} |->
     IF p = Announcements THEN notices.status
     ELSE IF p \in overdue /\ chain[p].status # "DISABLED" THEN "STALE"
     ELSE chain[p].status]

\* overallStatus
OverallStatus(health) ==
  LET shown == {health[p] : p \in DOMAIN health} \ {"DISABLED"}
  IN  CASE shown = {}                  -> "UNAVAILABLE"
        [] shown = {"INITIALIZING"}    -> "INITIALIZING"
        [] shown = {"DISCONNECTED"}    -> "DISCONNECTED"
        [] "STALE" \in shown           -> "STALE"
        [] "DISCONNECTED" \in shown /\ shown # {"DISCONNECTED"} /\ "STALE" \notin shown
                                       -> "DELAYED"
        [] OTHER                       -> "NORMAL"

\* riskContext: the sources that sourceWarnings names
SourceWarnings(health) == {p \in DOMAIN health : health[p] \notin {"NORMAL", "DISABLED"}}
-----------------------------------------------------------------------------
Next ==
  \/ Start \/ Stop
  \/ ReloadNaver \/ ReloadAnnouncements
  \/ \E p \in Polled : CollectSucceeds(p) \/ CollectFails(p) \/ TimerFires(p)
  \/ \E s \in SocketIds : Opens(s) \/ Closes(s)
  \/ Retry

\* The service is started, its timers fire, a request has a time limit and a
\* socket that closes says so.  Sources are reachable again and again.
Fairness ==
  /\ WF_vars(Start) /\ WF_vars(Retry)
  /\ \A p \in Polled : WF_vars(TimerFires(p)) /\ SF_vars(CollectSucceeds(p))
  /\ \A s \in SocketIds :
       /\ SF_vars(Opens(s))
       /\ WF_vars(sockets[s] = "closing" /\ Closes(s))

Spec == Init /\ [][Next]_vars /\ Fairness
-----------------------------------------------------------------------------
\* The announcements are reported as followed only over an open connection,
\* however sockets, their late close events and reloads follow each other.
NormalIsConnected ==
  Running /\ notices.status = "NORMAL" => \E s \in SocketIds : sockets[s] = "open"

\* While all is reported as normal, every source has an answer or is being asked
\* for its first, and will be asked again; a source that is not followed, and is
\* not being asked either, is warned of (currentHealth, overallStatus, riskContext).
HealthIsTrue ==
  Running =>
    \A overdue \in SUBSET {p \in Polled : chain[p].status # "INITIALIZING"} :
      LET health == CurrentHealth(overdue)
          asked(p) == IF p = Announcements
                      THEN \E s \in SocketIds : sockets[s] \in {"connecting", "open"}
                      ELSE Length(chain[p]) > 0
      IN  /\ \A p \in DOMAIN health : health[p] # "DISABLED" =>
               asked(p) \/ p \in SourceWarnings(health)
          /\ OverallStatus(health) = "NORMAL" => \A p \in DOMAIN health \ overdue :
               \/ health[p] \in {"NORMAL", "DISABLED"}
               \/ health[p] = "INITIALIZING" /\ asked(p)
          /\ SourceWarnings(health) = {} => OverallStatus(health) \in {"NORMAL", "UNAVAILABLE"}

\* A source whose credentials stay is followed again after every failure and
\* every reload, until the service stops.
SourcesComeBack ==
  /\ \A p \in Polled :
       Running ~> (chain[p].status = "NORMAL" \/ ~Running
                     \/ (p = Naver /\ "naver" \notin keys))
  /\ Running ~> (notices.status = "NORMAL" \/ ~Running \/ "exchange" \notin keys)
=============================================================================
