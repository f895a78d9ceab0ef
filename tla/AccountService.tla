---------------------------- MODULE AccountService ----------------------------
(***************************************************************************)
(* The read-only account connection (binance/account/service.ts): the      *)
(* stored credentials, the status shown to the rest of the program, the    *)
(* REST refreshes, and the private stream with its listen key, sockets and *)
(* timers.                                                                 *)
(*                                                                         *)
(* One action is one turn of the event loop: a call from the user, a timer *)
(* callback, a socket event, or the continuation of an awaited request.    *)
(* Nothing cancels a request in flight.                                    *)
(***************************************************************************)
EXTENDS Naturals, SequencesExt

CONSTANTS
  Accounts,    \* the accounts the user has API keys of
  NoAccount,   \* none of them
  SocketIds,   \* bound: sockets alive at once
  NoSocket,    \* none of them
  Users        \* the users a behaviour has one of, see user

ASSUME AccountServiceAssumption ==
  /\ NoAccount \notin Accounts
  /\ NoSocket \notin SocketIds
  /\ Users \subseteq [waits : BOOLEAN, accounts : SUBSET Accounts, opening : Nat]

VARIABLES
  user,         \* do calls and wake-ups only come when nothing is pending, the
                \* accounts used; bound: connectStream calls in flight at once
  stored,       \* the credential store
  status,       \* configured, connected, whose data it holds, stream.status
  stopping,
  refresh,      \* refreshInFlight: the account whose data is being fetched
  configuring,  \* accounts configure is checking
  opening,      \* connectStream calls that await POST or DELETE of a listen key
  socket,       \* this.socket
  sockets,      \* every socket that has not ended: its account and phase
  keepAlive,    \* keepAliveTimer: the socket it closes when it fails
  puts,         \* sockets whose keep-alive request is in flight
  reconnect,    \* reconnectTimer is set
  debounce,     \* refreshDebounceTimer is set
  poll,         \* the 30-second timer is set
  owed          \* an account event has come since the last fetch began

rest == <<user, stored, refresh, configuring, debounce, poll, owed>>
stream == <<opening, socket, sockets, keepAlive, puts, reconnect>>
vars == <<user, stored, status, stopping, refresh, configuring, opening, socket,
          sockets, keepAlive, puts, reconnect, debounce, poll, owed>>

Phases == {"none", "connecting", "open", "closing", "aborting"}
Status == [configured : BOOLEAN, connected : BOOLEAN, of : Accounts \cup {NoAccount},
           stream : {"DISCONNECTED", "CONNECTING", "CONNECTED"}]
Opening == [account : Accounts, request : {"POST", "DELETE"}]

TypeOK ==
  /\ user \in Users
  /\ stored \in Accounts \cup {NoAccount}
  /\ status \in Status
  /\ stopping \in BOOLEAN
  /\ refresh \in Accounts \cup {NoAccount}
  /\ configuring \in SUBSET Accounts
  /\ opening \in Seq(Opening)
  /\ socket \in SocketIds \cup {NoSocket}
  /\ sockets \in [SocketIds -> [account : Accounts \cup {NoAccount}, phase : Phases]]
  /\ keepAlive \in SocketIds \cup {NoSocket}
  /\ puts \in SUBSET SocketIds
  /\ {reconnect, debounce, poll, owed} \subseteq BOOLEAN
  /\ socket # NoSocket => sockets[socket].phase # "none"

\* emptyStatus(FALSE)
EmptyStatus ==
  [configured |-> FALSE, connected |-> FALSE, of |-> NoAccount, stream |-> "DISCONNECTED"]
Ended == [account |-> NoAccount, phase |-> "none"]

\* The constructor, and start() at launch: nothing unless credentials are
\* stored, else a refresh, the poll timer and a stream.
Init ==
  /\ user \in Users
  /\ stored \in user.accounts \cup {NoAccount}
  /\ status = [EmptyStatus EXCEPT !.configured = (stored # NoAccount),
                                  !.stream = IF stored = NoAccount THEN @ ELSE "CONNECTING"]
  /\ stopping = FALSE
  /\ refresh = stored
  /\ configuring = {}
  /\ opening = IF stored = NoAccount THEN <<>>
               ELSE <<[account |-> stored, request |-> "POST"]>>
  /\ socket = NoSocket
  /\ sockets = [id \in SocketIds |-> Ended]
  /\ keepAlive = NoSocket
  /\ puts = {}
  /\ reconnect = FALSE
  /\ debounce = FALSE
  /\ poll = (stored # NoAccount)
  /\ owed = FALSE
-----------------------------------------------------------------------------
(***************************************************************************)
(* The private methods.                                                    *)
(***************************************************************************)
\* connectStream up to its first await, when not stopping, for the status, the
\* credentials and the socket it finds
ConnectStream(st, account, current) ==
  IF current # NoSocket \/ ~st.configured \/ account = NoAccount
  THEN opening' = opening /\ status' = st
  ELSE /\ Len(opening) < user.opening
       /\ opening' = Append(opening, [account |-> account, request |-> "POST"])
       /\ status' = [st EXCEPT !.stream = "CONNECTING"]

\* Mutant: the reconnect forgets to ask whether the service is stopping.
AlwaysReconnect == reconnect' = TRUE

\* scheduleReconnect
ScheduleReconnect == reconnect' = (reconnect \/ ~stopping)

\* refresh, which joins the fetch in flight
Refresh ==
  /\ refresh' = IF refresh = NoAccount THEN stored ELSE refresh
  /\ owed' = (owed /\ (refresh # NoAccount \/ stored = NoAccount))

\* socket.close(): the end comes later
Closing(phase) ==
  CASE phase = "open"       -> "closing"
    [] phase = "connecting" -> "aborting"
    [] OTHER                -> phase
Close(id) ==
  sockets' = IF id = NoSocket THEN sockets
             ELSE [sockets EXCEPT ![id].phase = Closing(@)]

\* Mutant: the socket is forgotten and not closed.
StopWithoutClose ==
  /\ keepAlive' = NoSocket /\ reconnect' = FALSE /\ debounce' = FALSE
  /\ socket' = NoSocket /\ UNCHANGED sockets

\* stop(), but for the poll timer and the flag
Stop ==
  /\ keepAlive' = NoSocket /\ reconnect' = FALSE /\ debounce' = FALSE
  /\ socket' = NoSocket /\ Close(socket)
-----------------------------------------------------------------------------
(***************************************************************************)
(* The user, and the computer that wakes up.                               *)
(***************************************************************************)
NothingPending ==
  refresh = NoAccount /\ configuring = {} /\ opening = <<>>
Disconnected == stored = NoAccount /\ socket = NoSocket

\* configure: the account's data is fetched before anything is changed
Configure(a) ==
  /\ user.waits => NothingPending /\ Disconnected
  /\ configuring' = configuring \cup {a}
  /\ UNCHANGED <<user, stored, status, stopping, refresh, stream, debounce, poll, owed>>

\* Mutant: the credentials are not saved.
ConfigureInMemory(a) ==
  /\ a \in configuring
  /\ configuring' = configuring \ {a}
  /\ stored' = stored
  /\ stopping' = FALSE
  /\ ConnectStream([configured |-> TRUE, connected |-> TRUE, of |-> a,
                    stream |-> "DISCONNECTED"], a, socket)
  /\ poll' = TRUE
  /\ UNCHANGED <<user, refresh, socket, sockets, keepAlive, puts, reconnect, debounce, owed>>

\* ... and the stored credentials and the status replaced when it has come.
ConfigureSucceeds(a) ==
  /\ a \in configuring
  /\ configuring' = configuring \ {a}
  /\ stored' = a
  /\ stopping' = FALSE
  /\ ConnectStream([configured |-> TRUE, connected |-> TRUE, of |-> a,
                    stream |-> "DISCONNECTED"], a, socket)
  /\ poll' = TRUE
  /\ UNCHANGED <<user, refresh, socket, sockets, keepAlive, puts, reconnect, debounce, owed>>

ConfigureFails(a) ==
  /\ a \in configuring
  /\ configuring' = configuring \ {a}
  /\ UNCHANGED <<user, stored, status, stopping, refresh, stream, debounce, poll, owed>>

\* disconnect: stop, then forget the credentials and the status
Disconnect ==
  /\ user.waits => NothingPending
  /\ Stop
  /\ stopping' = TRUE
  /\ poll' = FALSE
  /\ stored' = NoAccount
  /\ status' = EmptyStatus
  /\ owed' = FALSE
  /\ UNCHANGED <<user, refresh, configuring, opening, puts>>

\* The computer wakes up: stop(), then start(), which does nothing unless
\* configured.
Resume ==
  /\ user.waits => NothingPending
  /\ Stop
  /\ stopping' = ~status.configured
  /\ poll' = status.configured
  /\ IF status.configured
     THEN Refresh /\ ConnectStream(status, stored, NoSocket)
     ELSE UNCHANGED <<refresh, owed, opening, status>>
  /\ UNCHANGED <<user, stored, configuring, puts>>
-----------------------------------------------------------------------------
(***************************************************************************)
(* REST.                                                                   *)
(***************************************************************************)
PollFires ==
  /\ poll
  /\ Refresh
  /\ UNCHANGED <<user, stored, status, stopping, configuring, stream, debounce, poll>>

\* scheduleImmediateRefresh's timer
DebounceFires ==
  /\ debounce
  /\ debounce' = FALSE
  /\ Refresh
  /\ UNCHANGED <<user, stored, status, stopping, configuring, stream, poll>>

\* performRefresh, when the six requests of fetchSnapshot have been answered
RefreshSucceeds ==
  /\ refresh # NoAccount
  /\ status' = [status EXCEPT !.configured = TRUE, !.connected = TRUE, !.of = refresh]
  /\ refresh' = NoAccount
  /\ UNCHANGED <<user, stored, stopping, configuring, stream, debounce, poll, owed>>

\* Mutant: the first failure stops the polling.
FailForGood ==
  /\ refresh # NoAccount
  /\ status' = [status EXCEPT !.connected = FALSE]
  /\ refresh' = NoAccount
  /\ poll' = FALSE
  /\ UNCHANGED <<user, stored, stopping, configuring, stream, debounce, owed>>

RefreshFails ==
  /\ refresh # NoAccount
  /\ status' = [status EXCEPT !.connected = FALSE]
  /\ refresh' = NoAccount
  /\ UNCHANGED <<user, stored, stopping, configuring, stream, debounce, poll, owed>>
-----------------------------------------------------------------------------
(***************************************************************************)
(* The private stream.                                                     *)
(***************************************************************************)
ReconnectFires ==
  /\ reconnect
  /\ reconnect' = FALSE
  /\ IF stopping THEN UNCHANGED <<opening, status>>
     ELSE ConnectStream(status, stored, socket)
  /\ UNCHANGED <<stopping, socket, sockets, keepAlive, puts, rest>>

\* The listen key has come: a socket for it, or, when stopping, its deletion.
KeyArrives ==
  \E i \in DOMAIN opening :
    /\ opening[i].request = "POST"
    /\ IF stopping
       THEN /\ opening' = [opening EXCEPT ![i].request = "DELETE"]
            /\ UNCHANGED <<socket, sockets>>
       ELSE /\ opening' = RemoveAt(opening, i)
            /\ \E id \in SocketIds :
                 /\ sockets[id].phase = "none" /\ id \notin puts
                 /\ socket' = id
                 /\ sockets' = [sockets EXCEPT ![id] = [account |-> opening[i].account,
                                                        phase   |-> "connecting"]]
    /\ UNCHANGED <<status, stopping, keepAlive, puts, reconnect, rest>>

KeyFails ==
  \E i \in DOMAIN opening :
    /\ opening[i].request = "POST"
    /\ opening' = RemoveAt(opening, i)
    /\ status' = [status EXCEPT !.stream = "DISCONNECTED"]
    /\ ScheduleReconnect
    /\ UNCHANGED <<stopping, socket, sockets, keepAlive, puts, rest>>

\* The DELETE has been answered, or has failed, which is ignored.
KeyDeleted ==
  \E i \in DOMAIN opening :
    /\ opening[i].request = "DELETE"
    /\ opening' = RemoveAt(opening, i)
    /\ UNCHANGED <<status, stopping, socket, sockets, keepAlive, puts, reconnect, rest>>

SocketOpens(id) ==
  /\ sockets[id].phase = "connecting"
  /\ sockets' = [sockets EXCEPT ![id].phase = "open"]
  /\ IF id = socket
     THEN status' = [status EXCEPT !.stream = "CONNECTED"] /\ keepAlive' = id
     ELSE UNCHANGED <<status, keepAlive>>
  /\ UNCHANGED <<stopping, opening, socket, puts, reconnect, rest>>

\* The close handler: only the current socket counts.
HandleEnd(id) ==
  IF id = socket
  THEN /\ socket' = NoSocket
       /\ keepAlive' = NoSocket
       /\ status' = [status EXCEPT !.stream = "DISCONNECTED"]
       /\ ScheduleReconnect
  ELSE UNCHANGED <<status, socket, keepAlive, reconnect>>

\* A socket ends: closed by either side, or failed.
SocketEnds(id) ==
  /\ sockets[id].phase # "none"
  /\ sockets' = [sockets EXCEPT ![id] = Ended]
  /\ HandleEnd(id)
  /\ UNCHANGED <<stopping, opening, puts, rest>>

KeepAliveFires ==
  /\ keepAlive # NoSocket
  /\ puts' = puts \cup {keepAlive}
  /\ UNCHANGED <<status, stopping, opening, socket, sockets, keepAlive, reconnect, rest>>

KeepAliveSucceeds(id) ==
  /\ id \in puts
  /\ puts' = puts \ {id}
  /\ UNCHANGED <<status, stopping, opening, socket, sockets, keepAlive, reconnect, rest>>

KeepAliveFails(id) ==
  /\ id \in puts
  /\ puts' = puts \ {id}
  /\ status' = [status EXCEPT !.stream = "DISCONNECTED"]
  /\ Close(id)
  /\ UNCHANGED <<stopping, opening, socket, keepAlive, reconnect, rest>>

\* handleStreamMessage.  A socket being closed may still deliver.
Delivers(id) == sockets[id].phase \in {"open", "closing"}

AccountEvent(id) ==
  /\ Delivers(id)
  /\ status' = [status EXCEPT !.stream = "CONNECTED"]
  /\ debounce' = TRUE
  /\ owed' = (stored # NoAccount)
  /\ UNCHANGED <<user, stored, stopping, refresh, configuring, stream, poll>>

\* listenKeyExpired closes the current socket, whichever one it came on.
KeyExpires(id) ==
  /\ Delivers(id)
  /\ status' = [status EXCEPT !.stream = "CONNECTED"]
  /\ Close(socket)
  /\ UNCHANGED <<stopping, opening, socket, keepAlive, puts, reconnect, rest>>
-----------------------------------------------------------------------------
Next ==
  \/ \E a \in user.accounts : Configure(a) \/ ConfigureSucceeds(a) \/ ConfigureFails(a)
  \/ Disconnect
  \/ Resume
  \/ PollFires
  \/ DebounceFires
  \/ RefreshSucceeds
  \/ RefreshFails
  \/ ReconnectFires
  \/ KeyArrives
  \/ KeyFails
  \/ KeyDeleted
  \/ \E id \in SocketIds : \/ SocketOpens(id)
                           \/ SocketEnds(id)
                           \/ KeepAliveSucceeds(id)
                           \/ KeepAliveFails(id)
                           \/ AccountEvent(id)
                           \/ KeyExpires(id)
  \/ KeepAliveFires

Spec == Init /\ [][Next]_vars

\* Timers fire, the 30-second one now and then when no fetch is in flight;
\* requests are answered, and the service that is asked again and again answers
\* well at last; a socket that keeps connecting opens at last.  Nothing is said
\* of the user who does not wait, of whom no liveness is claimed.
Fairness ==
  /\ SF_vars(user.waits /\ refresh = NoAccount /\ PollFires)
  /\ WF_vars(user.waits /\ ReconnectFires)
  /\ WF_vars(user.waits /\ (RefreshSucceeds \/ RefreshFails))
  /\ SF_vars(user.waits /\ RefreshSucceeds)
  /\ WF_vars(user.waits /\ (KeyArrives \/ KeyFails))
  /\ SF_vars(user.waits /\ KeyArrives)
  /\ \A id \in SocketIds :
       /\ SF_vars(user.waits /\ SocketOpens(id))
       /\ WF_vars(user.waits /\ (KeepAliveSucceeds(id) \/ KeepAliveFails(id)))
       /\ WF_vars(/\ user.waits
                  /\ sockets[id].phase \in {"connecting", "closing", "aborting"}
                  /\ SocketEnds(id))
FairSpec == Spec /\ Fairness
-----------------------------------------------------------------------------
\* For a user who waits, in whatever order sockets end and keys arrive: there
\* is never a second live socket besides this.socket (its events would be
\* handled twice, and nothing could close it).
OneStream ==
  user.waits =>
    \A id \in SocketIds : sockets[id].phase \in {"connecting", "open"} => id = socket

\* For a user who waits: the data shown as connected, and the stream, are of
\* the account whose credentials are stored.
ShownIsStored ==
  user.waits =>
    /\ status.connected => status.of = stored
    /\ socket # NoSocket => sockets[socket].account = stored

\* Whatever happens while requests are in flight: a service with credentials
\* that is not stopping has a socket, is about to have one, or will retry; and
\* once stopped nothing that was in flight starts a stream or a timer again.
StreamNeverStalls ==
  /\ stored # NoAccount /\ ~stopping =>
       \/ socket # NoSocket
       \/ reconnect
       \/ \E i \in DOMAIN opening : opening[i].request = "POST"
  /\ stopping => socket = NoSocket /\ keepAlive = NoSocket /\ ~reconnect /\ ~poll

\* For a user who waits: every account that is configured is at last shown
\* connected and has an open stream, and what an account event tells of is
\* fetched by a fetch that began after it; or the account is removed.
AccountIsServed ==
  user.waits =>
    /\ stored # NoAccount ~> status.connected \/ stored = NoAccount
    /\ stored # NoAccount ~>
         \/ stored = NoAccount
         \/ socket # NoSocket /\ sockets[socket].phase = "open"
    /\ owed ~> ~owed
=============================================================================
