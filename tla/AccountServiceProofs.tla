------------------------- MODULE AccountServiceProofs -------------------------
(***************************************************************************)
(* Proofs about AccountService, for any accounts, any number of sockets    *)
(* and of connectStream calls in flight: type correctness; that the stream *)
(* never stalls and a stopped service stays stopped; and, for a user who   *)
(* waits, that there is one stream and that what is shown is of the        *)
(* account whose credentials are stored.                                   *)
(***************************************************************************)
EXTENDS AccountService, SequenceTheorems, TLAPS

Socket == SocketIds \cup {NoSocket}
Channel == [account : Accounts \cup {NoAccount}, phase : Phases]
-----------------------------------------------------------------------------
(***************************************************************************)
(* Types.                                                                  *)
(***************************************************************************)
\* The request that is removed is gone, the others stay.
LEMMA RemovedRequest ==
  ASSUME NEW s \in Seq(Opening), NEW i \in DOMAIN s
  PROVE  /\ RemoveAt(s, i) \in Seq(Opening)
         /\ Len(RemoveAt(s, i)) = Len(s) - 1
         /\ \A j \in DOMAIN RemoveAt(s, i) : \E k \in DOMAIN s : RemoveAt(s, i)[j] = s[k]
         /\ \A k \in DOMAIN s \ {i} : \E j \in DOMAIN RemoveAt(s, i) :
              RemoveAt(s, i)[j] = s[k]
<1>1. Len(s) \in Nat /\ i \in 1 .. Len(s)
  OBVIOUS
<1> DEFINE before == SubSeq(s, 1, i - 1)
           after == SubSeq(s, i + 1, Len(s))
           all == before \o after
<1>2. /\ before \in Seq(Opening) /\ Len(before) = i - 1
      /\ \A j \in 1 .. (i - 1) : before[j] = s[j]
  BY <1>1
<1>3. /\ after \in Seq(Opening) /\ Len(after) = Len(s) - i
      /\ \A j \in 1 .. (Len(s) - i) : after[j] = s[j + i]
  BY <1>1
<1> HIDE DEF before, after
<1>4. /\ all \in Seq(Opening) /\ Len(all) = Len(s) - 1
      /\ \A j \in 1 .. (Len(s) - 1) :
           all[j] = IF j < i THEN s[j] ELSE s[j + 1]
  <2>1. /\ all \in Seq(Opening) /\ Len(all) = Len(before) + Len(after)
        /\ \A j \in 1 .. Len(before) + Len(after) :
             all[j] = IF j <= Len(before) THEN before[j] ELSE after[j - Len(before)]
    BY <1>2, <1>3, ConcatProperties
  <2> HIDE DEF all
  <2>2. ASSUME NEW j \in 1 .. (Len(s) - 1)
        PROVE  all[j] = IF j < i THEN s[j] ELSE s[j + 1]
    <3>0. /\ Len(before) = i - 1
          /\ all[j] = IF j <= i - 1 THEN before[j] ELSE after[j - (i - 1)]
      <4>1. Len(before) = i - 1 /\ Len(before) + Len(after) = Len(s) - 1
        BY <1>1, <1>2, <1>3
      <4>2. QED
        BY <2>1, <4>1
    <3>1. CASE j < i
      <4>1. j <= i - 1 /\ j \in 1 .. (i - 1)
        BY <1>1, <3>1
      <4>2. QED
        BY <1>2, <3>0, <3>1, <4>1
    <3>2. CASE ~(j < i)
      <4>1. j - (i - 1) \in 1 .. (Len(s) - i)
        BY <1>1, <3>2
      <4>2. all[j] = after[j - (i - 1)]
        <5>1. ~(j <= i - 1)
          BY <1>1, <3>2
        <5>2. QED
          BY <3>0, <5>1
      <4>3. after[j - (i - 1)] = s[j - (i - 1) + i]
        BY <1>3, <4>1
      <4>4. j - (i - 1) + i = j + 1
        BY <1>1
      <4>5. QED
        BY <3>2, <4>2, <4>3, <4>4
    <3>3. QED
      BY <3>1, <3>2
  <2>3. QED
    BY <1>1, <1>2, <1>3, <2>1, <2>2
<1>5. RemoveAt(s, i) = all
  BY DEF RemoveAt, before, after
<1> HIDE DEF all
<1>6. \A j \in 1 .. Len(all) : \E k \in 1 .. Len(s) : all[j] = s[k]
  BY <1>1, <1>4
<1>7. \A k \in (1 .. Len(s)) \ {i} : \E j \in 1 .. Len(all) : all[j] = s[k]
  <2>1. SUFFICES ASSUME NEW k \in 1 .. Len(s), k # i
                 PROVE  \E j \in 1 .. Len(all) : all[j] = s[k]
    OBVIOUS
  <2>2. CASE k < i
    BY <1>1, <1>4, <2>1, <2>2
  <2>3. CASE k > i
    <3>1. k - 1 \in 1 .. Len(all) /\ all[k - 1] = s[k]
      BY <1>1, <1>4, <2>1, <2>3
    <3>2. QED
      BY <3>1
  <2>4. QED
    BY <1>1, <2>1, <2>2, <2>3
<1>8. DOMAIN s = 1 .. Len(s) /\ DOMAIN all = 1 .. Len(all)
  BY <1>4, LenProperties
<1>9. QED
  BY <1>4, <1>5, <1>6, <1>7, <1>8, Zenon

\* The service as constructed and started.
LEMMA TypeInit == Init => TypeOK
<1>1. SUFFICES ASSUME Init
               PROVE  TypeOK
  OBVIOUS
<1>2. status \in Status /\ stored \in Accounts \cup {NoAccount}
  BY <1>1, AccountServiceAssumption DEF Init, EmptyStatus, Status
<1>3. opening \in Seq(Opening)
  <2>1. CASE stored = NoAccount
    BY <1>1, <2>1 DEF Init
  <2>2. CASE stored # NoAccount
    <3> DEFINE request == [account |-> stored, request |-> "POST"]
    <3>1. request \in Opening /\ opening = <<request>>
      BY <1>1, <1>2, <2>2 DEF Init, Opening
    <3> HIDE DEF request
    <3>2. QED
      BY <3>1
  <2>3. QED
    BY <2>1, <2>2
<1>4. sockets \in [SocketIds -> Channel]
  BY <1>1 DEF Init, Ended, Channel, Phases
<1>5. QED
  BY <1>1, <1>2, <1>3, <1>4 DEF Init, TypeOK, Channel

\* connectStream, whatever it finds.
LEMMA ConnectTyped ==
  ASSUME TypeOK, NEW st \in Status, NEW a \in Accounts \cup {NoAccount},
         NEW current, ConnectStream(st, a, current)
  PROVE  opening' \in Seq(Opening) /\ status' \in Status
<1>1. opening \in Seq(Opening)
  BY DEF TypeOK
<1>2. CASE current # NoSocket \/ ~st.configured \/ a = NoAccount
  BY <1>1, <1>2 DEF ConnectStream
<1>3. CASE ~(current # NoSocket \/ ~st.configured \/ a = NoAccount)
  <2>1. [account |-> a, request |-> "POST"] \in Opening
    BY <1>3 DEF Opening
  <2>2. [st EXCEPT !.stream = "CONNECTING"] \in Status
    BY DEF Status
  <2>3. QED
    BY <1>1, <1>3, <2>1, <2>2 DEF ConnectStream
<1>4. QED
  BY <1>2, <1>3

\* A socket that is asked to close has not ended.
LEMMA CloseTyped ==
  ASSUME TypeOK, NEW id \in Socket, Close(id)
  PROVE  /\ sockets' \in [SocketIds -> Channel]
         /\ \A s \in SocketIds :
              /\ sockets'[s].account = sockets[s].account
              /\ sockets'[s].phase = (IF s = id THEN Closing(sockets[s].phase)
                                      ELSE sockets[s].phase)
<1>1. sockets \in [SocketIds -> Channel]
  BY DEF TypeOK, Channel
<1>2. CASE id = NoSocket
  BY <1>1, <1>2, AccountServiceAssumption DEF Close
<1>3. CASE id # NoSocket
  <2>1. id \in SocketIds /\ sockets' = [sockets EXCEPT ![id].phase = Closing(@)]
    BY <1>3 DEF Close, Socket
  <2>2. Closing(sockets[id].phase) \in Phases
    BY <1>1, <2>1 DEF Closing, Channel, Phases
  <2> DEFINE phase == Closing(sockets[id].phase)
  <2>3. sockets' = [sockets EXCEPT ![id].phase = phase]
    BY <2>1
  <2> HIDE DEF phase
  <2>4. phase \in Phases
    BY <2>2 DEF phase
  <2>5. QED
    BY <1>1, <2>1, <2>3, <2>4 DEF Channel, phase
<1>4. QED
  BY <1>2, <1>3

\* What the status may become.
LEMMA StatusTyped ==
  /\ EmptyStatus \in Status
  /\ \A st \in Status : /\ [st EXCEPT !.stream = "CONNECTED"] \in Status
                         /\ [st EXCEPT !.stream = "DISCONNECTED"] \in Status
                         /\ [st EXCEPT !.connected = FALSE] \in Status
  /\ \A st \in Status, a \in Accounts :
       /\ [st EXCEPT !.configured = TRUE, !.connected = TRUE, !.of = a] \in Status
       /\ [configured |-> TRUE, connected |-> TRUE, of |-> a,
           stream |-> "DISCONNECTED"] \in Status
BY DEF Status, EmptyStatus

\* Every step keeps the types.
LEMMA TypeNext == TypeOK /\ [Next]_vars => TypeOK'
<1>1. SUFFICES ASSUME TypeOK, [Next]_vars
               PROVE  TypeOK'
  OBVIOUS
<1>2. /\ status \in Status /\ opening \in Seq(Opening) /\ socket \in Socket
      /\ sockets \in [SocketIds -> Channel] /\ keepAlive \in Socket
      /\ stored \in Accounts \cup {NoAccount}
      /\ user.accounts \subseteq Accounts
      /\ DOMAIN opening = 1 .. Len(opening)
      /\ (socket # NoSocket => sockets[socket].phase # "none")
  BY <1>1, LenProperties, AccountServiceAssumption DEF TypeOK, Socket, Channel
<1> USE DEF Socket
<1>3. ASSUME NEW a \in Accounts, Configure(a) \/ ConfigureFails(a)
      PROVE  TypeOK'
  BY <1>1, <1>3 DEF Configure, ConfigureFails, TypeOK, stream
<1>4. ASSUME NEW a \in Accounts, ConfigureSucceeds(a)
      PROVE  TypeOK'
  <2>1. opening' \in Seq(Opening) /\ status' \in Status
    BY <1>1, <1>4, StatusTyped, ConnectTyped DEF ConfigureSucceeds
  <2>2. QED
    BY <1>1, <1>4, <2>1 DEF ConfigureSucceeds, TypeOK
<1>5. ASSUME Stop
      PROVE  sockets' \in [SocketIds -> Channel]
  BY <1>1, <1>2, <1>5, CloseTyped DEF Stop
<1>6. CASE Disconnect
  BY <1>1, <1>5, <1>6, StatusTyped DEF Disconnect, Stop, TypeOK, Channel
<1>7. CASE Resume
  <2>1. opening' \in Seq(Opening) /\ status' \in Status
    BY <1>1, <1>2, <1>7, ConnectTyped DEF Resume
  <2>2. refresh' \in Accounts \cup {NoAccount} /\ owed' \in BOOLEAN
    BY <1>1, <1>7 DEF Resume, Refresh, TypeOK
  <2>3. status.configured \in BOOLEAN
    BY <1>2 DEF Status
  <2>4. QED
    BY <1>1, <1>5, <1>7, <2>1, <2>2, <2>3 DEF Resume, Stop, TypeOK, Channel
<1>8. CASE PollFires \/ DebounceFires
  BY <1>1, <1>8 DEF PollFires, DebounceFires, Refresh, TypeOK, stream
<1>9. CASE RefreshSucceeds \/ RefreshFails
  <2>1. status' \in Status
    <3>1. CASE RefreshSucceeds
      <4>1. /\ refresh \in Accounts
            /\ status' = [status EXCEPT !.configured = TRUE, !.connected = TRUE,
                                        !.of = refresh]
        BY <1>1, <3>1 DEF RefreshSucceeds, TypeOK
      <4>2. QED
        BY <1>2, <4>1, StatusTyped
    <3>2. CASE RefreshFails
      BY <1>2, <3>2, StatusTyped DEF RefreshFails
    <3>3. QED
      BY <1>9, <3>1, <3>2
  <2>2. QED
    BY <1>1, <1>9, <2>1 DEF RefreshSucceeds, RefreshFails, TypeOK, stream
<1>10. CASE ReconnectFires
  <2>1. opening' \in Seq(Opening) /\ status' \in Status
    BY <1>1, <1>2, <1>10, ConnectTyped DEF ReconnectFires
  <2>2. QED
    BY <1>1, <1>10, <2>1 DEF ReconnectFires, TypeOK, rest
<1>11. CASE KeyArrives
  <2>1. PICK i \in DOMAIN opening :
          /\ opening[i].request = "POST"
          /\ IF stopping
             THEN /\ opening' = [opening EXCEPT ![i].request = "DELETE"]
                  /\ UNCHANGED <<socket, sockets>>
             ELSE /\ opening' = RemoveAt(opening, i)
                  /\ \E id \in SocketIds :
                       /\ sockets[id].phase = "none" /\ id \notin puts
                       /\ socket' = id
                       /\ sockets' = [sockets EXCEPT ![id] =
                                        [account |-> opening[i].account,
                                         phase   |-> "connecting"]]
          /\ UNCHANGED <<status, stopping, keepAlive, puts, reconnect, rest>>
    BY <1>11 DEF KeyArrives
  <2>2. opening[i] \in Opening
    BY <1>2, <2>1, ElementOfSeq
  <2>3. opening' \in Seq(Opening)
    <3>1. CASE stopping
      <4> DEFINE deletion == [opening[i] EXCEPT !.request = "DELETE"]
      <4>1. opening' = [opening EXCEPT ![i] = deletion] /\ deletion \in Opening
        BY <2>1, <2>2, <3>1 DEF Opening
      <4> HIDE DEF deletion
      <4>2. QED
        BY <1>2, <4>1, ExceptSeq
    <3>2. CASE ~stopping
      BY <1>2, <2>1, <3>2, RemovedRequest
    <3>3. QED
      BY <3>1, <3>2
  <2>4. /\ socket' \in Socket /\ sockets' \in [SocketIds -> Channel]
        /\ socket' # NoSocket => sockets'[socket'].phase # "none"
    <3>1. CASE stopping
      BY <1>2, <2>1, <3>1
    <3>2. CASE ~stopping
      <4>1. PICK id \in SocketIds :
              /\ socket' = id
              /\ sockets' = [sockets EXCEPT ![id] = [account |-> opening[i].account,
                                                     phase   |-> "connecting"]]
        BY <2>1, <3>2
      <4> DEFINE channel == [account |-> opening[i].account, phase |-> "connecting"]
      <4>2. channel \in Channel /\ channel.phase # "none"
        BY <2>2 DEF Channel, Phases, Opening
      <4>3. sockets' = [sockets EXCEPT ![id] = channel]
        BY <4>1
      <4> HIDE DEF channel
      <4>4. QED
        BY <1>2, <4>1, <4>2, <4>3
    <3>3. QED
      BY <3>1, <3>2
  <2>5. QED
    BY <1>1, <2>1, <2>3, <2>4 DEF TypeOK, rest, Channel
<1>12. CASE KeyFails \/ KeyDeleted
  <2>1. opening' \in Seq(Opening)
    BY <1>2, <1>12, RemovedRequest DEF KeyFails, KeyDeleted
  <2>2. status' \in Status
    BY <1>2, <1>12, StatusTyped DEF KeyFails, KeyDeleted
  <2>3. QED
    BY <1>1, <1>12, <2>1, <2>2
    DEF KeyFails, KeyDeleted, ScheduleReconnect, TypeOK, rest
<1>13. ASSUME NEW id \in SocketIds, SocketOpens(id)
       PROVE  TypeOK'
  <2> DEFINE channel == [sockets[id] EXCEPT !.phase = "open"]
  <2>1. sockets' = [sockets EXCEPT ![id] = channel]
        /\ channel \in Channel /\ channel.phase # "none"
    BY <1>2, <1>13 DEF SocketOpens, Channel, Phases
  <2> HIDE DEF channel
  <2>2. /\ sockets' \in [SocketIds -> Channel]
        /\ socket' # NoSocket => sockets'[socket'].phase # "none"
    BY <1>2, <1>13, <2>1 DEF SocketOpens
  <2>3. status' \in Status
    BY <1>2, <1>13, StatusTyped DEF SocketOpens
  <2>4. QED
    BY <1>1, <1>13, <2>2, <2>3 DEF SocketOpens, TypeOK, rest, Channel
<1>14. ASSUME NEW id \in SocketIds, SocketEnds(id)
       PROVE  TypeOK'
  <2>1. Ended \in Channel
    BY DEF Ended, Channel, Phases
  <2>2. /\ sockets' \in [SocketIds -> Channel]
        /\ socket' # NoSocket => sockets'[socket'].phase # "none"
    BY <1>2, <1>14, <2>1 DEF SocketEnds, HandleEnd
  <2>3. status' \in Status
    BY <1>2, <1>14, StatusTyped DEF SocketEnds, HandleEnd
  <2>4. QED
    BY <1>1, <1>14, <2>2, <2>3
    DEF SocketEnds, HandleEnd, ScheduleReconnect, TypeOK, rest, Channel
<1>15. ASSUME NEW id \in Socket, Close(id)
       PROVE  /\ sockets' \in [SocketIds -> Channel]
              /\ socket # NoSocket => sockets'[socket].phase # "none"
  <2>1. /\ sockets' \in [SocketIds -> Channel]
        /\ \A s \in SocketIds :
             sockets'[s].phase = (IF s = id THEN Closing(sockets[s].phase)
                                  ELSE sockets[s].phase)
    BY <1>1, <1>15, CloseTyped
  <2>2. QED
    BY <1>2, <2>1 DEF Closing
<1>16. ASSUME NEW id \in SocketIds, KeepAliveSucceeds(id) \/ KeepAliveFails(id)
       PROVE  TypeOK'
  <2>1. status' \in Status
    BY <1>2, <1>16, StatusTyped DEF KeepAliveSucceeds, KeepAliveFails
  <2>2. /\ sockets' \in [SocketIds -> Channel]
        /\ socket # NoSocket => sockets'[socket].phase # "none"
    BY <1>2, <1>15, <1>16 DEF KeepAliveSucceeds, KeepAliveFails
  <2>3. QED
    BY <1>1, <1>16, <2>1, <2>2
    DEF KeepAliveSucceeds, KeepAliveFails, TypeOK, rest, Channel
<1>17. ASSUME NEW id \in SocketIds, AccountEvent(id)
       PROVE  TypeOK'
  BY <1>1, <1>2, <1>17, StatusTyped DEF AccountEvent, TypeOK, stream
<1>18. ASSUME NEW id \in SocketIds, KeyExpires(id)
       PROVE  TypeOK'
  BY <1>1, <1>2, <1>15, <1>18, StatusTyped DEF KeyExpires, TypeOK, rest, Channel
<1>19. CASE KeepAliveFires
  BY <1>1, <1>2, <1>19 DEF KeepAliveFires, TypeOK, rest
<1>20. CASE UNCHANGED vars
  BY <1>1, <1>20 DEF vars, TypeOK
<1>21. QED
  BY <1>1, <1>2, <1>3, <1>4, <1>6, <1>7, <1>8, <1>9, <1>10, <1>11, <1>12, <1>13,
     <1>14, <1>16, <1>17, <1>18, <1>19, <1>20 DEF Next

\* The service, its stream and its timers keep their types.
THEOREM TypeCorrect == Spec => []TypeOK
BY TypeInit, TypeNext, PTL DEF Spec
-----------------------------------------------------------------------------
(***************************************************************************)
(* What the steps do to the requests and the status.                       *)
(***************************************************************************)
\* connectStream appends a request, when there is no socket and it has
\* credentials, and changes nothing else than what is said of the stream.
LEMMA ConnectAppends ==
  ASSUME TypeOK, NEW st \in Status, NEW a \in Accounts \cup {NoAccount},
         NEW current, ConnectStream(st, a, current)
  PROVE  /\ status'.configured = st.configured /\ status'.connected = st.connected
         /\ status'.of = st.of
         /\ IF current # NoSocket \/ ~st.configured \/ a = NoAccount
            THEN opening' = opening
            ELSE /\ Len(opening') = Len(opening) + 1
                 /\ \A i \in DOMAIN opening : opening'[i] = opening[i]
                 /\ opening'[Len(opening) + 1].account = a
                 /\ \E i \in DOMAIN opening' : opening'[i].request = "POST"
<1>1. opening \in Seq(Opening) /\ DOMAIN opening = 1 .. Len(opening)
  BY LenProperties DEF TypeOK
<1>2. CASE current # NoSocket \/ ~st.configured \/ a = NoAccount
  BY <1>2 DEF ConnectStream
<1>3. CASE ~(current # NoSocket \/ ~st.configured \/ a = NoAccount)
  <2> DEFINE request == [account |-> a, request |-> "POST"]
  <2>1. /\ request \in Opening /\ request.account = a /\ request.request = "POST"
        /\ opening' = Append(opening, request)
    BY <1>3 DEF ConnectStream, Opening
  <2>2. status' = [st EXCEPT !.stream = "CONNECTING"]
    BY <1>3 DEF ConnectStream
  <2> HIDE DEF request
  <2>3. /\ Len(opening') = Len(opening) + 1
        /\ \A i \in DOMAIN opening : opening'[i] = opening[i]
        /\ opening'[Len(opening) + 1] = request
    BY <1>1, <2>1, AppendProperties
  <2>4. /\ Len(opening) + 1 \in DOMAIN opening'
        /\ opening'[Len(opening) + 1].request = "POST"
    <3>1. opening' \in Seq(Opening) /\ Len(opening) \in Nat
      BY <1>1, <2>1
    <3>2. DOMAIN opening' = 1 .. Len(opening')
      BY <3>1, LenProperties
    <3>3. QED
      BY <2>1, <2>3, <3>1, <3>2
  <2>5. \E i \in DOMAIN opening' : opening'[i].request = "POST"
    BY <2>4
  <2>6. QED
    BY <1>3, <2>1, <2>2, <2>3, <2>5 DEF Status
<1>4. QED
  BY <1>2, <1>3
-----------------------------------------------------------------------------
(***************************************************************************)
(* The stream never stalls.                                                *)
(***************************************************************************)
\* A service that has credentials says so, and so the stream it is to have is
\* not given up by connectStream.
Alive == StreamNeverStalls /\ (stored # NoAccount => status.configured)

\* The request whose answer has been awaited in vain, or was a DELETE, is gone;
\* one that waits for a key stays.
LEMMA KeyStays ==
  ASSUME TypeOK, KeyDeleted
  PROVE  (\E i \in DOMAIN opening : opening[i].request = "POST")
           => \E i \in DOMAIN opening' : opening'[i].request = "POST"
<1>1. PICK d \in DOMAIN opening :
        opening[d].request = "DELETE" /\ opening' = RemoveAt(opening, d)
  BY DEF KeyDeleted
<1>2. opening \in Seq(Opening)
  BY DEF TypeOK
<1>3. \A k \in DOMAIN opening \ {d} : \E j \in DOMAIN opening' : opening'[j] = opening[k]
  BY <1>1, <1>2, RemovedRequest, Zenon
<1>4. QED
  BY <1>1, <1>3

\* Started, the service has a request on its way, or no credentials.
LEMMA AliveInit == Init => Alive
<1>1. SUFFICES ASSUME Init
               PROVE  Alive
  OBVIOUS
<1>2. stored # NoAccount => status.configured
  BY <1>1 DEF Init, EmptyStatus
<1>3. ASSUME stored # NoAccount
      PROVE  \E i \in DOMAIN opening : opening[i].request = "POST"
  <2>1. opening = <<[account |-> stored, request |-> "POST"]>>
    BY <1>1, <1>3 DEF Init
  <2>2. 1 \in DOMAIN opening /\ opening[1].request = "POST"
    BY <2>1
  <2>3. QED
    BY <2>2
<1>4. QED
  BY <1>1, <1>2, <1>3 DEF Init, Alive, StreamNeverStalls

\* No step ends the last of socket, request and timer without a successor.
LEMMA AliveNext == TypeOK /\ Alive /\ [Next]_vars => Alive'
<1>1. SUFFICES ASSUME TypeOK, Alive, [Next]_vars
               PROVE  Alive'
  OBVIOUS
<1>2. /\ status \in Status /\ stored \in Accounts \cup {NoAccount}
      /\ user.accounts \subseteq Accounts /\ NoAccount \notin Accounts
      /\ NoSocket \notin SocketIds /\ socket \in Socket /\ keepAlive \in Socket
      /\ opening \in Seq(Opening) /\ DOMAIN opening = 1 .. Len(opening)
      /\ Len(opening) \in Nat
  BY <1>1, LenProperties, AccountServiceAssumption DEF TypeOK, Socket
<1>3. \A st \in Status : /\ [st EXCEPT !.stream = "DISCONNECTED"].configured = st.configured
                         /\ [st EXCEPT !.connected = FALSE].configured = st.configured
  BY DEF Status
<1>4. ASSUME NEW a \in Accounts, Configure(a) \/ ConfigureFails(a)
      PROVE  Alive'
  BY <1>1, <1>4 DEF Configure, ConfigureFails, Alive, StreamNeverStalls, stream
<1>5. ASSUME NEW a \in Accounts, ConfigureSucceeds(a)
      PROVE  Alive'
  <2> DEFINE st == [configured |-> TRUE, connected |-> TRUE, of |-> a,
                    stream |-> "DISCONNECTED"]
  <2>1. st \in Status /\ st.configured
    BY DEF Status
  <2>2. ConnectStream(st, a, socket) /\ ~stopping' /\ socket' = socket
    BY <1>5 DEF ConfigureSucceeds
  <2> HIDE DEF st
  <2>3. /\ status'.configured
        /\ \/ socket' # NoSocket
           \/ \E i \in DOMAIN opening' : opening'[i].request = "POST"
    BY <1>1, <1>2, <2>1, <2>2, ConnectAppends
  <2>4. QED
    BY <2>2, <2>3 DEF Alive, StreamNeverStalls
<1>6. CASE Disconnect
  BY <1>6 DEF Disconnect, Stop, Alive, StreamNeverStalls
<1>7. CASE Resume
  <2>1. /\ socket' = NoSocket /\ keepAlive' = NoSocket /\ ~reconnect'
        /\ stored' = stored /\ stopping' = ~status.configured /\ poll' = status.configured
    BY <1>7 DEF Resume, Stop
  <2>2. CASE status.configured
    <3>1. ConnectStream(status, stored, NoSocket)
      BY <1>7, <2>2 DEF Resume
    <3>2. /\ status'.configured
          /\ stored # NoAccount => \E i \in DOMAIN opening' : opening'[i].request = "POST"
      BY <1>1, <1>2, <2>2, <3>1, ConnectAppends
    <3>3. QED
      BY <2>1, <2>2, <3>2 DEF Alive, StreamNeverStalls
  <2>3. CASE ~status.configured
    BY <1>1, <1>7, <2>1, <2>3 DEF Resume, Alive, StreamNeverStalls
  <2>4. QED
    BY <2>2, <2>3
<1>8. CASE PollFires \/ DebounceFires
  BY <1>1, <1>8 DEF PollFires, DebounceFires, Alive, StreamNeverStalls, stream
<1>9. CASE RefreshSucceeds \/ RefreshFails
  <2>1. UNCHANGED <<stored, stopping, socket, keepAlive, reconnect, poll, opening>>
    BY <1>9 DEF RefreshSucceeds, RefreshFails, stream
  <2>2. status.configured => status'.configured
    BY <1>2, <1>9 DEF RefreshSucceeds, RefreshFails, Status
  <2>3. QED
    BY <1>1, <2>1, <2>2 DEF Alive, StreamNeverStalls
<1>10. CASE ReconnectFires
  <2>1. /\ stored' = stored /\ ~stopping /\ ~stopping' /\ socket' = socket
        /\ ConnectStream(status, stored, socket)
    BY <1>1, <1>10 DEF ReconnectFires, rest, Alive, StreamNeverStalls
  <2>2. /\ status'.configured = status.configured
        /\ stored # NoAccount /\ status.configured =>
             \/ socket # NoSocket
             \/ \E i \in DOMAIN opening' : opening'[i].request = "POST"
    BY <1>1, <1>2, <2>1, ConnectAppends
  <2>3. QED
    BY <1>1, <2>1, <2>2 DEF Alive, StreamNeverStalls
<1>11. CASE KeyArrives
  <2>1. CASE stopping
    BY <1>1, <1>11, <2>1 DEF KeyArrives, Alive, StreamNeverStalls, rest
  <2>2. CASE ~stopping
    BY <1>1, <1>2, <1>11, <2>2 DEF KeyArrives, Alive, StreamNeverStalls, rest
  <2>3. QED
    BY <2>1, <2>2
<1>12. CASE KeyFails
  <2>1. /\ UNCHANGED <<stored, stopping, socket, keepAlive, poll>>
        /\ status'.configured = status.configured
    BY <1>2, <1>3, <1>12 DEF KeyFails, rest
  <2>2. reconnect' = (reconnect \/ ~stopping)
    BY <1>12 DEF KeyFails, ScheduleReconnect
  <2>3. QED
    BY <1>1, <2>1, <2>2 DEF Alive, StreamNeverStalls
<1>13. CASE KeyDeleted
  <2>1. UNCHANGED <<stored, status, stopping, socket, keepAlive, reconnect, poll>>
    BY <1>13 DEF KeyDeleted, rest
  <2>2. QED
    BY <1>1, <1>13, <2>1, KeyStays DEF Alive, StreamNeverStalls
<1>14. ASSUME NEW id \in SocketIds, SocketOpens(id)
       PROVE  Alive'
  BY <1>1, <1>2, <1>14 DEF SocketOpens, Alive, StreamNeverStalls, rest, Status
<1>15. ASSUME NEW id \in SocketIds, SocketEnds(id)
       PROVE  Alive'
  BY <1>1, <1>2, <1>15
  DEF SocketEnds, HandleEnd, ScheduleReconnect, Alive, StreamNeverStalls, rest, Status
<1>16. ASSUME NEW id \in SocketIds,
              \/ KeepAliveSucceeds(id) \/ KeepAliveFails(id)
              \/ AccountEvent(id) \/ KeyExpires(id)
       PROVE  Alive'
  <2>1. UNCHANGED <<stored, stopping, socket, keepAlive, reconnect, poll, opening>>
    BY <1>16 DEF KeepAliveSucceeds, KeepAliveFails, AccountEvent, KeyExpires, rest, stream
  <2>2. status'.configured = status.configured
    BY <1>2, <1>16 DEF KeepAliveSucceeds, KeepAliveFails, AccountEvent, KeyExpires, Status
  <2>3. QED
    BY <1>1, <2>1, <2>2 DEF Alive, StreamNeverStalls
<1>17. CASE KeepAliveFires
  BY <1>1, <1>17 DEF KeepAliveFires, Alive, StreamNeverStalls, rest
<1>18. CASE UNCHANGED vars
  BY <1>1, <1>18 DEF vars, Alive, StreamNeverStalls
<1>19. QED
  BY <1>1, <1>2, <1>4, <1>5, <1>6, <1>7, <1>8, <1>9, <1>10, <1>11, <1>12, <1>13,
     <1>14, <1>15, <1>16, <1>17, <1>18 DEF Next

\* Whatever the user does while requests are in flight: a service with
\* credentials that is not stopping has a socket, a key on its way or a timer
\* set to try again, and one that is stopping has none of them.
THEOREM StreamStaysAlive == Spec => []StreamNeverStalls
<1>1. Init => TypeOK /\ Alive
  BY TypeInit, AliveInit
<1>2. TypeOK /\ Alive /\ [Next]_vars => TypeOK' /\ Alive'
  BY TypeNext, AliveNext
<1>3. Alive => StreamNeverStalls
  BY DEF Alive
<1>4. QED
  BY <1>1, <1>2, <1>3, PTL DEF Spec
-----------------------------------------------------------------------------
(***************************************************************************)
(* One stream, of the stored account, for a user who waits.                *)
(***************************************************************************)
\* Without credentials nothing is connected, fetched or tried.
Forgotten ==
  stored = NoAccount =>
    /\ socket = NoSocket /\ opening = <<>> /\ refresh = NoAccount
    /\ ~reconnect /\ ~status.configured /\ ~status.connected

\* At most one of: a request for a key, of the stored account, by a service that
\* is not stopping; a socket; a timer set to try again.
OneAttempt ==
  /\ Len(opening) <= 1
  /\ opening # <<>> => socket = NoSocket /\ ~reconnect /\ ~stopping
  /\ \A i \in DOMAIN opening : opening[i].account = stored
  /\ reconnect => socket = NoSocket

\* What is fetched is of the stored account, what is checked is the one account
\* that may be stored next.
OneAccount ==
  /\ refresh # NoAccount => refresh = stored
  /\ configuring # {} => stored = NoAccount
  /\ \A x, y \in configuring : x = y

Calm == OneStream /\ ShownIsStored /\ (user.waits => Forgotten /\ OneAttempt /\ OneAccount)

\* Started, the service has at most one request, for the stored account.
LEMMA CalmInit == Init => Calm
<1>1. SUFFICES ASSUME Init
               PROVE  Calm
  OBVIOUS
<1>2. OneStream /\ ShownIsStored
  BY <1>1 DEF Init, OneStream, ShownIsStored, EmptyStatus, Ended
<1>3. Forgotten /\ OneAccount
  BY <1>1 DEF Init, Forgotten, OneAccount, EmptyStatus
<1>4. OneAttempt
  <2>1. CASE stored = NoAccount
    BY <1>1, <2>1 DEF Init, OneAttempt
  <2>2. CASE stored # NoAccount
    <3> DEFINE request == [account |-> stored, request |-> "POST"]
    <3>1. opening = <<request>> /\ request.account = stored
      BY <1>1, <2>2 DEF Init
    <3> HIDE DEF request
    <3>2. QED
      BY <1>1, <3>1 DEF Init, OneAttempt
  <2>3. QED
    BY <2>1, <2>2
<1>5. QED
  BY <1>2, <1>3, <1>4 DEF Calm

\* connectStream, when there is neither request nor socket, makes one attempt.
LEMMA ConnectOnce ==
  ASSUME TypeOK, NEW st \in Status, NEW a \in Accounts \cup {NoAccount},
         NEW current, ConnectStream(st, a, current), opening = <<>>
  PROVE  /\ Len(opening') <= 1
         /\ \A i \in DOMAIN opening' : opening'[i].account = a
         /\ opening' # <<>> => current = NoSocket /\ st.configured
         /\ a = NoAccount => opening' = <<>>
<1>1. opening' \in Seq(Opening) /\ Len(opening) = 0
  BY ConnectTyped
<1>2. CASE current # NoSocket \/ ~st.configured \/ a = NoAccount
  BY <1>1, <1>2, ConnectAppends
<1>3. CASE ~(current # NoSocket \/ ~st.configured \/ a = NoAccount)
  <2>1. Len(opening') = 1 /\ opening'[1].account = a
    BY <1>1, <1>3, ConnectAppends
  <2>2. DOMAIN opening' = 1 .. 1
    BY <1>1, <2>1, LenProperties
  <2>3. \A i \in DOMAIN opening' : i = 1
    BY <2>2
  <2>4. QED
    BY <1>3, <2>1, <2>3
<1>4. QED
  BY <1>2, <1>3

\* Once the one request has been answered there is none.
LEMMA NoneIsLeft ==
  ASSUME NEW s \in Seq(Opening), Len(s) <= 1, NEW i \in DOMAIN s
  PROVE  RemoveAt(s, i) = <<>>
<1>1. RemoveAt(s, i) \in Seq(Opening) /\ Len(RemoveAt(s, i)) = Len(s) - 1
  BY RemovedRequest
<1>2. Len(s) \in Nat /\ DOMAIN s = 1 .. Len(s)
  BY LenProperties
<1>3. Len(RemoveAt(s, i)) = 0
  BY <1>1, <1>2
<1>4. QED
  BY <1>1, <1>3, EmptySeq

\* Stopped, the service has no live socket.
LEMMA StopClosesAll ==
  ASSUME TypeOK, OneStream, user.waits, Stop
  PROVE  \A id \in SocketIds : sockets'[id].phase \notin {"connecting", "open"}
<1>1. /\ Close(socket) /\ socket \in Socket /\ NoSocket \notin SocketIds
      /\ sockets \in [SocketIds -> Channel]
  BY AccountServiceAssumption DEF TypeOK, Stop, Socket, Channel
<1>2. \A id \in SocketIds :
        sockets'[id].phase = (IF id = socket THEN Closing(sockets[id].phase)
                              ELSE sockets[id].phase)
  BY <1>1, CloseTyped
<1>3. QED
  BY <1>1, <1>2 DEF OneStream, Closing, Channel, Phases

\* Closing a socket makes none live and none of another account.
LEMMA CloseKeepsCalm ==
  ASSUME TypeOK, NEW id \in Socket, Close(id), UNCHANGED <<user, socket>>, OneStream
  PROVE  OneStream' /\ \A s \in SocketIds : sockets'[s].account = sockets[s].account
<1>1. \A s \in SocketIds :
        /\ sockets'[s].account = sockets[s].account
        /\ sockets'[s].phase = (IF s = id THEN Closing(sockets[s].phase)
                                ELSE sockets[s].phase)
  BY CloseTyped
<1>2. QED
  BY <1>1 DEF OneStream, Closing

\* The user is the same throughout.
LEMMA UserStays == [Next]_vars => user' = user
BY DEF Next, vars, rest, Configure, ConfigureSucceeds, ConfigureFails, Disconnect, Resume,
       PollFires, DebounceFires, RefreshSucceeds, RefreshFails, ReconnectFires, KeyArrives,
       KeyFails, KeyDeleted, SocketOpens, SocketEnds, KeepAliveSucceeds, KeepAliveFails,
       AccountEvent, KeyExpires, KeepAliveFires

\* No step of a user who waits makes a second attempt, or one of another account.
LEMMA CalmNext == TypeOK /\ Calm /\ [Next]_vars => Calm'
<1>1. SUFFICES ASSUME TypeOK, Calm, [Next]_vars, user.waits
               PROVE  Calm'
  BY UserStays DEF Calm, OneStream, ShownIsStored
<1>2. /\ user' = user /\ OneStream /\ ShownIsStored
      /\ Forgotten /\ OneAttempt /\ OneAccount
  BY <1>1, UserStays DEF Calm
<1>3. /\ status \in Status /\ stored \in Accounts \cup {NoAccount}
      /\ refresh \in Accounts \cup {NoAccount}
      /\ user.accounts \subseteq Accounts /\ NoAccount \notin Accounts
      /\ NoSocket \notin SocketIds /\ socket \in Socket
      /\ sockets \in [SocketIds -> Channel]
      /\ opening \in Seq(Opening) /\ (\A i \in DOMAIN opening : opening # <<>>)
  BY <1>1, AccountServiceAssumption DEF TypeOK, Socket, Channel
<1>4. \A st \in Status :
        /\ [st EXCEPT !.stream = "DISCONNECTED"].configured = st.configured
        /\ [st EXCEPT !.stream = "DISCONNECTED"].connected = st.connected
        /\ [st EXCEPT !.stream = "DISCONNECTED"].of = st.of
        /\ [st EXCEPT !.stream = "CONNECTED"].configured = st.configured
        /\ [st EXCEPT !.stream = "CONNECTED"].connected = st.connected
        /\ [st EXCEPT !.stream = "CONNECTED"].of = st.of
  BY DEF Status
<1>5. SUFFICES OneStream' /\ ShownIsStored' /\ Forgotten' /\ OneAttempt' /\ OneAccount'
  BY DEF Calm
<1> USE <1>2 DEF Calm
<1>6. ASSUME NEW a \in Accounts, Configure(a) \/ ConfigureFails(a)
      PROVE  Calm'
  <2>1. UNCHANGED <<user, stored, status, stopping, refresh, stream>>
    BY <1>6 DEF Configure, ConfigureFails
  <2>2. OneAccount'
    BY <1>1, <1>6, <2>1
    DEF Configure, ConfigureFails, NothingPending, Disconnected, OneAccount
  <2>3. QED
    BY <2>1, <2>2 DEF stream, OneStream, ShownIsStored, Forgotten, OneAttempt
<1>7. ASSUME NEW a \in Accounts, ConfigureSucceeds(a)
      PROVE  Calm'
  <2> DEFINE st == [configured |-> TRUE, connected |-> TRUE, of |-> a,
                    stream |-> "DISCONNECTED"]
  <2>1. st \in Status /\ st.connected /\ st.of = a
    BY DEF Status
  <2>2. /\ ConnectStream(st, a, socket) /\ stored' = a /\ ~stopping'
        /\ configuring' = configuring \ {a} /\ a \in configuring
        /\ UNCHANGED <<user, refresh, socket, sockets, reconnect>>
    BY <1>7 DEF ConfigureSucceeds
  <2> HIDE DEF st
  <2>3. /\ stored = NoAccount /\ socket = NoSocket /\ opening = <<>>
        /\ refresh = NoAccount /\ ~reconnect /\ configuring' = {}
    BY <2>2 DEF OneAccount, Forgotten
  <2>4. /\ Len(opening') <= 1 /\ \A i \in DOMAIN opening' : opening'[i].account = a
        /\ status'.connected /\ status'.of = a
    BY <1>1, <2>1, <2>2, <2>3, ConnectOnce, ConnectAppends
  <2>5. QED
    BY <1>3, <2>2, <2>3, <2>4
    DEF OneStream, ShownIsStored, Forgotten, OneAttempt, OneAccount
<1>8. CASE Disconnect
  <2>1. /\ NothingPending /\ Stop /\ stored' = NoAccount /\ status' = EmptyStatus
        /\ socket' = NoSocket /\ ~reconnect'
        /\ UNCHANGED <<user, refresh, configuring, opening>>
    BY <1>1, <1>8 DEF Disconnect, Stop
  <2>2. OneStream'
    BY <1>1, <2>1, StopClosesAll DEF OneStream
  <2>3. QED
    BY <2>1, <2>2
    DEF NothingPending, EmptyStatus, ShownIsStored, Forgotten, OneAttempt, OneAccount
<1>9. CASE Resume
  <2>1. /\ NothingPending /\ Stop /\ socket' = NoSocket /\ ~reconnect'
        /\ stopping' = ~status.configured
        /\ UNCHANGED <<user, stored, configuring>>
        /\ IF status.configured
           THEN Refresh /\ ConnectStream(status, stored, NoSocket)
           ELSE UNCHANGED <<refresh, owed, opening, status>>
    BY <1>1, <1>9 DEF Resume, Stop
  <2>2. OneStream'
    BY <1>1, <2>1, StopClosesAll DEF OneStream
  <2>3. opening = <<>> /\ refresh = NoAccount /\ configuring' = {}
    BY <2>1 DEF NothingPending
  <2>4. CASE status.configured
    <3>1. stored # NoAccount /\ refresh' = stored
      BY <2>1, <2>3, <2>4 DEF Forgotten, Refresh
    <3>2. /\ Len(opening') <= 1 /\ \A i \in DOMAIN opening' : opening'[i].account = stored
          /\ status'.connected = status.connected /\ status'.of = status.of
      BY <1>1, <1>3, <2>1, <2>3, <2>4, ConnectOnce, ConnectAppends
    <3>3. QED
      BY <2>1, <2>2, <2>3, <2>4, <3>1, <3>2
      DEF ShownIsStored, Forgotten, OneAttempt, OneAccount
  <2>5. CASE ~status.configured
    BY <2>1, <2>2, <2>3, <2>5 DEF ShownIsStored, Forgotten, OneAttempt, OneAccount
  <2>6. QED
    BY <2>4, <2>5
<1>10. CASE PollFires \/ DebounceFires
  <2>1. /\ refresh' = IF refresh = NoAccount THEN stored ELSE refresh
        /\ UNCHANGED <<user, stored, status, stopping, configuring, stream>>
    BY <1>10 DEF PollFires, DebounceFires, Refresh
  <2>2. QED
    BY <2>1 DEF stream, OneStream, ShownIsStored, Forgotten, OneAttempt, OneAccount
<1>11. CASE RefreshSucceeds \/ RefreshFails
  <2>1. /\ refresh # NoAccount /\ refresh' = NoAccount
        /\ UNCHANGED <<user, stored, stopping, configuring, stream>>
    BY <1>11 DEF RefreshSucceeds, RefreshFails
  <2>2. status'.connected => status'.of = refresh
    BY <1>3, <1>11 DEF RefreshSucceeds, RefreshFails, Status
  <2>3. refresh = stored /\ stored # NoAccount
    BY <2>1 DEF OneAccount
  <2>4. QED
    BY <2>1, <2>2, <2>3 DEF stream, OneStream, ShownIsStored, Forgotten, OneAttempt, OneAccount
<1>12. CASE ReconnectFires
  <2>1. /\ reconnect /\ ~reconnect' /\ UNCHANGED <<stopping, socket, sockets, rest>>
        /\ IF stopping THEN UNCHANGED <<opening, status>>
           ELSE ConnectStream(status, stored, socket)
    BY <1>12 DEF ReconnectFires
  <2>2. opening = <<>> /\ socket = NoSocket /\ stored # NoAccount
    BY <2>1 DEF OneAttempt, Forgotten
  <2>3. /\ Len(opening') <= 1 /\ \A i \in DOMAIN opening' : opening'[i].account = stored
        /\ status'.connected = status.connected /\ status'.of = status.of
        /\ stopping => opening' = <<>>
    BY <1>1, <1>3, <2>1, <2>2, ConnectOnce, ConnectAppends DEF OneAttempt
  <2>4. QED
    BY <2>1, <2>2, <2>3 DEF rest, OneStream, ShownIsStored, Forgotten, OneAttempt, OneAccount
<1>13. CASE KeyArrives
  <2>1. PICK i \in DOMAIN opening :
          /\ IF stopping
             THEN /\ opening' = [opening EXCEPT ![i].request = "DELETE"]
                  /\ UNCHANGED <<socket, sockets>>
             ELSE /\ opening' = RemoveAt(opening, i)
                  /\ \E id \in SocketIds :
                       /\ sockets[id].phase = "none" /\ id \notin puts
                       /\ socket' = id
                       /\ sockets' = [sockets EXCEPT ![id] =
                                        [account |-> opening[i].account,
                                         phase   |-> "connecting"]]
          /\ UNCHANGED <<status, stopping, keepAlive, puts, reconnect, rest>>
    BY <1>13 DEF KeyArrives
  <2>2. /\ opening # <<>> /\ ~stopping /\ socket = NoSocket /\ ~reconnect
        /\ opening[i].account = stored /\ stored # NoAccount
    BY <1>3, <2>1 DEF OneAttempt, Forgotten
  <2>3. opening' = <<>>
    BY <1>3, <2>1, <2>2, NoneIsLeft DEF OneAttempt
  <2>4. PICK id \in SocketIds :
          /\ socket' = id
          /\ sockets' = [sockets EXCEPT ![id] = [account |-> opening[i].account,
                                                 phase   |-> "connecting"]]
    BY <2>1, <2>2
  <2>5. OneStream' /\ sockets'[id].account = stored
    BY <1>3, <2>2, <2>4 DEF OneStream
  <2>6. QED
    BY <2>1, <2>2, <2>3, <2>4, <2>5
    DEF rest, ShownIsStored, Forgotten, OneAttempt, OneAccount
<1>14. CASE KeyFails \/ KeyDeleted
  <2>1. opening' = <<>>
    BY <1>3, <1>14, NoneIsLeft DEF KeyFails, KeyDeleted, OneAttempt
  <2>2. opening # <<>>
    BY <1>3, <1>14 DEF KeyFails, KeyDeleted
  <2>3. stored # NoAccount /\ socket = NoSocket
    BY <2>2 DEF Forgotten, OneAttempt
  <2>4. UNCHANGED <<stopping, socket, sockets, rest>>
    BY <1>14 DEF KeyFails, KeyDeleted
  <2>5. status'.connected = status.connected /\ status'.of = status.of
    BY <1>3, <1>4, <1>14 DEF KeyFails, KeyDeleted
  <2>6. QED
    BY <2>1, <2>3, <2>4, <2>5
    DEF rest, OneStream, ShownIsStored, Forgotten, OneAttempt, OneAccount
<1>15. ASSUME NEW id \in SocketIds, SocketOpens(id)
       PROVE  Calm'
  <2>1. id = socket /\ socket # NoSocket
    BY <1>1, <1>3, <1>15 DEF SocketOpens, OneStream
  <2>2. /\ sockets' = [sockets EXCEPT ![id].phase = "open"]
        /\ UNCHANGED <<stopping, opening, socket, reconnect, rest>>
    BY <1>15 DEF SocketOpens
  <2>3. /\ status'.connected = status.connected /\ status'.of = status.of
        /\ status'.configured = status.configured
    BY <1>3, <1>4, <1>15 DEF SocketOpens
  <2>4. OneStream' /\ \A s \in SocketIds : sockets'[s].account = sockets[s].account
    BY <1>1, <1>3, <2>1, <2>2 DEF OneStream, Channel
  <2>5. QED
    BY <1>1, <1>3, <2>1, <2>2, <2>3, <2>4
    DEF rest, ShownIsStored, Forgotten, OneAttempt, OneAccount
<1>16. ASSUME NEW id \in SocketIds, SocketEnds(id)
       PROVE  Calm'
  <2>1. /\ sockets' = [sockets EXCEPT ![id] = Ended] /\ HandleEnd(id)
        /\ UNCHANGED <<stopping, opening, puts, rest>>
    BY <1>16 DEF SocketEnds
  <2>2. /\ status'.connected = status.connected /\ status'.of = status.of
        /\ status'.configured = status.configured
    BY <1>3, <1>4, <2>1 DEF HandleEnd
  <2>3. CASE id = socket
    <3>1. socket' = NoSocket /\ socket # NoSocket
      BY <1>3, <2>1, <2>3 DEF HandleEnd
    <3>2. OneStream'
      BY <1>1, <1>3, <2>1, <2>3 DEF OneStream, Ended
    <3>3. QED
      BY <2>1, <2>2, <2>3, <3>1, <3>2
      DEF rest, ShownIsStored, Forgotten, OneAttempt, OneAccount
  <2>4. CASE id # socket
    <3>1. UNCHANGED <<socket, reconnect>>
      BY <2>1, <2>4 DEF HandleEnd
    <3>2. /\ OneStream'
          /\ socket # NoSocket => sockets'[socket].account = sockets[socket].account
      BY <1>1, <1>3, <2>1, <2>4, <3>1 DEF OneStream, Ended, Socket
    <3>3. QED
      BY <1>1, <2>1, <2>2, <3>1, <3>2
      DEF rest, ShownIsStored, Forgotten, OneAttempt, OneAccount
  <2>5. QED
    BY <2>3, <2>4
<1>17. ASSUME NEW id \in SocketIds, KeepAliveSucceeds(id)
       PROVE  Calm'
  BY <1>17 DEF KeepAliveSucceeds, rest, OneStream, ShownIsStored, Forgotten,
               OneAttempt, OneAccount
<1>18. ASSUME NEW id \in SocketIds, KeepAliveFails(id) \/ KeyExpires(id)
       PROVE  Calm'
  <2>1. /\ Close(id) \/ Close(socket)
        /\ UNCHANGED <<stopping, opening, socket, reconnect, rest>>
    BY <1>18 DEF KeepAliveFails, KeyExpires
  <2>2. /\ status'.connected = status.connected /\ status'.of = status.of
        /\ status'.configured = status.configured
    BY <1>3, <1>4, <1>18 DEF KeepAliveFails, KeyExpires
  <2>3. OneStream' /\ \A s \in SocketIds : sockets'[s].account = sockets[s].account
    <3>1. id \in Socket /\ socket \in Socket /\ UNCHANGED <<user, socket>>
      BY <1>3, <2>1 DEF Socket
    <3>2. QED
      BY <1>1, <2>1, <3>1, CloseKeepsCalm
  <2>4. QED
    BY <1>1, <1>3, <2>1, <2>2, <2>3
    DEF rest, ShownIsStored, Forgotten, OneAttempt, OneAccount, Socket
<1>19. ASSUME NEW id \in SocketIds, AccountEvent(id)
       PROVE  Calm'
  <2>1. /\ status'.connected = status.connected /\ status'.of = status.of
        /\ status'.configured = status.configured
        /\ UNCHANGED <<user, stored, stopping, refresh, configuring, stream>>
    BY <1>3, <1>4, <1>19 DEF AccountEvent
  <2>2. QED
    BY <2>1 DEF stream, OneStream, ShownIsStored, Forgotten, OneAttempt, OneAccount
<1>20. CASE KeepAliveFires
  BY <1>20 DEF KeepAliveFires, rest, OneStream, ShownIsStored, Forgotten,
               OneAttempt, OneAccount
<1>21. CASE UNCHANGED vars
  BY <1>21 DEF vars, OneStream, ShownIsStored, Forgotten, OneAttempt, OneAccount
<1>22. QED
  BY <1>1, <1>3, <1>6, <1>7, <1>8, <1>9, <1>10, <1>11, <1>12, <1>13, <1>14,
     <1>15, <1>16, <1>17, <1>18, <1>19, <1>20, <1>21 DEF Next

\* For a user who waits: connectStream, the reconnect timer and the sockets that
\* end make at most one attempt at a time, for the stored account.
THEOREM CalmInvariance == Spec => []Calm
<1>1. Init => TypeOK /\ Calm
  BY TypeInit, CalmInit
<1>2. TypeOK /\ Calm /\ [Next]_vars => TypeOK' /\ Calm'
  BY TypeNext, CalmNext
<1>3. QED
  BY <1>1, <1>2, PTL DEF Spec

\* For a user who waits, in whatever order sockets end and keys arrive: there is
\* never a second live socket besides this.socket.
THEOREM StreamIsSingle == Spec => []OneStream
<1>1. Calm => OneStream
  BY DEF Calm
<1>2. QED
  BY <1>1, CalmInvariance, PTL

\* For a user who waits, whatever a late answer brings: the data shown as
\* connected, and the stream, are of the account whose credentials are stored.
THEOREM ShownAccountIsStored == Spec => []ShownIsStored
<1>1. Calm => ShownIsStored
  BY DEF Calm
<1>2. QED
  BY <1>1, CalmInvariance, PTL
=============================================================================
