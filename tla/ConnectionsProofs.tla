-------------------------- MODULE ConnectionsProofs --------------------------
(* Both ends of the connection to the main namespace: the browser's, of    *)
(* ClientSession, for any number of sockets, attempts, missed pings and    *)
(* login requests, and the server's tables, of WsConnections, for any      *)
(* number of users and sockets, any limit on missed pings and any drift of *)
(* the timers.                                                             *)
EXTENDS WsConnections, ClientSession, TLAPS

(* The browser.                                                            *)

Inv ==
    /\ TypeOK
    /\ ConnectionsEndWithSession
    /\ ConnectedIsBacked
    /\ IndicatorIsTrue

LEMMA NothingTyped == Nothing \in [status : Statuses, isConnected : BOOLEAN]
BY DEF Nothing, Statuses

LEMMA ZeroTyped == 0 \in 0 .. MaxAttempts /\ 0 \in 0 .. MaxMissed /\ 0 \in Nat
BY ClientAssumption DEF ClientAssumption

LEMMA FalseTyped == FALSE \in BOOLEAN
OBVIOUS

LEMMA InitInv == Init => Inv
<1> SUFFICES ASSUME Init PROVE Inv
    OBVIOUS
<1>1. TypeOK
  <2>1. ClientTypeOK
    BY NothingTyped, ZeroTyped, FalseTyped DEF Init, ClientInit, ClientTypeOK, Statuses
  <2>2. logins \in 0 .. MaxLogins
    BY SessionAssumption DEF SessionAssumption, Init
  <2>. QED BY <2>1, <2>2, FalseTyped DEF Init, TypeOK
<1>2. ConnectionsEndWithSession /\ ConnectedIsBacked /\ IndicatorIsTrue
    BY ClientAssumption
       DEF ClientAssumption, Init, ClientInit, Nothing, ConnectionsEndWithSession,
           ConnectedIsBacked, IndicatorIsTrue, Live, Up
<1>. QED BY <1>1, <1>2 DEF Inv

-----------------------------------------------------------------------------
(* Types.                                                                  *)

LEMMA AttemptTyped ==
    ASSUME attempts \in 0 .. MaxAttempts, NEW left \in Nat,
           AttemptReconnection(left)
    PROVE  /\ attempts' \in 0 .. MaxAttempts /\ waiting' \in Nat
           /\ status' \in {"error", "reconnecting"}
BY ClientAssumption DEF ClientAssumption, AttemptReconnection

LEMMA CreateTyped ==
    ASSUME ClientTypeOK, NEW s \in ClientSockets, NEW by \in {"store", "retry"}, Create(s, by)
    PROVE  /\ wire' \in [ClientSockets -> {"down", "connecting", "connected"}]
           /\ socket' \in ClientSockets
           /\ awaited' \in [ClientSockets -> {"nobody", "store", "retry"}]
           /\ status' \in Statuses
           /\ abandoned' \subseteq ClientSockets
BY DEF ClientTypeOK, Create, Statuses

LEMMA StoreConnectTyped == ClientTypeOK /\ StoreConnect => ClientTypeOK'
<1> SUFFICES ASSUME ClientTypeOK, StoreConnect PROVE ClientTypeOK'
    OBVIOUS
<1>1. CASE Up(socket)
  <2>1. [status |-> status, isConnected |-> TRUE]
            \in [status : Statuses, isConnected : BOOLEAN]
    BY DEF ClientTypeOK
  <2>. QED BY <1>1, <2>1 DEF StoreConnect, ClientTypeOK
<1>2. CASE ~Up(socket)
  <2>1. PICK s \in ClientSockets : Create(s, "store")
    BY <1>2 DEF StoreConnect
  <2>2. shown' \in [status : Statuses, isConnected : BOOLEAN]
    BY <1>2 DEF StoreConnect, ClientTypeOK, Statuses
  <2>. QED BY <1>2, <2>1, <2>2, CreateTyped DEF StoreConnect, ClientTypeOK
<1>. QED BY <1>1, <1>2

LEMMA DisconnectTyped == ClientTypeOK /\ Disconnect => ClientTypeOK'
BY ClientAssumption, NothingTyped
   DEF ClientAssumption, ClientTypeOK, Disconnect, Statuses

LEMMA UnloadTyped == Unload => ClientTypeOK'
BY NothingTyped, ZeroTyped, FalseTyped DEF ClientTypeOK, Unload, Statuses

LEMMA RejectedTyped ==
    ASSUME ClientTypeOK, NEW s \in ClientSockets, NEW otherwise \in Statuses,
           Rejected(s, otherwise)
    PROVE  /\ awaited' \in [ClientSockets -> {"nobody", "store", "retry"}]
           /\ shown' \in [status : Statuses, isConnected : BOOLEAN]
           /\ status' \in Statuses
           /\ attempts' \in 0 .. MaxAttempts /\ waiting' \in Nat
<1>1. shown' \in [status : Statuses, isConnected : BOOLEAN]
    BY DEF ClientTypeOK, Rejected, Statuses
<1>2. CASE awaited[s] = "retry"
    BY <1>1, <1>2, AttemptTyped DEF ClientTypeOK, Rejected, Statuses
<1>3. CASE awaited[s] # "retry"
    BY <1>1, <1>3 DEF ClientTypeOK, Rejected
<1>. QED BY <1>2, <1>3

LEMMA EventTyped ==
    ASSUME ClientTypeOK, NEW s \in ClientSockets, SocketEvent(s) PROVE ClientTypeOK'
<1>1. CASE Connected(s)
  <2> DEFINE backed == awaited[s] = "store" => s = socket \/ Up(socket)
  <2>1. shown' = [status |-> "connected", isConnected |-> backed]
    BY <1>1 DEF Connected
  <2>2. backed \in BOOLEAN
    OBVIOUS
  <2> HIDE DEF backed
  <2>3. shown' \in [status : Statuses, isConnected : BOOLEAN]
    BY <2>1, <2>2 DEF Statuses
  <2>4. /\ wire' \in [ClientSockets -> {"down", "connecting", "connected"}]
        /\ awaited' \in [ClientSockets -> {"nobody", "store", "retry"}]
    BY <1>1 DEF Connected, ClientTypeOK
  <2>5. attempts' \in 0 .. MaxAttempts /\ status' \in Statuses
    BY <1>1, ZeroTyped DEF Connected, Statuses
  <2>6. crossed' \in BOOLEAN
    BY <1>1 DEF Connected
  <2>. QED BY <1>1, <2>3, <2>4, <2>5, <2>6 DEF Connected, ClientTypeOK
<1>2. CASE ConnectFails(s)
  <2> Rejected(s, "error") /\ "error" \in Statuses
    BY <1>2 DEF ConnectFails, Statuses
  <2>. QED BY <1>2, RejectedTyped DEF ConnectFails, ClientTypeOK
<1>3. CASE ConnectTimesOut(s)
  <2> Rejected(s, status) /\ status \in Statuses
    BY <1>3 DEF ConnectTimesOut, ClientTypeOK
  <2>. QED BY <1>3, RejectedTyped DEF ConnectTimesOut, ClientTypeOK
<1>4. CASE ErrorEvent(s)
    BY <1>4 DEF ErrorEvent, ClientTypeOK, Statuses
<1>5. CASE Dropped(s)
  <2>1. /\ AttemptReconnection(waiting)
        /\ shown' = Nothing
        /\ crossed' = (crossed \/ s # socket)
    BY <1>5 DEF Dropped, StartReconnecting
  <2>2. crossed' \in BOOLEAN
    BY <2>1
  <2>. QED BY <1>5, <2>1, <2>2, NothingTyped, AttemptTyped
           DEF Dropped, ClientTypeOK, Statuses
<1>. QED BY <1>1, <1>2, <1>3, <1>4, <1>5 DEF SocketEvent

LEMMA RetryTyped == ClientTypeOK /\ RetryConnects => ClientTypeOK'
<1> SUFFICES ASSUME ClientTypeOK, RetryConnects PROVE ClientTypeOK'
    OBVIOUS
<1>0. waiting - 1 \in Nat
    BY ClientAssumption DEF ClientAssumption, ClientTypeOK, RetryConnects
<1>1. CASE Up(socket)
    BY <1>0, <1>1 DEF RetryConnects, ClientTypeOK
<1>2. CASE ~Up(socket) /\ kept
  <2>1. PICK s \in ClientSockets : Create(s, "retry")
    BY <1>2 DEF RetryConnects
  <2>. QED BY <1>0, <1>2, <2>1, CreateTyped DEF RetryConnects, ClientTypeOK
<1>3. CASE ~Up(socket) /\ ~kept
    BY <1>0, <1>3, AttemptTyped DEF RetryConnects, ClientTypeOK, Statuses
<1>. QED BY <1>1, <1>2, <1>3

LEMMA HeartbeatTyped == ClientTypeOK /\ HeartbeatTick => ClientTypeOK'
<1> SUFFICES ASSUME ClientTypeOK, HeartbeatTick PROVE ClientTypeOK'
    OBVIOUS
<1>1. CASE missed + 1 < MaxMissed
    BY <1>1, ClientAssumption DEF ClientAssumption, HeartbeatTick, ClientTypeOK
<1>2. CASE ~(missed + 1 < MaxMissed)
    BY <1>2, ClientAssumption, AttemptTyped
       DEF ClientAssumption, HeartbeatTick, StartReconnecting, ClientTypeOK, Statuses
<1>. QED BY <1>1, <1>2

LEMMA SetTokenTyped == ClientTypeOK /\ SetAuthToken => ClientTypeOK'
<1> SUFFICES ASSUME ClientTypeOK, SetAuthToken PROVE ClientTypeOK'
    OBVIOUS
<1>1. CASE ~Up(socket)
    BY <1>1 DEF SetAuthToken, ClientTypeOK
<1>2. CASE Up(socket)
    BY <1>2, ClientAssumption, NothingTyped
       DEF ClientAssumption, SetAuthToken, ClientTypeOK, Statuses
<1>. QED BY <1>1, <1>2

LEMMA TypeSteps == TypeOK /\ [Next]_vars => TypeOK'
<1> SUFFICES ASSUME TypeOK, [Next]_vars PROVE TypeOK'
    OBVIOUS
<1> USE SessionAssumption DEF SessionAssumption
<1>0. ClientTypeOK
    BY DEF TypeOK
<1>1. CASE SubmitLogin
    BY <1>1 DEF SubmitLogin, TypeOK, ClientTypeOK, clientVars
<1>2. CASE LoginSucceeds
    BY <1>0, <1>2, StoreConnectTyped DEF LoginSucceeds, TypeOK, TrackStrays
<1>3. CASE LoginFails
    BY <1>3 DEF LoginFails, TypeOK, ClientTypeOK, clientVars
<1>4. CASE Logout
    BY <1>0, <1>4, DisconnectTyped DEF Logout, TypeOK, TrackStrays
<1>5. CASE Load
    BY <1>5, UnloadTyped DEF Load, TypeOK
<1>6. CASE Unauthorized
    BY <1>6, UnloadTyped DEF Unauthorized, Load, TypeOK
<1>7. CASE LoadTimerFires
    BY <1>0, <1>7, StoreConnectTyped DEF LoadTimerFires, TypeOK, TrackStrays
<1>8. CASE ServiceStep
  <2>1. ClientTypeOK'
    BY <1>0, <1>8, EventTyped, RetryTyped, HeartbeatTyped, SetTokenTyped
       DEF ServiceStep, OfService
  <2>2. UNCHANGED <<session, stored, logins, loading>> /\ TrackStrays
    BY <1>8 DEF ServiceStep, OfService
  <2>. QED BY <2>1, <2>2 DEF TypeOK, TrackStrays
<1>9. CASE UNCHANGED vars
    BY <1>9 DEF vars, clientVars, sessionVars, TypeOK, ClientTypeOK
<1>. QED BY <1>1, <1>2, <1>3, <1>4, <1>5, <1>6, <1>7, <1>8, <1>9 DEF Next

-----------------------------------------------------------------------------
(* The invariants, action by action.                                       *)


LEMMA AttemptNotConnected ==
    ASSUME NEW left, AttemptReconnection(left) PROVE status' # "connected"
BY DEF AttemptReconnection

(* No connection is opened or forgotten.                                   *)
LEMMA NoNewSockets ==
    ASSUME Inv, TrackStrays, session' = session, socket' = socket,
           NEW s \in ClientSockets, NEW w \in {"down", "connected"},
           wire[s] # "down", wire' = [wire EXCEPT ![s] = w],
           \/ abandoned' = abandoned
           \/ w = "down" /\ abandoned' = abandoned \ {s}
    PROVE  ConnectionsEndWithSession'
BY DEF Inv, TypeOK, ClientTypeOK, ConnectionsEndWithSession, TrackStrays, Live

LEMMA SameSockets ==
    ASSUME Inv, TrackStrays, session' = session,
           UNCHANGED <<wire, socket, abandoned>>
    PROVE  ConnectionsEndWithSession'
BY DEF Inv, TypeOK, ClientTypeOK, ConnectionsEndWithSession, TrackStrays, Live

LEMMA CreateInv ==
    ASSUME Inv, TrackStrays, session => session', ~Up(socket),
           NEW s \in ClientSockets, NEW by, Create(s, by),
           UNCHANGED crossed, shown'.isConnected = shown.isConnected
    PROVE  ConnectionsEndWithSession' /\ ConnectedIsBacked' /\ IndicatorIsTrue'
<1>1. ConnectionsEndWithSession'
    BY DEF Inv, TypeOK, ClientTypeOK, ConnectionsEndWithSession, TrackStrays, Live, Up,
           Create
<1>2. ConnectedIsBacked'
    BY DEF Create, ConnectedIsBacked
<1>3. IndicatorIsTrue'
    BY DEF Inv, TypeOK, ClientTypeOK, IndicatorIsTrue, Create, Live, Up
<1>. QED BY <1>1, <1>2, <1>3

LEMMA StoreConnectInv ==
    ASSUME Inv, TrackStrays, session => session', StoreConnect
    PROVE  ConnectionsEndWithSession' /\ ConnectedIsBacked' /\ IndicatorIsTrue'
<1>1. CASE Up(socket)
  <2>1. UNCHANGED <<wire, socket, status, abandoned, crossed>> /\ shown'.isConnected
    BY <1>1 DEF StoreConnect
  <2>2. ConnectionsEndWithSession'
    BY <2>1 DEF Inv, ConnectionsEndWithSession, TrackStrays, Live
  <2>. QED BY <1>1, <2>1, <2>2 DEF ConnectedIsBacked, IndicatorIsTrue, Up
<1>2. CASE ~Up(socket)
  <2>1. PICK s \in ClientSockets : Create(s, "store")
    BY <1>2 DEF StoreConnect
  <2>2. UNCHANGED crossed /\ shown'.isConnected = shown.isConnected
    BY <1>2 DEF StoreConnect, Inv, TypeOK, ClientTypeOK
  <2>. QED BY <1>2, <2>1, <2>2, CreateInv
<1>. QED BY <1>1, <1>2

LEMMA LogoutInv ==
    Inv /\ Logout => ConnectionsEndWithSession' /\ ConnectedIsBacked' /\ IndicatorIsTrue'
BY ClientAssumption
   DEF ClientAssumption, Inv, TypeOK, ClientTypeOK, Logout, Disconnect, TrackStrays,
       ConnectionsEndWithSession, ConnectedIsBacked, IndicatorIsTrue, Live, Up, Nothing

LEMMA UnloadInv ==
    Unload => ConnectionsEndWithSession' /\ ConnectedIsBacked' /\ IndicatorIsTrue'
BY ClientAssumption
   DEF ClientAssumption, Unload, ConnectionsEndWithSession, ConnectedIsBacked,
       IndicatorIsTrue, Live, Up, Nothing

LEMMA ConnectedInv ==
    ASSUME Inv, NEW s \in ClientSockets, OfService(Connected(s))
    PROVE  ConnectionsEndWithSession' /\ ConnectedIsBacked' /\ IndicatorIsTrue'
<1> USE DEF OfService
<1>1. ConnectionsEndWithSession'
    BY NoNewSockets DEF Connected
<1>2. s = socket \/ s \in abandoned
    BY DEF Inv, ConnectionsEndWithSession, Connected, Live
<1>3. wire'[s] = "connected"
    BY DEF Inv, TypeOK, ClientTypeOK, Connected
<1>4. ConnectedIsBacked'
    BY <1>2, <1>3 DEF Connected, ConnectedIsBacked, Up
<1>5. CASE awaited[s] = "store" => s = socket \/ Up(socket)
  <2>1. shown'.isConnected = TRUE
    BY <1>5 DEF Connected
  <2>. QED BY <1>1, <1>3, <1>4, <2>1 DEF IndicatorIsTrue, Up
<1>6. CASE ~(awaited[s] = "store" => s = socket \/ Up(socket))
  <2>1. shown'.isConnected = FALSE /\ s # socket /\ ~Up(socket)
    BY <1>6 DEF Connected
  <2>2. ~Up(socket)'
    BY <2>1 DEF Inv, TypeOK, ClientTypeOK, Connected, Up
  <2>. QED BY <1>1, <1>4, <2>1, <2>2 DEF IndicatorIsTrue
<1>. QED BY <1>5, <1>6

(* The promise of a connection is rejected, whether or not it goes down.   *)
LEMMA RejectedShown ==
    ASSUME ClientTypeOK, NEW s \in ClientSockets, NEW otherwise, Rejected(s, otherwise)
    PROVE  /\ shown'.isConnected = shown.isConnected
           /\ status' = "connected" => otherwise = "connected"
BY AttemptNotConnected DEF ClientTypeOK, Rejected

LEMMA ConnectFailsInv ==
    ASSUME Inv, NEW s \in ClientSockets, OfService(ConnectFails(s))
    PROVE  ConnectionsEndWithSession' /\ ConnectedIsBacked' /\ IndicatorIsTrue'
<1>0. ClientTypeOK /\ ConnectFails(s) /\ Rejected(s, "error")
    BY DEF Inv, TypeOK, OfService, ConnectFails
<1>1. ConnectionsEndWithSession'
    BY <1>0, NoNewSockets DEF OfService, ConnectFails
<1>2. ConnectedIsBacked'
    BY <1>0, RejectedShown DEF ConnectedIsBacked
<1>3. shown'.isConnected = shown.isConnected
    BY <1>0, RejectedShown
<1>4. IndicatorIsTrue'
    BY <1>0, <1>3 DEF Inv, ClientTypeOK, ConnectFails, IndicatorIsTrue, Up
<1>. QED BY <1>1, <1>2, <1>4

LEMMA ConnectTimesOutInv ==
    ASSUME Inv, NEW s \in ClientSockets, OfService(ConnectTimesOut(s))
    PROVE  ConnectionsEndWithSession' /\ ConnectedIsBacked' /\ IndicatorIsTrue'
<1>0. ClientTypeOK /\ ConnectTimesOut(s) /\ Rejected(s, status)
    BY DEF Inv, TypeOK, OfService, ConnectTimesOut
<1>1. ConnectionsEndWithSession'
    BY <1>0, SameSockets DEF OfService, ConnectTimesOut
<1>2. ConnectedIsBacked'
    BY <1>0, RejectedShown DEF Inv, ConnectTimesOut, ConnectedIsBacked, Up
<1>3. IndicatorIsTrue'
    BY <1>0, RejectedShown DEF Inv, ConnectTimesOut, IndicatorIsTrue, Up
<1>. QED BY <1>1, <1>2, <1>3

LEMMA ErrorEventInv ==
    ASSUME Inv, NEW s \in ClientSockets, OfService(ErrorEvent(s))
    PROVE  ConnectionsEndWithSession' /\ ConnectedIsBacked' /\ IndicatorIsTrue'
<1>1. ConnectionsEndWithSession'
    BY SameSockets DEF OfService, ErrorEvent
<1>2. shown'.isConnected = shown.isConnected
    BY DEF Inv, TypeOK, ClientTypeOK, OfService, ErrorEvent
<1>. QED BY <1>1, <1>2
         DEF Inv, OfService, ErrorEvent, ConnectedIsBacked, IndicatorIsTrue, Up

LEMMA DroppedInv ==
    ASSUME Inv, NEW s \in ClientSockets, OfService(Dropped(s))
    PROVE  ConnectionsEndWithSession' /\ ConnectedIsBacked' /\ IndicatorIsTrue'
<1>1. ConnectionsEndWithSession'
    BY NoNewSockets DEF OfService, Dropped, Up
<1>2. ConnectedIsBacked'
    BY AttemptNotConnected DEF OfService, Dropped, StartReconnecting, ConnectedIsBacked
<1>3. shown'.isConnected = FALSE
    BY DEF OfService, Dropped, Nothing
<1>4. CASE s = socket
  <2>1. ~Up(socket)'
    BY <1>4 DEF Inv, TypeOK, ClientTypeOK, OfService, Dropped, Up
  <2>. QED BY <1>1, <1>2, <1>3, <2>1 DEF IndicatorIsTrue
<1>5. CASE s # socket
    BY <1>1, <1>2, <1>3, <1>5 DEF OfService, Dropped, IndicatorIsTrue
<1>. QED BY <1>4, <1>5

LEMMA RetryInv ==
    ASSUME Inv, OfService(RetryConnects)
    PROVE  ConnectionsEndWithSession' /\ ConnectedIsBacked' /\ IndicatorIsTrue'
<1>0. UNCHANGED <<session, shown, crossed>> /\ TrackStrays
    BY DEF OfService, RetryConnects
<1>1. CASE Up(socket)
  <2>1. UNCHANGED <<wire, socket, status, abandoned, shown, crossed>>
    BY <1>1 DEF OfService, RetryConnects
  <2>2. ConnectionsEndWithSession'
    BY <2>1, SameSockets DEF OfService
  <2>. QED BY <2>1, <2>2 DEF Inv, ConnectedIsBacked, IndicatorIsTrue, Up
<1>2. CASE ~Up(socket) /\ kept
  <2>1. PICK s \in ClientSockets : Create(s, "retry")
    BY <1>2 DEF OfService, RetryConnects
  <2>. QED BY <1>0, <1>2, <2>1, CreateInv
<1>3. CASE ~Up(socket) /\ ~kept
  <2>1. /\ UNCHANGED <<wire, socket, abandoned, shown, crossed>>
        /\ status' # "connected"
    BY <1>3, AttemptNotConnected DEF OfService, RetryConnects
  <2>2. ConnectionsEndWithSession'
    BY <2>1, SameSockets DEF OfService
  <2>. QED BY <2>1, <2>2 DEF Inv, ConnectedIsBacked, IndicatorIsTrue, Up
<1>. QED BY <1>1, <1>2, <1>3

LEMMA HeartbeatInv ==
    ASSUME Inv, OfService(HeartbeatTick)
    PROVE  ConnectionsEndWithSession' /\ ConnectedIsBacked' /\ IndicatorIsTrue'
<1>1. /\ UNCHANGED <<wire, socket, abandoned, shown, crossed>>
      /\ status' = status \/ status' # "connected"
    BY AttemptNotConnected DEF OfService, HeartbeatTick, StartReconnecting
<1>2. ConnectionsEndWithSession'
    BY <1>1, SameSockets DEF OfService
<1>. QED BY <1>1, <1>2 DEF Inv, ConnectedIsBacked, IndicatorIsTrue, Up

LEMMA SetTokenInv ==
    ASSUME Inv, session, OfService(SetAuthToken)
    PROVE  ConnectionsEndWithSession' /\ ConnectedIsBacked' /\ IndicatorIsTrue'
<1>1. CASE ~Up(socket)
  <2>1. UNCHANGED <<wire, socket, status, abandoned, shown, crossed>>
    BY <1>1 DEF OfService, SetAuthToken
  <2>2. ConnectionsEndWithSession'
    BY <2>1, SameSockets DEF OfService
  <2>. QED BY <2>1, <2>2 DEF Inv, ConnectedIsBacked, IndicatorIsTrue, Up
<1>2. CASE Up(socket)
  <2>1. PICK s \in ClientSockets \ {socket} :
            /\ ~Live(s) /\ socket' = s
            /\ wire' = [wire EXCEPT ![socket] = "down", ![s] = "connecting"]
    BY <1>2 DEF OfService, SetAuthToken
  <2>2. status' = "connecting" /\ shown' = Nothing /\ UNCHANGED <<session, abandoned>>
    BY <1>2 DEF OfService, SetAuthToken
  <2>3. ConnectionsEndWithSession'
    BY <1>2, <2>1, <2>2
       DEF Inv, TypeOK, ClientTypeOK, ConnectionsEndWithSession, Live, Up
  <2>4. ~Up(socket)'
    BY <1>2, <2>1 DEF Inv, TypeOK, ClientTypeOK, Up
  <2>. QED BY <2>2, <2>3, <2>4 DEF ConnectedIsBacked, IndicatorIsTrue, Nothing
<1>. QED BY <1>1, <1>2

LEMMA InvSteps == Inv /\ [Next]_vars => Inv'
<1> SUFFICES ASSUME Inv, [Next]_vars
             PROVE  ConnectionsEndWithSession' /\ ConnectedIsBacked' /\ IndicatorIsTrue'
    BY TypeSteps DEF Inv
<1>1. CASE UNCHANGED clientVars /\ UNCHANGED session /\ UNCHANGED strays
    BY <1>1 DEF Inv, clientVars, ConnectionsEndWithSession, ConnectedIsBacked,
                IndicatorIsTrue, Live, Up
<1>2. CASE SubmitLogin
    BY <1>1, <1>2 DEF SubmitLogin
<1>3. CASE LoginSucceeds
    BY <1>3, StoreConnectInv DEF LoginSucceeds
<1>4. CASE LoginFails
    BY <1>1, <1>4 DEF LoginFails
<1>5. CASE Logout
    BY <1>5, LogoutInv
<1>6. CASE Load \/ Unauthorized
    BY <1>6, UnloadInv DEF Load, Unauthorized
<1>7. CASE LoadTimerFires
    BY <1>7, StoreConnectInv DEF LoadTimerFires
<1>8. CASE ServiceStep
  <2>1. ASSUME NEW s \in ClientSockets, OfService(SocketEvent(s))
        PROVE  ConnectionsEndWithSession' /\ ConnectedIsBacked' /\ IndicatorIsTrue'
    BY <2>1, ConnectedInv, ConnectFailsInv, ConnectTimesOutInv, ErrorEventInv, DroppedInv
       DEF OfService, SocketEvent
  <2>. QED BY <1>8, <2>1, RetryInv, HeartbeatInv, SetTokenInv DEF ServiceStep
<1>9. CASE UNCHANGED vars
    BY <1>1, <1>9 DEF vars, sessionVars
<1>. QED BY <1>2, <1>3, <1>4, <1>5, <1>6, <1>7, <1>8, <1>9 DEF Next

LEMMA SpecInv == Spec => []Inv
<1>1. Inv /\ [Next]_vars => Inv'
    BY InvSteps
<1>. QED BY InitInv, <1>1, PTL DEF Spec

-----------------------------------------------------------------------------
(* The service, the store and the session keep their types: attempts stay  *)
(* within maxReconnectAttempts (websocket.service.ts attemptReconnection). *)
THEOREM ClientTypeCorrect == Spec => []TypeOK
<1>1. Inv => TypeOK
    BY DEF Inv
<1>. QED BY SpecInv, <1>1, PTL

(* With any number of sockets, log ins and page loads, a connection        *)
(* outlives its session in two ways only.                                  *)
THEOREM ConnectionsEnd == Spec => []ConnectionsEndWithSession
<1>1. Inv => ConnectionsEndWithSession
    BY DEF Inv
<1>. QED BY SpecInv, <1>1, PTL

(* "connected" is never claimed without a connected socket.                *)
THEOREM ConnectedMeansConnected == Spec => []ConnectedIsBacked
<1>1. Inv => ConnectedIsBacked
    BY DEF Inv
<1>. QED BY SpecInv, <1>1, PTL

(* The page's indicator is wrong only after sockets crossed.               *)
THEOREM IndicatorMeansConnection == Spec => []IndicatorIsTrue
<1>1. Inv => IndicatorIsTrue
    BY DEF Inv
<1>. QED BY SpecInv, <1>1, PTL

-----------------------------------------------------------------------------
(* The server.                                                             *)

(* Only a socket that has connected is validated, accepted or listed.      *)
OnlyConnected ==
    /\ connections \subseteq accepted
    /\ \A s \in validating \cup accepted : link[s] # "new"

(* What a connection has missed it has also left unanswered, as far as the *)
(* pings in transit are counted.                                           *)
MissedIsUnanswered ==
    \A s \in connections :
        link[s] = "open" =>
            health[s] <= unanswered[s] \/ unanswered[s] = MaxUnanswered

(* The cleanup leaves less than the limit, and each heartbeat adds one.    *)
MissedSoFar == \A s \in connections : health[s] < MissLimit + beats

ConnectionsInv ==
    /\ ConnectionsTypeOK
    /\ OnlyConnected
    /\ MissedIsUnanswered
    /\ MissedSoFar
    /\ OneConnectionPerUser
    /\ ReachableUnlessRemoved
    /\ PresenceIsTrue

USE ConnectionsAssumption DEF ConnectionsAssumption

-----------------------------------------------------------------------------
LEMMA ConnectionsInitInv == ConnectionsInit => ConnectionsInv
BY DEF ConnectionsInit, ConnectionsInv, ConnectionsTypeOK, OnlyConnected,
       MissedIsUnanswered, MissedSoFar, OneConnectionPerUser, ReachableUnlessRemoved, PresenceIsTrue, ConnectionsOf

(* The two tables after connections have gone and come.                    *)
LEMMA ReconnectTyped ==
    ASSUME ConnectionsTypeOK, NEW gone \in SUBSET Sockets, NEW come \in SUBSET Sockets,
           Reconnect(gone, come)
    PROVE  /\ connections' \subseteq Sockets
           /\ health' \in [Sockets -> Nat \cup {NoHealth}]
           /\ connections' = {s \in Sockets : health'[s] # NoHealth}
BY DEF ConnectionsTypeOK, Reconnect

LEMMA OpenSteps ==
    ASSUME ConnectionsInv, NEW s \in Sockets, Open(s) PROVE ConnectionsInv'
<1> USE DEF ConnectionsInv, ConnectionsTypeOK, Open, tables, history
<1>1. s \notin accepted /\ s \notin connections
    BY DEF OnlyConnected
<1>2. ConnectionsTypeOK'
    OBVIOUS
<1>3. OnlyConnected' /\ MissedIsUnanswered' /\ MissedSoFar'
    BY <1>1 DEF OnlyConnected, MissedIsUnanswered, MissedSoFar
<1>4. OneConnectionPerUser' /\ ReachableUnlessRemoved' /\ PresenceIsTrue'
    BY DEF OneConnectionPerUser, ReachableUnlessRemoved, PresenceIsTrue, ConnectionsOf
<1>. QED BY <1>2, <1>3, <1>4

LEMMA AcceptSteps ==
    ASSUME ConnectionsInv, NEW s \in Sockets, Accept(s) PROVE ConnectionsInv'
<1> DEFINE u == UserOf[s]
<1>1. PICK gone \in MakeWay(s) : Reconnect(gone, {s})
    BY DEF Accept
<1>2. u \in Users
    OBVIOUS
<1>3. gone = ConnectionsOf(u)
    BY <1>1 DEF MakeWay, ConnectionsOf, ConnectionsInv, ConnectionsTypeOK,
                OneConnectionPerUser
<1>4. gone \subseteq connections /\ (\A t \in connections : t \in gone <=> UserOf[t] = u)
    BY <1>3 DEF ConnectionsOf
<1>5. /\ connections' = (connections \ gone) \cup {s}
      /\ \A t \in Sockets : health'[t] = IF t = s THEN 0
                                         ELSE IF t \in gone THEN NoHealth ELSE health[t]
    BY <1>1 DEF Reconnect, ConnectionsInv, ConnectionsTypeOK
<1>6. /\ s \in validating /\ validating' = validating \ {s}
      /\ present' = present \cup {u}
      /\ accepted' = accepted \cup {s}
      /\ superseded' = superseded \cup {t \in accepted : UserOf[t] = u}
      /\ UNCHANGED <<link, unanswered, beats, unheard>>
    BY DEF Accept
<1>7. ConnectionsTypeOK'
    BY <1>1, <1>2, <1>4, <1>6, ReconnectTyped DEF ConnectionsInv, ConnectionsTypeOK
<1> HIDE DEF u
<1> USE <1>2, <1>4, <1>5, <1>6 DEF ConnectionsInv, ConnectionsTypeOK
<1>8. OnlyConnected'
    BY DEF OnlyConnected
<1>9. MissedIsUnanswered' /\ MissedSoFar'
    BY DEF MissedIsUnanswered, MissedSoFar
<1>10. OneConnectionPerUser'
    BY DEF OneConnectionPerUser, u
<1>11. ReachableUnlessRemoved'
    BY DEF ReachableUnlessRemoved, OnlyConnected
<1>12. PresenceIsTrue'
  <2>1. ConnectionsOf(u)' # {}
      BY DEF ConnectionsOf, u
  <2>2. ASSUME NEW w \in Users, w # u PROVE ConnectionsOf(w)' = ConnectionsOf(w)
      BY <2>2 DEF ConnectionsOf, u
  <2>. QED BY <2>1, <2>2 DEF PresenceIsTrue
<1>. QED BY <1>7, <1>8, <1>9, <1>10, <1>11, <1>12

LEMMA RejectSteps ==
    ASSUME ConnectionsInv, NEW s \in Sockets, Reject(s) PROVE ConnectionsInv'
<1> USE DEF ConnectionsInv, ConnectionsTypeOK, Reject, tables, history
<1>1. ConnectionsTypeOK'
    OBVIOUS
<1>2. OnlyConnected' /\ MissedIsUnanswered' /\ MissedSoFar'
    BY DEF OnlyConnected, MissedIsUnanswered, MissedSoFar
<1>3. OneConnectionPerUser' /\ ReachableUnlessRemoved' /\ PresenceIsTrue'
    BY DEF OneConnectionPerUser, ReachableUnlessRemoved, PresenceIsTrue, ConnectionsOf
<1>. QED BY <1>1, <1>2, <1>3

LEMMA DisconnectSteps ==
    ASSUME ConnectionsInv, NEW s \in Sockets, HandleDisconnect(s) PROVE ConnectionsInv'
<1> DEFINE u == UserOf[s]
<1>1. /\ connections' = connections \ {s}
      /\ \A t \in Sockets : health'[t] = IF t = s THEN NoHealth ELSE health[t]
    BY DEF HandleDisconnect, Reconnect, ConnectionsInv, ConnectionsTypeOK
<1>2. /\ link[s] = "open"
      /\ link' = [link EXCEPT ![s] = "closed"]
      /\ unanswered' = [unanswered EXCEPT ![s] = 0]
      /\ present' = IF s \in connections THEN present \ {u} ELSE present
      /\ UNCHANGED <<validating, beats, accepted, superseded, unheard>>
    BY DEF HandleDisconnect
<1>3. ConnectionsTypeOK'
  <2>1. Reconnect({s}, {})
      BY DEF HandleDisconnect
  <2>2. /\ connections' \subseteq Sockets
        /\ health' \in [Sockets -> Nat \cup {NoHealth}]
        /\ connections' = {t \in Sockets : health'[t] # NoHealth}
      BY <2>1, ReconnectTyped DEF ConnectionsInv
  <2>3. /\ link' \in [Sockets -> {"new", "open", "closed"}]
        /\ unanswered' \in [Sockets -> 0 .. MaxUnanswered] /\ present' \subseteq Users
      BY <1>2 DEF ConnectionsInv, ConnectionsTypeOK
  <2>. QED BY <1>2, <2>2, <2>3 DEF ConnectionsInv, ConnectionsTypeOK
<1> HIDE DEF u
<1> USE <1>1, <1>2 DEF ConnectionsInv, ConnectionsTypeOK
<1>4. OnlyConnected' /\ MissedIsUnanswered' /\ MissedSoFar'
    BY DEF OnlyConnected, MissedIsUnanswered, MissedSoFar
<1>5. OneConnectionPerUser' /\ ReachableUnlessRemoved'
    BY DEF OneConnectionPerUser, ReachableUnlessRemoved
<1>6. PresenceIsTrue'
  <2>1. ASSUME NEW w \in Users, s \notin connections \/ w # u
        PROVE  ConnectionsOf(w)' = ConnectionsOf(w)
      BY <2>1 DEF ConnectionsOf, u
  <2>2. s \in connections => ConnectionsOf(u)' = {} /\ u \notin present'
      BY DEF ConnectionsOf, OneConnectionPerUser, u
  <2>. QED BY <2>1, <2>2 DEF PresenceIsTrue
<1>. QED BY <1>3, <1>4, <1>5, <1>6

LEMMA HeartbeatSteps ==
    ASSUME ConnectionsInv, Heartbeat PROVE ConnectionsInv'
<1> USE DEF ConnectionsInv, ConnectionsTypeOK, Heartbeat, Ping, Sent, history
<1>1. \A s \in connections : health[s] \in Nat /\ health'[s] = health[s] + 1
    OBVIOUS
<1>2. ConnectionsTypeOK'
  <2>1. health' \in [Sockets -> Nat \cup {NoHealth}]
      BY <1>1
  <2>2. \A s \in Sockets : health'[s] # NoHealth <=> health[s] # NoHealth
      BY <1>1
  <2>3. unanswered' \in [Sockets -> 0 .. MaxUnanswered]
      OBVIOUS
  <2>. QED BY <2>1, <2>2, <2>3
<1>3. OnlyConnected'
    BY DEF OnlyConnected
<1>4. MissedSoFar'
    BY <1>1 DEF MissedSoFar
<1>5. MissedIsUnanswered'
    BY <1>1 DEF MissedIsUnanswered
<1>6. OneConnectionPerUser' /\ ReachableUnlessRemoved' /\ PresenceIsTrue'
    BY DEF OneConnectionPerUser, ReachableUnlessRemoved, PresenceIsTrue, ConnectionsOf
<1>. QED BY <1>2, <1>3, <1>4, <1>5, <1>6

LEMMA CleanupSteps ==
    ASSUME ConnectionsInv, Cleanup PROVE ConnectionsInv'
<1>1. /\ connections' = connections \ Unresponsive
      /\ \A s \in Sockets : health'[s] = IF s \in Unresponsive THEN NoHealth ELSE health[s]
    BY DEF Cleanup, Reconnect, ConnectionsInv, ConnectionsTypeOK
<1>2. ConnectionsTypeOK'
  <2>1. Reconnect(Unresponsive, {}) /\ Unresponsive \in SUBSET Sockets
      BY DEF Cleanup, Unresponsive, ConnectionsInv, ConnectionsTypeOK
  <2>2. /\ connections' \subseteq Sockets
        /\ health' \in [Sockets -> Nat \cup {NoHealth}]
        /\ connections' = {t \in Sockets : health'[t] # NoHealth}
      BY <2>1, ReconnectTyped DEF ConnectionsInv
  <2>3. beats' \in 0 .. MaxBeats /\ unheard' \subseteq Sockets
      BY DEF Cleanup, ConnectionsInv, ConnectionsTypeOK
  <2>. QED BY <2>2, <2>3 DEF Cleanup, ConnectionsInv, ConnectionsTypeOK
<1>3. Unresponsive \subseteq unheard'
  <2> SUFFICES ASSUME NEW s \in connections, health[s] >= MissLimit,
                      link[s] # "closed", unanswered[s] < MissLimit
               PROVE  FALSE
      BY DEF Unresponsive, Cleanup, ConnectionsInv, ConnectionsTypeOK
  <2>1. link[s] = "open" /\ health[s] \in Nat /\ unanswered[s] \in Nat
      BY DEF ConnectionsInv, ConnectionsTypeOK, OnlyConnected
  <2>. QED BY <2>1 DEF ConnectionsInv, MissedIsUnanswered
<1>4. /\ beats' = 0
      /\ unheard \subseteq unheard'
      /\ UNCHANGED <<link, validating, unanswered, present, accepted, superseded>>
    BY DEF Cleanup
<1> USE <1>1, <1>3, <1>4 DEF ConnectionsInv, ConnectionsTypeOK
<1>5. OnlyConnected' /\ MissedIsUnanswered' /\ OneConnectionPerUser'
    BY DEF OnlyConnected, MissedIsUnanswered, OneConnectionPerUser
<1>6. MissedSoFar'
  <2>1. \A s \in connections' : health[s] \in Nat /\ health'[s] = health[s]
      OBVIOUS
  <2>. QED BY <2>1 DEF MissedSoFar, Unresponsive
<1>7. ReachableUnlessRemoved'
    BY DEF ReachableUnlessRemoved
<1>8. PresenceIsTrue'
  <2>1. ASSUME NEW w \in Users PROVE ConnectionsOf(w)' = ConnectionsOf(w) \ Unresponsive
      BY DEF ConnectionsOf
  <2>2. ASSUME NEW w \in Users, ConnectionsOf(w) # {}, ConnectionsOf(w)' = {}
        PROVE  \E s \in unheard' : UserOf[s] = w
      BY <2>1, <2>2 DEF ConnectionsOf
  <2>. QED BY <2>1, <2>2 DEF PresenceIsTrue
<1>. QED BY <1>2, <1>5, <1>6, <1>7, <1>8

LEMMA PongSteps ==
    ASSUME ConnectionsInv, NEW s \in Sockets, HandlePong(s) PROVE ConnectionsInv'
<1> USE DEF ConnectionsInv, ConnectionsTypeOK, HandlePong, history
<1>1. ConnectionsTypeOK'
  <2>1. \A t \in Sockets : health'[t] # NoHealth <=> health[t] # NoHealth
      OBVIOUS
  <2>. QED BY <2>1
<1>2. OnlyConnected'
    BY DEF OnlyConnected
<1>3. MissedSoFar' /\ MissedIsUnanswered'
    BY DEF MissedSoFar, MissedIsUnanswered
<1>4. OneConnectionPerUser' /\ ReachableUnlessRemoved' /\ PresenceIsTrue'
    BY DEF OneConnectionPerUser, ReachableUnlessRemoved, PresenceIsTrue, ConnectionsOf
<1>. QED BY <1>1, <1>2, <1>3, <1>4

-----------------------------------------------------------------------------
LEMMA NextInv == ConnectionsInv /\ [ConnectionsNext]_connectionsVars => ConnectionsInv'
<1> SUFFICES ASSUME ConnectionsInv, [ConnectionsNext]_connectionsVars PROVE ConnectionsInv'
    OBVIOUS
<1>1. CASE UNCHANGED connectionsVars
    BY <1>1 DEF connectionsVars, tables, history, ConnectionsInv, ConnectionsTypeOK,
                OnlyConnected, MissedIsUnanswered, MissedSoFar, OneConnectionPerUser, ReachableUnlessRemoved,
                PresenceIsTrue, ConnectionsOf
<1>. QED BY <1>1, OpenSteps, AcceptSteps, RejectSteps, DisconnectSteps, HeartbeatSteps,
             CleanupSteps, PongSteps DEF ConnectionsNext

LEMMA Invariance == ConnectionsSpec => []ConnectionsInv
BY ConnectionsInitInv, NextInv, PTL DEF ConnectionsSpec

(* The tables keep their types, and every connection has its health entry. *)
THEOREM ConnectionsTypeCorrect == ConnectionsSpec => []ConnectionsTypeOK
BY Invariance, PTL DEF ConnectionsInv

(* Validations that finish in any order leave a user one connection.       *)
THEOREM SingleConnection == ConnectionsSpec => []OneConnectionPerUser
BY Invariance, PTL DEF ConnectionsInv

(* Only a later socket of the same user or its own silence takes an open   *)
(* socket out of the table.                                                *)
THEOREM StaysReachable == ConnectionsSpec => []ReachableUnlessRemoved
BY Invariance, PTL DEF ConnectionsInv

(* The announcements and the table differ only for users dropped as silent.*)
THEOREM PresenceFollowsTable == ConnectionsSpec => []PresenceIsTrue
BY Invariance, PTL DEF ConnectionsInv

(* No connection outlives the limit by more than a round of the cleanup.   *)
THEOREM BoundedMisses == ConnectionsSpec => []MissedBounded
<1>1. ConnectionsInv => MissedBounded
    BY DEF ConnectionsInv, ConnectionsTypeOK, MissedSoFar, MissedBounded
<1>. QED BY <1>1, Invariance, PTL
=============================================================================
