---------------------------- MODULE ClientSession ----------------------------
(***************************************************************************)
(* The session of one browser tab: the auth store and its copy in          *)
(* localStorage, which open and close the connection of ClientSocket.      *)
(* Answers of the login endpoint, the timer of a page load and the         *)
(* reconnection delays arrive in any order with the user's log out.        *)
(***************************************************************************)
EXTENDS ClientSocket

CONSTANTS
    MaxLogins,      \* bound on login requests in flight: the user may go to
                    \* /register, which logs in too, before an answer
    TokensSet       \* websocketStore.setAuthToken is in use

ASSUME SessionAssumption == MaxLogins \in Nat /\ TokensSet \in BOOLEAN

VARIABLES
    session,    \* the auth store has a user and a token
    stored,     \* localStorage has them under 'auth'
    logins,     \* login requests not yet answered
    loading,    \* the timer of the page load that connects with its token
    strays      \* history: live sockets created without a session

sessionVars == <<session, stored, logins, loading, strays>>
vars == <<clientVars, sessionVars>>

TypeOK ==
    /\ ClientTypeOK
    /\ session \in BOOLEAN
    /\ stored \in BOOLEAN
    /\ logins \in 0 .. MaxLogins
    /\ loading \in BOOLEAN
    /\ strays \subseteq ClientSockets

Init ==
    /\ ClientInit
    /\ session = FALSE
    /\ stored = FALSE
    /\ logins = 0
    /\ loading = FALSE
    /\ strays = {}

-----------------------------------------------------------------------------
\* ClientSockets that a step creates without a session are strays; closed ones are
\* forgotten.
TrackStrays ==
    strays' = {s \in ClientSockets :
        /\ wire'[s] # "down"
        /\ s \in strays \/ (wire[s] = "down" /\ ~session')}

\* login, up to the answer.  The form is there with a session as well: the
\* redirection that requireGuestAsync throws is caught and does nothing.
SubmitLogin ==
    /\ logins < MaxLogins
    /\ logins' = logins + 1
    /\ UNCHANGED <<clientVars, session, stored, loading, strays>>

\* The user and token are stored and persisted, then the store connects.
LoginSucceeds ==
    /\ logins > 0
    /\ logins' = logins - 1
    /\ session' = TRUE
    /\ stored' = TRUE
    /\ StoreConnect
    /\ TrackStrays
    /\ UNCHANGED loading

\* No answer, or one that is not an error of authentication.
LoginFails ==
    /\ logins > 0
    /\ logins' = logins - 1
    /\ UNCHANGED <<clientVars, session, stored, loading, strays>>

Logout ==
    /\ session
    /\ session' = FALSE
    /\ stored' = FALSE
    /\ Disconnect
    /\ TrackStrays
    /\ UNCHANGED <<logins, loading>>

\* createAuthStore reads localStorage and, if it finds a session, connects
\* 100 ms later.
Load ==
    /\ Unload
    /\ session' = stored
    /\ loading' = stored
    /\ logins' = 0
    /\ strays' = {}
    /\ UNCHANGED stored

\* An answer 401, to a login too: 'auth_token' and 'user' are removed, which
\* are not where the session is, and the browser is sent to /login.
Unauthorized == (session \/ logins > 0) /\ Load

\* With the token read at load time, whatever has happened since.
LoadTimerFires ==
    /\ loading
    /\ loading' = FALSE
    /\ StoreConnect
    /\ UNCHANGED <<session, stored, logins>>
    /\ TrackStrays

OfService(A) ==
    /\ A
    /\ UNCHANGED <<session, stored, logins, loading>>
    /\ TrackStrays

ServiceStep ==
    \/ \E s \in ClientSockets : OfService(SocketEvent(s))
    \/ OfService(RetryConnects)
    \/ OfService(HeartbeatTick)
    \/ TokensSet /\ session /\ OfService(SetAuthToken)

Next ==
    \/ SubmitLogin
    \/ LoginSucceeds
    \/ LoginFails
    \/ Logout
    \/ Load
    \/ Unauthorized
    \/ LoadTimerFires
    \/ ServiceStep

Spec == Init /\ [][Next]_vars

\* The browser's timers fire, and socket.io gives up on a connection that it
\* cannot open.  A delay ends though all of ClientSockets may be in use again
\* and again, which is of the bound and not of the code: strong fairness.
FairSpec ==
    /\ Spec
    /\ WF_vars(LoadTimerFires)
    /\ SF_vars(OfService(RetryConnects))
    /\ \A s \in ClientSockets :
        /\ WF_vars(OfService(ConnectTimesOut(s)))
        /\ WF_vars(OfService(Connected(s) \/ ConnectFails(s)))

-----------------------------------------------------------------------------
(* Properties.                                                             *)

(* Only two kinds of sockets are alive besides the one in use: those that  *)
(* connect() replaced while they were still connecting, and, once the user *)
(* has logged out, those that a timer started before the log out opens     *)
(* after it.  Every other connection ends with the session (auth.store.ts  *)
(* logout, websocket.service.ts connect, disconnect).                      *)
ConnectionsEndWithSession ==
    \A s \in ClientSockets :
        Live(s) =>
            /\ s = socket \/ s \in abandoned
            /\ session \/ s \in abandoned \/ s \in strays

(* When the service's status says connected, some socket of the page is,   *)
(* and it is the one that emit() uses unless a replaced socket connected   *)
(* first (websocket.service.ts setStatus).                                 *)
ConnectedIsBacked ==
    status = "connected" =>
        \/ Up(socket)
        \/ \E s \in abandoned : Up(s)

(* The indicator of the page is green only with a connection, and red with *)
(* the socket in use connected only if a replaced socket dropped after it  *)
(* connected, whose 'disconnect' the store cannot tell from the other's    *)
(* (websocket.store.ts).                                                   *)
IndicatorIsTrue ==
    /\ shown.isConnected => \E s \in ClientSockets : Up(s)
    /\ Up(socket) /\ ~shown.isConnected => crossed

\* No retry waits or is in progress, and the page is not left "reconnecting"
\* without a connection.
RetryingIsOver ==
    /\ waiting = 0
    /\ \A s \in ClientSockets : awaited[s] # "retry"
    /\ status = "reconnecting" => Up(socket)

\* The two steps that give back the attempts in a page that stays.
AttemptsRestored == Logout \/ \E s \in ClientSockets : OfService(Connected(s))

(* Retrying ends: if from some time on no socket connects and the user     *)
(* does not log out, then from some time on nothing is retried, with a     *)
(* token or without one and whatever the other timers, the heartbeat and   *)
(* further logins do.  A page that connects, fails and tries again for     *)
(* ever violates it (websocket.service.ts attemptReconnection).            *)
RetriesEnd == []<><<AttemptsRestored>>_vars \/ <>[]RetryingIsOver

(* A session whose connection dropped, and whose page stays, is connected   *)
(* or connecting again or over, the browser's timers given time             *)
(* (websocket.service.ts 248: "Attempt reconnection if not manually         *)
(* disconnected").                                                          *)
DropsAreRetried ==
    (session /\ status = "reconnecting" /\ ~Up(socket))
        ~> (Live(socket) \/ loading \/ ~session)
=============================================================================
