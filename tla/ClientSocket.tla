----------------------------- MODULE ClientSocket -----------------------------
(***************************************************************************)
(* The browser's side of the connection to the main namespace: the         *)
(* WebSocketService singleton, which creates sockets, counts pings and     *)
(* retries by hand, and the store that shows its state.  A socket that     *)
(* connect() replaces keeps its listeners and is not closed.  The network  *)
(* and the server are what makes connections succeed, fail and drop.       *)
(***************************************************************************)
EXTENDS FiniteSets, Naturals

CONSTANTS
    ClientSockets,  \* sockets that io() creates; a closed one stands for a new one
    None,           \* no socket
    MaxAttempts,    \* maxReconnectAttempts
    MaxMissed,      \* missed pings that start a reconnection
    MaxLoops        \* bound on reconnections going on at the same time

ASSUME ClientAssumption ==
    /\ None \notin ClientSockets
    /\ MaxAttempts \in Nat /\ MaxMissed \in Nat /\ MaxLoops \in Nat

VARIABLES
    wire,       \* each socket, as the browser sees it
    socket,     \* this.socket
    awaited,    \* who awaits the promise of the connect() that made a socket
    kept,       \* config.authToken is set
    status,     \* the service's status
    attempts,   \* reconnectAttempts
    missed,     \* missedPings, counted up to MaxMissed; nothing lowers it, as
                \* the server of this namespace never emits 'pong'
    waiting,    \* attemptReconnection calls waiting for their delay
    shown,      \* the store: status and isConnected
    abandoned,  \* history: live sockets that connect() replaced while
                \* they were connecting
    crossed     \* history: a replaced socket dropped since the last connect

clientVars ==
    <<wire, socket, awaited, kept, status, attempts, missed, waiting, shown,
      abandoned, crossed>>

Statuses == {"disconnected", "connecting", "connected", "error", "reconnecting"}

ClientTypeOK ==
    /\ wire \in [ClientSockets -> {"down", "connecting", "connected"}]
    /\ socket \in ClientSockets \cup {None}
    /\ awaited \in [ClientSockets -> {"nobody", "store", "retry"}]
    /\ kept \in BOOLEAN
    /\ status \in Statuses
    /\ attempts \in 0 .. MaxAttempts
    /\ missed \in 0 .. MaxMissed
    /\ waiting \in Nat
    /\ shown \in [status : Statuses, isConnected : BOOLEAN]
    /\ abandoned \subseteq ClientSockets
    /\ crossed \in BOOLEAN

Nothing == [status |-> "disconnected", isConnected |-> FALSE]

ClientInit ==
    /\ wire = [s \in ClientSockets |-> "down"]
    /\ socket = None
    /\ awaited = [s \in ClientSockets |-> "nobody"]
    /\ kept = FALSE
    /\ status = "disconnected"
    /\ attempts = 0
    /\ missed = 0
    /\ waiting = 0
    /\ shown = Nothing
    /\ abandoned = {}
    /\ crossed = FALSE

Live(s) == s \in ClientSockets /\ wire[s] # "down"
Up(s) == s \in ClientSockets /\ wire[s] = "connected"

-----------------------------------------------------------------------------
(* connect, disconnect and setAuthToken                                    *)

\* The part of connect() after its early returns; by awaits its promise.
Create(s, by) ==
    /\ ~Live(s) /\ awaited[s] = "nobody"
    /\ wire' = [wire EXCEPT ![s] = "connecting"]
    /\ awaited' = [awaited EXCEPT ![s] = by]
    /\ abandoned' = abandoned
           \cup {x \in ClientSockets : x = socket /\ wire[x] = "connecting"}
    /\ socket' = s
    /\ status' = "connecting"

\* Faulty form: "already connected" is not examined.
StoreConnectAnyway ==
    /\ \E s \in ClientSockets : Create(s, "store")
    /\ shown' = [shown EXCEPT !.status = "connecting"]
    /\ UNCHANGED <<kept, attempts, missed, waiting, crossed>>

\* connect of the store, with a token: either the connection is there and
\* updateStatus copies its state, or a socket is created.
StoreConnect ==
    \/ /\ Up(socket)
       /\ shown' = [status |-> status, isConnected |-> TRUE]
       /\ UNCHANGED <<wire, socket, awaited, kept, status, attempts, missed,
                      waiting, abandoned, crossed>>
    \/ /\ ~Up(socket)
       /\ \E s \in ClientSockets : Create(s, "store")
       /\ shown' = [shown EXCEPT !.status = "connecting"]
       /\ UNCHANGED <<kept, attempts, missed, waiting, crossed>>

\* Faulty form: the status is left as it was.
DisconnectQuietly ==
    /\ wire' = [s \in ClientSockets |-> IF s = socket THEN "down" ELSE wire[s]]
    /\ socket' = None
    /\ attempts' = 0
    /\ shown' = Nothing
    /\ UNCHANGED <<awaited, kept, status, missed, waiting, abandoned, crossed>>

\* disconnect of the service, then updateStatus of the store.  The timeout of
\* a connect() still in progress and the delays go on.
Disconnect ==
    /\ wire' = [s \in ClientSockets |-> IF s = socket THEN "down" ELSE wire[s]]
    /\ socket' = None
    /\ status' = "disconnected"
    /\ attempts' = 0
    /\ shown' = Nothing
    /\ UNCHANGED <<awaited, kept, missed, waiting, abandoned, crossed>>

\* A connection in use is closed and made again; nobody awaits the new one.
SetAuthToken ==
    /\ kept' = TRUE
    /\ \/ /\ ~Up(socket)
          /\ UNCHANGED <<wire, socket, awaited, status, attempts, shown>>
       \/ /\ Up(socket)
          /\ \E s \in ClientSockets \ {socket} :
                /\ ~Live(s) /\ awaited[s] = "nobody"
                /\ wire' = [wire EXCEPT ![socket] = "down", ![s] = "connecting"]
                /\ socket' = s
          /\ status' = "connecting"
          /\ attempts' = 0
          /\ shown' = Nothing
          /\ UNCHANGED awaited
    /\ UNCHANGED <<missed, waiting, abandoned, crossed>>

-----------------------------------------------------------------------------
(* attemptReconnection: the synchronous part, and what its delay leads to. *)

\* left: the other attempts waiting.
AttemptReconnection(left) ==
    \/ /\ attempts >= MaxAttempts
       /\ status' = "error"
       /\ waiting' = left
       /\ UNCHANGED attempts
    \/ /\ attempts < MaxAttempts
       /\ status' = "reconnecting"
       /\ waiting' = left + 1
       /\ attempts' = attempts + 1

\* Not the next round of a reconnection but another one.
StartReconnecting ==
    /\ \/ attempts >= MaxAttempts
       \/ waiting + Cardinality({s \in ClientSockets : awaited[s] = "retry"}) < MaxLoops
    /\ AttemptReconnection(waiting)

\* connect() without an argument: it has a token only if config has one.
RetryConnects ==
    /\ waiting > 0
    /\ \/ /\ Up(socket)
          /\ waiting' = waiting - 1
          /\ UNCHANGED <<wire, socket, awaited, status, attempts, abandoned>>
       \/ /\ ~Up(socket) /\ kept
          /\ waiting' = waiting - 1
          /\ \E s \in ClientSockets : Create(s, "retry")
          /\ UNCHANGED attempts
       \/ /\ ~Up(socket) /\ ~kept
          /\ AttemptReconnection(waiting - 1)
          /\ UNCHANGED <<wire, socket, awaited, abandoned>>
    /\ UNCHANGED <<kept, missed, shown, crossed>>

\* setupHeartbeat: the interval exists as long as this.socket does.
HeartbeatTick ==
    /\ Up(socket)
    /\ IF missed + 1 < MaxMissed
       THEN missed' = missed + 1 /\ UNCHANGED <<status, attempts, waiting>>
       ELSE missed' = MaxMissed /\ StartReconnecting
    /\ UNCHANGED <<wire, socket, awaited, kept, shown, abandoned, crossed>>

-----------------------------------------------------------------------------
(* Events of the sockets.  The store listens to all of them.               *)

\* Faulty form: a retry that got as far as a socket starts the count again.
RejectedAfresh(s, otherwise) ==
    /\ awaited' = [awaited EXCEPT ![s] = "nobody"]
    /\ shown' = IF awaited[s] = "store" THEN [shown EXCEPT !.status = "error"] ELSE shown
    /\ IF awaited[s] = "retry"
       THEN status' = "reconnecting" /\ attempts' = 1 /\ waiting' = waiting + 1
       ELSE status' = otherwise /\ UNCHANGED <<attempts, waiting>>

\* Whoever awaits the promise of s learns that it failed.
Rejected(s, otherwise) ==
    /\ awaited' = [awaited EXCEPT ![s] = "nobody"]
    /\ shown' = IF awaited[s] = "store" THEN [shown EXCEPT !.status = "error"] ELSE shown
    /\ IF awaited[s] = "retry"
       THEN AttemptReconnection(waiting)
       ELSE status' = otherwise /\ UNCHANGED <<attempts, waiting>>

\* 'connect', which socket.io sends before handleConnection looks at the token.
Connected(s) ==
    /\ wire[s] = "connecting"
    /\ wire' = [wire EXCEPT ![s] = "connected"]
    /\ awaited' = [awaited EXCEPT ![s] = "nobody"]
    /\ status' = "connected"
    /\ attempts' = 0
    /\ shown' = [status |-> "connected",
                 isConnected |-> awaited[s] = "store" => s = socket \/ Up(socket)]
    /\ crossed' = FALSE
    /\ UNCHANGED <<socket, kept, missed, waiting, abandoned>>

\* 'connect_error'
ConnectFails(s) ==
    /\ wire[s] = "connecting"
    /\ wire' = [wire EXCEPT ![s] = "down"]
    /\ abandoned' = abandoned \ {s}
    /\ Rejected(s, "error")
    /\ UNCHANGED <<socket, kept, missed, crossed>>

\* The ten seconds of connect() are over; the socket goes on connecting.
ConnectTimesOut(s) ==
    /\ ~Up(s) /\ awaited[s] # "nobody"
    /\ Rejected(s, status)
    /\ UNCHANGED <<wire, socket, kept, missed, abandoned, crossed>>

\* 'error', 'auth_error', 'connection_error'
ErrorEvent(s) ==
    /\ Up(s)
    /\ status' = "error"
    /\ shown' = [shown EXCEPT !.status = "error"]
    /\ UNCHANGED <<wire, socket, awaited, kept, attempts, missed, waiting,
                   abandoned, crossed>>

\* Faulty form: the store does not listen.
DroppedUnseen(s) ==
    /\ Up(s)
    /\ wire' = [wire EXCEPT ![s] = "down"]
    /\ abandoned' = abandoned \ {s}
    /\ crossed' = (crossed \/ s # socket)
    /\ StartReconnecting
    /\ UNCHANGED <<socket, awaited, kept, missed, shown>>

\* 'disconnect', for any reason but a disconnect() of the client.
Dropped(s) ==
    /\ Up(s)
    /\ wire' = [wire EXCEPT ![s] = "down"]
    /\ abandoned' = abandoned \ {s}
    /\ crossed' = (crossed \/ s # socket)
    /\ shown' = Nothing
    /\ StartReconnecting
    /\ UNCHANGED <<socket, awaited, kept, missed>>

SocketEvent(s) ==
    Connected(s) \/ ConnectFails(s) \/ ConnectTimesOut(s) \/ ErrorEvent(s) \/ Dropped(s)

\* A page that is loaded starts from nothing; its predecessor's sockets close.
Unload ==
    /\ wire' = [s \in ClientSockets |-> "down"]
    /\ socket' = None
    /\ awaited' = [s \in ClientSockets |-> "nobody"]
    /\ kept' = FALSE
    /\ status' = "disconnected"
    /\ attempts' = 0
    /\ missed' = 0
    /\ waiting' = 0
    /\ shown' = Nothing
    /\ abandoned' = {}
    /\ crossed' = FALSE
=============================================================================
