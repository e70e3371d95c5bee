---------------------------- MODULE WsConnections ----------------------------
(***************************************************************************)
(* The connection tables of the main namespace: AppWebSocketGateway        *)
(* validates the token of a new socket while other events happen, keeps    *)
(* one connection per user by removing the previous one, pings every       *)
(* connection on one timer and drops the unresponsive ones on another.     *)
(* A dropped or replaced socket is not closed.                             *)
(***************************************************************************)
EXTENDS FiniteSets, Naturals

CONSTANTS
    Users,          \* users of the system
    Sockets,        \* socket ids, each of one connection
    UserOf,         \* the user in the token of a socket's handshake
    NoHealth,       \* a socket without an entry in connectionHealth
    MissLimit,      \* missed pings that make a connection unresponsive
    MaxBeats,       \* bound on heartbeats from one cleanup to the next: the
                    \* timers run at 30 s and 60 s, each with its own delays
    MaxUnanswered   \* bound on pings in transit to a socket and back

ASSUME ConnectionsAssumption ==
    /\ UserOf \in [Sockets -> Users]
    /\ NoHealth \notin Nat
    /\ MissLimit \in Nat \ {0} /\ MaxBeats \in Nat \ {0}
    /\ MaxUnanswered \in Nat /\ MissLimit <= MaxUnanswered

VARIABLES
    link,           \* socket.io: "new", "open" or "closed"
    validating,     \* sockets whose handleConnection awaits validateToken
    connections,    \* connections: the sockets it has an entry for
    health,         \* connectionHealth: missedPings; isAlive says whether
                    \* they are below the limit
    unanswered,     \* pings sent to a socket whose pong has not arrived yet
    beats,          \* heartbeats since the last cleanup
    present,        \* history: users last announced as connected
    accepted,       \* history: sockets whose token was found valid
    superseded,     \* history: of those, the ones of a user another of whose
                    \* sockets was accepted later
    unheard         \* history: connections that at a cleanup were dead, or had
                    \* left as many pings unanswered as the limit says

tables == <<connections, health>>
history == <<present, accepted, superseded, unheard>>
connectionsVars == <<link, validating, tables, unanswered, beats, history>>

ConnectionsTypeOK ==
    /\ link \in [Sockets -> {"new", "open", "closed"}]
    /\ validating \subseteq Sockets
    /\ connections \subseteq Sockets
    /\ health \in [Sockets -> Nat \cup {NoHealth}]
    /\ connections = {s \in Sockets : health[s] # NoHealth}
    /\ unanswered \in [Sockets -> 0 .. MaxUnanswered]
    /\ beats \in 0 .. MaxBeats
    /\ present \subseteq Users
    /\ accepted \subseteq Sockets
    /\ superseded \subseteq accepted
    /\ unheard \subseteq Sockets

ConnectionsInit ==
    /\ link = [s \in Sockets |-> "new"]
    /\ validating = {}
    /\ connections = {}
    /\ health = [s \in Sockets |-> NoHealth]
    /\ unanswered = [s \in Sockets |-> 0]
    /\ beats = 0
    /\ present = {}
    /\ accepted = {}
    /\ superseded = {}
    /\ unheard = {}

-----------------------------------------------------------------------------
(* WebSocketService.  Its voting rooms have no callers but the rejoining   *)
(* on reconnection, which finds none, so they stay empty.                  *)

\* Faulty form: the first connection, whoever's it is.
ConnectionsOfAnyone(u) == connections

\* getConnectionByUserId returns one of these.
ConnectionsOf(u) == {s \in connections : UserOf[s] = u}

\* removeConnection of every socket in gone, addConnection of those in come.
Reconnect(gone, come) ==
    /\ connections' = (connections \ gone) \cup come
    /\ health' = [s \in Sockets |->
                     IF s \in come THEN 0 ELSE IF s \in gone THEN NoHealth ELSE health[s]]

\* Faulty form: one more than the limit.
UnresponsiveLate == {s \in connections : health[s] > MissLimit}

Unresponsive == {s \in connections : health[s] >= MissLimit}

\* A ping to a closed socket is lost.
Sent(S) ==
    unanswered' = [s \in Sockets |->
        IF s \in S /\ link[s] = "open" /\ unanswered[s] < MaxUnanswered
        THEN unanswered[s] + 1 ELSE unanswered[s]]

\* Faulty form: only pings that are sent to open sockets count.
PingOpen(S) ==
    /\ health' = [s \in Sockets |->
           IF s \in S /\ link[s] = "open" THEN health[s] + 1 ELSE health[s]]
    /\ Sent(S)

Ping(S) ==
    /\ health' = [s \in Sockets |-> IF s \in S THEN health[s] + 1 ELSE health[s]]
    /\ Sent(S)

-----------------------------------------------------------------------------
(* The handlers and timers of AppWebSocketGateway.                         *)

\* handleConnection, up to the answer of validateToken.
Open(s) ==
    /\ link[s] = "new"
    /\ link' = [link EXCEPT ![s] = "open"]
    /\ validating' = validating \cup {s}
    /\ UNCHANGED <<tables, unanswered, beats, history>>

\* Faulty form: the new connection is added beside the old one.
MakeNoWay(s) == {{}}

\* handleReconnection: at most one connection of the user makes way.
MakeWay(s) ==
    IF ConnectionsOf(UserOf[s]) = {} THEN {{}}
    ELSE {{old} : old \in ConnectionsOf(UserOf[s])}

\* The token is valid, whether or not the socket is still there.
Accept(s) ==
    /\ s \in validating
    /\ validating' = validating \ {s}
    /\ \E gone \in MakeWay(s) : Reconnect(gone, {s})
    /\ present' = present \cup {UserOf[s]}
    /\ accepted' = accepted \cup {s}
    /\ superseded' = superseded \cup {t \in accepted : UserOf[t] = UserOf[s]}
    /\ UNCHANGED <<link, unanswered, beats, unheard>>

\* 'Authentication token required', 'Invalid authentication token'
Reject(s) ==
    /\ s \in validating
    /\ validating' = validating \ {s}
    /\ link' = [link EXCEPT ![s] = "closed"]
    /\ UNCHANGED <<tables, unanswered, beats, history>>

\* Faulty form: the others are told whether or not there was a connection.
HandleDisconnectLoud(s) ==
    /\ link[s] = "open"
    /\ link' = [link EXCEPT ![s] = "closed"]
    /\ unanswered' = [unanswered EXCEPT ![s] = 0]
    /\ Reconnect({s}, {})
    /\ present' = present \ {UserOf[s]}
    /\ UNCHANGED <<validating, beats, accepted, superseded, unheard>>

HandleDisconnect(s) ==
    /\ link[s] = "open"
    /\ link' = [link EXCEPT ![s] = "closed"]
    /\ unanswered' = [unanswered EXCEPT ![s] = 0]
    /\ Reconnect({s}, {})
    /\ present' = IF s \in connections THEN present \ {UserOf[s]} ELSE present
    /\ UNCHANGED <<validating, beats, accepted, superseded, unheard>>

\* startHeartbeat, every 30 s.
Heartbeat ==
    /\ beats < MaxBeats
    /\ beats' = beats + 1
    /\ Ping(connections)
    /\ UNCHANGED <<link, validating, connections, history>>

\* startOrphanedConnectionCleanup, every 60 s.  No connection is stale, as
\* every heartbeat renews lastPing.
Cleanup ==
    /\ beats > 0
    /\ beats' = 0
    /\ Reconnect(Unresponsive, {})
    /\ unheard' = unheard \cup {s \in connections :
                     link[s] = "closed" \/ unanswered[s] >= MissLimit}
    /\ UNCHANGED <<link, validating, unanswered, present, accepted, superseded>>

\* The client's answer arrives; without an entry it is ignored.
HandlePong(s) ==
    /\ link[s] = "open"
    /\ unanswered[s] > 0
    /\ unanswered' = [unanswered EXCEPT ![s] = @ - 1]
    /\ health' = [health EXCEPT ![s] = IF s \in connections THEN 0 ELSE @]
    /\ UNCHANGED <<link, validating, connections, beats, history>>

ConnectionsNext ==
    \/ \E s \in Sockets :
           Open(s) \/ Accept(s) \/ Reject(s) \/ HandleDisconnect(s) \/ HandlePong(s)
    \/ Heartbeat
    \/ Cleanup

ConnectionsSpec == ConnectionsInit /\ [][ConnectionsNext]_connectionsVars

\* The two timers run for as long as the server does.
ConnectionsFairSpec ==
    ConnectionsSpec /\ WF_connectionsVars(Heartbeat) /\ WF_connectionsVars(Cleanup)

-----------------------------------------------------------------------------
(* Properties.                                                             *)

(* Whatever the order in which tokens are validated, a user has at most    *)
(* one connection: getConnectionByUserId has nothing to choose from        *)
(* (websocket.gateway.ts handleReconnection).                              *)
OneConnectionPerUser ==
    \A s, t \in connections : UserOf[s] = UserOf[t] => s = t

(* A socket that is open and has been accepted is in the table, unless a   *)
(* socket of the same user was accepted after it or it left as many pings  *)
(* unanswered as the limit says: neither other users nor a client that     *)
(* answers late push it out (websocket.gateway.ts handleConnection,        *)
(* handleReconnection, websocket.service.ts handlePong,                    *)
(* cleanupOrphanedConnections).                                            *)
ReachableUnlessRemoved ==
    \A s \in Sockets :
        link[s] = "open" =>
            s \in validating \cup connections \cup superseded \cup unheard

(* What the other clients were last told of a user is what the table says, *)
(* but for users whose connection was dropped as dead or silent: nobody is *)
(* told of those (websocket.gateway.ts 211-215, 241-245,                   *)
(* websocket.service.ts 135-138).                                          *)
PresenceIsTrue ==
    \A u \in Users :
        /\ ConnectionsOf(u) # {} => u \in present
        /\ u \in present /\ ConnectionsOf(u) = {} => \E s \in unheard : UserOf[s] = u

(* However the two timers drift, no connection is kept after more missed   *)
(* pings than the limit and one round of the cleanup allow.                *)
MissedBounded ==
    \A s \in connections : health[s] < MissLimit + MaxBeats

(* A socket that closed while its token was validated enters the table     *)
(* dead; the heartbeat and the cleanup get it out again.                   *)
GhostsGo ==
    \A s \in Sockets :
        s \in connections /\ link[s] = "closed" ~> s \notin connections
=============================================================================
