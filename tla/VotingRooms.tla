----------------------------- MODULE VotingRooms -----------------------------
(***************************************************************************)
(* The rooms of the /voting namespace: VotingWebSocketService keeps three  *)
(* maps (room to sockets, user to rooms, socket to user) beside the rooms  *)
(* of socket.io.  A user may have several sockets.  WsAuthGuard reads the  *)
(* user from the database before each message is handled, so messages are  *)
(* served in any order, and may be served after their socket has gone.     *)
(* Handlers run to their end without another step in between.              *)
(***************************************************************************)
EXTENDS FiniteSets, Naturals

CONSTANTS
    Users,          \* users of the system
    Sockets,        \* socket ids, each of one connection
    Votings,        \* votings that have rooms
    UserOf,         \* the user in the token of a socket's handshake
    Nobody,         \* a socket that maps to no user
    MaxPending      \* bound on messages waiting for the guard

ASSUME RoomsAssumption ==
    /\ UserOf \in [Sockets -> Users]
    /\ Nobody \notin Users
    /\ MaxPending \in Nat

VARIABLES
    link,           \* socket.io: "new", "open" or "closed"
    channel,        \* socket.io: the sockets in each channel voting:<id>
    pending,        \* messages whose guard is reading the user
    known,          \* sockets with client.data.user
    participants,   \* votingRooms: the sockets of each room, none if absent
    userRooms,      \* userRooms: the rooms of each user
    socketToUser,   \* socketToUser
    forwarded,      \* history: the votes given to VotingService
    leftBehind,     \* history: <<s, v>> where another socket of the user of s
                    \* has left room v while s was in it
    late            \* history: sockets that joined a room after they had gone

maps == <<participants, userRooms, socketToUser>>
history == <<forwarded, leftBehind, late>>
vars == <<link, channel, pending, known, maps, history>>

Message == [op : {"join", "leave", "cast"}, socket : Sockets, voting : Votings]

TypeOK ==
    /\ link \in [Sockets -> {"new", "open", "closed"}]
    /\ channel \in [Votings -> SUBSET Sockets]
    /\ pending \subseteq Message
    /\ known \subseteq Sockets
    /\ participants \in [Votings -> SUBSET Sockets]
    /\ userRooms \in [Users -> SUBSET Votings]
    /\ \A s \in Sockets : socketToUser[s] \in {UserOf[s], Nobody}
    /\ socketToUser \in [Sockets -> Users \cup {Nobody}]
    /\ forwarded \subseteq Users \X Votings
    /\ leftBehind \subseteq Sockets \X Votings
    /\ late \subseteq Sockets

Init ==
    /\ link = [s \in Sockets |-> "new"]
    /\ channel = [v \in Votings |-> {}]
    /\ pending = {}
    /\ known = {}
    /\ participants = [v \in Votings |-> {}]
    /\ userRooms = [u \in Users |-> {}]
    /\ socketToUser = [s \in Sockets |-> Nobody]
    /\ forwarded = {}
    /\ leftBehind = {}
    /\ late = {}

SocketsOf(u) == {s \in Sockets : UserOf[s] = u}

-----------------------------------------------------------------------------
(* The socket and its messages.                                            *)

Connect(s) ==
    /\ link[s] = "new"
    /\ link' = [link EXCEPT ![s] = "open"]
    /\ UNCHANGED <<channel, pending, known, maps, history>>

Send(m) ==
    /\ link[m.socket] = "open"
    /\ Cardinality(pending) < MaxPending
    /\ pending' = pending \cup {m}
    /\ UNCHANGED <<link, channel, known, maps, history>>

\* The guard finds the token expired or the user deleted.
Refuse(m) ==
    /\ m \in pending
    /\ pending' = pending \ {m}
    /\ UNCHANGED <<link, channel, known, maps, history>>

\* The guard lets the message through and remembers the user.
Admit(m) ==
    /\ m \in pending
    /\ pending' = pending \ {m}
    /\ known' = known \cup {m.socket}

-----------------------------------------------------------------------------
(* VotingWebSocketService.                                                 *)

\* Faulty form: a join starts the user's set of rooms anew.
JoinRoomAnew(s, u, v) ==
    /\ participants' = [participants EXCEPT ![v] = @ \cup {s}]
    /\ userRooms' = [userRooms EXCEPT ![u] = {v}]
    /\ socketToUser' = [socketToUser EXCEPT ![s] = u]

\* Faulty form: a second socket takes the place of the first.
JoinRoomReplaces(s, u, v) ==
    /\ participants' = [participants EXCEPT ![v] = (@ \ SocketsOf(u)) \cup {s}]
    /\ userRooms' = [userRooms EXCEPT ![u] = @ \cup {v}]
    /\ socketToUser' = [socketToUser EXCEPT ![s] = u]

JoinRoom(s, u, v) ==
    /\ participants' = [participants EXCEPT ![v] = @ \cup {s}]
    /\ userRooms' = [userRooms EXCEPT ![u] = @ \cup {v}]
    /\ socketToUser' = [socketToUser EXCEPT ![s] = u]

\* The conditions under which leaveVotingRoom does anything.
MayLeave(s, v) == socketToUser[s] # Nobody /\ participants[v] # {}

\* Faulty form: the user keeps the room while anybody is in it.
LeaveRoomIfLast(s, v) ==
    /\ participants' = [participants EXCEPT ![v] = @ \ {s}]
    /\ userRooms' = [userRooms EXCEPT ![socketToUser[s]] =
                         IF participants[v] \subseteq {s} THEN @ \ {v} ELSE @]
    /\ UNCHANGED socketToUser

LeaveRoom(s, v) ==
    /\ participants' = [participants EXCEPT ![v] = @ \ {s}]
    /\ userRooms' = [userRooms EXCEPT ![socketToUser[s]] = @ \ {v}]
    /\ UNCHANGED socketToUser

\* The rooms removeFromAllVotingRooms leaves.
RoomsToLeave(s) == {v \in userRooms[socketToUser[s]] : participants[v] # {}}

\* Faulty form: the socket is forgotten before its rooms are looked up.
RemoveFromAllForgets(s) ==
    /\ socketToUser' = [socketToUser EXCEPT ![s] = Nobody]
    /\ UNCHANGED <<participants, userRooms>>

RemoveFromAll(s) ==
    \/ /\ socketToUser[s] # Nobody
       /\ participants' = [v \in Votings |->
              IF v \in RoomsToLeave(s) THEN participants[v] \ {s} ELSE participants[v]]
       /\ userRooms' = [userRooms EXCEPT ![socketToUser[s]] = @ \ RoomsToLeave(s)]
       /\ socketToUser' = [socketToUser EXCEPT ![s] = Nobody]
    \/ /\ socketToUser[s] = Nobody
       /\ UNCHANGED maps

\* Faulty form: it is enough that there is such a room.
IsRoomOpen(u, v) == participants[v] # {}

IsUserInVotingRoom(u, v) == v \in userRooms[u]

-----------------------------------------------------------------------------
(* The handlers of VotingWebSocketGateway.                                 *)

\* What the departure of s from the rooms R does to its user's other sockets.
Siblings(s, R) ==
    {p \in (SocketsOf(UserOf[s]) \ {s}) \X R : p[1] \in participants[p[2]]}

\* socket.io turns join into a no-op when the socket closes.
HandleJoin(m) ==
    /\ m.op = "join"
    /\ Admit(m)
    /\ JoinRoom(m.socket, UserOf[m.socket], m.voting)
    /\ channel' = [channel EXCEPT ![m.voting] =
                       IF link[m.socket] = "open" THEN @ \cup {m.socket} ELSE @]
    /\ leftBehind' = leftBehind \ {<<m.socket, m.voting>>}
    /\ late' = IF link[m.socket] = "closed" THEN late \cup {m.socket} ELSE late
    /\ UNCHANGED <<link, forwarded>>

HandleLeave(m) ==
    /\ m.op = "leave"
    /\ Admit(m)
    /\ MayLeave(m.socket, m.voting)
    /\ LeaveRoom(m.socket, m.voting)
    /\ channel' = [channel EXCEPT ![m.voting] = @ \ {m.socket}]
    /\ leftBehind' = (leftBehind \ {<<m.socket, m.voting>>})
                        \cup Siblings(m.socket, {m.voting})
    /\ UNCHANGED <<link, forwarded, late>>

\* 'Failed to leave voting room or not in room'
HandleLeaveInVain(m) ==
    /\ m.op = "leave"
    /\ Admit(m)
    /\ ~ MayLeave(m.socket, m.voting)
    /\ UNCHANGED <<link, channel, maps, history>>

HandleCast(m) ==
    /\ m.op = "cast"
    /\ Admit(m)
    /\ IsUserInVotingRoom(UserOf[m.socket], m.voting)
    /\ forwarded' = forwarded \cup {<<UserOf[m.socket], m.voting>>}
    /\ UNCHANGED <<link, channel, maps, leftBehind, late>>

\* 'You must join the voting room before casting a vote'
HandleCastOutside(m) ==
    /\ m.op = "cast"
    /\ Admit(m)
    /\ ~ IsUserInVotingRoom(UserOf[m.socket], m.voting)
    /\ UNCHANGED <<link, channel, maps, history>>

\* socket.io leaves its channels first; a socket none of whose messages has
\* passed the guard has no user to clean up for.
HandleDisconnect(s) ==
    /\ link[s] = "open"
    /\ link' = [link EXCEPT ![s] = "closed"]
    /\ channel' = [v \in Votings |-> channel[v] \ {s}]
    /\ \/ /\ s \in known
          /\ RemoveFromAll(s)
          /\ leftBehind' = IF socketToUser[s] = Nobody THEN leftBehind
                           ELSE (leftBehind \ ({s} \X RoomsToLeave(s)))
                                    \cup Siblings(s, RoomsToLeave(s))
       \/ /\ s \notin known
          /\ UNCHANGED <<maps, leftBehind>>
    /\ UNCHANGED <<pending, known, forwarded, late>>

Next ==
    \/ \E s \in Sockets : Connect(s) \/ HandleDisconnect(s)
    \/ \E m \in Message :
           \/ Send(m) \/ Refuse(m)
           \/ HandleJoin(m)
           \/ HandleLeave(m) \/ HandleLeaveInVain(m)
           \/ HandleCast(m) \/ HandleCastOutside(m)

Spec == Init /\ [][Next]_vars

-----------------------------------------------------------------------------
(* Properties.                                                             *)

(* A user who counts as being in a room (and whose votes the gateway       *)
(* therefore forwards) has an open socket listed in that room, unless a    *)
(* socket joined after it had gone: no departure of one of several sockets *)
(* leaves the right behind (voting-websocket.service.ts leaveVotingRoom,   *)
(* removeFromAllVotingRooms, isUserInVotingRoom).                          *)
VoiceIsBacked ==
    \A u \in Users : \A v \in userRooms[u] :
        \E s \in SocketsOf(u) :
            s \in participants[v] /\ (link[s] = "open" \/ s \in late)

(* A listed socket gives its user the right to vote, unless another socket *)
(* of the user has left the room since.                                    *)
ParticipantsHaveVoice ==
    \A v \in Votings : \A s \in participants[v] :
        <<s, v>> \notin leftBehind => v \in userRooms[UserOf[s]]

(* The room as the service lists it and the channel the broadcasts go to   *)
(* have the same open sockets, and no closed one is in a channel: whoever  *)
(* is counted is told (handleJoinVoting, handleLeaveVoting,                *)
(* handleDisconnect).                                                      *)
RoomIsChannel ==
    \A v \in Votings :
        channel[v] = {s \in participants[v] : link[s] = "open"}

(* A closed socket is listed for only two reasons: it was left behind by   *)
(* another socket of its user, or it joined after it had gone.             *)
GhostsExplained ==
    \A v \in Votings : \A s \in participants[v] :
        link[s] = "closed" => <<s, v>> \in leftBehind \/ s \in late

(* A vote is forwarded only while the voter has a socket in the room, open *)
(* or late: the message to join was served before, whatever the order of   *)
(* the answers of the guard.                                               *)
VotesComeFromRooms ==
    [][\A u \in Users, v \in Votings :
           <<u, v>> \in forwarded' \ forwarded =>
               \E s \in SocketsOf(u) :
                   s \in participants[v] /\ (link[s] = "open" \/ s \in late)]_vars

=============================================================================
