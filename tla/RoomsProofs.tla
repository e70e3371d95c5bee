----------------------------- MODULE RoomsProofs -----------------------------
(* The maps of VotingRooms agree for any number of users, sockets and      *)
(* votings, and however many messages wait for the guard.                  *)
EXTENDS VotingRooms, TLAPS

(* A socket that has not connected sends nothing and is listed nowhere.    *)
NewIsSilent ==
    /\ \A m \in pending : link[m.socket] # "new"
    /\ \A v \in Votings : \A s \in participants[v] : link[s] # "new"

(* A listed open socket is known with its user, so that it can leave, and  *)
(* is taken out when it closes.                                            *)
OpenIsMapped ==
    \A v \in Votings : \A s \in participants[v] :
        link[s] = "open" => s \in known /\ socketToUser[s] = UserOf[s]

Inv ==
    /\ TypeOK
    /\ NewIsSilent
    /\ OpenIsMapped
    /\ VoiceIsBacked
    /\ ParticipantsHaveVoice
    /\ RoomIsChannel
    /\ GhostsExplained

-----------------------------------------------------------------------------
LEMMA InitInv == Init => Inv
BY RoomsAssumption
   DEF RoomsAssumption, Init, Inv, TypeOK, NewIsSilent, OpenIsMapped, VoiceIsBacked,
       ParticipantsHaveVoice, RoomIsChannel, GhostsExplained

(* What TypeOK says of one socket, in the shape the steps use it.          *)
LEMMA SocketTyped ==
    ASSUME NEW s \in Sockets PROVE UserOf[s] \in Users /\ UserOf[s] # Nobody
BY RoomsAssumption DEF RoomsAssumption

LEMMA TypeSteps == TypeOK /\ [Next]_vars => TypeOK'
<1> SUFFICES ASSUME TypeOK, [Next]_vars PROVE TypeOK'
    OBVIOUS
<1> USE RoomsAssumption DEF RoomsAssumption, TypeOK
<1>1. ASSUME NEW s \in Sockets, Connect(s) PROVE TypeOK'
    BY <1>1 DEF Connect, maps, history
<1>2. ASSUME NEW m \in Message, Send(m) PROVE TypeOK'
    BY <1>2 DEF Send, maps, history
<1>3. ASSUME NEW m \in Message, Refuse(m) PROVE TypeOK'
    BY <1>3 DEF Refuse, maps, history
<1>4. ASSUME NEW m \in Message, HandleJoin(m) PROVE TypeOK'
  <2> m.socket \in Sockets /\ m.voting \in Votings
    BY DEF Message
  <2>1. /\ participants' \in [Votings -> SUBSET Sockets]
        /\ userRooms' \in [Users -> SUBSET Votings]
        /\ channel' \in [Votings -> SUBSET Sockets]
    BY <1>4, SocketTyped DEF HandleJoin, JoinRoom
  <2>2. /\ \A s \in Sockets : socketToUser'[s] \in {UserOf[s], Nobody}
        /\ socketToUser' \in [Sockets -> Users \cup {Nobody}]
    BY <1>4, SocketTyped DEF HandleJoin, JoinRoom
  <2>. QED BY <1>4, <2>1, <2>2 DEF HandleJoin, Admit
<1>5. ASSUME NEW m \in Message, HandleLeave(m) PROVE TypeOK'
  <2> m.socket \in Sockets /\ m.voting \in Votings
    BY DEF Message
  <2>1. leftBehind' \subseteq Sockets \X Votings
    BY <1>5 DEF HandleLeave, Siblings, SocketsOf
  <2>2. /\ participants' \in [Votings -> SUBSET Sockets]
        /\ userRooms' \in [Users -> SUBSET Votings]
        /\ channel' \in [Votings -> SUBSET Sockets]
    BY <1>5 DEF HandleLeave, LeaveRoom, MayLeave
  <2>. QED BY <1>5, <2>1, <2>2 DEF HandleLeave, Admit, LeaveRoom
<1>6. ASSUME NEW m \in Message, HandleLeaveInVain(m) PROVE TypeOK'
    BY <1>6 DEF HandleLeaveInVain, Admit, maps, history, Message
<1>7. ASSUME NEW m \in Message, HandleCast(m) PROVE TypeOK'
    BY <1>7, SocketTyped DEF HandleCast, Admit, maps, Message
<1>8. ASSUME NEW m \in Message, HandleCastOutside(m) PROVE TypeOK'
    BY <1>8 DEF HandleCastOutside, Admit, maps, history, Message
<1>9. ASSUME NEW s \in Sockets, HandleDisconnect(s) PROVE TypeOK'
  <2>1. ASSUME socketToUser[s] # Nobody PROVE RoomsToLeave(s) \subseteq Votings
    BY <2>1 DEF RoomsToLeave
  <2>2. leftBehind' \subseteq Sockets \X Votings
    BY <1>9, <2>1 DEF HandleDisconnect, Siblings, SocketsOf, maps
  <2>3. /\ participants' \in [Votings -> SUBSET Sockets]
        /\ userRooms' \in [Users -> SUBSET Votings]
        /\ \A t \in Sockets : socketToUser'[t] \in {UserOf[t], Nobody}
        /\ socketToUser' \in [Sockets -> Users \cup {Nobody}]
    BY <1>9 DEF HandleDisconnect, RemoveFromAll, maps
  <2>4. channel' \in [Votings -> SUBSET Sockets]
    BY <1>9 DEF HandleDisconnect
  <2>. QED BY <1>9, <2>2, <2>3, <2>4 DEF HandleDisconnect
<1>10. CASE UNCHANGED vars
    BY <1>10 DEF vars, maps, history
<1>. QED BY <1>1, <1>2, <1>3, <1>4, <1>5, <1>6, <1>7, <1>8, <1>9, <1>10 DEF Next

-----------------------------------------------------------------------------
(* Steps that leave sockets, channels and maps alone disturb nothing but   *)
(* what is said of pending messages.                                       *)
LEMMA QuietSteps ==
    ASSUME Inv, TypeOK',
           UNCHANGED <<link, channel, maps, leftBehind, late>>,
           known \subseteq known',
           \A m \in pending' \ pending : link[m.socket] # "new"
    PROVE  Inv'
BY DEF Inv, TypeOK, NewIsSilent, OpenIsMapped, VoiceIsBacked, ParticipantsHaveVoice,
       RoomIsChannel, GhostsExplained, maps, SocketsOf

LEMMA ConnectSteps ==
    ASSUME Inv, TypeOK', NEW s \in Sockets, Connect(s)
    PROVE  Inv'
<1>1. \A v \in Votings : s \notin participants[v]
    BY DEF Inv, NewIsSilent, Connect
<1> USE DEF Connect, maps, history, Inv, TypeOK
<1>2. NewIsSilent'
    BY DEF NewIsSilent
<1>3. OpenIsMapped'
    BY <1>1 DEF OpenIsMapped
<1>4. VoiceIsBacked'
    BY <1>1 DEF VoiceIsBacked, SocketsOf
<1>5. ParticipantsHaveVoice' /\ GhostsExplained'
    BY <1>1 DEF ParticipantsHaveVoice, GhostsExplained
<1>6. RoomIsChannel'
    BY <1>1 DEF RoomIsChannel
<1>. QED BY <1>2, <1>3, <1>4, <1>5, <1>6

LEMMA JoinSteps ==
    ASSUME Inv, TypeOK', NEW m \in Message, HandleJoin(m)
    PROVE  Inv'
<1> DEFINE s == m.socket
           v == m.voting
           u == UserOf[s]
<1>1. s \in Sockets /\ v \in Votings /\ u \in Users
    BY SocketTyped DEF Message
<1>2. link[s] # "new"
    BY DEF Inv, NewIsSilent, HandleJoin, Admit
<1>3. /\ participants' = [participants EXCEPT ![v] = @ \cup {s}]
      /\ userRooms' = [userRooms EXCEPT ![u] = @ \cup {v}]
      /\ socketToUser' = [socketToUser EXCEPT ![s] = u]
      /\ known' = known \cup {s}
      /\ pending' = pending \ {m}
      /\ channel' = [channel EXCEPT ![v] = IF link[s] = "open" THEN @ \cup {s} ELSE @]
      /\ leftBehind' = leftBehind \ {<<s, v>>}
      /\ late' = IF link[s] = "closed" THEN late \cup {s} ELSE late
      /\ link' = link
    BY DEF HandleJoin, Admit, JoinRoom
<1> HIDE DEF s, v, u
<1> USE <1>1, <1>2, <1>3 DEF Inv, TypeOK
<1>4. NewIsSilent'
    BY DEF NewIsSilent
<1>5. OpenIsMapped'
    BY DEF OpenIsMapped, u
<1>6. VoiceIsBacked'
  <2> SUFFICES ASSUME NEW w \in Users, NEW r \in userRooms'[w]
               PROVE  \E t \in SocketsOf(w) :
                          t \in participants'[r] /\ (link'[t] = "open" \/ t \in late')
      BY DEF VoiceIsBacked, SocketsOf
  <2>1. CASE w = u /\ r = v
      BY <2>1 DEF SocketsOf, u
  <2>2. CASE ~ (w = u /\ r = v)
    <3>1. r \in userRooms[w]
        BY <2>2
    <3>2. PICK t \in SocketsOf(w) :
              t \in participants[r] /\ (link[t] = "open" \/ t \in late)
        BY <3>1 DEF VoiceIsBacked
    <3>. QED BY <3>1, <3>2
  <2>. QED BY <2>1, <2>2
<1>7. ParticipantsHaveVoice'
    BY DEF ParticipantsHaveVoice, u
<1>8. RoomIsChannel'
    BY DEF RoomIsChannel
<1>9. GhostsExplained'
    BY DEF GhostsExplained
<1>. QED BY <1>4, <1>5, <1>6, <1>7, <1>8, <1>9

LEMMA LeaveSteps ==
    ASSUME Inv, TypeOK', NEW m \in Message, HandleLeave(m)
    PROVE  Inv'
<1> DEFINE s == m.socket
           v == m.voting
           u == UserOf[s]
<1>1. s \in Sockets /\ v \in Votings /\ u \in Users
    BY SocketTyped DEF Message
<1>2. socketToUser[s] = u
    BY <1>1 DEF Inv, TypeOK, HandleLeave, MayLeave
<1>3. /\ participants' = [participants EXCEPT ![v] = @ \ {s}]
      /\ userRooms' = [userRooms EXCEPT ![u] = @ \ {v}]
      /\ socketToUser' = socketToUser
      /\ known' = known \cup {s}
      /\ pending' = pending \ {m}
      /\ channel' = [channel EXCEPT ![v] = @ \ {s}]
      /\ leftBehind' = (leftBehind \ {<<s, v>>}) \cup Siblings(s, {v})
      /\ UNCHANGED <<link, late>>
    BY <1>2 DEF HandleLeave, Admit, LeaveRoom
<1>4. \A t \in participants[v] : UserOf[t] = u /\ t # s => <<t, v>> \in Siblings(s, {v})
    BY <1>1 DEF Siblings, SocketsOf, Inv, TypeOK, u
<1> HIDE DEF s, v
<1> USE <1>1, <1>3 DEF Inv, TypeOK
<1>5. NewIsSilent'
    BY DEF NewIsSilent
<1>6. OpenIsMapped'
    BY DEF OpenIsMapped
<1>7. VoiceIsBacked'
  <2> SUFFICES ASSUME NEW w \in Users, NEW r \in userRooms'[w]
               PROVE  \E t \in SocketsOf(w) :
                          t \in participants'[r] /\ (link'[t] = "open" \/ t \in late')
      BY DEF VoiceIsBacked, SocketsOf
  <2>1. r \in userRooms[w] /\ ~ (w = u /\ r = v)
      OBVIOUS
  <2>2. PICK t \in SocketsOf(w) :
            t \in participants[r] /\ (link[t] = "open" \/ t \in late)
      BY <2>1 DEF VoiceIsBacked
  <2>3. ~ (t = s /\ r = v)
      BY <2>1 DEF SocketsOf
  <2>. QED BY <2>1, <2>2, <2>3
<1>8. ParticipantsHaveVoice'
  <2> SUFFICES ASSUME NEW r \in Votings, NEW t \in participants'[r],
                      <<t, r>> \notin leftBehind'
               PROVE  r \in userRooms'[UserOf[t]]
      BY DEF ParticipantsHaveVoice
  <2>1. t \in Sockets /\ t \in participants[r] /\ ~ (t = s /\ r = v)
      OBVIOUS
  <2>2. UserOf[t] \in Users
      BY <2>1, SocketTyped
  <2>3. <<t, r>> \notin leftBehind
      BY <2>1
  <2>4. r \in userRooms[UserOf[t]]
      BY <2>1, <2>3 DEF ParticipantsHaveVoice
  <2>5. ~ (UserOf[t] = u /\ r = v)
      BY <1>4, <2>1
  <2>. QED BY <2>2, <2>4, <2>5
<1>9. RoomIsChannel'
    BY DEF RoomIsChannel
<1>10. GhostsExplained'
    BY DEF GhostsExplained
<1>. QED BY <1>5, <1>6, <1>7, <1>8, <1>9, <1>10

(* A mapped socket that closes leaves the rooms of its user; no other maps *)
(* change, and no other user's rooms.                                      *)
LEMMA DisconnectSteps ==
    ASSUME Inv, TypeOK', NEW s \in Sockets, HandleDisconnect(s)
    PROVE  Inv'
<1> DEFINE u == UserOf[s]
           R == userRooms[u]
<1>1. u \in Users /\ u # Nobody
    BY SocketTyped
<1>2. /\ link[s] = "open"
      /\ link' = [link EXCEPT ![s] = "closed"]
      /\ channel' = [v \in Votings |-> channel[v] \ {s}]
      /\ UNCHANGED <<pending, known, late>>
    BY DEF HandleDisconnect
<1>3. CASE s \in known /\ socketToUser[s] # Nobody
  <2>1. socketToUser[s] = u
      BY <1>3 DEF Inv, TypeOK
  <2>2. RoomsToLeave(s) = R
      BY <2>1, <1>1 DEF RoomsToLeave, Inv, TypeOK, VoiceIsBacked
  <2>3. /\ participants' = [v \in Votings |-> IF v \in R THEN participants[v] \ {s}
                                              ELSE participants[v]]
        /\ userRooms' = [userRooms EXCEPT ![u] = {}]
        /\ socketToUser' = [socketToUser EXCEPT ![s] = Nobody]
        /\ leftBehind' = (leftBehind \ ({s} \X R)) \cup Siblings(s, R)
      BY <1>3, <2>1, <2>2 DEF HandleDisconnect, RemoveFromAll
  <2>4. \A v \in R : \A t \in participants[v] :
            UserOf[t] = u /\ t # s => <<t, v>> \in Siblings(s, R)
      BY <1>1 DEF Siblings, SocketsOf, Inv, TypeOK
  <2>5. \A v \in Votings : s \in participants[v] /\ v \notin R => <<s, v>> \in leftBehind
      BY DEF Inv, ParticipantsHaveVoice
  <2> HIDE DEF u, R
  <2> USE <1>1, <1>2, <2>3 DEF Inv, TypeOK
  <2>6. NewIsSilent'
      BY DEF NewIsSilent
  <2>7. OpenIsMapped'
      BY DEF OpenIsMapped
  <2>8. VoiceIsBacked'
    <3> SUFFICES ASSUME NEW w \in Users, NEW r \in userRooms'[w]
                 PROVE  \E t \in SocketsOf(w) :
                            t \in participants'[r] /\ (link'[t] = "open" \/ t \in late')
        BY DEF VoiceIsBacked, SocketsOf
    <3>1. r \in userRooms[w] /\ w # u
        OBVIOUS
    <3>2. PICK t \in SocketsOf(w) :
              t \in participants[r] /\ (link[t] = "open" \/ t \in late)
        BY <3>1 DEF VoiceIsBacked
    <3>3. t # s
        BY <3>1 DEF SocketsOf, u
    <3>. QED BY <3>1, <3>2, <3>3 DEF SocketsOf
  <2>9. ParticipantsHaveVoice'
    <3> SUFFICES ASSUME NEW r \in Votings, NEW t \in participants'[r],
                        <<t, r>> \notin leftBehind'
                 PROVE  r \in userRooms'[UserOf[t]]
        BY DEF ParticipantsHaveVoice
    <3>1. t \in Sockets /\ t \in participants[r] /\ ~ (t = s /\ r \in R)
        OBVIOUS
    <3>2. UserOf[t] \in Users
        BY <3>1, SocketTyped
    <3>3. <<t, r>> \notin leftBehind
        BY <3>1
    <3>4. r \in userRooms[UserOf[t]]
        BY <3>1, <3>3 DEF ParticipantsHaveVoice
    <3>5. UserOf[t] # u
        BY <2>4, <3>1, <3>4 DEF R, u
    <3>. QED BY <3>2, <3>4, <3>5
  <2>10. RoomIsChannel'
      BY DEF RoomIsChannel
  <2>11. GhostsExplained'
    <3> SUFFICES ASSUME NEW r \in Votings, NEW t \in participants'[r],
                        link'[t] = "closed", t \notin late'
                 PROVE  <<t, r>> \in leftBehind'
        BY DEF GhostsExplained
    <3>1. t \in Sockets /\ t \in participants[r] /\ ~ (t = s /\ r \in R)
        OBVIOUS
    <3>2. <<t, r>> \in leftBehind
        BY <2>5, <3>1 DEF GhostsExplained
    <3>. QED BY <3>1, <3>2
  <2>. QED BY <2>6, <2>7, <2>8, <2>9, <2>10, <2>11
<1>4. CASE ~ (s \in known /\ socketToUser[s] # Nobody)
  <2>1. \A v \in Votings : s \notin participants[v]
      BY <1>1, <1>2, <1>4 DEF Inv, OpenIsMapped
  <2>2. UNCHANGED <<maps, leftBehind>>
      BY <1>4 DEF HandleDisconnect, RemoveFromAll
  <2> USE <1>1, <1>2, <2>1, <2>2 DEF maps, Inv, TypeOK
  <2>3. NewIsSilent' /\ OpenIsMapped'
      BY DEF NewIsSilent, OpenIsMapped
  <2>4. VoiceIsBacked'
      BY DEF VoiceIsBacked, SocketsOf
  <2>5. ParticipantsHaveVoice' /\ GhostsExplained'
      BY DEF ParticipantsHaveVoice, GhostsExplained
  <2>6. RoomIsChannel'
      BY DEF RoomIsChannel
  <2>. QED BY <2>3, <2>4, <2>5, <2>6
<1>. QED BY <1>3, <1>4

-----------------------------------------------------------------------------
LEMMA NextInv == Inv /\ [Next]_vars => Inv'
<1> SUFFICES ASSUME Inv, [Next]_vars PROVE Inv'
    OBVIOUS
<1>. TypeOK'
    BY TypeSteps DEF Inv
<1>1. ASSUME NEW s \in Sockets, Connect(s) PROVE Inv'
    BY <1>1, ConnectSteps
<1>2. ASSUME NEW m \in Message, Send(m) PROVE Inv'
    BY <1>2, QuietSteps DEF Send, history
<1>3. ASSUME NEW m \in Message, Refuse(m) PROVE Inv'
    BY <1>3, QuietSteps DEF Refuse, history
<1>4. ASSUME NEW m \in Message, HandleJoin(m) PROVE Inv'
    BY <1>4, JoinSteps
<1>5. ASSUME NEW m \in Message, HandleLeave(m) PROVE Inv'
    BY <1>5, LeaveSteps
<1>6. ASSUME NEW m \in Message, HandleLeaveInVain(m) PROVE Inv'
    BY <1>6, QuietSteps DEF HandleLeaveInVain, Admit, history
<1>7. ASSUME NEW m \in Message, HandleCast(m) PROVE Inv'
    BY <1>7, QuietSteps DEF HandleCast, Admit
<1>8. ASSUME NEW m \in Message, HandleCastOutside(m) PROVE Inv'
    BY <1>8, QuietSteps DEF HandleCastOutside, Admit, history
<1>9. ASSUME NEW s \in Sockets, HandleDisconnect(s) PROVE Inv'
    BY <1>9, DisconnectSteps
<1>10. CASE UNCHANGED vars
    BY <1>10, QuietSteps DEF vars, history
<1>. QED BY <1>1, <1>2, <1>3, <1>4, <1>5, <1>6, <1>7, <1>8, <1>9, <1>10 DEF Next

LEMMA Invariance == Spec => []Inv
BY InitInv, NextInv, PTL DEF Spec

(* The maps of VotingWebSocketService keep their types, and a socket is    *)
(* never mapped to another user than its own.                              *)
THEOREM RoomsTypeCorrect == Spec => []TypeOK
BY Invariance, PTL DEF Inv

(* Whoever counts as being in a room has an open socket listed in it, or   *)
(* one whose join was served after it had gone.                            *)
THEOREM NoStaleVoice == Spec => []VoiceIsBacked
BY Invariance, PTL DEF Inv

(* Only the departure of another socket of the same user takes from a      *)
(* listed socket its user's right to vote.                                 *)
THEOREM ListedMayVote == Spec => []ParticipantsHaveVoice
BY Invariance, PTL DEF Inv

(* The room of the service and the channel of socket.io agree on the open  *)
(* sockets.                                                                *)
THEOREM CountedIsTold == Spec => []RoomIsChannel
BY Invariance, PTL DEF Inv

(* There are two ways for a closed socket to stay listed, and no third.    *)
THEOREM OnlyTwoLeaks == Spec => []GhostsExplained
BY Invariance, PTL DEF Inv

(* A forwarded vote comes from a user with a socket in the room.           *)
THEOREM VotesFromInside == Spec => VotesComeFromRooms
<1>1. ASSUME Inv, [Next]_vars, NEW u \in Users, NEW v \in Votings,
             <<u, v>> \in forwarded' \ forwarded
      PROVE  \E s \in SocketsOf(u) :
                 s \in participants[v] /\ (link[s] = "open" \/ s \in late)
  <2>1. PICK m \in Message : HandleCast(m)
      BY <1>1 DEF Next, vars, history, Connect, Send, Refuse, HandleJoin, HandleLeave,
                  HandleLeaveInVain, HandleCastOutside, HandleDisconnect
  <2>2. v \in userRooms[u]
      BY <1>1, <2>1 DEF HandleCast, IsUserInVotingRoom
  <2>. QED BY <1>1, <2>2 DEF Inv, VoiceIsBacked
<1>2. Inv /\ [Next]_vars =>
          [\A u \in Users, v \in Votings :
               <<u, v>> \in forwarded' \ forwarded =>
                   \E s \in SocketsOf(u) :
                       s \in participants[v] /\ (link[s] = "open" \/ s \in late)]_vars
    BY <1>1
<1>. QED BY <1>2, Invariance, PTL DEF Spec, VotesComeFromRooms
=============================================================================
