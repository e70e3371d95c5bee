SPECIFICATION Spec
CONSTANTS
    u1 = u1
    u2 = u2
    s1 = s1
    s2 = s2
    s3 = s3
    v1 = v1
    v2 = v2
    Users = {u1, u2}
    Sockets = {s1, s2, s3}
    Votings = {v1, v2}
    UserOf <- Owner
    Nobody = nobody
    MaxPending = 2
CHECK_DEADLOCK FALSE
SYMMETRY Symmetry
CONSTRAINT FewVotes
INVARIANTS
    VoiceIsBacked
    ParticipantsHaveVoice
    RoomIsChannel
    GhostsExplained
PROPERTY VotesComeFromRooms
