SPECIFICATION PollSpec
CONSTANTS
    Quorums <- MCQuorums
    MaxMembers = 50
CONSTRAINT Manageable
INVARIANTS
    QuorumViewsAgree
    ShownAsPassedIsApproved
PROPERTY YesNeverHurts
