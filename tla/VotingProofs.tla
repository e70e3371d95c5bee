---------------------------- MODULE VotingProofs ----------------------------
(* Safety of VotingLifecycle for every number of users, requests, rows and *)
(* restarts, and its refinement of BallotBox; then what a voting promises  *)
(* that is not updated, in a house whose members stay; then what is said   *)
(* of the votes of Poll.                                                   *)
EXTENDS VotingLifecycle, Poll, FiniteSetTheorems, TLAPS

(* A request about to insert its vote has found its user in the house.     *)
StoringWasMember ==
    \A r \in Requests : cast[r].pc = "store" => cast[r].vote.user \in everMember

Inv ==
    /\ TypeOK
    /\ StoringWasMember
    /\ OneVotePerUser
    /\ VotersBelonged
    /\ NoOrphanVotes

USE DEF Idle

-----------------------------------------------------------------------------
LEMMA InitInv == Init => Inv
<1> SUFFICES ASSUME Init PROVE Inv
    OBVIOUS
<1>1. TypeOK
  <2>1. now \in Time /\ restarts \in 0 .. MaxRestarts
    BY LifecycleAssumption DEF LifecycleAssumption, Init, Time
  <2>2. cast \in [Requests -> CastTask \cup {Idle}]
    BY DEF Init
  <2>3. closing \in [Closers -> CloseTask \cup AnnounceTask \cup {Idle}]
    BY DEF Init
  <2>. QED BY <2>1, <2>2, <2>3 DEF Init, TypeOK
<1>2. StoringWasMember
    BY DEF Init, StoringWasMember
<1>3. OneVotePerUser /\ VotersBelonged /\ NoOrphanVotes
    BY DEF Init, OneVotePerUser, VotersBelonged, NoOrphanVotes, Voters
<1>. QED BY <1>1, <1>2, <1>3 DEF Inv

(* The tasks of a request, in the shape the actions use them.              *)
LEMMA StoreTask ==
    ASSUME TypeOK, NEW r \in Requests, cast[r].pc \in {"member", "store"}
    PROVE  cast[r] \in CastTask
BY DEF TypeOK, CastTask

LEMMA UpdateTask ==
    ASSUME TypeOK, edit.pc = "update"
    PROVE  edit.to \in VotingRow
BY DEF TypeOK, EditTask

LEMMA AnnouncedEvent ==
    ASSUME TypeOK, NEW c \in Closers, closing[c].pc = "announce"
    PROVE  closing[c].event \in Announcement
BY DEF TypeOK, CloseTask, AnnounceTask

LEMMA ResultsKind ==
    ASSUME TypeOK, NEW c \in Closers, closing[c].pc = "results"
    PROVE  closing[c].kind \in {"TIMEOUT", "UNANIMITY", "QUORUM", "USER"}
BY DEF TypeOK, CloseTask, AnnounceTask

LEMMA TypeSteps == TypeOK /\ [Next]_vars => TypeOK'
<1> SUFFICES ASSUME TypeOK, [Next]_vars PROVE TypeOK'
    OBVIOUS
<1> USE LifecycleAssumption DEF LifecycleAssumption
<1>1. CASE Tick
    BY <1>1 DEF Tick, TypeOK, Time, db
<1>2. CASE Membership
    BY <1>2 DEF Membership, AssignUser, RemoveUser, TypeOK
<1>3. CASE Creating
  <2>1. ASSUME NEW row \in Rows, Create(row) PROVE TypeOK'
    <3>1. row \in VotingRow /\ row.end \in Time
        BY DEF VotingRow
    <3>2. timer' \in Time \cup {None}
        BY <2>1, <3>1 DEF Create, FiresAt, TypeOK
    <3>. QED BY <2>1, <3>1, <3>2 DEF Create, TypeOK
  <2>2. CASE CommitCreate
    BY <2>2 DEF CommitCreate, TypeOK
  <2>3. CASE AbortCreate
    BY <2>3 DEF AbortCreate, TypeOK
  <2>. QED BY <1>3, <2>1, <2>2, <2>3 DEF Creating
<1>4. CASE Editing
  <2>1. ASSUME NEW row \in Rows, ReadForUpdate(row) PROVE TypeOK'
    BY <2>1 DEF ReadForUpdate, TypeOK, db, EditTask
  <2>2. CASE ReadForRemove
    BY <2>2 DEF ReadForRemove, TypeOK, db, EditTask
  <2>3. CASE WriteUpdate
    <3>1. voting' \in VotingRow \cup {None}
        BY <2>3, UpdateTask DEF WriteUpdate, TypeOK, VotingRow
    <3>2. due' \subseteq Time
        BY <2>3, UpdateTask DEF WriteUpdate, TypeOK, VotingRow
    <3>. QED BY <2>3, <3>1, <3>2 DEF WriteUpdate, TypeOK
  <2>4. CASE WriteRemove
    BY <2>4 DEF WriteRemove, TypeOK
  <2>. QED BY <1>4, <2>1, <2>2, <2>3, <2>4 DEF Editing
<1>5. CASE Voting
  <2>1. ASSUME NEW r \in Requests, NEW u \in Users, NEW o \in Options, ReadVoting(r, u, o)
        PROVE  TypeOK'
    <3>1. [pc |-> "member", vote |-> [user |-> u, option |-> o, at |-> now]] \in CastTask
        BY DEF CastTask, Vote, TypeOK
    <3>. QED BY <2>1, <3>1 DEF ReadVoting, TypeOK, db
  <2>2. ASSUME NEW r \in Requests, CheckMember(r) PROVE TypeOK'
    <3>1. cast[r] \in CastTask
        BY <2>2, StoreTask DEF CheckMember
    <3>2. [cast[r] EXCEPT !.pc = "store"] \in CastTask
        BY <3>1 DEF CastTask
    <3>. QED BY <2>2, <3>2 DEF CheckMember, TypeOK, db
  <2>3. ASSUME NEW r \in Requests, StoreVote(r) PROVE TypeOK'
    <3>1. cast[r].vote \in Vote
        BY <2>3, StoreTask DEF StoreVote, StoreIf, CastTask
    <3>2. votes' \subseteq Vote
        BY <2>3, <3>1 DEF StoreVote, StoreIf, TypeOK
    <3>3. closing' \in [Closers -> CloseTask \cup AnnounceTask \cup {Idle}]
        BY <2>3 DEF StoreVote, StoreIf, TypeOK, CloseTask
    <3>. QED BY <2>3, <3>2, <3>3 DEF StoreVote, StoreIf, TypeOK
  <2>. QED BY <1>5, <2>1, <2>2, <2>3 DEF Voting
<1>6. CASE Closing
  <2> DEFINE Task == CloseTask \cup AnnounceTask \cup {Idle}
  <2>1. ASSUME NEW c \in Closers, NEW k \in {"TIMEOUT", "UNANIMITY", "QUORUM", "USER"},
               BeginClose(c, k)
        PROVE  closing' \in [Closers -> Task] /\ timer' \in Time \cup {None}
    BY <2>1 DEF BeginClose, SetClosing, CloseTask, TypeOK
  <2>2. ASSUME NEW c \in Closers, GiveUp(c)
        PROVE  closing' \in [Closers -> Task] /\ timer' \in Time \cup {None}
    BY <2>2 DEF GiveUp, SetClosing, TypeOK
  <2>3. ASSUME NEW c \in Closers, CloseIfFull(c)
        PROVE  closing' \in [Closers -> Task] /\ timer' \in Time \cup {None}
    BY <2>1, <2>2, <2>3 DEF CloseIfFull
  <2>4. CASE RequestAutoClose
    BY <2>4 DEF RequestAutoClose, SetClosing, Closers, CloseTask, TypeOK, db
  <2>5. CASE CloseVoting
    BY <2>5 DEF CloseVoting, SetClosing, Closers, CloseTask, TypeOK, db
  <2>6. CASE TimerFires
    <3>1. Timer \in Closers
        BY DEF Closers
    <3>. QED BY <2>1, <2>6, <3>1 DEF TimerFires, TypeOK, db
  <2>7. ASSUME NEW c \in Closers, ClosingStep(c) PROVE TypeOK'
    <3>1. CASE Decide(c)
      <4>1. CASE voting = None /\ GiveUp(c)
        BY <2>2, <3>1, <4>1 DEF Decide, TypeOK, db
      <4>2. CASE BeginClose(c, "TIMEOUT")
        BY <2>1, <3>1, <4>2 DEF Decide, TypeOK, db
      <4>3. CASE /\ voting # None
                 /\ SetClosing(c, [pc |-> "quorum", type |-> voting.type,
                            full |-> Cardinality(votes) = Cardinality(members)])
                 /\ UNCHANGED timer
        <5>1. [pc |-> "quorum", type |-> voting.type,
               full |-> Cardinality(votes) = Cardinality(members)] \in CloseTask
          BY <4>3 DEF CloseTask, TypeOK, VotingRow
        <5>. QED BY <3>1, <4>3, <5>1 DEF Decide, SetClosing, TypeOK, db
      <4>. QED BY <3>1, <4>1, <4>2, <4>3 DEF Decide
    <3>2. CASE CheckQuorum(c)
      <4>1. CASE SetClosing(c, [closing[c] EXCEPT !.pc = "unanimity"]) /\ UNCHANGED timer
        <5>1. [closing[c] EXCEPT !.pc = "unanimity"] \in CloseTask
          BY <3>2 DEF CheckQuorum, CloseTask, AnnounceTask, TypeOK
        <5>. QED BY <3>2, <4>1, <5>1 DEF CheckQuorum, SetClosing, TypeOK, db
      <4>2. CASE GiveUp(c) \/ CloseIfFull(c)
        BY <2>2, <2>3, <3>2, <4>2 DEF CheckQuorum, TypeOK, db
      <4>. QED BY <3>2, <4>1, <4>2 DEF CheckQuorum
    <3>3. CASE CheckUnanimity(c)
      <4>1. GiveUp(c) \/ BeginClose(c, "UNANIMITY") \/ CloseIfFull(c)
        BY <3>3 DEF CheckUnanimity
      <4>. QED BY <2>1, <2>2, <2>3, <3>3, <4>1 DEF CheckUnanimity, TypeOK, db
    <3>4. CASE ReadResults(c)
      <4>1. [pc |-> "announce", event |-> [kind |-> closing[c].kind, final |-> votes]]
                \in AnnounceTask
        BY <3>4, ResultsKind DEF ReadResults, AnnounceTask, Announcement, TypeOK
      <4>. QED BY <3>4, <4>1 DEF ReadResults, SetClosing, TypeOK, db
    <3>5. CASE Announce(c)
      BY <3>5, AnnouncedEvent DEF Announce, SetClosing, TypeOK, db
    <3>. QED BY <2>7, <3>1, <3>2, <3>3, <3>4, <3>5 DEF ClosingStep
  <2>. QED BY <1>6, <2>4, <2>5, <2>6, <2>7 DEF Closing
<1>7. CASE Restart
    BY <1>7 DEF Restart, TypeOK
<1>8. CASE UNCHANGED vars
    BY <1>8 DEF vars, db, TypeOK
<1>. QED
    BY <1>1, <1>2, <1>3, <1>4, <1>5, <1>6, <1>7, <1>8 DEF Next

-----------------------------------------------------------------------------
(* The conjuncts that relate votes to the rest; every one of them depends  *)
(* on a guard of another action than the one that writes the votes.        *)
LEMMA SafetySteps == Inv /\ [Next]_vars => Inv'
<1> SUFFICES ASSUME Inv, [Next]_vars PROVE Inv'
    OBVIOUS
<1>1. TypeOK /\ TypeOK'
    BY TypeSteps DEF Inv
<1> DEFINE Rest == StoringWasMember' /\ OneVotePerUser' /\ VotersBelonged' /\ NoOrphanVotes'
<1> SUFFICES Rest
    BY <1>1 DEF Inv
<1>2. ASSUME everMember \subseteq everMember', UNCHANGED <<votes, cast>>,
             voting # None => voting' # None
      PROVE  Rest
    BY <1>1, <1>2 DEF Inv, StoringWasMember, OneVotePerUser, VotersBelonged, NoOrphanVotes,
                      Voters, TypeOK
<1>3. CASE Tick
    BY <1>2, <1>3 DEF Tick, db
<1>4. CASE Membership
    BY <1>2, <1>4 DEF Membership, AssignUser, RemoveUser
<1>5. CASE Creating
    BY <1>2, <1>5 DEF Creating, Create, CommitCreate, AbortCreate
<1>6. CASE Editing
  <2>1. CASE WriteRemove
    BY <1>1, <2>1 DEF WriteRemove, Inv, StoringWasMember, OneVotePerUser, VotersBelonged,
                      NoOrphanVotes, Voters
  <2>2. CASE WriteUpdate
    <3>1. voting # None => voting' \in VotingRow
        BY <1>1, <2>2, UpdateTask DEF WriteUpdate, TypeOK, VotingRow
    <3>2. voting # None => voting' # None
        BY <3>1, LifecycleAssumption DEF LifecycleAssumption
    <3>. QED BY <1>2, <2>2, <3>2 DEF WriteUpdate
  <2>3. CASE ReadForRemove \/ \E row \in Rows : ReadForUpdate(row)
    BY <1>2, <2>3 DEF ReadForRemove, ReadForUpdate, db
  <2>. QED BY <1>6, <2>1, <2>2, <2>3 DEF Editing
<1>7. CASE Voting
  <2>1. ASSUME NEW r \in Requests, NEW u \in Users, NEW o \in Options, ReadVoting(r, u, o)
        PROVE  Rest
    <3>1. UNCHANGED <<votes, everMember, voting>>
        BY <2>1 DEF ReadVoting, db
    <3>2. StoringWasMember'
        BY <1>1, <2>1, <3>1 DEF ReadVoting, Inv, StoringWasMember, TypeOK
    <3>. QED BY <3>1, <3>2 DEF Inv, OneVotePerUser, VotersBelonged, NoOrphanVotes, Voters
  <2>2. ASSUME NEW r \in Requests, CheckMember(r) PROVE Rest
    <3>1. UNCHANGED <<votes, everMember, voting>>
        BY <2>2 DEF CheckMember, db
    <3>2. cast[r] \in CastTask
        BY <1>1, <2>2, StoreTask DEF CheckMember
    <3>3. StoringWasMember'
      <4> SUFFICES ASSUME NEW q \in Requests, cast'[q].pc = "store"
                   PROVE  cast'[q].vote.user \in everMember
          BY <3>1 DEF StoringWasMember
      <4>1. CASE q = r /\ cast[r].vote.user \in members
        BY <1>1, <2>2, <3>2, <4>1 DEF CheckMember, TypeOK, CastTask
      <4>2. CASE q = r /\ cast[r].vote.user \notin members
        BY <1>1, <2>2, <4>2 DEF CheckMember, TypeOK
      <4>3. CASE q # r
        BY <1>1, <2>2, <4>3 DEF CheckMember, Inv, StoringWasMember, TypeOK
      <4>. QED BY <4>1, <4>2, <4>3
    <3>. QED BY <3>1, <3>3 DEF Inv, OneVotePerUser, VotersBelonged, NoOrphanVotes, Voters
  <2>3. ASSUME NEW r \in Requests, StoreVote(r) PROVE Rest
    <3>1. UNCHANGED <<everMember, voting>>
        BY <2>3 DEF StoreVote, StoreIf
    <3>2. StoringWasMember'
        BY <1>1, <2>3, <3>1 DEF StoreVote, StoreIf, Inv, StoringWasMember, TypeOK
    <3>3. CASE UNCHANGED votes
        BY <3>1, <3>2, <3>3 DEF Inv, OneVotePerUser, VotersBelonged, NoOrphanVotes, Voters
    <3>4. CASE /\ voting # None /\ cast[r].vote.user \notin Voters(votes)
               /\ votes' = votes \cup {cast[r].vote}
      <4>1. cast[r].vote.user \in everMember
          BY <2>3 DEF StoreVote, StoreIf, Inv, StoringWasMember
      <4>2. \A v \in votes : v.user # cast[r].vote.user
          BY <3>4 DEF Voters
      <4>3. OneVotePerUser'
          BY <3>4, <4>2 DEF Inv, OneVotePerUser
      <4>. QED BY <3>1, <3>2, <3>4, <4>1, <4>3 DEF Inv, VotersBelonged, NoOrphanVotes, Voters
    <3>. QED BY <2>3, <3>3, <3>4 DEF StoreVote, StoreIf
  <2>. QED BY <1>7, <2>1, <2>2, <2>3 DEF Voting
<1>8. CASE Closing
  <2>1. UNCHANGED <<db, cast>>
    BY <1>8 DEF Closing, RequestAutoClose, CloseVoting, TimerFires, ClosingStep, Decide,
                CheckQuorum, CheckUnanimity, ReadResults, Announce
  <2>. QED BY <1>2, <2>1 DEF db
<1>9. CASE Restart
  <2>1. UNCHANGED <<votes, everMember, voting>> /\ StoringWasMember'
    BY <1>9 DEF Restart, StoringWasMember
  <2>. QED BY <2>1 DEF Inv, OneVotePerUser, VotersBelonged, NoOrphanVotes, Voters
<1>10. CASE UNCHANGED vars
    BY <1>2, <1>10 DEF vars, db
<1>. QED
    BY <1>1, <1>3, <1>4, <1>5, <1>6, <1>7, <1>8, <1>9, <1>10 DEF Next

(* The inductive invariant of the voting, in every reachable state.        *)
THEOREM VotingInvariant == Spec => []Inv
<1>. QED BY InitInv, SafetySteps, PTL DEF Spec

(* Type correctness for every instance.                                    *)
THEOREM VotingTypeCorrect == Spec => []TypeOK
<1>1. Inv => TypeOK
    BY DEF Inv
<1>. QED BY VotingInvariant, <1>1, PTL

(* No user ever has two votes in the table, however many requests race.    *)
THEOREM UniqueVotes == Spec => []OneVotePerUser
<1>1. Inv => OneVotePerUser
    BY DEF Inv
<1>. QED BY VotingInvariant, <1>1, PTL

(* Every vote belongs to someone who was a member of the house.            *)
THEOREM MembersVote == Spec => []VotersBelonged
<1>1. Inv => VotersBelonged
    BY DEF Inv
<1>. QED BY VotingInvariant, <1>1, PTL

(* A removed voting leaves no votes behind.                                *)
THEOREM NoOrphans == Spec => []NoOrphanVotes
<1>1. Inv => NoOrphanVotes
    BY DEF Inv
<1>. QED BY VotingInvariant, <1>1, PTL

-----------------------------------------------------------------------------
(* Refinement: only StoreVote, WriteRemove and AssignUser move the box.    *)
LEMMA RefinementStep == Inv /\ [Next]_vars => [Box!BoxNext]_(Box!boxVars)
<1> SUFFICES ASSUME Inv, [Next]_vars PROVE [Box!BoxNext]_(Box!boxVars)
    OBVIOUS
<1>a. TypeOK
    BY DEF Inv
<1> DEFINE Step == [Box!BoxNext]_(Box!boxVars)
<1>1. ASSUME UNCHANGED <<everMember, votes>> PROVE Step
    BY <1>1 DEF Box!boxVars
<1>2. CASE Membership
  <2>1. ASSUME NEW u \in Users, AssignUser(u) PROVE Box!Enrol(u)
    BY <2>1 DEF AssignUser, Box!Enrol
  <2>2. ASSUME NEW u \in Users, RemoveUser(u) PROVE Step
    BY <1>1, <2>2 DEF RemoveUser
  <2>. QED BY <1>2, <2>1, <2>2 DEF Membership, Box!BoxNext
<1>3. CASE Editing
  <2>1. CASE WriteRemove
    <3>1. Box!Discard
        BY <2>1 DEF WriteRemove, Box!Discard
    <3>. QED BY <3>1 DEF Box!BoxNext
  <2>2. CASE ~WriteRemove
    BY <1>1, <1>3, <2>2 DEF Editing, ReadForUpdate, ReadForRemove, WriteUpdate, db
  <2>. QED BY <2>1, <2>2
<1>4. CASE Voting
  <2>1. ASSUME NEW r \in Requests, StoreVote(r) PROVE Step
    <3>1. cast[r].vote \in Vote
        BY <1>a, <2>1, StoreTask DEF StoreVote, StoreIf, CastTask
    <3>2. ASSUME votes' = votes \cup {cast[r].vote},
                 cast[r].vote.user \notin Voters(votes)
          PROVE  Box!BoxNext
      <4>1. PICK u \in Users, o \in Options : u = cast[r].vote.user /\ o = cast[r].vote.option
          BY <3>1 DEF Vote
      <4>2. u \in everMember
          BY <2>1, <4>1 DEF StoreVote, StoreIf, Inv, StoringWasMember
      <4>3. ~Box!HasVoted(u)
          BY <3>2, <4>1 DEF Box!HasVoted, Voters
      <4>4. {<<v.user, v.option>> : v \in votes'}
                = {<<v.user, v.option>> : v \in votes} \cup {<<u, o>>}
          BY <3>2, <4>1
      <4>5. Box!CastBallot(u, o)
          BY <2>1, <4>2, <4>3, <4>4 DEF Box!CastBallot, StoreVote, StoreIf
      <4>. QED BY <4>5 DEF Box!BoxNext
    <3>3. CASE UNCHANGED votes
      BY <1>1, <2>1, <3>3 DEF StoreVote, StoreIf
    <3>. QED BY <2>1, <3>2, <3>3 DEF StoreVote, StoreIf
  <2>2. ASSUME NEW r \in Requests,
               CheckMember(r) \/ \E u \in Users, o \in Options : ReadVoting(r, u, o)
        PROVE  Step
    BY <1>1, <2>2 DEF CheckMember, ReadVoting, db
  <2>. QED BY <1>4, <2>1, <2>2 DEF Voting
<1>5. CASE Closing
    BY <1>1, <1>5 DEF Closing, RequestAutoClose, CloseVoting, TimerFires, ClosingStep, Decide,
                      CheckQuorum, CheckUnanimity, ReadResults, Announce, db
<1>6. CASE Creating \/ Tick \/ Restart \/ UNCHANGED vars
    BY <1>1, <1>6 DEF Creating, Create, CommitCreate, AbortCreate, Tick, Restart, vars, db
<1>. QED
    BY <1>2, <1>3, <1>4, <1>5, <1>6 DEF Next

(* castVote with every interleaving, edit and restart is a ballot box.     *)
THEOREM RefinesBallotBox == Spec => ImplementsBallotBox
<1>1. Init => Box!BoxInit
    BY DEF Init, Box!BoxInit
<1>. QED
    BY <1>1, RefinementStep, VotingInvariant, PTL DEF Spec, ImplementsBallotBox, Box!BoxSpec

-----------------------------------------------------------------------------
(***************************************************************************)
(* A steady voting (SteadySpec).  Before its row is committed nothing has  *)
(* been voted; later only its removal changes it.                          *)
(***************************************************************************)
Unborn == draft # None \/ due = {}

EarlyTask(task) ==
    \/ task.pc \in {"idle", "decide"}
    \/ task.pc = "results" /\ task.kind = "TIMEOUT"

NothingBeforeBirth ==
    /\ voting # None => due # {}
    /\ due = {} => draft = None
    /\ Unborn => /\ voting = None
                 /\ votes = {}
                 /\ \A r \in Requests : cast[r] = Idle
                 /\ \A c \in Closers : EarlyTask(closing[c])

AllVoted == voting = None \/ members \subseteq Voters(votes)

\* What a closing task has concluded of the turnout is true until it is announced.
IsJustified(task) ==
    /\ task.pc \in {"quorum", "unanimity"} /\ task.full => AllVoted
    /\ task.pc = "results" /\ task.kind = "QUORUM" => AllVoted
    /\ task.pc = "announce" /\ task.event.kind = "QUORUM"
           => members \subseteq Voters(task.event.final)

TurnoutHolds ==
    /\ members = everMember
    /\ IsFiniteSet(votes)
    /\ \A c \in Closers : IsJustified(closing[c])

SteadyInv ==
    /\ Inv
    /\ NothingBeforeBirth
    /\ TurnoutHolds

LEMMA SteadyIsNext == [SteadyNext]_vars => [Next]_vars
BY DEF SteadyNext, Next, Editing

LEMMA SteadyInit == Init => SteadyInv
<1> SUFFICES ASSUME Init PROVE SteadyInv
    OBVIOUS
<1>1. NothingBeforeBirth
    BY DEF Init, NothingBeforeBirth, Unborn, EarlyTask
<1>2. TurnoutHolds
    BY FS_EmptySet DEF Init, TurnoutHolds, IsJustified
<1>. QED BY <1>1, <1>2, InitInv DEF SteadyInv

(* A step that leaves the closing tasks alone and lets only a new voting   *)
(* or more votes appear keeps what they have concluded.                    *)
LEMMA TurnoutStays ==
    ASSUME TurnoutHolds, UNCHANGED <<members, everMember>>, IsFiniteSet(votes'),
           AllVoted => AllVoted',
           \A c \in Closers :
               \/ closing'[c] = closing[c]
               \/ closing'[c].pc \in {"idle", "decide"}
    PROVE  TurnoutHolds'
<1> SUFFICES ASSUME NEW c \in Closers PROVE IsJustified(closing[c])'
    BY DEF TurnoutHolds
<1>1. CASE closing'[c] = closing[c]
    BY <1>1 DEF TurnoutHolds, IsJustified, Voters
<1>2. CASE closing'[c].pc \in {"idle", "decide"}
    BY <1>2 DEF IsJustified
<1>. QED BY <1>1, <1>2

(* As many votes as members, one of each user, all of them members: every  *)
(* member has voted.                                                       *)
LEMMA FullHeadCount ==
    ASSUME Inv, TurnoutHolds, Cardinality(votes) = Cardinality(members)
    PROVE  members \subseteq Voters(votes)
<1> DEFINE user == [v \in votes |-> v.user]
<1>1. Voters(votes) \subseteq members
    BY DEF Inv, VotersBelonged, TurnoutHolds
<1>2. IsFiniteSet(members)
  <2>1. members \subseteq Users
    BY DEF Inv, TypeOK
  <2>. QED BY <2>1, FS_Subset, LifecycleAssumption DEF LifecycleAssumption
<1>3. user \in [votes -> members]
    BY <1>1 DEF Voters
<1>4. user \in Injection(votes, members)
    BY <1>3 DEF Inv, OneVotePerUser, Injection, IsInjective
<1>5. user \in Surjection(votes, members)
    BY <1>2, <1>4, FS_Injection
<1>. QED BY <1>5 DEF Surjection, Voters

LEMMA SteadyCreating == SteadyInv /\ Creating => SteadyInv'
<1> SUFFICES ASSUME SteadyInv, Creating PROVE SteadyInv'
    OBVIOUS
<1>1. Inv /\ TypeOK /\ Inv'
    BY SafetySteps DEF SteadyInv, Inv, Next
<1>2. UNCHANGED <<members, everMember, votes, cast, edit, closing>>
    BY DEF Creating, Create, CommitCreate, AbortCreate
<1>3. ASSUME NEW row \in Rows, Create(row) PROVE SteadyInv'
  <2>1. voting = None /\ voting' = None /\ due' # {} /\ due = {}
      BY <1>3 DEF Create, SteadyInv, NothingBeforeBirth, Unborn
  <2>2. NothingBeforeBirth'
      BY <1>2, <2>1 DEF SteadyInv, NothingBeforeBirth, Unborn
  <2>3. TurnoutHolds'
      BY <1>2, <2>1, TurnoutStays DEF SteadyInv, TurnoutHolds, AllVoted
  <2>. QED BY <1>1, <2>1, <2>2, <2>3 DEF SteadyInv
<1>4. CASE CommitCreate
  <2>1. \A c \in Closers : EarlyTask(closing[c])
      BY <1>4 DEF CommitCreate, SteadyInv, NothingBeforeBirth, Unborn
  <2>2. due' # {} /\ draft' = None
      BY <1>4 DEF CommitCreate, SteadyInv, NothingBeforeBirth
  <2>3. NothingBeforeBirth'
      BY <2>2 DEF NothingBeforeBirth, Unborn
  <2>4. TurnoutHolds'
      BY <1>2, <2>1 DEF SteadyInv, TurnoutHolds, EarlyTask, IsJustified
  <2>. QED BY <1>1, <2>3, <2>4 DEF SteadyInv
<1>5. CASE AbortCreate
  <2>1. voting' = None /\ voting = None
      BY <1>5 DEF AbortCreate, SteadyInv, NothingBeforeBirth, Unborn
  <2>2. NothingBeforeBirth'
      BY <1>2, <1>5, <2>1 DEF AbortCreate, SteadyInv, NothingBeforeBirth, Unborn
  <2>3. TurnoutHolds'
      BY <1>2, <2>1, TurnoutStays DEF SteadyInv, TurnoutHolds, AllVoted
  <2>. QED BY <1>1, <2>1, <2>2, <2>3 DEF SteadyInv
<1>. QED BY <1>3, <1>4, <1>5 DEF Creating

LEMMA SteadyRemoving == SteadyInv /\ (ReadForRemove \/ WriteRemove) => SteadyInv'
<1> SUFFICES ASSUME SteadyInv, ReadForRemove \/ WriteRemove PROVE SteadyInv'
    OBVIOUS
<1>1. Inv /\ Inv'
    BY SafetySteps DEF SteadyInv, Next, Editing
<1>2. CASE ReadForRemove
    BY <1>1, <1>2 DEF ReadForRemove, db, SteadyInv, NothingBeforeBirth, Unborn,
            TurnoutHolds, IsJustified, AllVoted, Voters
<1>3. CASE WriteRemove
  <2>1. UNCHANGED <<members, everMember, draft, due, cast, closing>>
        /\ voting' = None /\ votes' = {}
      BY <1>3 DEF WriteRemove
  <2>2. NothingBeforeBirth'
      BY <2>1 DEF SteadyInv, NothingBeforeBirth, Unborn
  <2>3. TurnoutHolds'
      BY <2>1, TurnoutStays, FS_EmptySet DEF SteadyInv, AllVoted
  <2>. QED BY <1>1, <2>1, <2>2, <2>3 DEF SteadyInv
<1>. QED BY <1>2, <1>3

LEMMA SteadyVoting == SteadyInv /\ Voting => SteadyInv'
<1> SUFFICES ASSUME SteadyInv, Voting PROVE SteadyInv'
    OBVIOUS
<1>1. TypeOK /\ Inv /\ Inv'
    BY SafetySteps DEF SteadyInv, Inv, Next
<1>2. UNCHANGED <<now, members, everMember, draft, voting, due, edit>>
    BY DEF Voting, ReadVoting, CheckMember, StoreVote, StoreIf, db
<1>3. ~Unborn /\ NothingBeforeBirth'
  <2>1. ~Unborn
      BY DEF Voting, ReadVoting, CheckMember, StoreVote, StoreIf, SteadyInv, NothingBeforeBirth
  <2>. QED BY <1>2, <2>1 DEF SteadyInv, NothingBeforeBirth, Unborn
<1>4. CASE \E r \in Requests : CheckMember(r) \/ \E u \in Users, o \in Options : ReadVoting(r, u, o)
  <2>1. UNCHANGED <<votes, closing>>
      BY <1>4 DEF CheckMember, ReadVoting, db
  <2>2. TurnoutHolds'
      BY <1>2, <2>1 DEF SteadyInv, TurnoutHolds, IsJustified, AllVoted, Voters
  <2>. QED BY <1>1, <1>3, <2>2 DEF SteadyInv
<1>5. ASSUME NEW r \in Requests, StoreVote(r) PROVE SteadyInv'
  <2>1. votes' = votes \/ votes' = votes \cup {cast[r].vote}
      BY <1>5 DEF StoreVote, StoreIf
  <2>2. IsFiniteSet(votes') /\ (AllVoted => AllVoted')
      BY <1>2, <2>1, FS_AddElement DEF SteadyInv, TurnoutHolds, AllVoted, Voters
  <2>3. \A c \in Closers : closing'[c] = closing[c] \/ closing'[c].pc \in {"idle", "decide"}
      BY <1>1, <1>5 DEF StoreVote, StoreIf, TypeOK
  <2>4. TurnoutHolds'
      BY <1>2, <2>2, <2>3, TurnoutStays DEF SteadyInv
  <2>. QED BY <1>1, <1>3, <2>4 DEF SteadyInv
<1>. QED BY <1>4, <1>5 DEF Voting

(* One closing task moves on, and what it concludes is true.               *)
LEMMA SteadyTask ==
    ASSUME SteadyInv, Inv', NEW c \in Closers, UNCHANGED <<db, cast, edit>>, NEW task,
           closing' = [closing EXCEPT ![c] = task], IsJustified(task),
           Unborn => EarlyTask(task)
    PROVE  SteadyInv'
<1>1. \A d \in Closers : closing'[d] = IF d = c THEN task ELSE closing[d]
    BY DEF SteadyInv, Inv, TypeOK
<1>2. NothingBeforeBirth'
    BY <1>1 DEF db, SteadyInv, NothingBeforeBirth, Unborn
<1>3. TurnoutHolds'
    BY <1>1 DEF db, SteadyInv, TurnoutHolds, IsJustified, AllVoted, Voters
<1>. QED
    BY <1>2, <1>3 DEF SteadyInv

LEMMA SteadyClosing == SteadyInv /\ Closing => SteadyInv'
<1> SUFFICES ASSUME SteadyInv, Closing PROVE SteadyInv'
    OBVIOUS
<1>1. TypeOK /\ Inv /\ Inv'
    BY SafetySteps DEF SteadyInv, Inv, Next
<1>2. UNCHANGED <<db, cast, edit>>
    BY DEF Closing, RequestAutoClose, CloseVoting, TimerFires, ClosingStep, Decide,
           CheckQuorum, CheckUnanimity, ReadResults, Announce
<1> DEFINE Move(c, task) == closing' = [closing EXCEPT ![c] = task]
<1>3. ASSUME NEW c \in Closers, NEW task, Move(c, task), IsJustified(task),
             Unborn => EarlyTask(task)
      PROVE  SteadyInv'
    BY <1>1, <1>2, <1>3, SteadyTask
<1>4. Officer \in Closers /\ Timer \in Closers
    BY DEF Closers
<1>5. CASE RequestAutoClose
  <2>1. IsJustified([pc |-> "decide"]) /\ EarlyTask([pc |-> "decide"])
      BY DEF IsJustified, EarlyTask
  <2>. QED BY <1>3, <1>4, <1>5, <2>1 DEF RequestAutoClose, SetClosing
<1>6. CASE CloseVoting
  <2> DEFINE task == [pc |-> "results", kind |-> "USER"]
  <2>1. IsJustified(task)
      BY DEF IsJustified
  <2>2. ~Unborn
      BY <1>6 DEF CloseVoting, SteadyInv, NothingBeforeBirth
  <2>. QED BY <1>3, <1>4, <1>6, <2>1, <2>2 DEF CloseVoting, SetClosing
<1>7. CASE TimerFires
  <2> DEFINE task == [pc |-> "results", kind |-> "TIMEOUT"]
  <2>1. IsJustified(task) /\ EarlyTask(task)
      BY DEF IsJustified, EarlyTask
  <2>. QED BY <1>3, <1>4, <1>7, <2>1 DEF TimerFires, BeginClose, SetClosing
<1>8. ASSUME NEW c \in Closers, ClosingStep(c) PROVE SteadyInv'
  <2>1. closing[c] = Idle \/ closing[c] \in CloseTask \cup AnnounceTask
      BY <1>1 DEF TypeOK
  <2>2. IsJustified(closing[c]) /\ (Unborn => EarlyTask(closing[c]))
      BY DEF SteadyInv, TurnoutHolds, NothingBeforeBirth
  <2>3. ASSUME GiveUp(c) PROVE SteadyInv'
    <3>1. IsJustified(Idle) /\ EarlyTask(Idle)
        BY DEF IsJustified, EarlyTask
    <3>. QED BY <1>3, <2>3, <3>1 DEF GiveUp, SetClosing
  <2>4. ASSUME NEW kind \in {"TIMEOUT", "UNANIMITY", "QUORUM"}, BeginClose(c, kind), ~Unborn,
               kind = "QUORUM" => AllVoted
        PROVE  SteadyInv'
    <3> DEFINE task == [pc |-> "results", kind |-> kind]
    <3>1. IsJustified(task)
        BY <2>4 DEF IsJustified
    <3>. QED BY <1>3, <2>4, <3>1 DEF BeginClose, SetClosing
  <2>5. ASSUME CloseIfFull(c), closing[c].pc \in {"quorum", "unanimity"} PROVE SteadyInv'
    <3>1. ~Unborn
        BY <2>2, <2>5 DEF EarlyTask
    <3>2. closing[c].full => AllVoted
        BY <2>2, <2>5 DEF IsJustified
    <3>. QED BY <2>3, <2>4, <2>5, <3>1, <3>2 DEF CloseIfFull
  <2>6. CASE Decide(c)
    <3>1. CASE voting = None
        BY <2>3, <2>6, <3>1 DEF Decide
    <3>2. CASE voting # None /\ BeginClose(c, "TIMEOUT")
        BY <2>4, <3>2 DEF SteadyInv, NothingBeforeBirth
    <3>3. CASE /\ voting # None
               /\ SetClosing(c, [pc |-> "quorum", type |-> voting.type,
                            full |-> Cardinality(votes) = Cardinality(members)])
      <4> DEFINE task == [pc |-> "quorum", type |-> voting.type,
                          full |-> Cardinality(votes) = Cardinality(members)]
      <4>1. task.full => AllVoted
          BY <1>1, FullHeadCount DEF SteadyInv, AllVoted
      <4>2. IsJustified(task)
          BY <4>1 DEF IsJustified
      <4>3. ~Unborn
          BY <3>3 DEF SteadyInv, NothingBeforeBirth
      <4>. QED BY <1>3, <3>3, <4>2, <4>3 DEF SetClosing
    <3>. QED BY <2>6, <3>1, <3>2, <3>3 DEF Decide
  <2>7. CASE CheckQuorum(c)
    <3>1. CASE SetClosing(c, [closing[c] EXCEPT !.pc = "unanimity"])
      <4> DEFINE task == [closing[c] EXCEPT !.pc = "unanimity"]
      <4>1. closing[c] \in CloseTask /\ closing[c].pc = "quorum"
          BY <2>1, <2>7 DEF CheckQuorum, AnnounceTask
      <4>2. task.pc = "unanimity" /\ task.full = closing[c].full
          BY <4>1 DEF CloseTask
      <4>3. IsJustified(task) /\ ~Unborn
          BY <2>2, <4>1, <4>2 DEF IsJustified, EarlyTask
      <4>. QED BY <1>3, <3>1, <4>3 DEF SetClosing
    <3>2. CASE GiveUp(c) \/ CloseIfFull(c)
        BY <2>3, <2>5, <2>7, <3>2 DEF CheckQuorum
    <3>. QED BY <2>7, <3>1, <3>2 DEF CheckQuorum
  <2>8. CASE CheckUnanimity(c)
    <3>1. ~Unborn
        BY <2>2, <2>8 DEF CheckUnanimity, EarlyTask
    <3>2. GiveUp(c) \/ BeginClose(c, "UNANIMITY") \/ CloseIfFull(c)
        BY <2>8 DEF CheckUnanimity
    <3>3. closing[c].pc = "unanimity"
        BY <2>8 DEF CheckUnanimity
    <3>. QED BY <2>3, <2>4, <2>5, <3>1, <3>2, <3>3
  <2>9. CASE ReadResults(c)
    <3>1. CASE voting = None
        BY <2>3, <2>9, <3>1, <1>3 DEF ReadResults, SetClosing, GiveUp, IsJustified, EarlyTask
    <3>2. CASE voting # None
      <4> DEFINE task == [pc |-> "announce",
                          event |-> [kind |-> closing[c].kind, final |-> votes]]
      <4>1. closing[c].kind = "QUORUM" => members \subseteq Voters(votes)
          BY <2>2, <2>9, <3>2 DEF ReadResults, IsJustified, AllVoted
      <4>2. IsJustified(task)
          BY <4>1 DEF IsJustified
      <4>3. ~Unborn
          BY <3>2 DEF SteadyInv, NothingBeforeBirth
      <4>. QED BY <1>3, <2>9, <3>2, <4>2, <4>3 DEF ReadResults, SetClosing
    <3>. QED BY <3>1, <3>2
  <2>10. CASE Announce(c)
      BY <1>3, <2>10 DEF Announce, SetClosing, IsJustified, EarlyTask
  <2>. QED BY <1>8, <2>6, <2>7, <2>8, <2>9, <2>10 DEF ClosingStep
<1>. QED BY <1>5, <1>6, <1>7, <1>8 DEF Closing

LEMMA SteadySteps == SteadyInv /\ [SteadyNext]_vars => SteadyInv'
<1> SUFFICES ASSUME SteadyInv, [SteadyNext]_vars PROVE SteadyInv'
    OBVIOUS
<1>1. CASE Tick \/ UNCHANGED vars
  <2>1. UNCHANGED <<db, cast, edit, closing>>
      BY <1>1 DEF Tick, vars
  <2>2. Inv'
      BY SafetySteps, SteadyIsNext DEF SteadyInv
  <2>. QED
      BY <2>1, <2>2 DEF db, SteadyInv, NothingBeforeBirth, Unborn, Voters,
          TurnoutHolds, IsJustified, AllVoted
<1>. QED
    BY <1>1, SteadyCreating, SteadyRemoving, SteadyVoting, SteadyClosing DEF SteadyNext

(* The inductive invariant of a steady voting.                             *)
THEOREM SteadyInvariant == SteadySpec => []SteadyInv
<1>. QED BY SteadyInit, SteadySteps, PTL DEF SteadySpec

(* When all eligible voters are said to have participated, every member of *)
(* the house is among the votes of the final results, though turnout and   *)
(* results come from different reads.                                      *)
THEOREM FullTurnoutIsFull == SteadySpec => FullTurnout
<1> DEFINE Full == Announces("QUORUM") => members \subseteq Voters(announced'.final)
<1>1. SteadyInv /\ [SteadyNext]_vars => Full
  <2> SUFFICES ASSUME SteadyInv, [SteadyNext]_vars, Announces("QUORUM")
               PROVE  members \subseteq Voters(announced'.final)
      OBVIOUS
  <2>1. PICK c \in Closers : Announce(c)
      BY DEF Announces, SteadyNext, vars, Tick, Creating, Create, CommitCreate, AbortCreate,
          ReadForRemove, WriteRemove, Voting, ReadVoting, CheckMember, StoreVote, StoreIf, Closing,
          RequestAutoClose, CloseVoting, TimerFires, ClosingStep, Decide, CheckQuorum,
          CheckUnanimity, ReadResults
  <2>2. IsJustified(closing[c])
      BY DEF SteadyInv, TurnoutHolds
  <2>. QED BY <2>1, <2>2 DEF Announces, Announce, IsJustified
<1>. QED BY <1>1, SteadyInvariant, PTL DEF SteadySpec, FullTurnout

-----------------------------------------------------------------------------
(***************************************************************************)
(* Punctuality, whatever updates, removals and restarts come in between.   *)
(***************************************************************************)
IsDue == \E t \in due : t <= now

IsTimeout(task) ==
    \/ task.pc = "results" /\ task.kind = "TIMEOUT"
    \/ task.pc = "announce" /\ task.event.kind = "TIMEOUT"

(* Every end date the voting has or is going to have, and every instant    *)
(* its timer may fire at, is on record; so no closing for the end of the   *)
(* period begins before one of those instants.                             *)
PunctualInv ==
    /\ TypeOK
    /\ draft # None => draft.end \in due
    /\ voting # None => voting.end \in due
    /\ timer # None => timer \in due
    /\ \A c \in Closers : IsTimeout(closing[c]) => IsDue

LEMMA PunctualInit == Init => PunctualInv
<1>1. Init => TypeOK
    BY InitInv DEF Inv
<1>. QED BY <1>1 DEF Init, PunctualInv, IsTimeout

(* What was due remains due, and so does a closing that has begun.         *)
LEMMA StillDue ==
    ASSUME TypeOK, TypeOK', now <= now', due \subseteq due', IsDue
    PROVE  IsDue'
<1>1. PICK t \in due : t <= now
    BY DEF IsDue
<1>2. t \in Int /\ now \in Int /\ now' \in Int
    BY <1>1 DEF TypeOK, Time
<1>. QED BY <1>1, <1>2 DEF IsDue

LEMMA ClosingsStayDue ==
    ASSUME PunctualInv, TypeOK', now <= now', due \subseteq due',
           \A c \in Closers : \/ closing'[c] = closing[c]
                              \/ closing'[c].pc \in {"idle", "decide"}
    PROVE  \A c \in Closers : IsTimeout(closing[c])' => IsDue'
<1>1. TypeOK
    BY DEF PunctualInv
<1>2. IsDue => IsDue'
    BY <1>1, StillDue
<1>. QED BY <1>2 DEF PunctualInv, IsTimeout

LEMMA PunctualEditing == PunctualInv /\ (Creating \/ Editing) => PunctualInv'
<1> SUFFICES ASSUME PunctualInv, Creating \/ Editing PROVE PunctualInv'
    OBVIOUS
<1>1. TypeOK /\ TypeOK'
    BY TypeSteps DEF PunctualInv, Next
<1>2. now' = now /\ UNCHANGED closing /\ now <= now'
  <2>1. now' = now /\ UNCHANGED closing
      BY DEF Creating, Create, CommitCreate, AbortCreate, Editing, ReadForUpdate,
             ReadForRemove, WriteUpdate, WriteRemove
  <2>. QED BY <1>1, <2>1 DEF TypeOK, Time
<1>3. due \subseteq due'
    BY DEF Creating, Create, CommitCreate, AbortCreate, Editing, ReadForUpdate,
           ReadForRemove, WriteUpdate, WriteRemove, db
<1>4. \A c \in Closers : IsTimeout(closing[c])' => IsDue'
    BY <1>1, <1>2, <1>3, ClosingsStayDue
<1>5. ASSUME NEW row \in Rows, Create(row) PROVE PunctualInv'
  <2>1. draft' = row /\ voting' = voting /\ row.end \in due'
      BY <1>5 DEF Create
  <2>2. timer' # None => timer' \in due'
      BY <1>5 DEF Create, FiresAt
  <2>. QED BY <1>1, <1>3, <1>4, <2>1, <2>2 DEF PunctualInv
<1>6. CASE CommitCreate \/ AbortCreate
    BY <1>1, <1>4, <1>6 DEF CommitCreate, AbortCreate, PunctualInv
<1>7. CASE ReadForRemove \/ WriteRemove
    BY <1>1, <1>4, <1>7 DEF ReadForRemove, WriteRemove, db, PunctualInv
<1>8. ASSUME NEW row \in Rows, ReadForUpdate(row) PROVE PunctualInv'
    BY <1>1, <1>4, <1>8 DEF ReadForUpdate, db, PunctualInv
<1>9. CASE WriteUpdate
  <2>1. voting' # None => voting'.end \in due'
    <3>1. edit.to \in VotingRow
        BY <1>1, <1>9, UpdateTask DEF WriteUpdate
    <3>2. voting # None => voting'.end = edit.to.end
        BY <1>9, <3>1 DEF WriteUpdate, VotingRow
    <3>. QED BY <1>9, <3>2 DEF WriteUpdate
  <2>2. UNCHANGED <<draft, timer>>
      BY <1>9 DEF WriteUpdate
  <2>. QED BY <1>1, <1>3, <1>4, <2>1, <2>2 DEF PunctualInv
<1>. QED BY <1>5, <1>6, <1>7, <1>8, <1>9 DEF Creating, Editing

LEMMA PunctualClosing == PunctualInv /\ Closing => PunctualInv'
<1> SUFFICES ASSUME PunctualInv, Closing PROVE PunctualInv'
    OBVIOUS
<1>1. TypeOK /\ TypeOK'
    BY TypeSteps DEF PunctualInv, Next
<1>2. UNCHANGED <<now, db>> /\ timer' \in {timer, None}
    BY DEF Closing, RequestAutoClose, CloseVoting, TimerFires, ClosingStep, Decide, GiveUp,
           BeginClose, CloseIfFull, CheckQuorum, CheckUnanimity, ReadResults, Announce
<1>3. ASSUME NEW c \in Closers, NEW task, SetClosing(c, task), IsTimeout(task) => IsDue
      PROVE  PunctualInv'
  <2>1. \A d \in Closers : closing'[d] = IF d = c THEN task ELSE closing[d]
      BY <1>1, <1>3 DEF SetClosing, TypeOK
  <2>2. \A d \in Closers : IsTimeout(closing[d])' => IsDue'
      BY <1>2, <1>3, <2>1 DEF db, PunctualInv, IsTimeout, IsDue
  <2>. QED BY <1>1, <1>2, <2>2 DEF db, PunctualInv
<1>4. Officer \in Closers /\ Timer \in Closers
    BY DEF Closers
<1>5. CASE RequestAutoClose
    BY <1>3, <1>4, <1>5 DEF RequestAutoClose, IsTimeout
<1>6. CASE CloseVoting
    BY <1>3, <1>4, <1>6 DEF CloseVoting, IsTimeout
<1>7. CASE TimerFires
    BY <1>3, <1>4, <1>7 DEF TimerFires, BeginClose, PunctualInv, IsDue
<1>8. ASSUME NEW c \in Closers, ClosingStep(c) PROVE PunctualInv'
  <2>1. IsTimeout(closing[c]) => IsDue
      BY DEF PunctualInv
  <2>2. ASSUME GiveUp(c) PROVE PunctualInv'
      BY <1>3, <2>2 DEF GiveUp, IsTimeout
  <2>3. ASSUME NEW kind, kind # "TIMEOUT", BeginClose(c, kind) PROVE PunctualInv'
      BY <1>3, <2>3 DEF BeginClose, IsTimeout
  <2>4. ASSUME CloseIfFull(c) PROVE PunctualInv'
      BY <2>2, <2>3, <2>4 DEF CloseIfFull
  <2>5. CASE Decide(c)
    <3>1. ASSUME voting # None, voting.end <= now, BeginClose(c, "TIMEOUT") PROVE PunctualInv'
        BY <1>3, <3>1 DEF BeginClose, PunctualInv, IsDue
    <3>. QED BY <1>3, <2>2, <2>5, <3>1 DEF Decide, IsTimeout
  <2>6. CASE CheckQuorum(c)
    <3>1. ASSUME SetClosing(c, [closing[c] EXCEPT !.pc = "unanimity"]) PROVE PunctualInv'
      <4>1. [closing[c] EXCEPT !.pc = "unanimity"].pc = "unanimity"
          BY <1>1, <2>6 DEF CheckQuorum, TypeOK, CloseTask, AnnounceTask
      <4>. QED BY <1>3, <3>1, <4>1 DEF IsTimeout
    <3>. QED BY <2>2, <2>4, <2>6, <3>1 DEF CheckQuorum
  <2>7. CASE CheckUnanimity(c)
      BY <2>2, <2>3, <2>4, <2>7 DEF CheckUnanimity
  <2>8. CASE ReadResults(c)
    <3> DEFINE task == IF voting = None
                       THEN Idle
                       ELSE [pc |-> "announce",
                             event |-> [kind |-> closing[c].kind, final |-> votes]]
    <3>1. IsTimeout(task) => IsDue
        BY <2>1, <2>8 DEF ReadResults, IsTimeout
    <3>. QED BY <1>3, <2>8, <3>1 DEF ReadResults
  <2>9. CASE Announce(c)
      BY <1>3, <2>9 DEF Announce, IsTimeout
  <2>. QED BY <1>8, <2>5, <2>6, <2>7, <2>8, <2>9 DEF ClosingStep
<1>. QED BY <1>5, <1>6, <1>7, <1>8 DEF Closing

LEMMA PunctualSteps == PunctualInv /\ [Next]_vars => PunctualInv'
<1> SUFFICES ASSUME PunctualInv, [Next]_vars PROVE PunctualInv'
    OBVIOUS
<1>1. TypeOK /\ TypeOK'
    BY TypeSteps DEF PunctualInv
<1>2. ASSUME UNCHANGED <<draft, voting, due>>, timer' \in {timer, None}, now' \in {now, now + 1},
             \A c \in Closers : \/ closing'[c] = closing[c]
                                \/ closing'[c].pc \in {"idle", "decide"}
      PROVE  PunctualInv'
  <2>1. now <= now'
      BY <1>1, <1>2 DEF TypeOK, Time
  <2>2. \A c \in Closers : IsTimeout(closing[c])' => IsDue'
      BY <1>1, <1>2, <2>1, ClosingsStayDue
  <2>. QED BY <1>1, <1>2, <2>2 DEF PunctualInv
<1>3. CASE Tick \/ UNCHANGED vars
    BY <1>2, <1>3 DEF Tick, vars, db
<1>4. CASE Membership
    BY <1>2, <1>4 DEF Membership, AssignUser, RemoveUser
<1>5. CASE Voting
  <2>1. UNCHANGED <<now, draft, due, voting, timer>>
      BY <1>5 DEF Voting, ReadVoting, CheckMember, StoreVote, StoreIf, db
  <2>2. \A c \in Closers : closing'[c] = closing[c] \/ closing'[c].pc = "decide"
      BY <1>1, <1>5 DEF Voting, ReadVoting, CheckMember, StoreVote, StoreIf, TypeOK
  <2>. QED BY <1>2, <2>1, <2>2
<1>6. CASE Restart
  <2>1. UNCHANGED <<now, voting, due>> /\ draft' = None /\ timer' = None
        /\ \A c \in Closers : closing'[c] = Idle
      BY <1>6 DEF Restart
  <2>. QED BY <1>1, <2>1 DEF PunctualInv, IsTimeout
<1>. QED BY <1>3, <1>4, <1>5, <1>6, PunctualEditing, PunctualClosing DEF Next

(* voting_timeout is broadcast only when an end date that the voting has   *)
(* had is reached, or its end is out of reach of setTimeout, whatever is   *)
(* updated, removed or restarted meanwhile.                                *)
THEOREM TimeoutsInTime == Spec => TimeoutNotEarly
<1> DEFINE OnTime == Announces("TIMEOUT") => \E t \in due : t <= now
<1>1. PunctualInv /\ [Next]_vars => OnTime
  <2> SUFFICES ASSUME PunctualInv, [Next]_vars, Announces("TIMEOUT") PROVE IsDue
      BY DEF IsDue
  <2>1. PICK c \in Closers : Announce(c)
      BY DEF Announces, Next, vars, Tick, Membership, AssignUser, RemoveUser, Creating, Create,
          CommitCreate, AbortCreate, Editing, ReadForUpdate, ReadForRemove, WriteUpdate,
          WriteRemove, Voting, ReadVoting, CheckMember, StoreVote, StoreIf, Closing,
          RequestAutoClose, CloseVoting, TimerFires, ClosingStep, Decide, CheckQuorum,
          CheckUnanimity, ReadResults, Restart
  <2>2. IsTimeout(closing[c]) => IsDue
      BY DEF PunctualInv
  <2>. QED BY <2>1, <2>2 DEF Announces, Announce, IsTimeout
<1>. QED BY <1>1, PunctualInit, PunctualSteps, PTL DEF Spec, TimeoutNotEarly

-----------------------------------------------------------------------------
(* The verdicts on a voting, for any number of votes and members.          *)

LEMMA CountsAreNat ==
    ASSUME NEW c \in Count
    PROVE  c["YES"] \in Nat /\ c["NO"] \in Nat /\ c["ABSTAIN"] \in Nat /\ Total(c) \in Nat
BY DEF Count, VoteOptions, Total

(* One more vote of any option is one more vote.                           *)
LEMMA OneMoreVote ==
    ASSUME NEW c \in Count, NEW o \in VoteOptions
    PROVE  /\ [c EXCEPT ![o] = @ + 1] \in Count
           /\ Total([c EXCEPT ![o] = @ + 1]) = Total(c) + 1
BY DEF Count, VoteOptions, Total

(* The poll keeps its types: the counts never leave the naturals, the      *)
(* electorate never leaves its bounds, and neither do those who have voted *)
(* among members and others (castVote, assignUserToHouse,                  *)
(* removeUserFromHouse).                                                   *)
THEOREM PollTypeCorrect == PollSpec => []PollTypeOK
<1> USE PollAssumption DEF PollAssumption
<1>1. PollInit => PollTypeOK
    BY DEF PollInit, PollTypeOK, Count, Total, Voted, VoteOptions
<1>2. PollTypeOK /\ [PollNext]_pollVars => PollTypeOK'
  <2> SUFFICES ASSUME PollTypeOK, [PollNext]_pollVars PROVE PollTypeOK'
      OBVIOUS
  <2>0. /\ Total(count) \in Nat /\ departed \in Nat /\ eligible \in Nat
        /\ Total(count) - departed \in 0 .. eligible
        /\ departed <= MaxMembers - eligible
      BY CountsAreNat DEF PollTypeOK, Voted
  <2>1. ASSUME NEW o \in VoteOptions, Cast(o) PROVE PollTypeOK'
    <3>1. count' \in Count /\ Total(count') = Total(count) + 1
        BY <2>1, OneMoreVote DEF Cast, PollTypeOK
    <3>2. Voted' \in 0 .. eligible'
        BY <2>0, <2>1, <3>1 DEF Cast, Voted
    <3>. QED BY <2>1, <3>1, <3>2 DEF Cast, PollTypeOK
  <2>2. ASSUME NEW o \in VoteOptions, CastLate(o) PROVE PollTypeOK'
    <3>1. count' \in Count /\ Total(count') = Total(count) + 1
        BY <2>2, OneMoreVote DEF CastLate, PollTypeOK
    <3>2. Voted' \in 0 .. eligible'
        BY <2>0, <2>2, <3>1 DEF CastLate, Voted
    <3>. QED BY <2>0, <2>2, <3>1, <3>2 DEF CastLate, PollTypeOK
  <2>3. ASSUME NEW voter \in BOOLEAN, Join(voter) PROVE PollTypeOK'
      BY <2>0, <2>3 DEF Join, PollTypeOK, Voted
  <2>4. ASSUME NEW voter \in BOOLEAN, Leave(voter) PROVE PollTypeOK'
      BY <2>0, <2>4 DEF Leave, PollTypeOK, Voted
  <2>5. CASE UNCHANGED pollVars
      BY <2>5 DEF pollVars, PollTypeOK, Voted
  <2>. QED BY <2>1, <2>2, <2>3, <2>4, <2>5 DEF PollNext
<1>. QED BY <1>1, <1>2, PTL DEF PollSpec

LEMMA QuorumIsPercent ==
    ASSUME NEW q \in 0 .. 100
    PROVE  RequiredQuorum(q) \in Nat /\ RequiredQuorum(q) <= 100
BY DEF RequiredQuorum

(* Rounding a head count up to a whole vote asks for no vote too many and  *)
(* none too few.                                                           *)
LEMMA CeilingOfPercent ==
    ASSUME NEW p \in Nat, NEW t \in Nat
    PROVE  100 * t >= p <=> (p + 99) \div 100 <= t
BY Z3

LEMMA NeededIsNat ==
    ASSUME NEW t \in Nat, NEW e \in Nat, NEW q \in 0 .. 100
    PROVE  VotesNeeded(t, e, q) \in Nat
<1> DEFINE p == e * RequiredQuorum(q)
<1>1. p \in Nat
    BY QuorumIsPercent
<1>. QED
  <2> HIDE DEF p
  <2>1. (p + 99) \div 100 \in Nat
      BY <1>1
  <2>. QED BY <2>1 DEF VotesNeeded, p

(* The percentage of the history and of the status, and the number of      *)
(* votes that are said to be missing, agree for every number of votes.     *)
LEMMA PercentIsHeadCount ==
    ASSUME NEW t \in Nat, NEW e \in Nat, NEW q \in 0 .. 100
    PROVE  100 * t >= RequiredQuorum(q) * e <=> VotesNeeded(t, e, q) = 0
<1> DEFINE p == RequiredQuorum(q) * e
           k == (p + 99) \div 100
<1>1. RequiredQuorum(q) \in Nat
    BY QuorumIsPercent, Zenon
<1>2. p \in Nat /\ p = e * RequiredQuorum(q)
    BY <1>1
<1>3. 100 * t >= p <=> k <= t
    BY <1>2, CeilingOfPercent
<1>4. VotesNeeded(t, e, q) = 0 <=> k <= t
  <2> HIDE DEF p
  <2>1. k \in Nat
      BY <1>2
  <2>. QED BY <1>2, <2>1 DEF VotesNeeded
<1>. QED BY <1>3, <1>4

(* checkQuorumStatus, getQuorumHistory, validateQuorumRequirements and     *)
(* getVotingParticipants agree on the quorum of every voting in a house    *)
(* that has members, whatever the number of votes, members and departures, *)
(* but for the votes that are exactly a quorum of 29, 57 or 58 percent.    *)
THEOREM QuorumAgreement == PollSpec => []QuorumViewsAgree
<1>1. PollTypeOK => QuorumViewsAgree
  <2> SUFFICES ASSUME PollTypeOK, eligible > 0
               PROVE  StatusAgrees /\ HistoryAgrees /\ AdviceAgrees
                          /\ AutoCloseAgrees /\ MembersAgree
      BY DEF QuorumViewsAgree
  <2> DEFINE t == Total(count)
             r == RequiredQuorum(quorum)
  <2>1. /\ t \in Nat /\ eligible \in Nat /\ quorum \in 0 .. 100
        /\ departed \in Nat /\ t - departed \in 0 .. eligible
      BY CountsAreNat, PollAssumption DEF PollTypeOK, PollAssumption, Voted
  <2>2. r \in Nat /\ r <= 100
      BY <2>1, QuorumIsPercent, Zenon
  <2>3. r * eligible \in Nat
      BY <2>1, <2>2
  <2>4. Needed \in Nat /\ (100 * t >= r * eligible <=> Needed = 0)
      BY <2>1, NeededIsNat, PercentIsHeadCount DEF Needed
  <2>5. \A n \in Nat : TurnoutReaches(n, eligible, r) <=>
                            100 * n >= r * eligible /\ ~LostInRounding(n)
      BY <2>1, <2>2 DEF TurnoutReaches, RoundedDown, LostInRounding
  <2>6. /\ QuorumMet(t, eligible, quorum) <=> Needed = 0 /\ ~LostInRounding(t)
        /\ StatusAgrees
      BY <2>1, <2>4, <2>5 DEF QuorumMet, StatusAgrees
  <2>7. HistoryAgrees
    <3> SUFFICES ASSUME NEW n \in 1 .. t
                 PROVE  LET past == QuorumHistory(t, eligible, quorum)[n]
                        IN  /\ past.quorumMet <=> past.votesNeededForQuorum = 0
                                                    /\ ~LostInRounding(n)
                            /\ past.quorumMet => QuorumMet(t, eligible, quorum)
        BY DEF HistoryAgrees
    <3> HIDE DEF t, r
    <3>1. n \in Nat /\ n <= t
        BY <2>1
    <3>2. 100 * n >= r * eligible <=> VotesNeeded(n, eligible, quorum) = 0
        BY <2>1, <3>1, PercentIsHeadCount DEF r
    <3>3. TurnoutReaches(n, eligible, r) <=>
              VotesNeeded(n, eligible, quorum) = 0 /\ ~LostInRounding(n)
        BY <2>5, <3>1, <3>2
    <3>4. TurnoutReaches(n, eligible, r) => TurnoutReaches(t, eligible, r)
        BY <2>1, <2>3, <3>1 DEF TurnoutReaches
    <3>5. TurnoutReaches(n, eligible, r) => QuorumMet(t, eligible, quorum)
        BY <3>4 DEF QuorumMet, r
    <3>. QED BY <3>3, <3>5 DEF QuorumHistory, r
  <2>8. AdviceAgrees
    <3> SUFFICES ASSUME NEW over \in BOOLEAN, NEW hours \in 0 .. 24
                 PROVE  /\ "missing" \in Advice(over, hours) <=>
                               Needed > 0 \/ LostInRounding(t)
                        /\ "belowType" \notin Issues =>
                               ~({"reached", "low"} \subseteq Advice(over, hours))
        BY DEF AdviceAgrees
    <3>1. "missing" \in Advice(over, hours) <=> Needed > 0 \/ LostInRounding(t)
        BY <2>4, <2>6 DEF Advice, Recommendations
    <3>2. ASSUME "belowType" \notin Issues, {"reached", "low"} \subseteq Advice(over, hours)
          PROVE  FALSE
      <4>1. r >= 50
          BY <2>2, <3>2 DEF Issues, QuorumIssues, QuorumThreshold, PollTypeOK, VotingTypes
      <4>2. 100 * t >= r * eligible
          BY <2>4, <2>6, <3>2 DEF Advice, Recommendations
      <4>3. 100 * t < 30 * eligible
          BY <3>2 DEF Advice, Recommendations
      <4>4. r * eligible >= 50 * eligible
          BY <2>1, <2>2, <4>1
      <4>. QED BY <2>1, <2>3, <4>2, <4>3, <4>4
    <3>. QED BY <3>1, <3>2
  <2>9. AutoCloseAgrees
    <3> SUFFICES ASSUME type = "UNANIMITY",
                        Issues \cap {"belowType", "notAPercentage"} = {},
                        CanAutoClose(t, eligible, type, quorum, FALSE)
                 PROVE  t >= eligible
        BY DEF AutoCloseAgrees
    <3>1. r = 100
        BY <2>2 DEF Issues, QuorumIssues, QuorumThreshold
    <3>2. 100 * t >= r * eligible
        BY DEF CanAutoClose, QuorumMet, TurnoutReaches
    <3>. QED BY <2>1, <3>1, <3>2
  <2>10. MembersAgree
    <3>1. t - departed = eligible => 100 * t >= r * eligible
      <4> SUFFICES ASSUME t - departed = eligible PROVE 100 * t >= r * eligible
          OBVIOUS
      <4>1. r * eligible <= 100 * eligible
          BY <2>1, <2>2
      <4>. QED BY <2>1, <2>3, <4>1
    <3>. QED BY <2>1, <2>4, <3>1 DEF MembersAgree, Participants
  <2>. QED BY <2>6, <2>7, <2>8, <2>9, <2>10
<1>. QED BY PollTypeCorrect, <1>1, PTL

(* GET /voting and GET /voting/:id: what they show as passed is approved   *)
(* by processVotingResults and by generateDecisions.                       *)
THEOREM PassedIsApproved == PollSpec => []ShownAsPassedIsApproved
<1>1. PollTypeOK => ShownAsPassedIsApproved
  <2> SUFFICES ASSUME PollTypeOK PROVE ShownAsPassedIsApproved
      OBVIOUS
  <2>1. PassedInList(count, type, quorum) =>
            PassedInWorkflow(count, type) /\ ApprovedInMinutes(count)
    BY CountsAreNat
    DEF PollTypeOK, PassedInList, PassedInWorkflow, ApprovedInMinutes, VotingTypes, Total
  <2>2. PassedInDetail(count, eligible, quorum) => ApprovedInMinutes(count)
    BY CountsAreNat DEF PollTypeOK, PassedInDetail, YesMajority, ApprovedInMinutes, Total
  <2>. QED BY <2>1, <2>2 DEF ShownAsPassedIsApproved
<1>. QED BY PollTypeCorrect, <1>1, PTL

-----------------------------------------------------------------------------
(* A turnout that reaches a percentage of the electorate, or of an assumed *)
(* electorate of at least five, still does with one more vote.             *)
LEMMA TurnoutGrows ==
    ASSUME NEW t \in Nat, NEW e \in Nat, NEW q \in 0 .. 100,
           100 * t >= RequiredQuorum(q) * e
    PROVE  100 * (t + 1) >= RequiredQuorum(q) * e
<1>1. RequiredQuorum(q) \in Nat
    BY QuorumIsPercent, Zenon
<1>2. RequiredQuorum(q) * e \in Nat
    BY <1>1
<1>. QED BY <1>2

LEMMA AssumedTurnoutGrows ==
    ASSUME NEW t \in Nat, NEW q \in 0 .. 100,
           100 * t >= RequiredQuorum(q) * (IF t > 5 THEN t ELSE 5)
    PROVE  100 * (t + 1) >= RequiredQuorum(q) * (IF t + 1 > 5 THEN t + 1 ELSE 5)
<1> DEFINE r == RequiredQuorum(q)
<1>1. r \in Nat /\ r <= 100
    BY QuorumIsPercent, Zenon
<1>2. CASE t + 1 > 5
  <2>1. r * (t + 1) <= 100 * (t + 1)
      BY <1>1
  <2>. QED BY <1>2, <2>1
<1>3. CASE ~(t + 1 > 5)
  <2>1. 100 * t >= r * 5
      BY <1>3
  <2>2. 100 * (t + 1) >= r * 5
      BY <1>1, <2>1
  <2>. QED BY <1>3, <2>2
<1>. QED BY <1>2, <1>3

(* One more YES, with the electorate, type and quorum unchanged.           *)
LEMMA YesStep ==
    ASSUME PollTypeOK, Cast("YES") \/ CastLate("YES"), NEW i \in DOMAIN Verdicts, Verdicts[i]
    PROVE  Verdicts'[i]
<1> DEFINE t == Total(count)
<1>1. /\ count' = [count EXCEPT !["YES"] = @ + 1]
      /\ eligible' = eligible /\ type' = type /\ quorum' = quorum
    BY DEF Cast, CastLate
<1>2. t \in Nat /\ eligible \in Nat /\ quorum \in 0 .. 100
    BY CountsAreNat, PollAssumption DEF PollTypeOK, PollAssumption
<1>3. /\ count'["YES"] = count["YES"] + 1
      /\ count'["NO"] = count["NO"] /\ count'["ABSTAIN"] = count["ABSTAIN"]
    BY <1>1 DEF PollTypeOK, Count, VoteOptions
<1>4. Total(count') = t + 1
    BY <1>3, CountsAreNat DEF PollTypeOK, Total
<1>5. YesMajority(count) => YesMajority(count')
    BY <1>3, <1>4, CountsAreNat DEF PollTypeOK, YesMajority, Total
<1>6. PassedInDetail(count, eligible, quorum)
        => PassedInDetail(count', eligible, quorum)
  <2>1. RequiredQuorum(quorum) * eligible \in Nat
      BY <1>2, QuorumIsPercent
  <2>2. QuorumMet(t, eligible, quorum) => QuorumMet(t + 1, eligible, quorum)
      BY <1>2, <2>1 DEF QuorumMet, TurnoutReaches
  <2>. QED BY <1>4, <1>5, <2>2 DEF PassedInDetail
<1>7. ProposalPassed(count, eligible, quorum)
        => ProposalPassed(count', eligible, quorum)
  <2>1. RequiredQuorum(quorum) \in Nat
      BY <1>2, QuorumIsPercent, Zenon
  <2>2. RequiredQuorum(quorum) * eligible = eligible * RequiredQuorum(quorum)
      BY <1>2, <2>1
  <2>. QED BY <1>2, <1>4, <1>5, <2>2, TurnoutGrows DEF ProposalPassed
<1>8. PassedInList(count, type, quorum) => PassedInList(count', type, quorum)
  <2> SUFFICES ASSUME PassedInList(count, type, quorum)
               PROVE  PassedInList(count', type, quorum)
      OBVIOUS
  <2>1. 100 * t >= RequiredQuorum(quorum) * (IF t > 5 THEN t ELSE 5)
      BY DEF PassedInList
  <2>2. 100 * (t + 1) >= RequiredQuorum(quorum) * (IF t + 1 > 5 THEN t + 1 ELSE 5)
      BY <1>2, <2>1, AssumedTurnoutGrows
  <2>3. /\ type = "SIMPLE_MAJORITY"    => count'["YES"] > count'["NO"]
        /\ type = "QUALIFIED_MAJORITY" => 10000 * count'["YES"] >= 6667 * (t + 1)
        /\ type = "UNANIMITY"          => count'["YES"] = t + 1
      BY <1>2, <1>3, CountsAreNat DEF PollTypeOK, PassedInList
  <2>. QED BY <1>2, <1>4, <2>2, <2>3 DEF PassedInList
<1>9. PassedInWorkflow(count, type) => PassedInWorkflow(count', type)
    BY <1>3, <1>4, CountsAreNat DEF PollTypeOK, PassedInWorkflow, Total
<1>10. ApprovedInMinutes(count) => ApprovedInMinutes(count')
    BY <1>3, CountsAreNat DEF PollTypeOK, ApprovedInMinutes
<1>. QED BY <1>1, <1>6, <1>7, <1>8, <1>9, <1>10 DEF Verdicts

(* castVote: a further YES never costs a voting a verdict it already had.  *)
THEOREM YesIsMonotone == PollSpec => YesNeverHurts
<1> DEFINE Step == count'["YES"] > count["YES"] =>
                       \A i \in DOMAIN Verdicts : Verdicts[i] => Verdicts'[i]
<1>1. PollTypeOK /\ [PollNext]_pollVars => [Step]_pollVars
  <2> SUFFICES ASSUME PollTypeOK, PollNext, count'["YES"] > count["YES"] PROVE Step
      OBVIOUS
  <2>1. count["YES"] \in Nat
      BY CountsAreNat DEF PollTypeOK
  <2>2. \A voter \in BOOLEAN : ~Join(voter) /\ ~Leave(voter)
      BY <2>1 DEF Join, Leave
  <2>3. PICK o \in VoteOptions : Cast(o) \/ CastLate(o)
      BY <2>2 DEF PollNext
  <2>4. o = "YES"
      BY <2>1, <2>3 DEF Cast, CastLate, PollTypeOK, Count, VoteOptions
  <2>. QED BY <2>3, <2>4, YesStep
<1>. QED BY PollTypeCorrect, <1>1, PTL DEF PollSpec, YesNeverHurts
=============================================================================
