--------------------------- MODULE VotingLifecycle ---------------------------
(***************************************************************************)
(* One voting of one house, from its creation to the announcements that    *)
(* close it.  The database (voting, votes, members) is shared; every await *)
(* of a handler of VotingService or VotingSchedulerService is a point      *)
(* where other requests run, so a handler is one action per database call. *)
(* There is no status column: a voting is open when the clock is between   *)
(* its dates, and "closing" it is an announcement to the clients.          *)
(***************************************************************************)
EXTENDS Tally, FiniteSets

CONSTANTS
    Users,          \* users of the system
    Requests,       \* concurrent castVote requests
    Officer,        \* the administrator's requests
    Timer,          \* the callback of the scheduled timeout
    Options,        \* the options voters choose from
    Rows,           \* the voting rows that can be created or updated to
    None,           \* no row
    MaxDelay,       \* the longest delay setTimeout honours
    MaxTime,        \* bound on the clock
    MaxRestarts     \* bound on restarts of the server

Time == 0 .. MaxTime
VotingRow == [start : Time, end : Time, type : VotingTypes, quorum : 0 .. 100,
              proposals : Nat]
Closers == Requests \cup {Officer, Timer}

ASSUME LifecycleAssumption ==
    /\ MaxTime \in Nat /\ MaxDelay \in Nat /\ MaxRestarts \in Nat
    /\ IsFiniteSet(Users)
    /\ Options \subseteq VoteOptions
    /\ Rows \subseteq VotingRow
    /\ None \notin VotingRow /\ None \notin Nat
    /\ Officer \notin Requests /\ Timer \notin Requests /\ Officer # Timer

VARIABLES
    now,        \* the clock
    members,    \* house_users: the users of the voting's house
    everMember, \* history: the users that were members at some time
    draft,      \* the row written by create's transaction, not yet committed
    voting,     \* the committed row, or None
    due,        \* history: the instants from which a timeout is due, {} before create
    votes,      \* the votes table
    timer,      \* the timeouts map: when the timeout fires, or None
    cast,       \* castVote requests that have not stored their vote yet
    edit,       \* the officer's update or remove between its read and write
    closing,    \* the closing task of each request, of the officer, the timer
    announced,  \* history: the last closing announcement, or None
    restarts    \* history: restarts of the server

db == <<members, everMember, draft, voting, due, votes>>
vars == <<now, db, timer, cast, edit, closing, announced, restarts>>

Vote == [user : Users, option : Options, at : Time]
Idle == [pc |-> "idle"]
CastTask == [pc : {"member", "store"}, vote : Vote]
EditTask == [pc : {"update"}, to : VotingRow] \cup [pc : {"remove"}]
CloseTask ==
    [pc : {"decide"}]
        \cup [pc : {"quorum", "unanimity"}, type : VotingTypes, full : BOOLEAN]
        \cup [pc : {"results"}, kind : {"TIMEOUT", "UNANIMITY", "QUORUM", "USER"}]
Announcement == [kind : {"TIMEOUT", "UNANIMITY", "QUORUM", "USER"}, final : SUBSET Vote]
AnnounceTask == [pc : {"announce"}, event : Announcement]

TypeOK ==
    /\ now \in Time
    /\ members \subseteq everMember
    /\ everMember \subseteq Users
    /\ draft \in VotingRow \cup {None}
    /\ voting \in VotingRow \cup {None}
    /\ due \subseteq Time
    /\ votes \subseteq Vote
    /\ timer \in Time \cup {None}
    /\ cast \in [Requests -> CastTask \cup {Idle}]
    /\ edit \in EditTask \cup {Idle}
    /\ closing \in [Closers -> CloseTask \cup AnnounceTask \cup {Idle}]
    /\ announced \in Announcement \cup {None}
    /\ restarts \in 0 .. MaxRestarts

Init ==
    /\ now = 0
    /\ members \in SUBSET Users
    /\ everMember = members
    /\ draft = None
    /\ voting = None
    /\ due = {}
    /\ votes = {}
    /\ timer = None
    /\ cast = [r \in Requests |-> Idle]
    /\ edit = Idle
    /\ closing = [c \in Closers |-> Idle]
    /\ announced = None
    /\ restarts = 0

-----------------------------------------------------------------------------
(* The votes as the counts of module Tally, and who has voted.             *)
CountOf(vs) == [o \in VoteOptions |-> Cardinality({v \in vs : v.option = o})]
Voters(vs) == {v.user : v \in vs}

Tick ==
    /\ now < MaxTime
    /\ now' = now + 1
    /\ UNCHANGED <<db, timer, cast, edit, closing, announced, restarts>>

\* assignUserToHouse and removeUserFromHouse
AssignUser(u) ==
    /\ u \notin members
    /\ members' = members \cup {u}
    /\ everMember' = everMember \cup {u}
    /\ UNCHANGED <<now, draft, voting, due, votes, timer, cast, edit, closing,
                   announced, restarts>>

RemoveUser(u) ==
    /\ u \in members
    /\ members' = members \ {u}
    /\ UNCHANGED <<now, everMember, draft, voting, due, votes, timer, cast, edit,
                   closing, announced, restarts>>

-----------------------------------------------------------------------------
(* create: the row and its proposals are written in a transaction, and the *)
(* timeout is armed before that transaction commits.  Start dates in the   *)
(* past are allowed.                                                       *)

\* Faulty form: the delay is left out.
FiresEarly(end) == now

\* When scheduleVotingTimeout's timer fires: setTimeout runs a callback at
\* once when its delay is out of range.
FiresAt(end) == IF end - now > MaxDelay THEN now ELSE end

\* A timeout is due at the end of the row, and, as far as setTimeout is
\* concerned, at once when that is out of its range.
\* A row already expired is closed "immediately", but autoCloseVoting reads
\* outside the transaction, finds no voting, and announces nothing.
Create(row) ==
    /\ due = {}
    /\ row.start < row.end
    /\ due' = IF row.end - now > MaxDelay THEN {now, row.end} ELSE {row.end}
    /\ draft' = row
    /\ timer' = IF row.end <= now THEN None ELSE FiresAt(row.end)
    /\ UNCHANGED <<now, members, everMember, voting, votes, cast, edit, closing,
                   announced, restarts>>

CommitCreate ==
    /\ draft # None
    /\ voting' = draft
    /\ draft' = None
    /\ UNCHANGED <<now, members, everMember, due, votes, timer, cast, edit,
                   closing, announced, restarts>>

\* The transaction fails after scheduling: the timer stays armed.
AbortCreate ==
    /\ draft # None
    /\ draft' = None
    /\ UNCHANGED <<now, members, everMember, voting, due, votes, timer, cast,
                   edit, closing, announced, restarts>>

-----------------------------------------------------------------------------
(* update and remove: the "not started" check and the write are separate   *)
(* calls, and neither touches the timer.                                   *)
ReadForUpdate(row) ==
    /\ edit = Idle
    /\ voting # None
    /\ voting.start > now
    /\ row.start < row.end
    /\ row.start >= now
    /\ edit' = [pc |-> "update", to |-> row]
    /\ UNCHANGED <<now, db, timer, cast, closing, announced, restarts>>

ReadForRemove ==
    /\ edit = Idle
    /\ voting # None
    /\ voting.start > now
    /\ edit' = [pc |-> "remove"]
    /\ UNCHANGED <<now, db, timer, cast, closing, announced, restarts>>

\* The proposals are not part of an update.
WriteUpdate ==
    /\ edit.pc = "update"
    /\ voting' = IF voting = None
                 THEN None
                 ELSE [edit.to EXCEPT !.proposals = voting.proposals]
    /\ due' = IF voting = None THEN due ELSE due \cup {edit.to.end}
    /\ edit' = Idle
    /\ UNCHANGED <<now, members, everMember, draft, votes, timer, cast, closing,
                   announced, restarts>>

\* The votes go with the voting (onDelete: Cascade).
WriteRemove ==
    /\ edit.pc = "remove"
    /\ voting' = None
    /\ votes' = {}
    /\ edit' = Idle
    /\ UNCHANGED <<now, members, everMember, draft, due, timer, cast, closing,
                   announced, restarts>>

-----------------------------------------------------------------------------
(* castVote                                                                *)
IsFree(r) == cast[r] = Idle /\ closing[r] = Idle

\* Reads the voting with its votes: the dates and "has not voted yet" are
\* judged on this snapshot.  A request it would reject changes nothing.
ReadVoting(r, u, o) ==
    /\ IsFree(r)
    /\ voting # None
    /\ voting.start <= now /\ now <= voting.end
    /\ u \notin Voters(votes)
    /\ cast' = [cast EXCEPT ![r] =
            [pc |-> "member", vote |-> [user |-> u, option |-> o, at |-> now]]]
    /\ UNCHANGED <<now, db, timer, edit, closing, announced, restarts>>

\* Faulty form: the houses of the user are not examined.
CheckNoMember(r) ==
    /\ cast[r].pc = "member"
    /\ cast' = [cast EXCEPT ![r].pc = "store"]
    /\ UNCHANGED <<now, db, timer, edit, closing, announced, restarts>>

\* Reads the user with their houses.
CheckMember(r) ==
    /\ cast[r].pc = "member"
    /\ cast' = [cast EXCEPT ![r] =
            IF cast[r].vote.user \in members THEN [@ EXCEPT !.pc = "store"] ELSE Idle]
    /\ UNCHANGED <<now, db, timer, edit, closing, announced, restarts>>

\* prisma.vote.create, accepted or refused by the constraints of the table;
\* then the closing conditions are examined.
StoreIf(r, accepted) ==
    /\ cast[r].pc = "store"
    /\ cast' = [cast EXCEPT ![r] = Idle]
    /\ IF accepted
       THEN /\ votes' = votes \cup {cast[r].vote}
            /\ closing' = [closing EXCEPT ![r] = [pc |-> "decide"]]
       ELSE UNCHANGED <<votes, closing>>
    /\ UNCHANGED <<now, members, everMember, draft, voting, due, timer, edit,
                   announced, restarts>>

\* Faulty forms: no unique key on (userId, votingId), no foreign key.
StoreNoUniqueKey(r) == StoreIf(r, voting # None)
StoreNoForeignKey(r) == StoreIf(r, cast[r].vote.user \notin Voters(votes))

\* The foreign key on the voting and the unique key on (userId, votingId).
StoreVote(r) == StoreIf(r, voting # None /\ cast[r].vote.user \notin Voters(votes))

-----------------------------------------------------------------------------
(* autoCloseVotingIfNeeded, autoCloseVoting and closeVoting                *)
SetClosing(c, task) == closing' = [closing EXCEPT ![c] = task]

\* autoCloseVoting drops the timer first, whatever happens next.
BeginClose(c, kind) ==
    /\ SetClosing(c, [pc |-> "results", kind |-> kind])
    /\ timer' = None

GiveUp(c) == SetClosing(c, Idle) /\ UNCHANGED timer

\* POST :id/auto-close-check
RequestAutoClose ==
    /\ closing[Officer] = Idle
    /\ SetClosing(Officer, [pc |-> "decide"])
    /\ UNCHANGED <<now, db, timer, cast, edit, announced, restarts>>

\* POST :id/close and the close_voting message: the timer is left alone.
CloseVoting ==
    /\ closing[Officer] = Idle
    /\ voting # None
    /\ SetClosing(Officer, [pc |-> "results", kind |-> "USER"])
    /\ UNCHANGED <<now, db, timer, cast, edit, announced, restarts>>

\* Faulty form: half of the members are taken for all of them.
DecideAtHalf(c) ==
    /\ closing[c].pc = "decide"
    /\ \/ voting = None /\ GiveUp(c)
       \/ voting # None /\ voting.end <= now /\ BeginClose(c, "TIMEOUT")
       \/ /\ voting # None /\ voting.end > now
          /\ SetClosing(c, [pc |-> "quorum", type |-> voting.type,
                            full |-> 2 * Cardinality(votes) >= Cardinality(members)])
          /\ UNCHANGED timer
    /\ UNCHANGED <<now, db, cast, edit, announced, restarts>>

\* First read of autoCloseVotingIfNeeded: dates, type and head counts.
Decide(c) ==
    /\ closing[c].pc = "decide"
    /\ \/ voting = None /\ GiveUp(c)
       \/ voting # None /\ voting.end <= now /\ BeginClose(c, "TIMEOUT")
       \/ /\ voting # None /\ voting.end > now
          /\ SetClosing(c, [pc |-> "quorum", type |-> voting.type,
                            full |-> Cardinality(votes) = Cardinality(members)])
          /\ UNCHANGED timer
    /\ UNCHANGED <<now, db, cast, edit, announced, restarts>>

CloseIfFull(c) == IF closing[c].full THEN BeginClose(c, "QUORUM") ELSE GiveUp(c)

\* checkQuorumStatus reads everything again.
CheckQuorum(c) ==
    /\ closing[c].pc = "quorum"
    /\ IF voting = None
       THEN GiveUp(c)
       ELSE IF /\ closing[c].type = "UNANIMITY"
               /\ QuorumMet(Cardinality(votes), Cardinality(members), voting.quorum)
            THEN SetClosing(c, [closing[c] EXCEPT !.pc = "unanimity"]) /\ UNCHANGED timer
            ELSE CloseIfFull(c)
    /\ UNCHANGED <<now, db, cast, edit, announced, restarts>>

\* getRealTimeStats: stats.proposals.every(p => p.passed)
EveryProposalPassed ==
    voting.proposals > 0 =>
        ProposalPassed(CountOf(votes), Cardinality(members), voting.quorum)

CheckUnanimity(c) ==
    /\ closing[c].pc = "unanimity"
    /\ IF voting = None
       THEN GiveUp(c)
       ELSE IF EveryProposalPassed THEN BeginClose(c, "UNANIMITY") ELSE CloseIfFull(c)
    /\ UNCHANGED <<now, db, cast, edit, announced, restarts>>

\* The final results are read ...
ReadResults(c) ==
    /\ closing[c].pc = "results"
    /\ SetClosing(c, IF voting = None
                     THEN Idle
                     ELSE [pc |-> "announce",
                           event |-> [kind |-> closing[c].kind, final |-> votes]])
    /\ UNCHANGED <<now, db, timer, cast, edit, announced, restarts>>

\* ... and broadcast later.
Announce(c) ==
    /\ closing[c].pc = "announce"
    /\ announced' = closing[c].event
    /\ SetClosing(c, Idle)
    /\ UNCHANGED <<now, db, timer, cast, edit, restarts>>

\* Faulty form: the callback only forgets its timer.
TimerForgets ==
    /\ timer # None
    /\ timer <= now
    /\ timer' = None
    /\ UNCHANGED <<now, db, cast, edit, closing, announced, restarts>>

TimerFires ==
    /\ timer # None
    /\ timer <= now
    /\ BeginClose(Timer, "TIMEOUT")
    /\ UNCHANGED <<now, db, cast, edit, announced, restarts>>

\* The process stops and starts again: the database stays, the rest is lost.
Restart ==
    /\ restarts < MaxRestarts
    /\ restarts' = restarts + 1
    /\ draft' = None
    /\ timer' = None
    /\ cast' = [r \in Requests |-> Idle]
    /\ edit' = Idle
    /\ closing' = [c \in Closers |-> Idle]
    /\ UNCHANGED <<now, members, everMember, voting, due, votes, announced>>

-----------------------------------------------------------------------------
Voting ==
    \E r \in Requests :
        \/ \E u \in Users, o \in Options : ReadVoting(r, u, o)
        \/ CheckMember(r)
        \/ StoreVote(r)

ClosingStep(c) ==
    \/ Decide(c)
    \/ CheckQuorum(c)
    \/ CheckUnanimity(c)
    \/ ReadResults(c)
    \/ Announce(c)

Closing == RequestAutoClose \/ CloseVoting \/ TimerFires \/ \E c \in Closers : ClosingStep(c)

Creating == (\E row \in Rows : Create(row)) \/ CommitCreate \/ AbortCreate

Editing ==
    \/ \E row \in Rows : ReadForUpdate(row)
    \/ ReadForRemove
    \/ WriteUpdate
    \/ WriteRemove

Membership == \E u \in Users : AssignUser(u) \/ RemoveUser(u)

Next == Tick \/ Membership \/ Creating \/ Editing \/ Voting \/ Closing \/ Restart

Spec == Init /\ [][Next]_vars

\* The event loop runs every pending continuation and timer; nothing obliges
\* a user or an officer to make a request.
Fairness ==
    /\ WF_vars(Tick)
    /\ WF_vars(CommitCreate)
    /\ WF_vars(WriteUpdate) /\ WF_vars(WriteRemove)
    /\ WF_vars(TimerFires)
    /\ \A r \in Requests : WF_vars(CheckMember(r)) /\ WF_vars(StoreVote(r))
    /\ \A c \in Closers : WF_vars(ClosingStep(c))

FairSpec == Spec /\ Fairness

\* A voting that is not updated, in a house whose members stay: it may be
\* removed, the server does not restart, and a transaction is shorter than
\* a tick.
SteadyNext ==
    (draft = None /\ Tick) \/ Creating \/ ReadForRemove \/ WriteRemove \/ Voting \/ Closing

SteadySpec == Init /\ [][SteadyNext]_vars /\ Fairness

-----------------------------------------------------------------------------
(* Two requests of the same user can both pass castVote's "has not voted"  *)
(* check, but the house never holds two votes of one user.                 *)
OneVotePerUser == \A v, w \in votes : v.user = w.user => v = w

(* Every stored vote is by someone who belonged to the house at some time, *)
(* whatever joins and leaves happen between the checks and the insert.     *)
VotersBelonged == Voters(votes) \subseteq everMember

(* A vote that races the removal of its voting is never left behind        *)
(* without it.                                                             *)
NoOrphanVotes == votes # {} => voting # None

(* castVote, with all its interleavings, implements the ballot box.        *)
Box == INSTANCE BallotBox WITH
    electorate <- everMember,
    ballots <- {<<v.user, v.option>> : v \in votes}

ImplementsBallotBox == Box!BoxSpec

Announces(kind) ==
    announced' # announced /\ announced' # None /\ announced'.kind = kind

(* voting_timeout is broadcast only when an end date that the voting has   *)
(* had is reached, through updates, removals and restarts, unless the row  *)
(* was created to end later than setTimeout can wait.                      *)
TimeoutNotEarly ==
    [][ Announces("TIMEOUT") => \E t \in due : t <= now ]_vars

(* castVote refuses a vote before the start ("Voting has not started yet") *)
(* or after the end, and update a voting that has begun: so every stored   *)
(* vote is of an instant between the dates of its voting.  The code breaks *)
(* it: the row may be moved on while a vote goes in.                       *)
VotesWithinWindow ==
    voting # None => \A v \in votes : voting.start <= v.at /\ v.at <= voting.end

(* The results that a timeout announces as final are final.  The code      *)
(* breaks it: a vote accepted in time may be stored later.                 *)
ResultsAreFinal ==
    announced # None /\ announced.kind = "TIMEOUT" /\ voting # None =>
        votes \subseteq announced.final

(* When clients are told that the voting period has ended, it has.  The    *)
(* code breaks it: an update moves the end and leaves the timer, and so    *)
(* does setTimeout with a delay it cannot hold.                            *)
EndedMeansOver ==
    [][ Announces("TIMEOUT") /\ voting # None => voting.end <= now ]_vars

(* When the clients are told that all eligible voters have participated,   *)
(* every member of the house is among the votes of the final results.      *)
FullTurnout ==
    [][ Announces("QUORUM") => members \subseteq Voters(announced'.final) ]_vars

(* A voting is closed for unanimity only when all its votes are YES.       *)
UnanimityIsUnanimous ==
    [][ \A c \in Closers :
            /\ closing'[c].pc = "results" /\ closing[c].pc # "results"
            /\ closing'[c].kind = "UNANIMITY"
            => \A v \in votes : v.option = "YES" ]_vars

IsClosed == announced # None /\ announced.kind # "USER"

(* While its timeout is armed, a voting is going to be announced as closed *)
(* by the server, unless it is deleted first.                              *)
ArmedTimerCloses == (timer # None /\ voting # None) ~> (IsClosed \/ voting = None)
=============================================================================
