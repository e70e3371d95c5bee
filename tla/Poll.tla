-------------------------------- MODULE Poll --------------------------------
(***************************************************************************)
(* The votes of one voting arriving one at a time while members join and   *)
(* leave the house, seen through the reports and verdicts of module Tally. *)
(***************************************************************************)
EXTENDS Tally

CONSTANTS
    Quorums,     \* values of the requiredQuorum column, 0 for null
    MaxMembers   \* bound on the users who may ever belong to the house

ASSUME PollAssumption ==
    /\ Quorums \subseteq 0 .. 100
    /\ MaxMembers \in Nat

VARIABLES
    count,      \* stored votes per option
    eligible,   \* members of the house
    departed,   \* votes of users who do not belong to the house (any more)
    type,       \* type of the voting
    quorum      \* requiredQuorum

pollVars == <<count, eligible, departed, type, quorum>>

\* Members who have voted
Voted == Total(count) - departed

\* A user has one vote (module VotingLifecycle).
PollTypeOK ==
    /\ count \in Count
    /\ eligible \in 0 .. MaxMembers
    /\ departed \in Nat
    /\ Voted \in 0 .. eligible
    /\ departed <= MaxMembers - eligible
    /\ type \in VotingTypes
    /\ quorum \in Quorums

PollInit ==
    /\ count = [o \in VoteOptions |-> 0]
    /\ eligible \in 0 .. MaxMembers
    /\ departed = 0
    /\ type \in VotingTypes
    /\ quorum \in Quorums

\* prisma.vote.create of castVote, by a member ...
Cast(o) ==
    /\ Voted < eligible
    /\ count' = [count EXCEPT ![o] = @ + 1]
    /\ UNCHANGED <<eligible, departed, type, quorum>>

\* ... or by one who has left since castVote looked.
CastLate(o) ==
    /\ departed < MaxMembers - eligible
    /\ count' = [count EXCEPT ![o] = @ + 1]
    /\ departed' = departed + 1
    /\ UNCHANGED <<eligible, type, quorum>>

\* assignUserToHouse and removeUserFromHouse change the electorate at any
\* time, by somebody who has voted or not; the votes stay.
Join(voter) ==
    /\ IF voter THEN departed > 0 ELSE departed < MaxMembers - eligible
    /\ eligible' = eligible + 1
    /\ departed' = IF voter THEN departed - 1 ELSE departed
    /\ UNCHANGED <<count, type, quorum>>

Leave(voter) ==
    /\ IF voter THEN Voted > 0 ELSE Voted < eligible
    /\ eligible' = eligible - 1
    /\ departed' = IF voter THEN departed + 1 ELSE departed
    /\ UNCHANGED <<count, type, quorum>>

PollNext ==
    \/ \E o \in VoteOptions : Cast(o) \/ CastLate(o)
    \/ \E voter \in BOOLEAN : Join(voter) \/ Leave(voter)

PollSpec == PollInit /\ [][PollNext]_pollVars

-----------------------------------------------------------------------------
Needed == VotesNeeded(Total(count), eligible, quorum)
Issues == QuorumIssues(type, eligible, quorum)
Advice(over, hours) == Recommendations(Total(count), eligible, quorum, over, hours)

\* n votes are exactly the quorum, and one of those turnout does not attain
LostInRounding(n) ==
    /\ 100 * n = RequiredQuorum(quorum) * eligible
    /\ RequiredQuorum(quorum) \in {29, 57, 58}

StatusAgrees ==
    QuorumMet(Total(count), eligible, quorum) <=>
        Needed = 0 /\ ~LostInRounding(Total(count))

HistoryAgrees ==
    \A n \in 1 .. Total(count) :
        LET past == QuorumHistory(Total(count), eligible, quorum)[n]
        IN  /\ past.quorumMet <=> past.votesNeededForQuorum = 0 /\ ~LostInRounding(n)
            /\ past.quorumMet => QuorumMet(Total(count), eligible, quorum)

AdviceAgrees ==
    \A over \in BOOLEAN, hours \in 0 .. 24 :
        /\ "missing" \in Advice(over, hours) <=>
               Needed > 0 \/ LostInRounding(Total(count))
        /\ "belowType" \notin Issues => ~({"reached", "low"} \subseteq Advice(over, hours))

AutoCloseAgrees ==
    type = "UNANIMITY" /\ Issues \cap {"belowType", "notAPercentage"} = {}
            /\ CanAutoClose(Total(count), eligible, type, quorum, FALSE) =>
        Total(count) >= eligible

MembersAgree ==
    LET shown == Participants(Total(count), departed, eligible)
    IN  /\ shown.voted >= 0 /\ shown.notVoted >= 0
        /\ shown.notVoted = 0 => Needed = 0

(* What is said of the quorum comes from formulas of percentages, of a     *)
(* rounded-up head count, and of lists of people.  In a house with members *)
(* they agree: quorum is met exactly when no vote is needed, now and at    *)
(* each vote of the history, where once met it stays met; the advice says  *)
(* that votes are missing exactly then, and does not call the turnout low  *)
(* where it calls a quorum reached that validateQuorumRequirements does    *)
(* not find too low for the type; a unanimity voting with such a quorum    *)
(* may close early only with as many votes as members; and when the page   *)
(* of participants shows no member without a vote, no vote is needed.      *)
(* There is one exception, and no other: with a quorum of 29, 57 or 58     *)
(* percent, just as many votes as needed leave the quorum unmet and the    *)
(* advice asking for zero more votes, until another vote arrives.          *)
QuorumViewsAgree ==
    eligible > 0 =>
        /\ StatusAgrees
        /\ HistoryAgrees
        /\ AdviceAgrees
        /\ AutoCloseAgrees
        /\ MembersAgree

(* What a page shows as passed is recorded as approved: a voting that the  *)
(* list shows as passed is one whose proposals the workflow approves and   *)
(* the minutes record as approved, whatever its type and quorum; and the   *)
(* detail page, though it counts abstentions differently, shows none as    *)
(* passed that the minutes record as rejected.                             *)
ShownAsPassedIsApproved ==
    /\ PassedInList(count, type, quorum) =>
           PassedInWorkflow(count, type) /\ ApprovedInMinutes(count)
    /\ PassedInDetail(count, eligible, quorum) => ApprovedInMinutes(count)

Verdicts ==
    << PassedInDetail(count, eligible, quorum),
       ProposalPassed(count, eligible, quorum),
       PassedInList(count, type, quorum),
       PassedInWorkflow(count, type),
       ApprovedInMinutes(count) >>

(* A further YES never turns any of the five verdicts from passed to       *)
(* failed, although it moves turnout, percentages and quorum together.     *)
YesNeverHurts ==
    [][ count'["YES"] > count["YES"] =>
            \A i \in DOMAIN Verdicts : Verdicts[i] => Verdicts'[i] ]_pollVars
=============================================================================
