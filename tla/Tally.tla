------------------------------- MODULE Tally -------------------------------
(***************************************************************************)
(* The arithmetic of a voting: turnout, quorum, what is reported of them,  *)
(* and the verdicts the backend computes from the same votes.  A count is  *)
(* the number of stored votes per option; eligible is the number of        *)
(* members of the house.                                                   *)
(* Percentages are doubles in the code.  They compare as the exact ones do *)
(* except exactly at a limit p whose hundredth, times 100, is not p again: *)
(* of the whole percentages up to 100 a double below p for 29, 57 and 58   *)
(* (29 votes of 50 are 57.99999999999999 percent), one above p, which "at  *)
(* least p" does not notice, for 7, 14, 28, 55 and 56.                     *)
(***************************************************************************)
EXTENDS Integers

VotingTypes == {"SIMPLE_MAJORITY", "QUALIFIED_MAJORITY", "UNANIMITY"}
VoteOptions == {"YES", "NO", "ABSTAIN"}
Count == [VoteOptions -> Nat]

Total(c) == c["YES"] + c["NO"] + c["ABSTAIN"]

\* requiredQuorum || 50: a null or zero column means 50 percent.
RequiredQuorum(q) == IF q = 0 THEN 50 ELSE q

\* Limits no turnout is exactly at: it is computed as slightly less.
RoundedDown == {29, 57, 58}

\* (votes / eligible) * 100 >= p
TurnoutReaches(votes, eligible, p) ==
    /\ 100 * votes >= p * eligible
    /\ p \in RoundedDown => 100 * votes # p * eligible

\* checkQuorumStatus: turnout is 0 when the house has no member.
QuorumMet(total, eligible, q) ==
    /\ eligible > 0
    /\ TurnoutReaches(total, eligible, RequiredQuorum(q))

\* Faulty form: the head count rounded down.
VotesNeededFloor(total, eligible, q) ==
    LET target == (eligible * RequiredQuorum(q)) \div 100
    IN  IF target > total THEN target - total ELSE 0

\* Math.max(0, Math.ceil(eligible * q / 100) - total)
VotesNeeded(total, eligible, q) ==
    LET target == (eligible * RequiredQuorum(q) + 99) \div 100
    IN  IF target > total THEN target - total ELSE 0

-----------------------------------------------------------------------------
(* What the quorum and the statistics service report besides.              *)

\* getVotingThresholds, and the requirement validateQuorumRequirements names.
QuorumThreshold(type) ==
    [UNANIMITY |-> 100, QUALIFIED_MAJORITY |-> 67, SIMPLE_MAJORITY |-> 50][type]

\* validateQuorumRequirements: errors and warnings
QuorumIssues(type, eligible, q) ==
    {i \in {"noVoters", "notAPercentage", "belowType", "veryHigh", "fewVoters"} :
        \/ i = "noVoters"       /\ eligible = 0
        \/ i = "notAPercentage" /\ RequiredQuorum(q) > 100
        \/ i = "belowType"      /\ RequiredQuorum(q) < QuorumThreshold(type)
        \/ i = "veryHigh"       /\ RequiredQuorum(q) > 90
        \/ i = "fewVoters"      /\ eligible < 3}

\* canAutoCloseVoting
CanAutoClose(total, eligible, type, q, over) ==
    over \/ (type = "UNANIMITY" /\ QuorumMet(total, eligible, q))

\* generateQuorumRecommendations, with the whole hours left unless it is over
Recommendations(total, eligible, q, over, hours) ==
    LET met == QuorumMet(total, eligible, q)
    IN  {i \in {"missing", "remind", "urgent", "reached", "low", "excellent"} :
            \/ i = "missing"   /\ ~met
            \/ i = "remind"    /\ ~met /\ ~over /\ hours < 24
            \/ i = "urgent"    /\ ~met /\ ~over /\ hours < 2
            \/ i = "reached"   /\ met
            \/ i = "low"       /\ (eligible = 0 \/ 100 * total < 30 * eligible)
            \/ i = "excellent" /\ eligible > 0 /\ 100 * total > 80 * eligible}

\* getQuorumHistory: each vote in turn against the electorate of today, with
\* no guard against an empty house (where every turnout is infinite).
QuorumHistory(total, eligible, q) ==
    [n \in 1 .. total |->
        [quorumMet            |-> TurnoutReaches(n, eligible, RequiredQuorum(q)),
         votesNeededForQuorum |-> VotesNeeded(n, eligible, q)]]

\* getVotingParticipants lists the members only: departed votes are those of
\* users who have left the house.
Participants(total, departed, eligible) ==
    [voted |-> total - departed, notVoted |-> eligible - (total - departed)]

-----------------------------------------------------------------------------
(* The verdicts.                                                           *)

\* More than half of the votes are YES; a total of zero counts as 0 percent.
YesMajority(c) == 2 * c["YES"] > Total(c)

\* VotingStatsService.calculateVotingResults: the verdict of GET /voting/:id.
PassedInDetail(c, eligible, q) == QuorumMet(Total(c), eligible, q) /\ YesMajority(c)

\* Faulty form: the turnout compared the wrong way round.
ProposalPassedSwapped(c, eligible, q) ==
    /\ 100 * Total(c) <= eligible * RequiredQuorum(q)
    /\ YesMajority(c)

\* getRealTimeStats, per proposal: no guard against an empty house, and the
\* votes against a head count, which is exact.
ProposalPassed(c, eligible, q) ==
    /\ 100 * Total(c) >= eligible * RequiredQuorum(q)
    /\ YesMajority(c)

\* Faulty form: the list takes the type of the voting for granted.
PassedInListAnyType(c, type, q) ==
    /\ Total(c) > 0
    /\ 100 * Total(c) >= RequiredQuorum(q) * (IF Total(c) > 5 THEN Total(c) ELSE 5)
    /\ c["YES"] > c["NO"]

\* VotingService.calculateVotingResults: the verdict of GET /voting, which
\* takes the larger of the votes cast and five as the number of voters (so
\* that the turnout is a multiple of 20 percent, where doubles are exact).
PassedInList(c, type, q) ==
    LET total == Total(c)
        assumed == IF total > 5 THEN total ELSE 5
    IN  /\ total > 0
        /\ 100 * total >= RequiredQuorum(q) * assumed
        /\ type = "SIMPLE_MAJORITY"    => c["YES"] > c["NO"]
        /\ type = "QUALIFIED_MAJORITY" => 10000 * c["YES"] >= 6667 * total
        /\ type = "UNANIMITY"          => c["YES"] = total

\* BusinessRulesService.calculateVotingResults: the verdict the workflow
\* writes into the proposals when an assembly completes.
PassedInWorkflow(c, type) ==
    /\ type = "SIMPLE_MAJORITY"    => c["YES"] > c["NO"]
    /\ type = "QUALIFIED_MAJORITY" => 5 * c["YES"] >= 3 * Total(c)
    /\ type = "UNANIMITY"          => c["YES"] = Total(c) /\ c["ABSTAIN"] = 0

\* MinutesService.generateDecisions, whatever the type of the voting.
ApprovedInMinutes(c) == c["YES"] > c["NO"]
=============================================================================
