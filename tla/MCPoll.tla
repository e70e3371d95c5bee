------------------------------- MODULE MCPoll -------------------------------
(* Votings of up to seven users who come and go in a house, with the       *)
(* quorums that fall on, just below and just above whole head counts; and  *)
(* one of fifty members who vote, where 58 percent are 29 votes exactly.   *)
EXTENDS Poll

MCQuorums == {0, 1, 33, 34, 50, 51, 58, 60, 67, 100}

Manageable ==
    \/ eligible + departed <= 7
    \/ eligible = 50 /\ departed = 0 /\ count["NO"] = 0 /\ count["ABSTAIN"] <= 1
=============================================================================
