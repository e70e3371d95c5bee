----------------------------- MODULE BallotBox -----------------------------
(***************************************************************************)
(* What castVote promises, with no request, clock or interleaving: one     *)
(* ballot per enrolled user, never changed, and discarded only all at      *)
(* once, together with the voting it belongs to.                           *)
(***************************************************************************)
CONSTANTS Users, Options

VARIABLES
    electorate, \* the users that were enrolled at some time
    ballots     \* the ballots in the box, as <<user, option>>

boxVars == <<electorate, ballots>>

HasVoted(u) == \E o \in Options : <<u, o>> \in ballots

BoxInit == electorate \subseteq Users /\ ballots = {}

Enrol(u) == electorate' = electorate \cup {u} /\ UNCHANGED ballots

CastBallot(u, o) ==
    /\ u \in electorate
    /\ ~HasVoted(u)
    /\ ballots' = ballots \cup {<<u, o>>}
    /\ UNCHANGED electorate

Discard == ballots' = {} /\ UNCHANGED electorate

BoxNext ==
    \/ \E u \in Users : Enrol(u)
    \/ \E u \in Users, o \in Options : CastBallot(u, o)
    \/ Discard

BoxSpec == BoxInit /\ [][BoxNext]_boxVars
=============================================================================
