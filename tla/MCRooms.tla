------------------------------- MODULE MCRooms -------------------------------
(* A user with two sockets, another with one, and two rooms.               *)
EXTENDS VotingRooms, TLC

CONSTANTS u1, u2, s1, s2, s3, v1, v2

Owner == (s1 :> u1) @@ (s2 :> u1) @@ (s3 :> u2)

Symmetry == Permutations({s1, s2}) \cup Permutations(Votings)

\* No handler looks at the votes forwarded before.
FewVotes == Cardinality(forwarded) <= 1
=============================================================================
