------------------------------ MODULE MCVoting ------------------------------
(* Up to three users, and rows whose dates leave time before, between and  *)
(* after.                                                                  *)
EXTENDS VotingLifecycle, TLC

Row(s, e, t, p) == [start |-> s, end |-> e, type |-> t, quorum |-> 50, proposals |-> p]

SteadyRows == {Row(0, 1, "SIMPLE_MAJORITY", 1), Row(1, 2, "UNANIMITY", 1)}
\* One already running, one still to come, and one that ends later than a timer
\* of two ticks, set at 0, can wait.
MovedRows == {Row(0, 2, "UNANIMITY", 1), Row(1, 2, "SIMPLE_MAJORITY", 1),
              Row(1, 3, "SIMPLE_MAJORITY", 1)}
LaterRows == {Row(1, 2, "SIMPLE_MAJORITY", 1), Row(2, 3, "SIMPLE_MAJORITY", 1)}
UnanimityRow == {Row(0, 2, "UNANIMITY", 1)}
ShortRow == {Row(0, 1, "SIMPLE_MAJORITY", 1)}

\* What a voting promises of its votes is settled before its end.  From there
\* on, and with an end out of the timer's range, it is followed with one voter
\* at most, and two tasks at once.
Manageable ==
    now > 1 \/ 3 \in due =>
        /\ Cardinality(everMember) <= 1
        /\ Cardinality({r \in Requests : cast[r] # Idle})
               + Cardinality({c \in Closers : closing[c] # Idle})
               + (IF edit = Idle THEN 0 ELSE 1) <= 2

Symmetry == Permutations(Users) \cup Permutations(Requests)
=============================================================================
