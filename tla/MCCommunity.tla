----------------------------- MODULE MCCommunity -----------------------------
(* A seeded house with an administrator, and one who may join it.          *)
EXTENDS Notifications, TLC

CONSTANTS u1, u2, h1, h2

Seeded == (h1 :> ((u1 :> "ADMIN") @@ (u2 :> None))) @@ (h2 :> [u \in Users |-> None])

Bodies == {(u1 :> 0) @@ (u2 :> 0), (u1 :> 1) @@ (u2 :> 1), (u1 :> 3) @@ (u2 :> 0)}

Symmetry == Permutations(Calls)

\* What does not touch each other is not interleaved: changes of houses with
\* calls that do not read members, another house with any call, a walk with
\* calls that do more than store rows, and rows marked or removed without a
\* walk.
Manageable ==
    LET begun == {c \in Calls : call[c].pc # "new"}
        kinds == {call[c].kind : c \in begun}
        settled == admitted = {} /\ role = SeedRole
    IN  /\ begun # {} => house[h2] = "new"
        /\ ~(kinds \subseteq {"house", "budget"}) => settled
        /\ Cardinality(begun) > 1 => settled /\ walk = Idle
        /\ walk # Idle => settled /\ kinds = {"bulk"} /\ walk.user = u1 /\ registered = SeedUsers
        /\ walk = Idle => \A i \in DOMAIN rows : rows[i].state = "unread"
=============================================================================
