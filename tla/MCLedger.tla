------------------------------ MODULE MCLedger ------------------------------
EXTENDS Ledger, TLC

Body(t, n, a) == [type |-> t, amount |-> n, account |-> a]

\* Bodies that change the type, the amount, or nothing that counts.
PlainPatches ==
    {Body("EXPENSE", None, None), Body(None, 1, None), Body(None, None, None)}

\* Bodies that also move the transaction, with and without its amount.
AllPatches == PlainPatches \cup {Body(t, None, a) : t \in {"EXPENSE", None}, a \in Accounts}

AllKinds == {"create", "update", "remove", "recalculate", "account", "adjust", "drop"}
CreateKinds == {"account", "create"}

\* Once a request has been spoiled, the properties say nothing more.
StillIntact == intact

Symmetry == Permutations(Accounts) \cup Permutations(Ids) \cup Permutations(Requests)
=============================================================================
