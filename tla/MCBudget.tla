------------------------------ MODULE MCBudget ------------------------------
(* Two transactions and a year of two months.  The amounts and projections *)
(* are at 90, 100, 110 and 120 percent exactly, and on both sides of every *)
(* limit of the alerts and recommendations.                                *)
EXTENDS Budget, TLC

CONSTANTS t1, t2

Symmetry == Permutations(Ids)

\* What changes between the reads is looked at with one amount and one budget,
\* and a view is asked for only once the budget is what it will be.
Manageable ==
    /\ touched # {} =>
        /\ \A id \in Ids : txs[id] # None => txs[id].amount = 9
        /\ \A view \in {report, comparison} : view # Idle =>
            /\ view.income % 9 = 0 /\ view.expense % 9 = 0
            /\ view.budget = [projectedIncome |-> 10, projectedExpense |-> 10]
    /\ \A view \in {report, comparison} : view # Idle /\ budget # None => budget = view.budget
=============================================================================
