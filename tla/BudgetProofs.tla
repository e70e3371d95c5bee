---------------------------- MODULE BudgetProofs ----------------------------
(* The budget and its two views, for any transactions, amounts,            *)
(* projections and number of months.                                       *)
EXTENDS Budget, SumProofs

(* The rows of a type that did not change, of the months read so far, add  *)
(* up to no more than the report says by then, and to just that if nothing *)
(* changed.                                                                *)
Counted(type) == {id \in Steady(type) : txs[id].date < 2 * report.month - 1}

Said(type) == IF type = "INCOME" THEN report.income ELSE report.expense

Counts(type) ==
    /\ Total(Counted(type)) <= Said(type)
    /\ touched = {} => Said(type) = Total(Counted(type))

ReportInv ==
    /\ report.pc = "reading" => report.month <= Months
    /\ report.pc = "done" => report.month = Months + 1
    /\ report.pc # "idle" => \A type \in Types : Counts(type)

ComparisonInv ==
    comparison.pc = "done" /\ touched = {} =>
        /\ comparison.income = Total(Rows("INCOME", 1, 2 * Months - 1))
        /\ comparison.expense = Total(Rows("EXPENSE", 1, 2 * Months - 1))

Inv ==
    /\ TypeOK
    /\ IsFiniteSet(Booked)
    /\ ReportInv
    /\ ComparisonInv

-----------------------------------------------------------------------------
(* Totals.                                                                 *)

LEMMA AmountIsNat ==
    ASSUME TypeOK, NEW id \in Booked
    PROVE  txs[id] \in Transaction /\ txs[id].amount \in Nat
BY BudgetAssumption DEF BudgetAssumption, TypeOK, Booked, Transaction

LEMMA TotalIsNat ==
    ASSUME TypeOK, IsFiniteSet(Booked), NEW S \in SUBSET Booked
    PROVE  IsFiniteSet(S) /\ Total(S) \in Nat
<1>1. PICK w : w = [id \in Booked |-> txs[id].amount]
    OBVIOUS
<1>2. IsFiniteSet(S) /\ \A id \in S : w[id] \in Nat
    BY <1>1, AmountIsNat, FS_Subset
<1>. QED BY <1>1, <1>2, SumIsNat DEF Total

LEMMA TotalSplit ==
    ASSUME TypeOK, IsFiniteSet(Booked), NEW S \in SUBSET Booked, NEW T \in SUBSET Booked,
           S \cap T = {}
    PROVE  Total(S \cup T) = Total(S) + Total(T)
<1>1. PICK w : w = [id \in Booked |-> txs[id].amount]
    OBVIOUS
<1>2. IsFiniteSet(S) /\ IsFiniteSet(T) /\ \A id \in S \cup T : w[id] \in Int
    BY <1>1, AmountIsNat, FS_Subset
<1>. QED BY <1>1, <1>2, SumSplit DEF Total

LEMMA TotalGrows ==
    ASSUME TypeOK, IsFiniteSet(Booked), NEW T \in SUBSET Booked, NEW S \in SUBSET T
    PROVE  Total(S) <= Total(T)
<1>1. PICK w : w = [id \in Booked |-> txs[id].amount]
    OBVIOUS
<1>2. IsFiniteSet(T) /\ \A id \in T : w[id] \in Nat
    BY <1>1, AmountIsNat, FS_Subset
<1>. QED BY <1>1, <1>2, SumGrows DEF Total

LEMMA RowsAreBooked == \A type, first, last : Rows(type, first, last) \in SUBSET Booked
BY DEF Rows

LEMMA SteadyIsBooked ==
    \A type : Steady(type) \in SUBSET Booked /\ Counted(type) \in SUBSET Booked
BY DEF Steady, Counted, Rows

-----------------------------------------------------------------------------
(* Types.                                                                  *)

LEMMA ReadingOf ==
    ASSUME NEW r \in Reading \cup {Idle}, r.pc # "idle"
    PROVE  /\ r \in Reading /\ r.pc \in {"reading", "done"} /\ r.budget \in Projected
           /\ r.month \in 1 .. Months + 1 /\ r.income \in Nat /\ r.expense \in Nat
BY DEF Reading, Idle

LEMMA ReadingIs ==
    ASSUME NEW pc \in {"reading", "done"}, NEW b \in Projected, NEW m \in 1 .. Months + 1,
           NEW i \in Nat, NEW e \in Nat
    PROVE  [pc |-> pc, budget |-> b, month |-> m, income |-> i, expense |-> e] \in Reading
BY DEF Reading

LEMMA InitInv == Init => Inv
<1> SUFFICES ASSUME Init PROVE Inv
    OBVIOUS
<1>1. Booked = {}
    BY DEF Init, Booked
<1>2. TypeOK
    BY DEF Init, TypeOK
<1>. QED BY <1>1, <1>2, FS_EmptySet DEF Init, Inv, ReportInv, ComparisonInv, Idle

(* An officer's step changes one row, or removes all.                      *)
Change(ids) ==
    /\ UNCHANGED <<report, comparison>>
    /\ Touch(ids)
    /\ ids \subseteq Ids
    /\ \A id \in Ids \ ids : txs'[id] = txs[id]

LEMMA OfficerChanges ==
    ASSUME TypeOK, IsFiniteSet(Booked), OfficerStep
    PROVE  /\ TypeOK' /\ IsFiniteSet(Booked')
           /\ \/ UNCHANGED <<txs, report, comparison, touched>>
              \/ \E ids \in SUBSET Ids : Change(ids)
<1> USE DEF TypeOK
<1>1. ASSUME NEW id \in Ids, NEW t \in Transaction,
             CreateTransaction(id, t) \/ UpdateTransaction(id, t)
      PROVE  TypeOK' /\ IsFiniteSet(Booked') /\ \E ids \in SUBSET Ids : Change(ids)
  <2>1. /\ txs' = [txs EXCEPT ![id] = t] /\ Touch({id})
        /\ UNCHANGED <<house, budget, report, comparison>>
      BY <1>1 DEF CreateTransaction, UpdateTransaction
  <2>2. Change({id}) /\ Booked' \subseteq Booked \cup {id}
      BY <2>1 DEF Change, Booked
  <2>3. IsFiniteSet(Booked')
      BY <2>2, FS_AddElement, FS_Subset
  <2>4. TypeOK'
      BY <2>1 DEF Touch
  <2>. QED BY <2>2, <2>3, <2>4
<1>2. ASSUME NEW id \in Ids, RemoveTransaction(id)
      PROVE  TypeOK' /\ IsFiniteSet(Booked') /\ \E ids \in SUBSET Ids : Change(ids)
  <2>1. /\ txs' = [txs EXCEPT ![id] = None] /\ Touch({id})
        /\ UNCHANGED <<house, budget, report, comparison>>
      BY <1>2 DEF RemoveTransaction
  <2>2. Change({id}) /\ Booked' \subseteq Booked
      BY <2>1 DEF Change, Booked
  <2>3. IsFiniteSet(Booked')
      BY <2>2, FS_Subset
  <2>4. TypeOK'
      BY <2>1 DEF Touch
  <2>. QED BY <2>2, <2>3, <2>4
<1>3. CASE RemoveHouse
  <2>1. /\ txs' = [id \in Ids |-> None] /\ Touch(Ids) /\ UNCHANGED <<report, comparison>>
        /\ house' = FALSE /\ budget' = None
      BY <1>3 DEF RemoveHouse
  <2>2. Change(Ids) /\ Booked' = {}
      BY <2>1 DEF Change, Booked
  <2>3. TypeOK'
      BY <2>1 DEF Touch
  <2>. QED BY <2>2, <2>3, FS_EmptySet
<1>4. ASSUME NEW b \in Projected, Create(b) \/ Update(b)
      PROVE  /\ TypeOK' /\ IsFiniteSet(Booked')
             /\ UNCHANGED <<txs, report, comparison, touched>>
    BY <1>4 DEF Create, Update, Booked
<1>5. CASE Remove
    BY <1>5 DEF Remove, Booked
<1>. QED BY <1>1, <1>2, <1>3, <1>4, <1>5 DEF OfficerStep

-----------------------------------------------------------------------------
(* What a view has counted stands.                                         *)

LEMMA NothingChanged ==
    ASSUME ReportInv, ComparisonInv, UNCHANGED <<txs, report, comparison, touched>>
    PROVE  ReportInv' /\ ComparisonInv'
<1>1. \A type, first, last : Rows(type, first, last)' = Rows(type, first, last)
    BY DEF Rows, Booked
<1>2. \A S : Total(S)' = Total(S)
    BY DEF Total, Booked
<1>3. \A type : Counted(type)' = Counted(type)
    BY <1>1 DEF Counted, Steady, Overlooked
<1>. QED BY <1>1, <1>2, <1>3 DEF ReportInv, ComparisonInv, Counts, Said

LEMMA ChangeKeeps ==
    ASSUME Inv, TypeOK', IsFiniteSet(Booked'), NEW ids \in SUBSET Ids, Change(ids)
    PROVE  ReportInv' /\ ComparisonInv'
<1>0. /\ TypeOK /\ IsFiniteSet(Booked) /\ ReportInv /\ ComparisonInv
      /\ report' = report /\ comparison' = comparison
    BY DEF Inv, Change
<1>1. CASE report = Idle /\ comparison = Idle
    BY <1>0, <1>1 DEF ReportInv, ComparisonInv, Idle
<1>2. CASE report # Idle \/ comparison # Idle
  <2>1. touched' = touched \cup ids
      BY <1>2 DEF Change, Touch, Asked
  <2>2. ASSUME touched' = {} PROVE txs' = txs /\ touched = {}
    <3>1. touched = {} /\ ids = {}
        BY <2>1, <2>2
    <3>2. \A id \in Ids : txs'[id] = txs[id]
        BY <3>1 DEF Change
    <3>. QED BY <1>0, <3>1, <3>2 DEF TypeOK
  <2>3. CASE touched' = {}
      BY <1>0, <2>2, <2>3, NothingChanged
  <2>4. CASE touched' # {}
    <3>1. ASSUME NEW type \in Types, report.pc # "idle"
          PROVE  Total(Counted(type))' <= Said(type)'
      <4>1. PICK w, v, T, S : /\ w = [id \in Booked |-> txs[id].amount] /\ T = Counted(type)
                              /\ v = [id \in Booked |-> txs[id].amount]' /\ S = Counted(type)'
          OBVIOUS
      <4>2. \A id \in S : id \in Booked' /\ id \notin touched' /\ id \in Ids
          BY <4>1 DEF Counted, Steady, Rows, Booked
      <4>3. \A id \in S : txs'[id] = txs[id] /\ id \in Booked
          BY <2>1, <4>2 DEF Change, Booked
      <4>4. S \subseteq T
          BY <1>0, <2>1, <4>1, <4>2, <4>3 DEF Counted, Steady, Overlooked, Rows
      <4>5. T \in SUBSET Booked
          BY <4>1, SteadyIsBooked
      <4>6. \A id \in S : v[id] = w[id]
          BY <4>1, <4>2, <4>3
      <4>7. IsFiniteSet(T) /\ IsFiniteSet(S) /\ \A id \in T : w[id] \in Nat
          BY <1>0, <4>1, <4>4, <4>5, AmountIsNat, FS_Subset
      <4>8. SumFunctionOnSet(v, S) = SumFunctionOnSet(w, S)
          BY <4>6, <4>7, SumOfSame
      <4>9. SumFunctionOnSet(w, S) <= SumFunctionOnSet(w, T)
          BY <4>4, <4>7, SumGrows
      <4>10. Total(Counted(type))' <= Total(Counted(type))
          BY <4>1, <4>8, <4>9 DEF Total
      <4>11. Total(Counted(type)) <= Said(type) /\ Total(Counted(type)) \in Nat
          BY <1>0, <3>1, <4>1, <4>5, TotalIsNat DEF ReportInv, Counts
      <4>12. SumFunctionOnSet(w, S) \in Nat
          BY <4>4, <4>7, SumIsNat
      <4>13. Total(Counted(type))' \in Nat
          BY <4>1, <4>8, <4>12 DEF Total
      <4>14. Said(type)' = Said(type) /\ Said(type) \in Nat
          BY <1>0, <3>1, ReadingOf DEF Said, TypeOK
      <4>. QED BY <4>10, <4>11, <4>13, <4>14
    <3>. QED BY <1>0, <2>4, <3>1 DEF ReportInv, ComparisonInv, Counts
  <2>. QED BY <2>3, <2>4
<1>. QED BY <1>1, <1>2

\* The budget is read before either view.
LEMMA BeginKeeps == ASSUME Inv, BeginReport \/ BeginComparison PROVE Inv'
<1>1. TypeOK /\ IsFiniteSet(Booked) /\ ReportInv /\ ComparisonInv
    BY DEF Inv
<1>2. ReadBudget \in Reading /\ budget \in Projected
  <2>1. budget \in Projected /\ 1 \in 1 .. Months + 1
      BY <1>1, BudgetAssumption DEF BeginReport, BeginComparison, TypeOK, BudgetAssumption
  <2>. QED BY <2>1, ReadingIs DEF ReadBudget
<1>3. UNCHANGED <<txs, touched, house, budget>> /\ Booked' = Booked
    BY DEF BeginReport, BeginComparison, Booked
<1>4. CASE BeginComparison
  <2>1. comparison' = ReadBudget /\ report' = report
      BY <1>4 DEF BeginComparison
  <2>2. TypeOK'
      BY <1>1, <1>2, <1>3, <2>1 DEF TypeOK
  <2>3. ComparisonInv'
      BY <2>1 DEF ComparisonInv, ReadBudget
  <2>4. ReportInv'
    <3>1. \A type : Total(Counted(type))' = Total(Counted(type))
        BY <1>3, <2>1 DEF Total, Counted, Steady, Overlooked, Rows, Booked
    <3>. QED BY <1>1, <1>3, <2>1, <3>1 DEF ReportInv, Counts, Said
  <2>. QED BY <1>1, <1>3, <2>2, <2>3, <2>4 DEF Inv
<1>5. CASE BeginReport
  <2>1. report' = ReadBudget /\ comparison' = comparison
      BY <1>5 DEF BeginReport
  <2>2. TypeOK'
      BY <1>1, <1>2, <1>3, <2>1 DEF TypeOK
  <2>3. ComparisonInv'
    <3>1. \A S : Total(S)' = Total(S)
        BY <1>3 DEF Total
    <3>2. \A type, first, last : Rows(type, first, last)' = Rows(type, first, last)
        BY <1>3 DEF Rows
    <3>. QED BY <1>1, <1>3, <2>1, <3>1, <3>2 DEF ComparisonInv
  <2>4. ReportInv'
    <3>1. report'.pc = "reading" /\ report'.month = 1 /\ report'.income = 0 /\ report'.expense = 0
        BY <2>1 DEF ReadBudget
    <3>2. ASSUME NEW type PROVE Total(Counted(type))' = 0
      <4>1. Counted(type)' = {}
        <5>1. \A id \in Steady(type)' : txs'[id].date \in 1 .. 2 * Months - 1
            BY DEF Steady, Rows
        <5>. QED BY <3>1, <5>1, BudgetAssumption DEF Counted, BudgetAssumption
      <4>. QED BY <4>1, SumEmpty DEF Total
    <3>. QED BY <3>1, <3>2, BudgetAssumption DEF ReportInv, Counts, Said, BudgetAssumption
  <2>. QED BY <1>1, <1>3, <2>2, <2>3, <2>4 DEF Inv
<1>. QED BY <1>4, <1>5

LEMMA CompareKeeps == ASSUME Inv, Compare PROVE Inv'
<1>1. TypeOK /\ IsFiniteSet(Booked) /\ ReportInv
    BY DEF Inv
<1>2. UNCHANGED <<txs, touched, house, budget, report>> /\ Booked' = Booked
    BY DEF Compare, Booked
<1>3. PICK i \in Nat, e \in Nat : /\ i = Total(Rows("INCOME", 1, 2 * Months - 1))
                                  /\ e = Total(Rows("EXPENSE", 1, 2 * Months - 1))
    BY <1>1, RowsAreBooked, TotalIsNat
<1>4. comparison \in Reading
    BY <1>1, ReadingOf DEF Compare, TypeOK
<1>5. comparison' = [comparison EXCEPT !.pc = "done", !.month = Months + 1,
                                       !.income = i, !.expense = e]
    BY <1>3 DEF Compare
<1>6. Months + 1 \in 1 .. Months + 1
    BY BudgetAssumption DEF BudgetAssumption
<1>7. comparison' \in Reading /\ comparison'.income = i /\ comparison'.expense = e
    BY <1>4, <1>5, <1>6 DEF Reading
<1>8. TypeOK'
    BY <1>1, <1>2, <1>7 DEF TypeOK
<1>9. ComparisonInv'
  <2>1. \A S : Total(S)' = Total(S)
      BY <1>2 DEF Total
  <2>2. \A type, first, last : Rows(type, first, last)' = Rows(type, first, last)
      BY <1>2 DEF Rows
  <2>. QED BY <1>3, <1>7, <2>1, <2>2 DEF ComparisonInv
<1>10. ReportInv'
  <2>1. \A type : Total(Counted(type))' = Total(Counted(type))
      BY <1>2 DEF Total, Counted, Steady, Overlooked, Rows
  <2>. QED BY <1>1, <1>2, <2>1 DEF ReportInv, Counts, Said
<1>. QED BY <1>1, <1>2, <1>8, <1>9, <1>10 DEF Inv

\* The steady rows of a month are among those the report reads for it, and are
\* just those if nothing changed.
LEMMA MonthCounted ==
    ASSUME Inv, NEW type \in Types, NEW m \in 1 .. Months, m = report.month,
           NEW read \in Nat, read = Total(Rows(type, Month(m).first, Month(m).last)),
           report.pc = "reading",
           UNCHANGED <<txs, touched>>, report'.month = m + 1, Said(type)' = Said(type) + read
    PROVE  Counts(type)'
<1> DEFINE rows == Rows(type, Month(m).first, Month(m).last)
           new == Steady(type) \cap rows
<1>1. TypeOK /\ IsFiniteSet(Booked) /\ Counts(type) /\ Months \in Nat
    BY BudgetAssumption DEF Inv, ReportInv, BudgetAssumption
<1>2. \A id \in Booked : txs[id].date \in Nat
    BY <1>1, AmountIsNat DEF Transaction, Dates
<1>3. rows = {id \in Booked : txs[id].type = type /\ txs[id].date = 2 * m - 1}
    BY <1>2 DEF Rows, Month
<1>4. \A id \in Steady(type) : /\ id \in Booked /\ txs[id].type = type /\ id \notin touched
                               /\ txs[id].date \in 1 .. 2 * Months - 1 /\ txs[id].date % 2 # 0
    BY DEF Steady, Overlooked, Rows
<1>5. \A d \in Nat : d % 2 # 0 => (d < 2 * (m + 1) - 1 <=> d < 2 * m - 1 \/ d = 2 * m - 1)
  <2> SUFFICES ASSUME NEW d \in Nat, d % 2 # 0, d < 2 * (m + 1) - 1, ~(d < 2 * m - 1)
               PROVE  d = 2 * m - 1
      OBVIOUS
  <2>1. d # 2 * m
    <3>1. (2 * m) % 2 = 0
        OBVIOUS
    <3>. QED BY <3>1
  <2>. QED BY <2>1
<1>6. Counted(type)' = Counted(type) \cup new
  <2>1. Steady(type)' = Steady(type)
      BY DEF Steady, Overlooked, Rows, Booked
  <2>2. Counted(type)' = {id \in Steady(type) : txs[id].date < 2 * (m + 1) - 1}
      BY <2>1 DEF Counted
  <2>3. Counted(type) = {id \in Steady(type) : txs[id].date < 2 * m - 1}
      BY DEF Counted
  <2>4. new = {id \in Steady(type) : txs[id].date = 2 * m - 1}
      BY <1>3, <1>4
  <2> HIDE DEF new
  <2>. QED BY <1>2, <1>4, <1>5, <2>2, <2>3, <2>4
<1>7. Counted(type) \cap new = {}
    BY <1>2, <1>3 DEF Counted
<1>8. touched = {} => new = rows
  <2>1. ASSUME touched = {}, NEW id \in rows PROVE id \in Steady(type)
    <3>1. id \in Booked /\ txs[id].type = type /\ txs[id].date = 2 * m - 1
        BY <1>3, <2>1
    <3>2. (2 * m - 1) % 2 = 1 /\ 2 * m - 1 \in 1 .. 2 * Months - 1
        BY <1>1
    <3>. QED BY <2>1, <3>1, <3>2 DEF Steady, Overlooked, Rows
  <2>. QED BY <2>1
<1>9. new \in SUBSET rows /\ rows \in SUBSET Booked /\ Counted(type) \in SUBSET Booked
    BY RowsAreBooked, SteadyIsBooked
<1> HIDE DEF new, rows
<1>10. Total(Counted(type) \cup new) = Total(Counted(type)) + Total(new)
    BY <1>1, <1>7, <1>9, TotalSplit
<1>11. Total(new) <= read /\ (touched = {} => Total(new) = read)
    BY <1>1, <1>8, <1>9, TotalGrows DEF rows
<1>12. Total(Counted(type)) \in Nat /\ Total(new) \in Nat
    BY <1>1, <1>9, TotalIsNat
<1>13. Total(Counted(type))' = Total(Counted(type)) + Total(new)
    BY <1>6, <1>10 DEF Total, Booked
<1>14. Said(type) \in Nat
    BY <1>1, ReadingOf DEF Said, TypeOK
<1>. QED BY <1>1, <1>11, <1>12, <1>13, <1>14 DEF Counts

LEMMA ReadMonthKeeps == ASSUME Inv, ReadMonth PROVE Inv'
<1>1. TypeOK /\ IsFiniteSet(Booked) /\ ReportInv /\ ComparisonInv
    BY DEF Inv
<1>2. UNCHANGED <<txs, touched, house, budget, comparison>> /\ Booked' = Booked
    BY DEF ReadMonth, Booked
<1>3. /\ report \in Reading /\ report.pc = "reading" /\ report.income \in Nat
      /\ report.expense \in Nat
    BY <1>1, ReadingOf DEF ReadMonth, TypeOK
<1>4. PICK m \in 1 .. Months : m = report.month
  <2>1. report.month \in 1 .. Months + 1 /\ report.month <= Months /\ Months \in Nat
      BY <1>1, <1>3, BudgetAssumption DEF ReportInv, Reading, BudgetAssumption
  <2>. QED BY <2>1
<1>5. PICK i \in Nat, e \in Nat : /\ i = Total(Rows("INCOME", Month(m).first, Month(m).last))
                                  /\ e = Total(Rows("EXPENSE", Month(m).first, Month(m).last))
    BY <1>1, RowsAreBooked, TotalIsNat
<1>6. PICK pc, inc, exp, next :
          /\ pc = (IF m = Months THEN "done" ELSE "reading") /\ next = m + 1
          /\ inc = report.income + i /\ exp = report.expense + e
    OBVIOUS
<1>7. report' = [report EXCEPT !.income = inc, !.expense = exp, !.month = next, !.pc = pc]
    BY <1>4, <1>5, <1>6 DEF ReadMonth
<1>8. /\ pc \in {"reading", "done"} /\ next \in 1 .. Months + 1 /\ inc \in Nat /\ exp \in Nat
      /\ Months \in Nat
    BY <1>3, <1>6, BudgetAssumption DEF BudgetAssumption
<1>9. /\ report' \in Reading /\ report'.pc = pc /\ report'.month = next
      /\ report'.income = inc /\ report'.expense = exp
    BY <1>3, <1>7, <1>8 DEF Reading
<1>10. Counts("INCOME")'
  <2>1. Said("INCOME")' = Said("INCOME") + i
      BY <1>6, <1>9 DEF Said
  <2>. QED BY <1>2, <1>3, <1>4, <1>5, <1>6, <1>9, <2>1, MonthCounted DEF Types
<1>11. Counts("EXPENSE")'
  <2>1. Said("EXPENSE")' = Said("EXPENSE") + e
      BY <1>6, <1>9 DEF Said
  <2>. QED BY <1>2, <1>3, <1>4, <1>5, <1>6, <1>9, <2>1, MonthCounted DEF Types
<1>12. ReportInv'
  <2>1. /\ report'.pc = "reading" => report'.month <= Months
        /\ report'.pc = "done" => report'.month = Months + 1
      BY <1>6, <1>8, <1>9
  <2>. QED BY <1>10, <1>11, <2>1 DEF ReportInv, Types
<1>13. TypeOK'
    BY <1>1, <1>2, <1>9 DEF TypeOK
<1>14. ComparisonInv'
  <2>1. \A S : Total(S)' = Total(S)
      BY <1>2 DEF Total
  <2>2. \A type, first, last : Rows(type, first, last)' = Rows(type, first, last)
      BY <1>2 DEF Rows
  <2>. QED BY <1>1, <1>2, <2>1, <2>2 DEF ComparisonInv
<1>. QED BY <1>1, <1>2, <1>12, <1>13, <1>14 DEF Inv

LEMMA StepKeeps == Inv /\ [Next]_vars => Inv'
<1> SUFFICES ASSUME Inv, [Next]_vars PROVE Inv'
    OBVIOUS
<1>0. TypeOK /\ IsFiniteSet(Booked) /\ ReportInv /\ ComparisonInv
    BY DEF Inv
<1>1. CASE OfficerStep
  <2>1. TypeOK' /\ IsFiniteSet(Booked')
      BY <1>0, <1>1, OfficerChanges
  <2>2. ReportInv' /\ ComparisonInv'
      BY <1>0, <1>1, <2>1, OfficerChanges, ChangeKeeps, NothingChanged
  <2>. QED BY <2>1, <2>2 DEF Inv
<1>2. CASE ViewStep
    BY <1>2, BeginKeeps, CompareKeeps, ReadMonthKeeps DEF ViewStep
<1>3. CASE UNCHANGED vars
  <2>1. TypeOK' /\ Booked' = Booked
      BY <1>0, <1>3 DEF vars, TypeOK, Booked
  <2>. QED BY <1>0, <1>3, <2>1, NothingChanged DEF vars, Inv
<1>. QED BY <1>1, <1>2, <1>3 DEF Next

LEMMA Always == Spec => []Inv
BY InitInv, StepKeeps, PTL DEF Spec

(* The rows, the budget and the views keep their types; in particular a    *)
(* report reads no month after the last (getBudgetExecutionReport).        *)
THEOREM BudgetTypeCorrect == Spec => []TypeOK
<1>1. Inv => TypeOK
    BY DEF Inv
<1>. QED BY <1>1, Always, PTL

-----------------------------------------------------------------------------
(* What the report counts.                                                 *)

\* After the last month every steady row has been counted.
LEMMA AllCounted == ASSUME TypeOK, report.month = Months + 1, NEW type
                    PROVE  Counted(type) = Steady(type)
<1>1. \A id \in Steady(type) : txs[id].date \in 1 .. 2 * Months - 1
    BY DEF Steady, Rows
<1>. QED BY <1>1, BudgetAssumption DEF Counted, BudgetAssumption

(* However transactions change between the reads of the months, for any    *)
(* transactions, amounts and number of months, a finished report counts    *)
(* each that did not change, and once (getBudgetExecutionReport).          *)
THEOREM ReportCounts == Spec => []ReportCountsOnce
<1>1. ASSUME Inv, report.pc = "done"
      PROVE  /\ report.income >= Total(Steady("INCOME"))
             /\ report.expense >= Total(Steady("EXPENSE"))
             /\ touched = {} => /\ report.income = Total(Steady("INCOME"))
                                /\ report.expense = Total(Steady("EXPENSE"))
  <2>1. TypeOK /\ IsFiniteSet(Booked) /\ \A type \in Types : Counts(type)
      BY <1>1 DEF Inv, ReportInv
  <2>2. \A type : Counted(type) = Steady(type)
      BY <1>1, AllCounted DEF Inv, ReportInv
  <2>3. report.income \in Nat /\ report.expense \in Nat
      BY <1>1, <2>1, ReadingOf DEF TypeOK
  <2>4. PICK i \in Nat, e \in Nat : i = Total(Steady("INCOME")) /\ e = Total(Steady("EXPENSE"))
      BY <2>1, SteadyIsBooked, TotalIsNat
  <2>5. i <= report.income /\ (touched = {} => report.income = i)
      BY <2>1, <2>2, <2>4 DEF Counts, Said, Types
  <2>6. e <= report.expense /\ (touched = {} => report.expense = e)
      BY <2>1, <2>2, <2>4 DEF Counts, Said, Types
  <2>. QED BY <2>3, <2>4, <2>5, <2>6
<1>2. Inv => ReportCountsOnce
    BY <1>1 DEF ReportCountsOnce
<1>. QED BY <1>2, Always, PTL

-----------------------------------------------------------------------------
(* What the views say.                                                     *)

\* Both views of what did not change have the same figures.
LEMMA SameFigures ==
    ASSUME Inv, Unchanged
    PROVE  /\ report \in Reading /\ comparison \in Reading
           /\ report.budget = comparison.budget
           /\ report.income = comparison.income /\ report.expense = comparison.expense
<1>1. TypeOK /\ ReportInv /\ ComparisonInv /\ report.pc = "done" /\ comparison.pc = "done"
      /\ touched = {} /\ report.budget = comparison.budget
    BY DEF Inv, Unchanged
<1>2. report \in Reading /\ comparison \in Reading
    BY <1>1, ReadingOf DEF TypeOK
<1>3. ASSUME NEW type \in Types PROVE Said(type) = Total(Rows(type, 1, 2 * Months - 1))
  <2>1. Steady(type) = Rows(type, 1, 2 * Months - 1)
      BY <1>1, <1>3 DEF Unchanged, Steady, Types
  <2>2. Counted(type) = Steady(type)
      BY <1>1, AllCounted DEF ReportInv
  <2>. QED BY <1>1, <1>3, <2>1, <2>2 DEF ReportInv, Counts
<1>. QED BY <1>1, <1>2, <1>3 DEF ComparisonInv, Said, Types

\* The severities of a kind of alert are those of the function that raises it.
LEMMA SeveritiesAre ==
    /\ Severities("EXPENSE_EXCEEDED") = {a.severity : a \in ExpenseAlert(comparison)}
    /\ Severities("INCOME_BELOW_TARGET") = {a.severity : a \in IncomeAlert(comparison)}
<1>1. \A a \in ExpenseAlert(comparison) : a.type = "EXPENSE_EXCEEDED"
    BY DEF ExpenseAlert, Alert
<1>2. \A a \in IncomeAlert(comparison) : a.type = "INCOME_BELOW_TARGET"
    BY DEF IncomeAlert, Alert
<1>3. \A a \in VarianceAlert(comparison) : a.type = "BUDGET_VARIANCE"
    BY DEF VarianceAlert, Alert
<1>4. {b \in Alerts(comparison) : b.type = "EXPENSE_EXCEEDED"} = ExpenseAlert(comparison)
    BY <1>1, <1>2, <1>3 DEF Alerts
<1>5. {b \in Alerts(comparison) : b.type = "INCOME_BELOW_TARGET"} = IncomeAlert(comparison)
    BY <1>1, <1>2, <1>3 DEF Alerts
<1>. QED BY <1>4, <1>5 DEF Severities

\* The limits of the alert for expenses; that at 110 percent is rounded.
LEMMA Percentages ==
    ASSUME NEW x \in Nat, NEW whole \in Nat
    PROVE  /\ PercentageExceeds(x, 100, whole) <=> x > whole
           /\ PercentageExceeds(x, 120, whole) <=> 100 * x > 120 * whole
           /\ PercentageExceeds(x, 110, whole) <=> 100 * x >= 110 * whole
<1>1. 100 \notin RoundedUp /\ 120 \notin RoundedUp /\ 110 \in RoundedUp
    BY DEF RoundedUp
<1>2. /\ Exceeds(x, 100, whole) <=> x > whole
      /\ Exceeds(x, 120, whole) <=> 100 * x > 120 * whole
      /\ Exceeds(x, 110, whole) <=> 100 * x > 110 * whole
    BY DEF Exceeds
<1>3. (100 * x >= 110 * whole) <=> (100 * x > 110 * whole \/ 100 * x = 110 * whole)
    OBVIOUS
<1>. QED BY <1>1, <1>2, <1>3, Zenon DEF PercentageExceeds

LEMMA ExpensesJudged ==
    ASSUME NEW e \in Nat, NEW pe \in Nat,
           comparison.expense = e, comparison.budget.projectedExpense = pe
    PROVE  /\ Severities("EXPENSE_EXCEEDED") # {} <=> pe > 0 /\ e > pe
           /\ Severities("EXPENSE_EXCEEDED") \cap {"MEDIUM", "HIGH"} # {}
                  <=> pe > 0 /\ 100 * e >= 110 * pe
<1>1. Severities("EXPENSE_EXCEEDED") = {a.severity : a \in ExpenseAlert(comparison)}
    BY SeveritiesAre
<1>2. CASE ~(pe > 0 /\ e > pe)
  <2>1. ExpenseAlert(comparison) = {}
      BY <1>2, Percentages DEF ExpenseAlert
  <2>. QED BY <1>1, <1>2, <2>1
<1>3. CASE pe > 0 /\ e > pe
  <2>1. PICK s : s = Severity(PercentageExceeds(e, 120, pe), PercentageExceeds(e, 110, pe))
      OBVIOUS
  <2>2. ExpenseAlert(comparison) = {[type |-> "EXPENSE_EXCEEDED", severity |-> s]}
    <3>1. PercentageExceeds(e, 100, pe)
        BY <1>3, Percentages
    <3>. QED BY <1>3, <2>1, <3>1 DEF ExpenseAlert, Alert
  <2>3. Severities("EXPENSE_EXCEEDED") = {s}
      BY <1>1, <2>2
  <2>4. s \in {"MEDIUM", "HIGH"} <=> 100 * e >= 110 * pe
      BY <1>3, <2>1, Percentages DEF Severity
  <2>. QED BY <1>3, <2>3, <2>4
<1>. QED BY <1>2, <1>3

LEMMA IncomeJudged ==
    ASSUME NEW i \in Nat, NEW pi \in Nat,
           comparison.income = i, comparison.budget.projectedIncome = pi
    PROVE  /\ Severities("INCOME_BELOW_TARGET") # {} <=> pi = 0 \/ 100 * i < 90 * pi
           /\ "LOW" \notin Severities("INCOME_BELOW_TARGET")
<1>1. Severities("INCOME_BELOW_TARGET") = {a.severity : a \in IncomeAlert(comparison)}
    BY SeveritiesAre
<1>2. CASE ~(pi = 0 \/ 100 * i < 90 * pi)
  <2>1. IncomeAlert(comparison) = {}
      BY <1>2 DEF IncomeAlert, FallsBelow
  <2>. QED BY <1>1, <1>2, <2>1
<1>3. CASE pi = 0 \/ 100 * i < 90 * pi
  <2>1. PICK s : s = Severity(pi = 0 \/ 100 * i < 80 * pi, 100 * i < 90 * pi)
      OBVIOUS
  <2>2. IncomeAlert(comparison) = {[type |-> "INCOME_BELOW_TARGET", severity |-> s]}
      BY <1>3, <2>1 DEF IncomeAlert, FallsBelow, Alert
  <2>3. Severities("INCOME_BELOW_TARGET") = {s}
      BY <1>1, <2>2
  <2>4. s # "LOW"
      BY <1>3, <2>1 DEF Severity
  <2>. QED BY <1>3, <2>3, <2>4
<1>. QED BY <1>2, <1>3

(* For any transactions and projections in whole amounts, the comparison   *)
(* and the report of the same budget and rows agree in what they say of    *)
(* them, but for expenses at 110 percent to the unit                       *)
(* (generateBudgetAlerts, generateRecommendations).                        *)
THEOREM ViewsAlwaysAgree == Spec => []ViewsAgree
<1>1. ASSUME Inv, Unchanged PROVE ViewsAgree
  <2>1. /\ report \in Reading /\ comparison \in Reading
        /\ report.budget = comparison.budget
        /\ report.income = comparison.income /\ report.expense = comparison.expense
      BY <1>1, SameFigures
  <2>2. PICK i \in Nat, e \in Nat : report.income = i /\ report.expense = e
      BY <2>1 DEF Reading
  <2>3. PICK pi \in Nat, pe \in Nat : /\ report.budget.projectedIncome = pi
                                      /\ report.budget.projectedExpense = pe
      BY <2>1, BudgetAssumption DEF Reading, Projected, BudgetAssumption
  <2>4. /\ Severities("EXPENSE_EXCEEDED") # {} <=> pe > 0 /\ e > pe
        /\ Severities("EXPENSE_EXCEEDED") \cap {"MEDIUM", "HIGH"} # {}
               <=> pe > 0 /\ 100 * e >= 110 * pe
      BY <2>1, <2>2, <2>3, ExpensesJudged
  <2>5. /\ Severities("INCOME_BELOW_TARGET") # {} <=> pi = 0 \/ 100 * i < 90 * pi
        /\ "LOW" \notin Severities("INCOME_BELOW_TARGET")
      BY <2>1, <2>2, <2>3, IncomeJudged
  <2>6. PICK advice : advice = Recommendations(report)
      OBVIOUS
  <2>7. /\ "reduceCosts" \in advice <=> e > pe
        /\ "controlExpenses" \in advice <=> 100 * e > 110 * pe
        /\ "reviewIncome" \in advice <=> 100 * i < 90 * pi
        /\ "onTrack" \in advice => ~(e > pe) /\ ~(100 * i < 90 * pi)
    <3>1. /\ RemainingBudget(report) < 0 <=> e > pe
          /\ Exceeds(report.expense, 110, pe) <=> 100 * e > 110 * pe
          /\ FallsBelow(report.income, 90, pi) <=> 100 * i < 90 * pi
        BY <2>2, <2>3 DEF RemainingBudget, Exceeds, FallsBelow
    <3>. QED BY <2>2, <2>3, <2>6, <3>1 DEF Recommendations
  <2>8. ASSUME pi > 0, "onTrack" \in advice, NEW a \in Alerts(comparison)
        PROVE  a.type = "BUDGET_VARIANCE"
    <3>1. ~(e > pe) /\ ~(100 * i < 90 * pi) /\ pi # 0
        BY <2>2, <2>3, <2>7, <2>8
    <3>2. ExpenseAlert(comparison) = {}
        BY <2>1, <2>2, <2>3, <3>1, Percentages DEF ExpenseAlert
    <3>3. IncomeAlert(comparison) = {}
        BY <2>1, <2>2, <2>3, <3>1 DEF IncomeAlert, FallsBelow
    <3>4. a \in VarianceAlert(comparison)
        BY <2>8, <3>2, <3>3 DEF Alerts
    <3>. QED BY <3>4 DEF VarianceAlert, Alert
  <2>9. /\ pe > 0 => /\ Severities("EXPENSE_EXCEEDED") # {} <=> "reduceCosts" \in advice
                     /\ Severities("EXPENSE_EXCEEDED") \cap {"MEDIUM", "HIGH"} # {}
                            <=> \/ "controlExpenses" \in advice
                                \/ 10 * e = 11 * pe
        /\ pi > 0 => (Severities("INCOME_BELOW_TARGET") # {} <=> "reviewIncome" \in advice)
      BY <2>2, <2>3, <2>4, <2>5, <2>7
  <2>10. (10 * e = 11 * pe) <=> (10 * comparison.expense = 11 * comparison.budget.projectedExpense)
      BY <2>1, <2>2, <2>3
  <2>. QED BY <2>3, <2>5, <2>6, <2>8, <2>9, <2>10, Zenon DEF ViewsAgree
<1>2. Inv => ViewsAgree
    BY <1>1 DEF ViewsAgree
<1>. QED BY <1>2, Always, PTL
=============================================================================
