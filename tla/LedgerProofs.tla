---------------------------- MODULE LedgerProofs ----------------------------
(***************************************************************************)
(* The books keep their types whatever races; as long as no request spoils *)
(* another one's work, balances add up and every step is one of an atomic  *)
(* ledger.                                                                 *)
(***************************************************************************)
EXTENDS Ledger, SumProofs

-----------------------------------------------------------------------------
(* The types of the books.                                                 *)
Task == Creating \cup Writing \cup Changing \cup Removing
            \cup Setting \cup Dropping \cup {Idle}

(* What a request knows is told by where it stands.                        *)
LEMMA TaskOf ==
    ASSUME NEW t \in Task
    PROVE  /\ t.pc \in {"insert", "readAccount", "readHouse"} => t \in Creating
           /\ t.pc \in {"writeAccount", "writeHouse"} => t \in Writing
           /\ t.pc = "update" => t \in Changing
           /\ t.pc = "delete" => t \in Removing
           /\ t.pc = "recalculate" => t \in Setting
           /\ t.pc = "drop" => t \in Dropping
BY DEF Task, Creating, Writing, Changing, Removing, Setting, Dropping, Idle

LEMMA SignedIsInt ==
    ASSUME NEW t \in Transaction
    PROVE  Signed(t) \in Int
BY LedgerAssumption DEF LedgerAssumption, Transaction, Signed

LEMMA MergeIsTransaction ==
    ASSUME NEW t \in Transaction, NEW p \in Patch
    PROVE  Merge(t, p) \in Transaction
BY DEF Merge, Transaction, Patch

LEMMA MarkersAreNotRows == None \notin Transaction /\ Deleted \notin Transaction /\ None # Deleted
BY LedgerAssumption DEF LedgerAssumption

(* TypeOK, with the tasks folded.                                          *)
BooksTyped ==
    /\ txs \in [Ids -> Transaction \cup {None, Deleted}]
    /\ accounts \in [Accounts -> {"new", "open", "closed"}]
    /\ balance \in [Accounts -> Int]
    /\ houseBalance \in Int
    /\ task \in [Requests -> Task]
    /\ restarts \in 0 .. MaxRestarts
    /\ base \in [Accounts -> Int]
    /\ houseBase \in Int
    /\ intact \in BOOLEAN

(* However many identifiers and requests there may be, the table has       *)
(* finitely many rows and finitely many of them are not yet booked.        *)
AllFinite == IsFiniteSet(AllRows) /\ IsFiniteSet(Owing)

LEMMA TotalIsInt ==
    ASSUME BooksTyped, AllFinite, NEW S, S \subseteq AllRows
    PROVE  TotalOf(S) \in Int
<1> DEFINE w == [id \in AllRows |-> Signed(txs[id])]
<1>1. IsFiniteSet(S) /\ \A id \in S : w[id] \in Int
    BY FS_Subset, SignedIsInt DEF AllFinite, AllRows
<1> HIDE DEF w
<1>2. SumFunctionOnSet(w, S) \in Int
    BY <1>1, SumIsInt
<1>. QED BY <1>2 DEF w, TotalOf

(* A step that changes one row at most, and one request at most.           *)
LEMMA OneMore ==
    ASSUME NEW S, IsFiniteSet(S), NEW T, NEW x, T \ {x} \subseteq S
    PROVE  IsFiniteSet(T)
<1>1. IsFiniteSet(S \cup {x})
    BY FS_AddElement
<1>2. T \subseteq S \cup {x}
    OBVIOUS
<1>. QED BY <1>1, <1>2, FS_Subset

OneRow == txs' = txs \/ \E id \in Ids : \A i \in Ids \ {id} : txs'[i] = txs[i]

LEMMA StaysFinite ==
    ASSUME AllFinite, NEW r, \A q \in Requests \ {r} : task'[q] = task[q],
           OneRow \/ AllRows' \subseteq AllRows
    PROVE  AllFinite'
<1>1. IsFiniteSet(Owing')
  <2>1. Owing' \ {r} \subseteq Owing
      BY DEF Owing, Inserted
  <2>. QED BY <2>1, OneMore DEF AllFinite
<1>2. IsFiniteSet(AllRows')
  <2>1. CASE AllRows' \subseteq AllRows
      BY <2>1, FS_Subset DEF AllFinite
  <2>2. ASSUME NEW id \in Ids, \A i \in Ids \ {id} : txs'[i] = txs[i]
        PROVE  IsFiniteSet(AllRows')
    <3>1. AllRows' \ {id} \subseteq AllRows
        BY <2>2 DEF AllRows
    <3>. QED BY <3>1, OneMore DEF AllFinite
  <2>3. CASE txs' = txs
      BY <2>3 DEF AllRows, AllFinite
  <2>. QED BY <2>1, <2>2, <2>3 DEF OneRow
<1>. QED BY <1>1, <1>2 DEF AllFinite

LEMMA TypesFold == TypeOK <=> BooksTyped
BY DEF TypeOK, BooksTyped, Task

LEMMA AuditIsBoolean == ASSUME Audit PROVE intact' \in BOOLEAN
BY DEF Audit

LEMMA CreateTypes ==
    ASSUME BooksTyped, NEW r \in Requests, CreateStep(r)
    PROVE  BooksTyped'
<1> USE DEF BooksTyped
<1>1. ASSUME NEW t \in Transaction, CheckAccount(r, t) PROVE BooksTyped'
  <2>1. [pc |-> "insert", tx |-> t] \in Task
      BY DEF Task, Creating
  <2>. QED BY <1>1, <2>1, AuditIsBoolean DEF CheckAccount, Begin, books, history
<1>2. ASSUME NEW id \in Ids, Insert(r, id) PROVE BooksTyped'
  <2>1. task[r].tx \in Transaction /\ Idle \in Task
      BY <1>2, TaskOf DEF Insert, Creating, Task
  <2>2. [pc |-> "readAccount", tx |-> task[r].tx] \in Task
      BY <2>1 DEF Task, Creating
  <2>. QED BY <1>2, <2>1, <2>2, AuditIsBoolean DEF Insert, Continue, Finish, history
<1>3. ASSUME ReadAccount(r) PROVE BooksTyped'
  <2>1. task[r].tx \in Transaction /\ Idle \in Task
      BY <1>3, TaskOf DEF ReadAccount, Creating, Task
  <2>2. [pc |-> "writeAccount", tx |-> task[r].tx, seen |-> balance[task[r].tx.account]] \in Task
      BY <2>1 DEF Task, Writing, Transaction
  <2>. QED BY <1>3, <2>1, <2>2, AuditIsBoolean DEF ReadAccount, Continue, Finish, books, history
<1>4. ASSUME WriteAccount(r) PROVE BooksTyped'
  <2>1. task[r].tx \in Transaction /\ task[r].seen \in Int /\ Idle \in Task
      BY <1>4, TaskOf DEF WriteAccount, Writing, Task
  <2>2. [pc |-> "readHouse", tx |-> task[r].tx] \in Task
      BY <2>1 DEF Task, Creating
  <2>3. task[r].seen + Signed(task[r].tx) \in Int
      BY <2>1, SignedIsInt
  <2>. QED BY <1>4, <2>1, <2>2, <2>3, AuditIsBoolean DEF WriteAccount, Continue, Finish, history
<1>5. ASSUME ReadHouse(r) PROVE BooksTyped'
  <2>1. task[r].tx \in Transaction
      BY <1>5, TaskOf DEF ReadHouse, Creating
  <2>2. [pc |-> "writeHouse", tx |-> task[r].tx, seen |-> houseBalance] \in Task
      BY <2>1 DEF Task, Writing
  <2>. QED BY <1>5, <2>2, AuditIsBoolean DEF ReadHouse, Continue, books, history
<1>6. ASSUME WriteHouse(r) PROVE BooksTyped'
  <2>1. task[r].tx \in Transaction /\ task[r].seen \in Int /\ Idle \in Task
      BY <1>6, TaskOf DEF WriteHouse, Writing, Task
  <2>2. task[r].seen + Signed(task[r].tx) \in Int
      BY <2>1, SignedIsInt
  <2>. QED BY <1>6, <2>1, <2>2, AuditIsBoolean DEF WriteHouse, Continue, Finish, history
<1>. QED BY <1>1, <1>2, <1>3, <1>4, <1>5, <1>6 DEF CreateStep

(* What an update writes, when it writes.                                  *)
Written(r, id, original, p, net) ==
    /\ task[r] = [pc |-> "update", id |-> id, original |-> original, patch |-> p]
    /\ txs[id] \in Transaction
    /\ p.type # None \/ p.amount # None => accounts[original.account] = "open"
    /\ net = IF p.type # None \/ p.amount # None
             THEN Signed(Merge(txs[id], p)) - Signed(original)
             ELSE 0
    /\ txs' = [txs EXCEPT ![id] = Merge(txs[id], p)]
    /\ balance' = [balance EXCEPT ![original.account] = @ + net]
    /\ houseBalance' = houseBalance + net

LEMMA UpdateWrites ==
    ASSUME BooksTyped, NEW r \in Requests, Update(r),
           ~UNCHANGED <<txs, balance, houseBalance>>
    PROVE  \E id \in Ids, original \in Transaction, p \in Patch, net \in Int :
               Written(r, id, original, p, net)
<1> DEFINE id == task[r].id
           p == task[r].patch
           original == task[r].original
           net == IF p.type # None \/ p.amount # None
                  THEN Signed(Merge(txs[id], p)) - Signed(original) ELSE 0
<1>1. task[r] \in Changing
    BY TaskOf DEF Update, BooksTyped
<1>2. /\ id \in Ids /\ original \in Transaction /\ p \in Patch
      /\ task[r] = [pc |-> "update", id |-> id, original |-> original, patch |-> p]
    BY <1>1 DEF Changing
<1>3. /\ txs[id] \in Transaction
      /\ p.type # None \/ p.amount # None => accounts[original.account] = "open"
      /\ txs' = [txs EXCEPT ![id] = Merge(txs[id], p)]
      /\ balance' = [balance EXCEPT ![original.account] = @ + net]
      /\ houseBalance' = houseBalance + net
    BY DEF Update, NetChange
<1>4. net \in Int
    BY <1>2, <1>3, MergeIsTransaction, SignedIsInt
<1>5. Written(r, id, original, p, net)
    BY <1>2, <1>3 DEF Written
<1>. QED BY <1>2, <1>4, <1>5

LEMMA ChangeTypes ==
    ASSUME BooksTyped, NEW r \in Requests, ChangeStep(r)
    PROVE  BooksTyped'
<1> USE DEF BooksTyped
<1>a. Idle \in Task
    BY DEF Task
<1>1. ASSUME NEW id \in Ids, NEW p \in Patches, ReadForUpdate(r, id, p) PROVE BooksTyped'
  <2>1. [pc |-> "update", id |-> id, original |-> txs[id], patch |-> p] \in Task
      BY <1>1, LedgerAssumption DEF Task, Changing, ReadForUpdate, LedgerAssumption
  <2>. QED BY <1>1, <2>1, AuditIsBoolean DEF ReadForUpdate, Begin, books, history
<1>2. ASSUME Update(r) PROVE BooksTyped'
  <2>1. /\ txs' \in [Ids -> Transaction \cup {None, Deleted}]
        /\ balance' \in [Accounts -> Int]
        /\ houseBalance' \in Int
    <3>1. CASE UNCHANGED <<txs, balance, houseBalance>>
        BY <3>1
    <3>2. CASE ~UNCHANGED <<txs, balance, houseBalance>>
      <4>1. PICK id \in Ids, original \in Transaction, p \in Patch, net \in Int :
                Written(r, id, original, p, net)
          BY <1>2, <3>2, UpdateWrites
      <4>2. Merge(txs[id], p) \in Transaction /\ original.account \in Accounts
          BY <4>1, MergeIsTransaction DEF Transaction, Written
      <4>. QED BY <4>1, <4>2 DEF Written
    <3>. QED BY <3>1, <3>2
  <2>2. task' \in [Requests -> Task]
      BY <1>a, <1>2 DEF Update, Finish, Continue
  <2>3. UNCHANGED <<accounts, restarts, base, houseBase>> /\ intact' \in BOOLEAN
      BY <1>2, AuditIsBoolean DEF Update, history
  <2>. QED BY <2>1, <2>2, <2>3
<1>3. ASSUME NEW id \in Ids, ReadForRemove(r, id) PROVE BooksTyped'
  <2>1. [pc |-> "delete", id |-> id, original |-> txs[id]] \in Task
      BY <1>3 DEF Task, Removing, ReadForRemove
  <2>. QED BY <1>3, <2>1, AuditIsBoolean DEF ReadForRemove, Begin, books, history
<1>4. ASSUME Delete(r) PROVE BooksTyped'
  <2>1. task[r] \in Removing
      BY <1>4, TaskOf DEF Delete
  <2>2. /\ task[r].id \in Ids /\ task[r].original.account \in Accounts
        /\ Signed(task[r].original) \in Int
      BY <2>1, SignedIsInt DEF Removing, Transaction
  <2>. QED BY <1>a, <1>4, <2>2, AuditIsBoolean DEF Delete, Finish, Continue, history
<1>. QED BY <1>1, <1>2, <1>3, <1>4 DEF ChangeStep

LEMMA AccountTypes ==
    ASSUME BooksTyped, AllFinite, NEW r \in Requests, AccountStep(r)
    PROVE  BooksTyped'
<1> USE DEF BooksTyped
<1>a. Idle \in Task
    BY DEF Task
<1>1. ASSUME NEW a \in Accounts, ReadRows(r, a) PROVE BooksTyped'
  <2>1. [pc |-> "recalculate", account |-> a, total |-> TotalOf(RowsOf(a))] \in Task
    <3>1. TotalOf(RowsOf(a)) \in Int
        BY TotalIsInt DEF RowsOf
    <3>. QED BY <3>1 DEF Task, Setting
  <2>. QED BY <1>1, <2>1, AuditIsBoolean DEF ReadRows, Begin, books, history
<1>2. ASSUME NEW a \in Accounts, CountRows(r, a) PROVE BooksTyped'
  <2>1. [pc |-> "drop", account |-> a] \in Task
      BY DEF Task, Dropping
  <2>. QED BY <1>2, <2>1, AuditIsBoolean DEF CountRows, Begin, books, history
<1>3. ASSUME Recalculate(r) PROVE BooksTyped'
  <2>1. task[r].account \in Accounts /\ task[r].total \in Int
      BY <1>3, TaskOf DEF Recalculate, Setting
  <2>. QED BY <1>a, <1>3, <2>1, AuditIsBoolean DEF Recalculate, Finish, Continue
<1>4. ASSUME DropAccount(r) PROVE BooksTyped'
  <2>1. task[r].account \in Accounts
      BY <1>4, TaskOf DEF DropAccount, Dropping
  <2>. QED BY <1>a, <1>4, <2>1, AuditIsBoolean DEF DropAccount, Finish, Continue, history
<1>5. ASSUME NEW a \in Accounts, NEW b \in Balances, OpenAccount(r, a, b) PROVE BooksTyped'
  <2>1. b \in Int
      BY LedgerAssumption DEF LedgerAssumption
  <2>. QED BY <1>a, <1>5, <2>1, AuditIsBoolean DEF OpenAccount, Begin
<1>6. ASSUME NEW a \in Accounts, NEW b \in Balances, AdjustAccount(r, a, b) PROVE BooksTyped'
  <2>1. b \in Int /\ base[a] + b - balance[a] \in Int
      BY LedgerAssumption DEF LedgerAssumption
  <2>. QED BY <1>a, <1>6, <2>1, AuditIsBoolean DEF AdjustAccount, Begin
<1>7. ASSUME NEW b \in Balances, AdjustHouse(r, b) PROVE BooksTyped'
  <2>1. b \in Int
      BY LedgerAssumption DEF LedgerAssumption
  <2>. QED BY <1>a, <1>7, <2>1, AuditIsBoolean DEF AdjustHouse, Begin
<1>. QED BY <1>1, <1>2, <1>3, <1>4, <1>5, <1>6, <1>7 DEF AccountStep

LEMMA LedgerTypesInit == Init => BooksTyped /\ AllFinite
<1> SUFFICES ASSUME Init PROVE BooksTyped /\ AllFinite
    OBVIOUS
<1>0. AllRows = {} /\ Owing = {}
    BY LedgerAssumption DEF Init, AllRows, Owing, Inserted, Idle, LedgerAssumption
<1>1. Idle \in Task
    BY DEF Task
<1>2. 0 \in 0 .. MaxRestarts /\ Balances \subseteq Int
    BY LedgerAssumption DEF LedgerAssumption
<1>. QED BY <1>0, <1>1, <1>2, FS_EmptySet DEF Init, BooksTyped, AllFinite

(* What a step leaves of the table and of the other requests.              *)
LEMMA StepTouches ==
    ASSUME BooksTyped, NEW r \in Requests, CreateStep(r) \/ ChangeStep(r) \/ AccountStep(r)
    PROVE  /\ \A q \in Requests \ {r} : task'[q] = task[q]
           /\ OneRow \/ (DropAccount(r) /\ AllRows' \subseteq AllRows)
<1>1. txs \in [Ids -> Transaction \cup {None, Deleted}] /\ task \in [Requests -> Task]
    BY DEF BooksTyped
<1>2. CASE CreateStep(r)
    BY <1>1, <1>2 DEF CreateStep, CheckAccount, Insert, ReadAccount, WriteAccount, ReadHouse,
        WriteHouse, Begin, Continue, Finish, OneRow, books
<1>3. CASE ChangeStep(r)
    BY <1>1, <1>3 DEF ChangeStep, ReadForUpdate, Update, ReadForRemove, Delete, Begin, Continue,
        Finish, OneRow, books
<1>4. CASE AccountStep(r)
  <2>1. CASE DropAccount(r)
      BY <1>1, <2>1, MarkersAreNotRows
      DEF DropAccount, Continue, Finish, OneRow, AllRows
  <2>2. CASE ~DropAccount(r)
      BY <1>1, <1>4, <2>2 DEF AccountStep, ReadRows, CountRows, Recalculate, OpenAccount,
          AdjustAccount, AdjustHouse, Begin, Continue, Finish, OneRow, books
  <2>. QED BY <2>1, <2>2
<1>. QED BY <1>2, <1>3, <1>4

LEMMA LedgerTypesStep == BooksTyped /\ AllFinite /\ [Next]_vars => BooksTyped' /\ AllFinite'
<1> SUFFICES ASSUME BooksTyped, AllFinite, [Next]_vars PROVE BooksTyped' /\ AllFinite'
    OBVIOUS
<1>1. CASE Restart
  <2>1. Idle \in Task
      BY DEF Task
  <2>2. restarts' \in 0 .. MaxRestarts
      BY <1>1, LedgerAssumption DEF Restart, BooksTyped, LedgerAssumption
  <2>3. AllFinite'
    <3>1. AllRows' = AllRows /\ Owing' = {}
        BY <1>1 DEF Restart, books, AllRows, Owing, Inserted, Idle
    <3>. QED BY <3>1, FS_EmptySet DEF AllFinite
  <2>. QED BY <1>1, <2>1, <2>2, <2>3, AuditIsBoolean DEF Restart, BooksTyped, books, history
<1>2. CASE UNCHANGED vars
    BY <1>2 DEF BooksTyped, AllFinite, AllRows, Owing, vars, books, history
<1>3. ASSUME NEW r \in Requests, CreateStep(r) \/ ChangeStep(r) \/ AccountStep(r)
      PROVE  BooksTyped' /\ AllFinite'
    BY <1>3, CreateTypes, ChangeTypes, AccountTypes, StepTouches, StaysFinite
<1>. QED BY <1>1, <1>2, <1>3 DEF Next

(* The tables and the requests of the transactions, accounts and workflow  *)
(* services keep their types under every interleaving and restart.         *)
THEOREM LedgerTypeCorrect == Spec => []TypeOK
BY LedgerTypesInit, LedgerTypesStep, TypesFold, PTL DEF Spec

-----------------------------------------------------------------------------
(* Any number of requests, none of which has spoiled another one's work.   *)
(* Each row adds to its account and to the house, and each request owes    *)
(* them what it has still to book; a step changes one row and one request. *)
Typed == BooksTyped /\ AllFinite

RowsHaveAccounts ==
    \A id \in Ids : txs[id] \in Transaction => accounts[txs[id].account] = "open"

DebtTo(t, a) == IF t.pc \in {"readAccount", "writeAccount"} /\ t.tx.account = a
                THEN Signed(t.tx) ELSE 0
DebtToHouse(t) == IF Inserted(t) THEN Signed(t.tx) ELSE 0

LEMMA NoDebt ==
    ASSUME NEW t, t.pc \notin {"readAccount", "writeAccount", "readHouse", "writeHouse"}
    PROVE  (\A a : DebtTo(t, a) = 0) /\ DebtToHouse(t) = 0
BY DEF DebtTo, DebtToHouse, Inserted

WorthTo(row, a) == IF row \in Transaction /\ row.account = a THEN Signed(row) ELSE 0
WorthToHouse(row) == IF row \in Transaction THEN Signed(row) ELSE 0

LEMMA TotalsChange ==
    ASSUME Typed, Typed', NEW id \in Ids, \A i \in Ids \ {id} : txs'[i] = txs[i]
    PROVE  /\ \A a : TotalOf(RowsOf(a))' =
                      TotalOf(RowsOf(a)) - WorthTo(txs[id], a) + WorthTo(txs'[id], a)
           /\ TotalOf(AllRows)' =
                  TotalOf(AllRows) - WorthToHouse(txs[id]) + WorthToHouse(txs'[id])
<1>1. PICK w : w = [i \in AllRows |-> Signed(txs[i])]
    OBVIOUS
<1>2. PICK v : v = [i \in AllRows' |-> Signed(txs'[i])]
    OBVIOUS
<1>3. /\ \A S : S \subseteq AllRows => IsFiniteSet(S) /\ \A i \in S : w[i] \in Int
      /\ \A T : T \subseteq AllRows' => IsFiniteSet(T) /\ \A i \in T : v[i] \in Int
    BY <1>1, <1>2, FS_Subset, SignedIsInt DEF Typed, AllFinite, AllRows
<1>4. ASSUME NEW S, S \subseteq AllRows, NEW T, T \subseteq AllRows', S \ {id} = T \ {id}
      PROVE  SumFunctionOnSet(v, T) = SumFunctionOnSet(w, S) - At(w, S, id) + At(v, T, id)
  <2>1. \A i \in S \ {id} : v[i] = w[i]
      BY <1>1, <1>2, <1>4 DEF AllRows
  <2>2. IsFiniteSet(S) /\ IsFiniteSet(T)
            /\ (\A i \in S : w[i] \in Int) /\ (\A i \in T : v[i] \in Int)
      BY <1>3, <1>4
  <2>. QED BY <1>4, <2>1, <2>2, SumChange
<1>5. ASSUME NEW a
      PROVE  TotalOf(RowsOf(a))' =
                 TotalOf(RowsOf(a)) - WorthTo(txs[id], a) + WorthTo(txs'[id], a)
  <2>1. PICK S, T : S = RowsOf(a) /\ T = RowsOf(a)'
      OBVIOUS
  <2>2. S \subseteq AllRows /\ T \subseteq AllRows' /\ S \ {id} = T \ {id}
      BY <2>1 DEF RowsOf, AllRows
  <2>3. At(w, S, id) = WorthTo(txs[id], a) /\ At(v, T, id) = WorthTo(txs'[id], a)
      BY <1>1, <1>2, <2>1 DEF At, WorthTo, RowsOf, AllRows
  <2>4. TotalOf(RowsOf(a)) = SumFunctionOnSet(w, S) /\ TotalOf(RowsOf(a))' = SumFunctionOnSet(v, T)
      BY <1>1, <1>2, <2>1 DEF TotalOf
  <2>. QED BY <1>4, <2>2, <2>3, <2>4
<1>6. TotalOf(AllRows)' = TotalOf(AllRows) - WorthToHouse(txs[id]) + WorthToHouse(txs'[id])
  <2>1. PICK S, T : S = AllRows /\ T = AllRows'
      OBVIOUS
  <2>2. S \ {id} = T \ {id}
      BY <2>1 DEF AllRows
  <2>3. At(w, S, id) = WorthToHouse(txs[id]) /\ At(v, T, id) = WorthToHouse(txs'[id])
      BY <1>1, <1>2, <2>1 DEF At, WorthToHouse, AllRows
  <2>4. TotalOf(AllRows) = SumFunctionOnSet(w, S) /\ TotalOf(AllRows)' = SumFunctionOnSet(v, T)
      BY <1>1, <1>2, <2>1 DEF TotalOf
  <2>. QED BY <1>4, <2>1, <2>2, <2>3, <2>4
<1>. QED BY <1>5, <1>6

LEMMA TotalsSame ==
    ASSUME txs' = txs
    PROVE  (\A a : TotalOf(RowsOf(a))' = TotalOf(RowsOf(a))) /\ TotalOf(AllRows)' = TotalOf(AllRows)
BY DEF TotalOf, RowsOf, AllRows

LEMMA TotalsAreInt ==
    ASSUME Typed
    PROVE  (\A a : TotalOf(RowsOf(a)) \in Int) /\ TotalOf(AllRows) \in Int
BY TotalIsInt DEF Typed, RowsOf

OwingTo(a) == {r \in Owing : /\ task[r].pc \in {"readAccount", "writeAccount"}
                             /\ task[r].tx.account = a}

LEMMA OwedIsInt ==
    ASSUME Typed, NEW S, S \subseteq Owing
    PROVE  Owed(S) \in Int
<1> DEFINE w == [q \in Owing |-> Signed(task[q].tx)]
<1>1. IsFiniteSet(S)
    BY FS_Subset DEF Typed, AllFinite
<1>2. \A q \in S : w[q] \in Int
    BY TaskOf, SignedIsInt DEF Typed, BooksTyped, Owing, Inserted, Creating, Writing
<1> HIDE DEF w
<1>3. SumFunctionOnSet(w, S) \in Int
    BY <1>1, <1>2, SumIsInt
<1>. QED BY <1>3 DEF w, Owed

LEMMA DebtsAreInt ==
    ASSUME Typed
    PROVE  (\A a : OwedTo(a) \in Int) /\ OwedToHouse \in Int
BY OwedIsInt DEF OwedTo, OwedToHouse

LEMMA OwedChanges ==
    ASSUME Typed, Typed', NEW r \in Requests, \A q \in Requests \ {r} : task'[q] = task[q]
    PROVE  /\ \A a : OwedTo(a)' = OwedTo(a) - DebtTo(task[r], a) + DebtTo(task'[r], a)
           /\ OwedToHouse' = OwedToHouse - DebtToHouse(task[r]) + DebtToHouse(task'[r])
<1>1. PICK w : w = [q \in Owing |-> Signed(task[q].tx)]
    OBVIOUS
<1>2. PICK v : v = [q \in Owing' |-> Signed(task'[q].tx)]
    OBVIOUS
<1>3. \A q \in Owing : w[q] \in Int
    BY <1>1, TaskOf, SignedIsInt DEF Typed, BooksTyped, Owing, Inserted, Creating, Writing
<1>4. \A q \in Owing' : v[q] \in Int
    BY <1>2, TaskOf, SignedIsInt DEF Typed, BooksTyped, Owing, Inserted, Creating, Writing
<1>5. ASSUME NEW S, S \subseteq Owing, NEW T, T \subseteq Owing', S \ {r} = T \ {r}
      PROVE  SumFunctionOnSet(v, T) = SumFunctionOnSet(w, S) - At(w, S, r) + At(v, T, r)
  <2>1. \A q \in S \ {r} : v[q] = w[q]
      BY <1>1, <1>2, <1>5 DEF Owing, Inserted
  <2>2. IsFiniteSet(S) /\ IsFiniteSet(T)
      BY <1>5, FS_Subset DEF Typed, AllFinite
  <2>. QED BY <1>3, <1>4, <1>5, <2>1, <2>2, SumChange
<1>6. ASSUME NEW a
      PROVE  OwedTo(a)' = OwedTo(a) - DebtTo(task[r], a) + DebtTo(task'[r], a)
  <2>1. PICK S, T : S = OwingTo(a) /\ T = OwingTo(a)'
      OBVIOUS
  <2>2. S \subseteq Owing /\ T \subseteq Owing' /\ S \ {r} = T \ {r}
      BY <2>1 DEF OwingTo, Owing, Inserted
  <2>3. At(w, S, r) = DebtTo(task[r], a) /\ At(v, T, r) = DebtTo(task'[r], a)
      BY <1>1, <1>2, <2>1 DEF At, DebtTo, OwingTo, Owing, Inserted
  <2>4. OwedTo(a) = SumFunctionOnSet(w, S) /\ OwedTo(a)' = SumFunctionOnSet(v, T)
      BY <1>1, <1>2, <2>1 DEF OwedTo, Owed, OwingTo
  <2>. QED BY <1>5, <2>2, <2>3, <2>4
<1>7. OwedToHouse' = OwedToHouse - DebtToHouse(task[r]) + DebtToHouse(task'[r])
  <2>1. PICK S, T : S = Owing /\ T = Owing'
      OBVIOUS
  <2>2. S \ {r} = T \ {r}
      BY <2>1 DEF Owing, Inserted
  <2>3. At(w, S, r) = DebtToHouse(task[r]) /\ At(v, T, r) = DebtToHouse(task'[r])
      BY <1>1, <1>2, <2>1 DEF At, DebtToHouse, Owing
  <2>4. OwedToHouse = SumFunctionOnSet(w, S) /\ OwedToHouse' = SumFunctionOnSet(v, T)
      BY <1>1, <1>2, <2>1 DEF OwedToHouse, Owed
  <2>. QED BY <1>5, <2>1, <2>2, <2>3, <2>4
<1>. QED BY <1>6, <1>7

LEMMA NothingOwed ==
    /\ \A a : OwingTo(a) = {} => OwedTo(a) = 0
    /\ Owing = {} => OwedToHouse = 0 /\ \A a : OwedTo(a) = 0
<1>1. Owed({}) = 0
    BY SumEmpty DEF Owed
<1>2. \A a : OwedTo(a) = Owed(OwingTo(a))
    BY DEF OwedTo, OwingTo
<1>3. Owing = {} => \A a : OwingTo(a) = {}
    BY DEF OwingTo
<1>. QED BY <1>1, <1>2, <1>3 DEF OwedToHouse

LEMMA NothingOwedNext == (\A a : OwingTo(a) = {} => OwedTo(a) = 0)'
<1>1. (\A a : OwingTo(a) = {} => OwedTo(a) = 0)
    BY NothingOwed
<1>. QED BY <1>1, PTL

(* What a request has read, or counted, is still so.                       *)
Standing(t) ==
    /\ t.pc = "writeAccount" => t.seen = balance[t.tx.account]
    /\ t.pc = "writeHouse" => t.seen = houseBalance
    /\ t.pc \in {"update", "delete"} => txs[t.id] \in {t.original, Deleted}
    /\ t.pc = "recalculate" => t.total = TotalOf(RowsOf(t.account))
    /\ t.pc \in {"insert", "readAccount", "writeAccount"} => accounts[t.tx.account] # "new"

AddsTo(a) ==
    accounts[a] = "open" => balance[a] + OwedTo(a) = base[a] + TotalOf(RowsOf(a))
AddsToHouse == houseBalance + OwedToHouse = houseBase + TotalOf(AllRows)
Adds == (\A a \in Accounts : AddsTo(a)) /\ AddsToHouse

Good == (\A r \in Requests : Standing(task[r])) /\ RowsHaveAccounts /\ Adds

LEMMA Audited ==
    ASSUME Audit, intact'
    PROVE  /\ intact
           /\ \A q \in Requests : /\ task'[q] = task[q] => ~Outdates(q)
                                  /\ task'[q] # task[q] => ~Abandons(q) /\ ~CountsTwice(q)
           /\ \A id \in Ids : ~Strays(id)
BY DEF Audit

LEMMA OthersStand ==
    ASSUME Typed, Typed', NEW q \in Requests, task'[q] = task[q], Standing(task[q]),
           ~Outdates(q), OneRow,
           \A a \in Accounts : accounts[a] # "new" => accounts'[a] # "new"
    PROVE  Standing(task[q])'
<1>1. PICK t \in Task : t = task[q]
    BY DEF Typed, BooksTyped
<1>2. ASSUME t.pc = "recalculate" PROVE t.total = TotalOf(RowsOf(t.account))'
  <2>1. PICK a : a = t.account
      OBVIOUS
  <2>2. t.total = TotalOf(RowsOf(a))
      BY <1>1, <1>2, <2>1 DEF Standing
  <2>3. TotalOf(RowsOf(a))' = TotalOf(RowsOf(a))
    <3>1. CASE txs' = txs
        BY <3>1, TotalsSame
    <3>2. ASSUME NEW id \in Ids, \A i \in Ids \ {id} : txs'[i] = txs[i]
          PROVE  TotalOf(RowsOf(a))' = TotalOf(RowsOf(a))
      <4>1. WorthTo(txs'[id], a) = WorthTo(txs[id], a)
        <5>1. CASE txs'[id] = txs[id]
            BY <5>1
        <5>2. CASE txs'[id] # txs[id]
          <6>1. a \notin {x.account : x \in {txs[id], txs'[id]} \cap Transaction}
              BY <1>1, <1>2, <2>1, <5>2 DEF Outdates
          <6>2. WorthTo(txs'[id], a) = 0 /\ WorthTo(txs[id], a) = 0
              BY <6>1 DEF WorthTo
          <6>. QED BY <6>2
        <5>. QED BY <5>1, <5>2
      <4>2. WorthTo(txs[id], a) \in Int
          BY SignedIsInt DEF WorthTo
      <4>3. TotalOf(RowsOf(a)) \in Int
          BY TotalsAreInt
      <4>4. TotalOf(RowsOf(a))' =
                TotalOf(RowsOf(a)) - WorthTo(txs[id], a) + WorthTo(txs'[id], a)
          BY <3>2, TotalsChange
      <4>. QED BY <4>1, <4>2, <4>3, <4>4
    <3>. QED BY <3>1, <3>2 DEF OneRow
  <2>. QED BY <2>1, <2>2, <2>3
<1>3. t.pc = "writeAccount" => t.seen = balance'[t.tx.account]
    BY <1>1 DEF Standing, Outdates
<1>4. t.pc = "writeHouse" => t.seen = houseBalance'
    BY <1>1 DEF Standing, Outdates
<1>5. t.pc \in {"update", "delete"} => txs'[t.id] \in {t.original, Deleted}
    BY <1>1 DEF Outdates
<1>6. t.pc \in {"insert", "readAccount", "writeAccount"} => accounts'[t.tx.account] # "new"
  <2>1. t.pc \in {"insert", "readAccount", "writeAccount"} => t.tx.account \in Accounts
      BY TaskOf DEF Creating, Writing, Transaction
  <2>. QED BY <1>1, <2>1 DEF Standing
<1>. QED BY <1>1, <1>2, <1>3, <1>4, <1>5, <1>6 DEF Standing

(* A balance moves by what is booked or comes into its rows, ...           *)
LEMMA AddsStill ==
    ASSUME Typed, Typed', NEW r \in Requests, \A q \in Requests \ {r} : task'[q] = task[q],
           NEW a \in Accounts, AddsTo(a), accounts[a] = "open",
           NEW d \in Int, TotalOf(RowsOf(a))' = TotalOf(RowsOf(a)) + d,
           balance'[a] + DebtTo(task'[r], a) - base'[a]
               = balance[a] + DebtTo(task[r], a) - base[a] + d
    PROVE  AddsTo(a)'
<1>1. /\ balance[a] \in Int /\ balance'[a] \in Int /\ base[a] \in Int /\ base'[a] \in Int
      /\ OwedTo(a) \in Int /\ TotalOf(RowsOf(a)) \in Int
    BY DebtsAreInt, TotalsAreInt DEF Typed, BooksTyped
<1>2. DebtTo(task[r], a) \in Int /\ DebtTo(task'[r], a) \in Int
    BY TaskOf, SignedIsInt DEF Typed, BooksTyped, DebtTo, Creating, Writing
<1>3. OwedTo(a)' = OwedTo(a) - DebtTo(task[r], a) + DebtTo(task'[r], a)
    BY OwedChanges
<1>4. balance[a] + OwedTo(a) = base[a] + TotalOf(RowsOf(a))
    BY DEF AddsTo
<1>5. PICK o \in Int, t \in Int, x \in Int, y \in Int :
          /\ o = OwedTo(a) /\ t = TotalOf(RowsOf(a))
          /\ x = DebtTo(task[r], a) /\ y = DebtTo(task'[r], a)
    BY <1>1, <1>2
<1>6. OwedTo(a)' = o - x + y /\ TotalOf(RowsOf(a))' = t + d
    BY <1>3, <1>5
<1>7. balance'[a] + (o - x + y) = base'[a] + (t + d)
  <2>1. balance'[a] + y - base'[a] = balance[a] + x - base[a] + d
      BY <1>5
  <2>2. balance[a] + o = base[a] + t
      BY <1>4, <1>5
  <2>. QED BY <1>1, <2>1, <2>2
<1>. QED BY <1>6, <1>7 DEF AddsTo

(* ... and so does that of the house.                                      *)
LEMMA AddsToHouseStill ==
    ASSUME Typed, Typed', NEW r \in Requests, \A q \in Requests \ {r} : task'[q] = task[q],
           AddsToHouse, NEW d \in Int, TotalOf(AllRows)' = TotalOf(AllRows) + d,
           houseBalance' + DebtToHouse(task'[r]) - houseBase'
               = houseBalance + DebtToHouse(task[r]) - houseBase + d
    PROVE  AddsToHouse'
<1>1. /\ houseBalance \in Int /\ houseBalance' \in Int /\ houseBase \in Int
      /\ houseBase' \in Int /\ OwedToHouse \in Int /\ TotalOf(AllRows) \in Int
    BY DebtsAreInt, TotalsAreInt DEF Typed, BooksTyped
<1>2. DebtToHouse(task[r]) \in Int /\ DebtToHouse(task'[r]) \in Int
    BY TaskOf, SignedIsInt DEF Typed, BooksTyped, DebtToHouse, Inserted, Creating, Writing
<1>3. OwedToHouse' = OwedToHouse - DebtToHouse(task[r]) + DebtToHouse(task'[r])
    BY OwedChanges
<1>4. houseBalance' + OwedToHouse' = houseBase' + TotalOf(AllRows)'
    BY <1>1, <1>2, <1>3 DEF AddsToHouse
<1>. QED BY <1>4 DEF AddsToHouse

LEMMA DebtIsInt ==
    ASSUME Typed, NEW r \in Requests
    PROVE  (\A a : DebtTo(task[r], a) \in Int) /\ DebtToHouse(task[r]) \in Int
BY TaskOf, SignedIsInt DEF Typed, BooksTyped, DebtTo, DebtToHouse, Inserted, Creating, Writing

(* Nothing is booked and nothing comes in.                                 *)
LEMMA NothingBooked ==
    ASSUME Typed, Typed', Good, NEW r \in Requests,
           \A q \in Requests \ {r} : task'[q] = task[q],
           UNCHANGED <<txs, accounts, balance, houseBalance, base, houseBase>>,
           \A a : DebtTo(task'[r], a) = DebtTo(task[r], a),
           DebtToHouse(task'[r]) = DebtToHouse(task[r])
    PROVE  RowsHaveAccounts' /\ Adds'
<1>1. RowsHaveAccounts'
    BY DEF Good, RowsHaveAccounts
<1>2. ASSUME NEW a \in Accounts, accounts[a] = "open" PROVE AddsTo(a)'
  <2>1. balance[a] \in Int /\ base[a] \in Int /\ DebtTo(task[r], a) \in Int
            /\ TotalOf(RowsOf(a)) \in Int
      BY DebtIsInt, TotalsAreInt DEF Typed, BooksTyped
  <2>2. TotalOf(RowsOf(a))' = TotalOf(RowsOf(a)) + 0
      BY <2>1, TotalsSame
  <2>3. balance'[a] + DebtTo(task'[r], a) - base'[a]
            = balance[a] + DebtTo(task[r], a) - base[a] + 0
      BY <2>1
  <2>. QED BY <1>2, <2>2, <2>3, AddsStill DEF Good, Adds
<1>3. AddsToHouse'
  <2>1. houseBalance \in Int /\ houseBase \in Int /\ DebtToHouse(task[r]) \in Int
            /\ TotalOf(AllRows) \in Int
      BY DebtIsInt, TotalsAreInt DEF Typed, BooksTyped
  <2>2. TotalOf(AllRows)' = TotalOf(AllRows) + 0
      BY <2>1, TotalsSame
  <2>3. houseBalance' + DebtToHouse(task'[r]) - houseBase'
            = houseBalance + DebtToHouse(task[r]) - houseBase + 0
      BY <2>1
  <2>. QED BY <2>2, <2>3, AddsToHouseStill DEF Good, Adds
<1>. QED BY <1>1, <1>2, <1>3 DEF Adds, AddsTo

Sound(r) == Standing(task[r]) /\ RowsHaveAccounts /\ Adds

LEMMA IdleStands == Standing(Idle)'
BY DEF Standing, Idle

(* A request that has its row booked, or only reads, owes what it owed.    *)
LEMMA ReadsOnly ==
    ASSUME Typed, Typed', Good, NEW r \in Requests,
           \A q \in Requests \ {r} : task'[q] = task[q], UNCHANGED <<books, history>>,
           task[r].pc \notin {"readAccount", "writeAccount", "readHouse", "writeHouse"},
           task'[r].pc \notin {"readAccount", "writeAccount", "readHouse", "writeHouse"}
    PROVE  RowsHaveAccounts' /\ Adds'
BY NoDebt, NothingBooked DEF books, history

LEMMA CreateSound ==
    ASSUME Typed, Typed', Good, Audit, intact', NEW r \in Requests, CreateStep(r)
    PROVE  Sound(r)'
<1>a. task \in [Requests -> Task] /\ task[r] \in Task /\ Standing(task[r])
    BY DEF Typed, BooksTyped, Good
<1>b. \A q \in Requests \ {r} : task'[q] = task[q]
    BY StepTouches DEF Typed
<1>c. balance \in [Accounts -> Int] /\ houseBalance \in Int /\ houseBase \in Int
          /\ base \in [Accounts -> Int]
    BY DEF Typed, BooksTyped
<1>d. ASSUME task[r].pc \in {"readAccount", "writeAccount"}, Finish(r) PROVE FALSE
  <2>1. task'[r] = Idle /\ task'[r] # task[r]
      BY <1>a, <1>d DEF Finish, Continue, Idle
  <2>. QED BY <1>d, <2>1, Audited DEF Abandons
<1>1. ASSUME NEW t \in Transaction, CheckAccount(r, t) PROVE Sound(r)'
  <2>1. task[r].pc = "idle" /\ task'[r] = [pc |-> "insert", tx |-> t]
            /\ accounts[t.account] = "open" /\ UNCHANGED <<books, history>>
      BY <1>1, <1>a DEF CheckAccount, Begin, Idle
  <2>2. Standing(task[r])'
      BY <2>1 DEF Standing, books
  <2>. QED BY <1>b, <2>1, <2>2, ReadsOnly DEF Sound
<1>2. ASSUME NEW id \in Ids, Insert(r, id) PROVE Sound(r)'
  <2>1. CASE accounts[task[r].tx.account] # "open"
    <3>1. task[r].pc = "insert" /\ task'[r] = Idle /\ UNCHANGED <<books, history>>
        BY <1>2, <1>a, <2>1 DEF Insert, Finish, Continue, books, history
    <3>2. Standing(task[r])'
        BY <3>1, IdleStands DEF Standing
    <3>3. task'[r].pc \notin {"readAccount", "writeAccount", "readHouse", "writeHouse"}
        BY <3>1 DEF Idle
    <3>. QED BY <1>b, <3>1, <3>2, <3>3, ReadsOnly DEF Sound
  <2>2. CASE accounts[task[r].tx.account] = "open"
    <3>1. PICK t \in Transaction : t = task[r].tx
        BY <1>2, <1>a, TaskOf DEF Insert, Creating
    <3>2. /\ task[r].pc = "insert" /\ task'[r] = [pc |-> "readAccount", tx |-> t]
          /\ txs[id] = None /\ txs' = [txs EXCEPT ![id] = t]
          /\ accounts[t.account] = "open"
          /\ UNCHANGED <<accounts, balance, houseBalance, base, houseBase>>
        BY <1>2, <1>a, <2>2, <3>1 DEF Insert, Continue, history
    <3>3. txs'[id] = t /\ \A i \in Ids \ {id} : txs'[i] = txs[i]
        BY <3>2 DEF Typed, BooksTyped
    <3>4. Signed(t) \in Int /\ t.account \in Accounts
        BY SignedIsInt DEF Transaction
    <3>5. Standing(task[r])' /\ RowsHaveAccounts'
      <4>1. Standing(task[r])'
          BY <3>2 DEF Standing
      <4>2. RowsHaveAccounts'
          BY <3>2, <3>3 DEF Good, RowsHaveAccounts
      <4>. QED BY <4>1, <4>2
    <3>6. /\ \A a : DebtTo(task[r], a) = 0 /\ DebtTo(task'[r], a) = WorthTo(t, a)
          /\ DebtToHouse(task[r]) = 0 /\ DebtToHouse(task'[r]) = Signed(t)
        BY <3>2 DEF DebtTo, DebtToHouse, Inserted, WorthTo
    <3>7. /\ \A a : WorthTo(txs[id], a) = 0
          /\ WorthToHouse(txs[id]) = 0 /\ WorthToHouse(txs'[id]) = Signed(t)
        BY <3>2, <3>3, MarkersAreNotRows DEF WorthTo, WorthToHouse
    <3>8. ASSUME NEW a \in Accounts PROVE AddsTo(a)'
      <4> SUFFICES ASSUME accounts[a] = "open" PROVE AddsTo(a)'
          BY <3>2 DEF AddsTo
      <4>1. PICK d \in Int : d = WorthTo(t, a)
          BY <3>4 DEF WorthTo
      <4>2. TotalOf(RowsOf(a))' = TotalOf(RowsOf(a)) + d
          BY <3>3, <3>7, <4>1, TotalsChange, TotalsAreInt
      <4>3. balance'[a] + DebtTo(task'[r], a) - base'[a]
                = balance[a] + DebtTo(task[r], a) - base[a] + d
          BY <1>c, <3>2, <3>6, <4>1
      <4>. QED BY <1>b, <4>2, <4>3, AddsStill DEF Good, Adds
    <3>9. AddsToHouse'
      <4>1. TotalOf(AllRows)' = TotalOf(AllRows) + Signed(t)
          BY <3>3, <3>4, <3>7, TotalsChange, TotalsAreInt
      <4>2. houseBalance' + DebtToHouse(task'[r]) - houseBase'
                = houseBalance + DebtToHouse(task[r]) - houseBase + Signed(t)
          BY <1>c, <3>2, <3>4, <3>6
      <4>. QED BY <1>b, <3>4, <4>1, <4>2, AddsToHouseStill DEF Good, Adds
    <3>. QED BY <3>5, <3>8, <3>9 DEF Sound, Adds
  <2>. QED BY <2>1, <2>2
<1>3. ASSUME ReadAccount(r) PROVE Sound(r)'
  <2>1. PICK t \in Transaction : t = task[r].tx
      BY <1>3, <1>a, TaskOf DEF ReadAccount, Creating
  <2>2. /\ task[r].pc = "readAccount" /\ UNCHANGED <<books, history>>
        /\ task'[r] = [pc |-> "writeAccount", tx |-> t, seen |-> balance[t.account]]
      BY <1>3, <1>a, <1>d, <2>1 DEF ReadAccount, Continue
  <2>3. Standing(task[r])'
      BY <1>a, <2>1, <2>2 DEF Standing, books
  <2>4. /\ \A a : DebtTo(task'[r], a) = DebtTo(task[r], a)
        /\ DebtToHouse(task'[r]) = DebtToHouse(task[r])
      BY <2>1, <2>2 DEF DebtTo, DebtToHouse, Inserted
  <2>. QED BY <1>b, <2>2, <2>3, <2>4, NothingBooked DEF Sound, books, history
<1>4. ASSUME WriteAccount(r) PROVE Sound(r)'
  <2>1. PICK t \in Transaction : t = task[r].tx
      BY <1>4, <1>a, TaskOf DEF WriteAccount, Writing
  <2>2. Signed(t) \in Int /\ t.account \in Accounts
      BY SignedIsInt DEF Transaction
  <2>3. /\ task[r].pc = "writeAccount" /\ task'[r] = [pc |-> "readHouse", tx |-> t]
        /\ balance' = [balance EXCEPT ![t.account] = balance[t.account] + Signed(t)]
        /\ UNCHANGED <<txs, accounts, houseBalance, base, houseBase>>
      BY <1>4, <1>a, <1>d, <2>1 DEF WriteAccount, Continue, Standing, history
  <2>4. Standing(task[r])' /\ RowsHaveAccounts'
      BY <2>3 DEF Standing, Good, RowsHaveAccounts
  <2>5. /\ \A a : DebtTo(task'[r], a) = 0 /\ DebtTo(task[r], a) = IF a = t.account THEN Signed(t) ELSE 0
        /\ DebtToHouse(task'[r]) = Signed(t) /\ DebtToHouse(task[r]) = Signed(t)
      BY <2>1, <2>3 DEF DebtTo, DebtToHouse, Inserted
  <2>6. ASSUME NEW a \in Accounts PROVE AddsTo(a)'
    <3> SUFFICES ASSUME accounts[a] = "open" PROVE AddsTo(a)'
        BY <2>3 DEF AddsTo
    <3>1. TotalOf(RowsOf(a))' = TotalOf(RowsOf(a)) + 0
        BY <2>3, TotalsSame, TotalsAreInt
    <3>2. balance'[a] + DebtTo(task'[r], a) - base'[a]
              = balance[a] + DebtTo(task[r], a) - base[a] + 0
      <4>1. CASE a = t.account
          BY <1>c, <2>2, <2>3, <2>5, <4>1
      <4>2. CASE a # t.account
          BY <1>c, <2>2, <2>3, <2>5, <4>2
      <4>. QED BY <4>1, <4>2
    <3>. QED BY <1>b, <3>1, <3>2, AddsStill DEF Good, Adds
  <2>7. AddsToHouse'
    <3>1. TotalOf(AllRows)' = TotalOf(AllRows) + 0
        BY <2>3, TotalsSame, TotalsAreInt
    <3>2. houseBalance' + DebtToHouse(task'[r]) - houseBase'
              = houseBalance + DebtToHouse(task[r]) - houseBase + 0
        BY <1>c, <2>2, <2>3, <2>5
    <3>. QED BY <1>b, <3>1, <3>2, AddsToHouseStill DEF Good, Adds
  <2>. QED BY <2>4, <2>6, <2>7 DEF Sound, Adds
<1>5. ASSUME ReadHouse(r) PROVE Sound(r)'
  <2>1. PICK t \in Transaction : t = task[r].tx
      BY <1>5, <1>a, TaskOf DEF ReadHouse, Creating
  <2>2. /\ task[r].pc = "readHouse" /\ UNCHANGED <<books, history>>
        /\ task'[r] = [pc |-> "writeHouse", tx |-> t, seen |-> houseBalance]
      BY <1>5, <1>a, <2>1 DEF ReadHouse, Continue
  <2>3. Standing(task[r])'
      BY <2>2 DEF Standing, books
  <2>4. /\ \A a : DebtTo(task'[r], a) = DebtTo(task[r], a)
        /\ DebtToHouse(task'[r]) = DebtToHouse(task[r])
      BY <2>1, <2>2 DEF DebtTo, DebtToHouse, Inserted
  <2>. QED BY <1>b, <2>2, <2>3, <2>4, NothingBooked DEF Sound, books, history
<1>6. ASSUME WriteHouse(r) PROVE Sound(r)'
  <2>1. PICK t \in Transaction : t = task[r].tx
      BY <1>6, <1>a, TaskOf DEF WriteHouse, Writing
  <2>2. Signed(t) \in Int
      BY SignedIsInt
  <2>3. /\ task[r].pc = "writeHouse" /\ task'[r] = Idle
        /\ houseBalance' = houseBalance + Signed(t)
        /\ UNCHANGED <<txs, accounts, balance, base, houseBase>>
      BY <1>6, <1>a, <2>1 DEF WriteHouse, Finish, Continue, Standing, history
  <2>4. Standing(task[r])' /\ RowsHaveAccounts'
      BY <2>3, IdleStands DEF Standing, Good, RowsHaveAccounts
  <2>5. /\ \A a : DebtTo(task'[r], a) = 0 /\ DebtTo(task[r], a) = 0
        /\ DebtToHouse(task'[r]) = 0 /\ DebtToHouse(task[r]) = Signed(t)
      BY <2>1, <2>3 DEF DebtTo, DebtToHouse, Inserted, Idle
  <2>6. ASSUME NEW a \in Accounts PROVE AddsTo(a)'
    <3> SUFFICES ASSUME accounts[a] = "open" PROVE AddsTo(a)'
        BY <2>3 DEF AddsTo
    <3>1. TotalOf(RowsOf(a))' = TotalOf(RowsOf(a)) + 0
        BY <2>3, TotalsSame, TotalsAreInt
    <3>2. balance'[a] + DebtTo(task'[r], a) - base'[a]
              = balance[a] + DebtTo(task[r], a) - base[a] + 0
        BY <1>c, <2>3, <2>5
    <3>. QED BY <1>b, <3>1, <3>2, AddsStill DEF Good, Adds
  <2>7. AddsToHouse'
    <3>1. TotalOf(AllRows)' = TotalOf(AllRows) + 0
        BY <2>3, TotalsSame, TotalsAreInt
    <3>2. houseBalance' + DebtToHouse(task'[r]) - houseBase'
              = houseBalance + DebtToHouse(task[r]) - houseBase + 0
        BY <1>c, <2>2, <2>3, <2>5
    <3>. QED BY <1>b, <3>1, <3>2, AddsToHouseStill DEF Good, Adds
  <2>. QED BY <2>4, <2>6, <2>7 DEF Sound, Adds
<1>. QED BY <1>1, <1>2, <1>3, <1>4, <1>5, <1>6 DEF CreateStep

(* Both balances move as the row does.                                     *)
LEMMA RowBooked ==
    ASSUME Typed, Typed', Good, NEW r \in Requests,
           \A q \in Requests \ {r} : task'[q] = task[q],
           task[r].pc \in {"update", "delete"}, task'[r] = Idle,
           NEW id \in Ids, NEW old \in Transaction, txs[id] = old, NEW new,
           txs' = [txs EXCEPT ![id] = new],
           new \in Transaction => new.account = old.account,
           NEW d \in Int, d = WorthToHouse(new) - Signed(old),
           balance' = [balance EXCEPT ![old.account] = @ + d],
           houseBalance' = houseBalance + d,
           UNCHANGED <<accounts, base, houseBase>>
    PROVE  Sound(r)'
<1>1. /\ \A a : DebtTo(task[r], a) = 0 /\ DebtTo(task'[r], a) = 0
      /\ DebtToHouse(task[r]) = 0 /\ DebtToHouse(task'[r]) = 0
    BY NoDebt DEF Idle
<1>2. txs'[id] = new /\ \A i \in Ids \ {id} : txs'[i] = txs[i]
    BY DEF Typed, BooksTyped
<1>3. Signed(old) \in Int /\ WorthToHouse(new) \in Int /\ old.account \in Accounts
    BY SignedIsInt DEF WorthToHouse, Transaction
<1>4. \A a : WorthTo(new, a) - WorthTo(old, a) = IF a = old.account THEN d ELSE 0
    BY <1>3 DEF WorthTo, WorthToHouse
<1>5. balance \in [Accounts -> Int] /\ houseBalance \in Int /\ houseBase \in Int
          /\ base \in [Accounts -> Int]
    BY DEF Typed, BooksTyped
<1>6. Standing(task[r])'
    BY IdleStands DEF Standing
<1>7. RowsHaveAccounts'
    BY <1>2 DEF Good, RowsHaveAccounts
<1>8. ASSUME NEW a \in Accounts PROVE AddsTo(a)'
  <2> SUFFICES ASSUME accounts[a] = "open" PROVE AddsTo(a)'
      BY DEF AddsTo
  <2>1. PICK e \in Int : e = IF a = old.account THEN d ELSE 0
      OBVIOUS
  <2>2. WorthTo(new, a) \in Int /\ WorthTo(old, a) \in Int
      BY SignedIsInt DEF WorthTo
  <2>3. TotalOf(RowsOf(a))' = TotalOf(RowsOf(a)) + e
    <3>1. PICK t \in Int : t = TotalOf(RowsOf(a))
        BY TotalsAreInt
    <3>2. TotalOf(RowsOf(a))' = t - WorthTo(old, a) + WorthTo(new, a)
        BY <1>2, <3>1, TotalsChange
    <3>3. WorthTo(new, a) - WorthTo(old, a) = e
        BY <1>4, <2>1
    <3>. QED BY <2>2, <3>1, <3>2, <3>3
  <2>4. balance'[a] = balance[a] + e
      BY <1>5, <2>1
  <2>5. balance'[a] + DebtTo(task'[r], a) - base'[a]
            = balance[a] + DebtTo(task[r], a) - base[a] + e
      BY <1>1, <1>5, <2>4
  <2>. QED BY <2>3, <2>5, AddsStill DEF Good, Adds
<1>9. AddsToHouse'
  <2>1. TotalOf(AllRows)' = TotalOf(AllRows) + d
    <3>1. WorthToHouse(old) = Signed(old)
        BY DEF WorthToHouse
    <3>. QED BY <1>2, <1>3, <3>1, TotalsChange, TotalsAreInt
  <2>2. houseBalance' + DebtToHouse(task'[r]) - houseBase'
            = houseBalance + DebtToHouse(task[r]) - houseBase + d
      BY <1>1, <1>5
  <2>. QED BY <2>1, <2>2, AddsToHouseStill DEF Good, Adds
<1>. QED BY <1>6, <1>7, <1>8, <1>9 DEF Sound, Adds

LEMMA ChangeSound ==
    ASSUME Typed, Typed', Good, Audit, intact', NEW r \in Requests, ChangeStep(r)
    PROVE  Sound(r)'
<1>a. task \in [Requests -> Task] /\ task[r] \in Task /\ Standing(task[r]) /\ BooksTyped
    BY DEF Typed, BooksTyped, Good
<1>b. \A q \in Requests \ {r} : task'[q] = task[q]
    BY StepTouches DEF Typed
<1>c. ASSUME task'[r] = Idle, task[r].pc \in {"update", "delete"}, UNCHANGED <<books, history>>
      PROVE  Sound(r)'
  <2>1. task'[r].pc \notin {"readAccount", "writeAccount", "readHouse", "writeHouse"}
      BY <1>c DEF Idle
  <2>2. Standing(task[r])'
      BY <1>c, IdleStands DEF Standing
  <2>. QED BY <1>b, <1>c, <2>1, <2>2, ReadsOnly DEF Sound
<1>1. ASSUME NEW id \in Ids, NEW p \in Patches, ReadForUpdate(r, id, p) PROVE Sound(r)'
  <2>1. /\ task[r].pc = "idle" /\ UNCHANGED <<books, history>>
        /\ task'[r] = [pc |-> "update", id |-> id, original |-> txs[id], patch |-> p]
      BY <1>1, <1>a DEF ReadForUpdate, Begin, Idle
  <2>2. Standing(task[r])'
      BY <2>1 DEF Standing, books
  <2>. QED BY <1>b, <2>1, <2>2, ReadsOnly DEF Sound
<1>2. ASSUME Update(r) PROVE Sound(r)'
  <2>1. task[r].pc = "update" /\ task'[r] = Idle /\ UNCHANGED <<accounts, base, houseBase>>
      BY <1>2, <1>a DEF Update, Finish, Continue, history
  <2>2. CASE UNCHANGED <<txs, balance, houseBalance>>
      BY <1>c, <2>1, <2>2 DEF books, history
  <2>3. CASE ~UNCHANGED <<txs, balance, houseBalance>>
    <3>1. PICK id \in Ids, old \in Transaction, p \in Patch, net \in Int :
              Written(r, id, old, p, net)
        BY <1>2, <1>a, <2>3, UpdateWrites
    <3>2. txs[id] = old
        BY <1>a, <3>1, MarkersAreNotRows DEF Written, Standing
    <3>3. PICK new \in Transaction : new = Merge(old, p)
        BY MergeIsTransaction
    <3>4. /\ txs' = [txs EXCEPT ![id] = new]
          /\ balance' = [balance EXCEPT ![old.account] = @ + net]
          /\ houseBalance' = houseBalance + net
        BY <3>1, <3>2, <3>3 DEF Written
    <3>5. new.account = old.account
      <4>1. txs'[id] = new
          BY <1>a, <3>4 DEF BooksTyped
      <4>. QED BY <3>2, <4>1, Audited DEF Strays
    <3>6. net = WorthToHouse(new) - Signed(old)
      <4>1. CASE p.type # None \/ p.amount # None
          BY <3>1, <3>2, <3>3, <4>1 DEF Written, WorthToHouse
      <4>2. CASE ~(p.type # None \/ p.amount # None)
        <5>1. net = 0
            BY <3>1, <4>2 DEF Written
        <5>2. Signed(new) = Signed(old)
            BY <3>3, <4>2 DEF Merge, Signed
        <5>. QED BY <5>1, <5>2, SignedIsInt DEF WorthToHouse
      <4>. QED BY <4>1, <4>2
    <3>. QED BY <1>b, <2>1, <3>2, <3>4, <3>5, <3>6, RowBooked
  <2>. QED BY <2>2, <2>3
<1>3. ASSUME NEW id \in Ids, ReadForRemove(r, id) PROVE Sound(r)'
  <2>1. /\ task[r].pc = "idle" /\ UNCHANGED <<books, history>>
        /\ task'[r] = [pc |-> "delete", id |-> id, original |-> txs[id]]
      BY <1>3, <1>a DEF ReadForRemove, Begin, Idle
  <2>2. Standing(task[r])'
      BY <2>1 DEF Standing, books
  <2>. QED BY <1>b, <2>1, <2>2, ReadsOnly DEF Sound
<1>4. ASSUME Delete(r) PROVE Sound(r)'
  <2>1. task[r].pc = "delete" /\ task'[r] = Idle /\ UNCHANGED <<accounts, base, houseBase>>
      BY <1>4, <1>a DEF Delete, Finish, Continue, history
  <2>2. CASE UNCHANGED <<txs, balance, houseBalance>>
      BY <1>c, <2>1, <2>2 DEF books, history
  <2>3. CASE ~UNCHANGED <<txs, balance, houseBalance>>
    <3>1. PICK id \in Ids, old \in Transaction : id = task[r].id /\ old = task[r].original
        BY <1>a, <2>1, TaskOf DEF Removing
    <3>2. /\ txs[id] \in Transaction
          /\ txs' = [txs EXCEPT ![id] = Deleted]
          /\ balance' = [balance EXCEPT ![old.account] = @ - Signed(old)]
          /\ houseBalance' = houseBalance - Signed(old)
        BY <1>4, <2>3, <3>1 DEF Delete
    <3>3. txs[id] = old
        BY <1>a, <2>1, <3>1, <3>2, MarkersAreNotRows DEF Standing
    <3>4. PICK d \in Int : d = -Signed(old)
        BY SignedIsInt
    <3>5. d = WorthToHouse(Deleted) - Signed(old)
        BY <3>4, MarkersAreNotRows, SignedIsInt DEF WorthToHouse
    <3>6. /\ balance' = [balance EXCEPT ![old.account] = @ + d]
          /\ houseBalance' = houseBalance + d
      <4>1. balance \in [Accounts -> Int] /\ houseBalance \in Int /\ old.account \in Accounts
                /\ Signed(old) \in Int
          BY <1>a, SignedIsInt DEF BooksTyped, Transaction
      <4>2. balance[old.account] - Signed(old) = balance[old.account] + d
          BY <3>4, <4>1
      <4>. QED BY <3>2, <3>4, <4>1, <4>2
    <3>. QED BY <1>b, <2>1, <3>2, <3>3, <3>5, <3>6, MarkersAreNotRows, RowBooked
  <2>. QED BY <2>2, <2>3
<1>. QED BY <1>1, <1>2, <1>3, <1>4 DEF ChangeStep

(* A step that leaves the table and the debts alone, for an account whose  *)
(* balance and base move together, and for the house.                      *)
LEMMA SetByHand ==
    ASSUME Typed, Typed', Good, NEW r \in Requests,
           \A q \in Requests \ {r} : task'[q] = task[q],
           task[r].pc \in {"idle", "recalculate", "drop"}, task'[r].pc = "idle", txs' = txs
    PROVE  /\ \A a \in Accounts :
                  accounts[a] = "open" /\ balance'[a] - base'[a] = balance[a] - base[a] => AddsTo(a)'
           /\ houseBalance' - houseBase' = houseBalance - houseBase => AddsToHouse'
<1>1. /\ \A a : DebtTo(task[r], a) = 0 /\ DebtTo(task'[r], a) = 0
      /\ DebtToHouse(task[r]) = 0 /\ DebtToHouse(task'[r]) = 0
    BY NoDebt
<1>2. /\ balance \in [Accounts -> Int] /\ base \in [Accounts -> Int]
      /\ balance' \in [Accounts -> Int] /\ base' \in [Accounts -> Int]
      /\ houseBalance \in Int /\ houseBase \in Int /\ houseBalance' \in Int /\ houseBase' \in Int
    BY DEF Typed, BooksTyped
<1>3. ASSUME NEW a \in Accounts, accounts[a] = "open",
             balance'[a] - base'[a] = balance[a] - base[a]
      PROVE  AddsTo(a)'
  <2>1. TotalOf(RowsOf(a))' = TotalOf(RowsOf(a)) + 0
      BY TotalsSame, TotalsAreInt
  <2>2. balance'[a] + DebtTo(task'[r], a) - base'[a]
            = balance[a] + DebtTo(task[r], a) - base[a] + 0
      BY <1>1, <1>2, <1>3
  <2>. QED BY <1>3, <2>1, <2>2, AddsStill DEF Good, Adds
<1>4. ASSUME houseBalance' - houseBase' = houseBalance - houseBase
      PROVE  AddsToHouse'
  <2>1. TotalOf(AllRows)' = TotalOf(AllRows) + 0
      BY TotalsSame, TotalsAreInt
  <2>2. PICK x \in Int, y \in Int, x1 \in Int, y1 \in Int :
            x = houseBalance /\ y = houseBase /\ x1 = houseBalance' /\ y1 = houseBase'
      BY <1>2
  <2>3. x1 + 0 - y1 = x + 0 - y + 0
    <3>1. x1 - y1 = x - y
        BY <1>4, <2>2
    <3>. QED BY <3>1
  <2>4. PICK z : z = DebtToHouse(task[r]) /\ z = 0
      BY <1>1
  <2>5. PICK z1 : z1 = DebtToHouse(task'[r]) /\ z1 = 0
      BY <1>1
  <2>6. houseBalance' + DebtToHouse(task'[r]) - houseBase' = x1 + z1 - y1
      BY <2>2, <2>5
  <2>7. houseBalance + DebtToHouse(task[r]) - houseBase + 0 = x + z - y + 0
      BY <2>2, <2>4
  <2>8. houseBalance' + DebtToHouse(task'[r]) - houseBase'
            = houseBalance + DebtToHouse(task[r]) - houseBase + 0
      BY <2>3, <2>4, <2>5, <2>6, <2>7
  <2>. QED BY <2>1, <2>8, AddsToHouseStill DEF Good, Adds
<1>. QED BY <1>3, <1>4

LEMMA AccountSound ==
    ASSUME Typed, Typed', Good, Audit, intact', NEW r \in Requests, AccountStep(r)
    PROVE  Sound(r)'
<1>a. task \in [Requests -> Task] /\ task[r] \in Task /\ Standing(task[r])
    BY DEF Typed, BooksTyped, Good
<1>b. \A q \in Requests \ {r} : task'[q] = task[q]
    BY StepTouches DEF Typed
<1>c. /\ balance \in [Accounts -> Int] /\ base \in [Accounts -> Int]
      /\ houseBalance \in Int /\ houseBase \in Int
      /\ accounts \in [Accounts -> {"new", "open", "closed"}]
    BY DEF Typed, BooksTyped
<1>1. ASSUME NEW a \in Accounts, ReadRows(r, a) PROVE Sound(r)'
  <2>1. PICK t : t = [pc |-> "recalculate", account |-> a, total |-> TotalOf(RowsOf(a))]
      OBVIOUS
  <2>2. task[r].pc = "idle" /\ UNCHANGED <<books, history>> /\ task'[r] = t
      BY <1>1, <1>a, <2>1 DEF ReadRows, Begin, Idle
  <2>3. t.pc = "recalculate" /\ t.account = a /\ t.total = TotalOf(RowsOf(a))
      BY <2>1
  <2>4. TotalOf(RowsOf(a))' = TotalOf(RowsOf(a))
      BY <2>2, TotalsSame DEF books
  <2>5. Standing(task[r])'
      BY <2>2, <2>3, <2>4 DEF Standing
  <2>. QED BY <1>b, <2>2, <2>3, <2>5, ReadsOnly DEF Sound
<1>2. ASSUME NEW a \in Accounts, CountRows(r, a) PROVE Sound(r)'
  <2>1. /\ task[r].pc = "idle" /\ UNCHANGED <<books, history>>
        /\ task'[r] = [pc |-> "drop", account |-> a]
      BY <1>2, <1>a DEF CountRows, Begin, Idle
  <2>2. Standing(task[r])'
      BY <2>1 DEF Standing
  <2>. QED BY <1>b, <2>1, <2>2, ReadsOnly DEF Sound
<1>3. ASSUME Recalculate(r) PROVE Sound(r)'
  <2>1. PICK a \in Accounts, b \in Int : a = task[r].account /\ b = task[r].total
      BY <1>3, <1>a, TaskOf DEF Recalculate, Setting
  <2>2. /\ task[r].pc = "recalculate" /\ task'[r] = Idle
        /\ UNCHANGED <<txs, accounts, houseBalance, houseBase>>
      BY <1>3, <1>a DEF Recalculate, Finish, Continue
  <2>3. Standing(task[r])' /\ RowsHaveAccounts' /\ task'[r].pc = "idle"
      BY <2>2, IdleStands DEF Standing, Good, RowsHaveAccounts, Idle
  <2>4. AddsToHouse'
      BY <1>b, <1>c, <2>2, <2>3, SetByHand
  <2>5. CASE accounts[a] # "open"
    <3>1. UNCHANGED <<books, history>>
        BY <1>3, <2>1, <2>2, <2>5 DEF Recalculate, books, history
    <3>. QED BY <1>b, <2>2, <2>3, <3>1, ReadsOnly DEF Sound
  <2>6. CASE accounts[a] = "open"
    <3>1. balance' = [balance EXCEPT ![a] = b] /\ base' = [base EXCEPT ![a] = 0]
        BY <1>3, <2>1, <2>6 DEF Recalculate
    <3>2. ASSUME NEW c \in Accounts, c # a PROVE AddsTo(c)'
      <4>1. balance'[c] - base'[c] = balance[c] - base[c]
          BY <3>1, <3>2
      <4>. QED BY <1>b, <2>2, <2>3, <4>1, SetByHand DEF AddsTo
    <3>3. AddsTo(a)'
      <4>1. ~CountsTwice(r)
        <5>1. task'[r] # task[r]
            BY <2>2 DEF Idle
        <5>. QED BY <5>1, Audited
      <4>2. OwingTo(a)' = {}
        <5> SUFFICES ASSUME NEW q \in Requests, task'[q].pc \in {"readAccount", "writeAccount"},
                            task'[q].tx.account = a
                     PROVE  FALSE
            BY DEF OwingTo, Owing
        <5>1. q # r
            BY <2>3
        <5>. QED BY <1>b, <2>1, <2>2, <4>1, <5>1 DEF CountsTwice
      <4>3. OwedTo(a)' = 0
          BY <4>2, NothingOwedNext
      <4>4. TotalOf(RowsOf(a))' = b
        <5>1. b = TotalOf(RowsOf(a))
            BY <1>a, <2>1, <2>2 DEF Standing
        <5>. QED BY <2>2, <5>1, TotalsSame
      <4>5. balance'[a] = b /\ base'[a] = 0
          BY <1>c, <3>1
      <4>. QED BY <4>3, <4>4, <4>5 DEF AddsTo
    <3>. QED BY <2>3, <2>4, <3>2, <3>3 DEF Sound, Adds
  <2>. QED BY <2>5, <2>6
<1>4. ASSUME DropAccount(r) PROVE Sound(r)'
  <2>1. PICK a \in Accounts : a = task[r].account
      BY <1>4, <1>a, TaskOf DEF DropAccount, Dropping
  <2>2. /\ task[r].pc = "drop" /\ task'[r] = Idle
        /\ UNCHANGED <<balance, houseBalance, base, houseBase>>
      BY <1>4, <1>a DEF DropAccount, Finish, Continue, history
  <2>3. Standing(task[r])' /\ task'[r].pc = "idle"
      BY <2>2, IdleStands DEF Standing, Idle
  <2>4. CASE accounts[a] # "open"
    <3>1. UNCHANGED <<books, history>>
        BY <1>4, <2>1, <2>2, <2>4 DEF DropAccount, books, history
    <3>. QED BY <1>b, <2>2, <2>3, <3>1, ReadsOnly DEF Sound
  <2>5. CASE accounts[a] = "open"
    <3>1. /\ accounts' = [accounts EXCEPT ![a] = "closed"]
          /\ txs' = [id \in Ids |-> IF id \in RowsOf(a) THEN Deleted ELSE txs[id]]
        BY <1>4, <2>1, <2>5 DEF DropAccount
    <3>2. accounts'[a] # "open" /\ \A c \in Accounts : c # a => accounts'[c] = accounts[c]
        BY <1>c, <3>1
    <3>3. RowsOf(a) = {}
      <4> SUFFICES ASSUME NEW id \in RowsOf(a) PROVE FALSE
          OBVIOUS
      <4>1. id \in Ids /\ txs[id] \in Transaction /\ txs[id].account = a /\ txs'[id] = Deleted
          BY <3>1 DEF RowsOf, AllRows
      <4>. QED BY <3>2, <4>1, Audited DEF Strays
    <3>4. txs' = txs
        BY <3>1, <3>3 DEF Typed, BooksTyped
    <3>5. RowsHaveAccounts'
      <4>1. \A id \in Ids : txs[id] \in Transaction =>
                txs[id].account # a /\ txs[id].account \in Accounts
          BY <3>3 DEF RowsOf, AllRows, Transaction
      <4>. QED BY <3>2, <3>4, <4>1 DEF Good, RowsHaveAccounts
    <3>6. ASSUME NEW c \in Accounts PROVE AddsTo(c)'
      <4>1. balance'[c] - base'[c] = balance[c] - base[c]
          BY <2>2
      <4>. QED BY <1>b, <2>2, <2>3, <3>2, <3>4, <4>1, SetByHand DEF AddsTo
    <3>7. AddsToHouse'
        BY <1>b, <2>2, <2>3, <3>4, SetByHand
    <3>. QED BY <2>3, <3>5, <3>6, <3>7 DEF Sound, Adds
  <2>. QED BY <2>4, <2>5
<1>5. ASSUME NEW a \in Accounts, NEW b \in Balances, OpenAccount(r, a, b) PROVE Sound(r)'
  <2>1. /\ task[r] = Idle /\ task'[r] = Idle /\ b \in Int /\ accounts[a] = "new"
        /\ accounts' = [accounts EXCEPT ![a] = "open"]
        /\ balance' = [balance EXCEPT ![a] = b] /\ base' = [base EXCEPT ![a] = b]
        /\ UNCHANGED <<txs, houseBalance, houseBase>>
      BY <1>5, <1>a, LedgerAssumption DEF OpenAccount, Begin, LedgerAssumption
  <2>2. task'[r].pc = "idle" /\ task[r].pc = "idle" /\ Standing(task[r])'
      BY <2>1, IdleStands DEF Standing, Idle
  <2>3. RowsHaveAccounts'
      BY <1>c, <2>1 DEF Good, RowsHaveAccounts
  <2>4. ASSUME NEW c \in Accounts, c # a PROVE AddsTo(c)'
    <3>1. balance'[c] - base'[c] = balance[c] - base[c] /\ accounts'[c] = accounts[c]
        BY <1>c, <2>1, <2>4
    <3>. QED BY <1>b, <2>1, <2>2, <3>1, SetByHand DEF AddsTo
  <2>5. AddsTo(a)'
    <3>1. RowsOf(a) = {}
        BY <2>1 DEF Good, RowsHaveAccounts, RowsOf, AllRows
    <3>2. TotalOf(RowsOf(a))' = 0
      <4>1. TotalOf(RowsOf(a)) = 0
          BY <3>1, SumEmpty DEF TotalOf
      <4>. QED BY <2>1, <4>1, TotalsSame
    <3>3. OwingTo(a) = {}
      <4> SUFFICES ASSUME NEW q \in Requests, task[q].pc \in {"readAccount", "writeAccount"},
                          task[q].tx.account = a
                   PROVE  FALSE
          BY DEF OwingTo, Owing
      <4>. QED BY <2>1 DEF Good, Standing
    <3>4. task' = task
        BY <1>a, <2>1, <1>5 DEF OpenAccount, Begin
    <3>5. OwedTo(a)' = 0
      <4>1. OwedTo(a)' = OwedTo(a)
          BY <3>4 DEF OwedTo, Owed, Owing
      <4>. QED BY <3>3, <4>1, NothingOwed
    <3>6. balance'[a] = b /\ base'[a] = b
        BY <1>c, <2>1
    <3>. QED BY <2>1, <3>2, <3>5, <3>6 DEF AddsTo
  <2>6. AddsToHouse'
      BY <1>b, <1>c, <2>1, <2>2, SetByHand
  <2>. QED BY <2>2, <2>3, <2>4, <2>5, <2>6 DEF Sound, Adds
<1>6. ASSUME NEW a \in Accounts, NEW b \in Balances, AdjustAccount(r, a, b) PROVE Sound(r)'
  <2>1. /\ task[r] = Idle /\ task'[r] = Idle /\ b \in Int
        /\ balance' = [balance EXCEPT ![a] = b]
        /\ base' = [base EXCEPT ![a] = base[a] + b - balance[a]]
        /\ UNCHANGED <<txs, accounts, houseBalance, houseBase>>
      BY <1>6, <1>a, LedgerAssumption DEF AdjustAccount, Begin, LedgerAssumption
  <2>2. task'[r].pc = "idle" /\ task[r].pc = "idle" /\ Standing(task[r])'
      BY <2>1, IdleStands DEF Standing, Idle
  <2>3. RowsHaveAccounts'
      BY <2>1 DEF Good, RowsHaveAccounts
  <2>4. ASSUME NEW c \in Accounts PROVE AddsTo(c)'
    <3>1. balance'[c] - base'[c] = balance[c] - base[c]
        BY <1>c, <2>1
    <3>. QED BY <1>b, <2>1, <2>2, <3>1, SetByHand DEF AddsTo
  <2>5. AddsToHouse'
      BY <1>b, <1>c, <2>1, <2>2, SetByHand
  <2>. QED BY <2>2, <2>3, <2>4, <2>5 DEF Sound, Adds
<1>7. ASSUME NEW b \in Balances, AdjustHouse(r, b) PROVE Sound(r)'
  <2>1. /\ task[r] = Idle /\ task'[r] = Idle /\ b \in Int
        /\ houseBalance' = b /\ houseBase' = houseBase + b - houseBalance
        /\ UNCHANGED <<txs, accounts, balance, base>>
      BY <1>7, <1>a, LedgerAssumption DEF AdjustHouse, Begin, LedgerAssumption
  <2>2. task'[r].pc = "idle" /\ task[r].pc = "idle" /\ Standing(task[r])'
      BY <2>1, IdleStands DEF Standing, Idle
  <2>3. RowsHaveAccounts'
      BY <2>1 DEF Good, RowsHaveAccounts
  <2>4. ASSUME NEW c \in Accounts PROVE AddsTo(c)'
      BY <1>b, <2>1, <2>2, SetByHand DEF AddsTo
  <2>5. AddsToHouse'
    <3>1. houseBalance' - houseBase' = houseBalance - houseBase
        BY <1>c, <2>1
    <3>. QED BY <1>b, <2>1, <2>2, <3>1, SetByHand
  <2>. QED BY <2>2, <2>3, <2>4, <2>5 DEF Sound, Adds
<1>. QED BY <1>1, <1>2, <1>3, <1>4, <1>5, <1>6, <1>7 DEF AccountStep

GoodInv == intact => Good

LEMMA GoodStep == Typed /\ GoodInv /\ [Next]_vars => GoodInv'
<1> SUFFICES ASSUME Typed, GoodInv, [Next]_vars, intact' PROVE Good'
    BY DEF GoodInv
<1>a. Typed'
    BY LedgerTypesStep DEF Typed
<1>1. CASE UNCHANGED vars
  <2>1. Good
      BY <1>1 DEF GoodInv, vars
  <2>2. UNCHANGED <<txs, accounts, balance, houseBalance, task, base, houseBase>>
      BY <1>1 DEF vars, books, history
  <2>. QED BY <2>1, <2>2 DEF Good, Standing, RowsHaveAccounts, Adds, AddsTo, AddsToHouse,
           OwedTo, OwedToHouse, Owed, Owing, TotalOf, RowsOf, AllRows
<1>2. CASE Restart
  <2>1. Audit /\ UNCHANGED <<books, history>> /\ restarts' # restarts
            /\ \A r \in Requests : task'[r] = Idle
      BY <1>2 DEF Restart, Typed, BooksTyped
  <2>2. Good
      BY <2>1, Audited DEF GoodInv
  <2>3. Owing = {} /\ Owing' = {}
    <3>1. ASSUME NEW r \in Requests, Inserted(task[r]) PROVE FALSE
      <4>1. task'[r] = Idle /\ task'[r] # task[r]
          BY <2>1, <3>1 DEF Inserted, Idle
      <4>. QED BY <2>1, <3>1, <4>1, Audited DEF Abandons, Inserted
    <3>2. ASSUME NEW r \in Requests PROVE ~Inserted(task'[r])
        BY <2>1 DEF Inserted, Idle
    <3>. QED BY <3>1, <3>2 DEF Owing
  <2>4. OwedToHouse' = OwedToHouse /\ \A a : OwedTo(a)' = OwedTo(a)
    <3>1. (Owing = {} => OwedToHouse = 0 /\ \A a : OwedTo(a) = 0)'
        BY NothingOwed, PTL
    <3>. QED BY <2>3, <3>1, NothingOwed
  <2>5. TotalOf(AllRows)' = TotalOf(AllRows) /\ \A a : TotalOf(RowsOf(a))' = TotalOf(RowsOf(a))
      BY <2>1, TotalsSame DEF books
  <2>6. Adds'
      BY <2>1, <2>2, <2>4, <2>5 DEF Good, Adds, AddsTo, AddsToHouse, books, history
  <2>7. RowsHaveAccounts' /\ \A r \in Requests : Standing(task[r])'
      BY <2>1, <2>2, IdleStands DEF Good, RowsHaveAccounts, books, Standing
  <2>. QED BY <2>6, <2>7 DEF Good
<1>3. ASSUME NEW r \in Requests, CreateStep(r) \/ ChangeStep(r) \/ AccountStep(r) PROVE Good'
  <2>1. Audit
      BY <1>3 DEF CreateStep, CheckAccount, Insert, ReadAccount, WriteAccount, ReadHouse, WriteHouse,
          ChangeStep, ReadForUpdate, Update, ReadForRemove, Delete, AccountStep, ReadRows, CountRows,
          Recalculate, DropAccount, OpenAccount, AdjustAccount, AdjustHouse
  <2>2. Good
      BY <2>1, Audited DEF GoodInv
  <2>3. Sound(r)'
      BY <1>a, <1>3, <2>1, <2>2, CreateSound, ChangeSound, AccountSound
  <2>4. \A a \in Accounts : accounts[a] # "new" => accounts'[a] # "new"
    <3>1. accounts \in [Accounts -> {"new", "open", "closed"}]
        BY DEF Typed, BooksTyped
    <3>. QED
        BY <1>3, <3>1 DEF CreateStep, CheckAccount, Insert, ReadAccount, WriteAccount, ReadHouse,
          WriteHouse, ChangeStep, ReadForUpdate, Update, ReadForRemove, Delete, AccountStep,
          ReadRows, CountRows, Recalculate, DropAccount, OpenAccount, AdjustAccount, AdjustHouse, books
  <2>5. OneRow
    <3>1. CASE DropAccount(r)
      <4>1. \A id \in Ids : txs'[id] = txs[id]
        <5> SUFFICES ASSUME NEW id \in Ids, txs'[id] # txs[id] PROVE FALSE
            OBVIOUS
        <5>1. PICK a \in Accounts : a = task[r].account
            BY <3>1, TaskOf DEF DropAccount, Dropping, Typed, BooksTyped
        <5>2. /\ txs[id] \in Transaction /\ txs[id].account = a /\ txs'[id] = Deleted
              /\ accounts' = [accounts EXCEPT ![a] = "closed"]
            BY <3>1, <5>1 DEF DropAccount, RowsOf, AllRows
        <5>3. accounts'[a] # "open"
            BY <5>2 DEF Typed, BooksTyped
        <5>. QED BY <2>1, <5>2, <5>3, Audited DEF Strays
      <4>2. txs' = txs
          BY <1>a, <4>1 DEF Typed, BooksTyped
      <4>. QED BY <4>2 DEF OneRow
    <3>2. CASE ~DropAccount(r)
        BY <1>3, <3>2, StepTouches DEF Typed
    <3>. QED BY <3>1, <3>2
  <2>6. ASSUME NEW q \in Requests, q # r PROVE Standing(task[q])'
    <3>1. task'[q] = task[q]
        BY <1>3, <2>6, StepTouches DEF Typed
    <3>. QED BY <1>a, <2>1, <2>2, <2>4, <2>5, <3>1, Audited, OthersStand DEF Good
  <2>. QED BY <2>3, <2>6 DEF Sound, Good
<1>. QED BY <1>1, <1>2, <1>3 DEF Next

LEMMA GoodInit == Init => GoodInv
<1> SUFFICES ASSUME Init PROVE Good
    BY DEF GoodInv
<1>1. Owing = {} /\ AllRows = {} /\ \A a : RowsOf(a) = {}
    BY MarkersAreNotRows DEF Init, Owing, Inserted, Idle, AllRows, RowsOf
<1>2. OwedToHouse = 0 /\ \A a : OwedTo(a) = 0
    BY <1>1, NothingOwed
<1>3. TotalOf({}) = 0
    BY SumEmpty DEF TotalOf
<1>4. TotalOf(AllRows) = 0
    BY <1>1, <1>3
<1>5. houseBalance \in Int
    BY LedgerAssumption DEF Init, LedgerAssumption
<1>6. Adds
    BY <1>2, <1>4, <1>5 DEF Init, Adds, AddsTo, AddsToHouse
<1>7. RowsHaveAccounts /\ \A r \in Requests : Standing(task[r])
    BY MarkersAreNotRows DEF Init, RowsHaveAccounts, Standing, Idle
<1>. QED BY <1>6, <1>7 DEF Good

(* Whatever creations, updates, removals and recalculations are under way  *)
(* at once, as long as none has spoiled another one's work each balance is *)
(* its base plus its transactions, less what is still owed to it: for any  *)
(* accounts, amounts, requests and restarts (processTransactionWorkflow,   *)
(* TransactionsService, AccountsService).                                  *)
THEOREM LedgerBalances == Spec => []LedgerAddsUp
<1>1. Init => Typed /\ GoodInv
    BY LedgerTypesInit, GoodInit DEF Typed
<1>2. Typed /\ GoodInv /\ [Next]_vars => Typed' /\ GoodInv'
    BY LedgerTypesStep, GoodStep DEF Typed
<1>3. GoodInv => LedgerAddsUp
    BY DEF GoodInv, Good, Adds, AddsTo, AddsToHouse, LedgerAddsUp
<1>. QED BY <1>1, <1>2, <1>3, PTL DEF Spec

-----------------------------------------------------------------------------
(* The steps that spoil nothing, in the atomic ledger.  As balances add up *)
(* what is seen of them is what the rows and the given sums amount to, so  *)
(* that only steps on rows, accounts and given sums are seen.              *)
FundsBooked ==
    [a \in Accounts |-> IF accounts[a] = "open" THEN base[a] + TotalOf(RowsOf(a)) ELSE 0]
TreasuryBooked == houseBase + TotalOf(AllRows)

LEMMA SeenIsBooked == Good => FundsSeen = FundsBooked /\ TreasurySeen = TreasuryBooked
BY DEF Good, Adds, AddsTo, AddsToHouse, FundsSeen, FundsBooked, TreasurySeen, TreasuryBooked

LEMMA SeenIsBookedNext == (Good => FundsSeen = FundsBooked /\ TreasurySeen = TreasuryBooked)'
BY SeenIsBooked, PTL

BookStep == [Book!BookNext]_(Book!bookVars)

LEMMA BookStutters ==
    ASSUME Good, Good', UNCHANGED <<txs, accounts, base, houseBase>>
    PROVE  BookStep
<1>1. FundsBooked' = FundsBooked /\ TreasuryBooked' = TreasuryBooked
    BY TotalsSame DEF FundsBooked, TreasuryBooked
<1>2. FundsSeen' = FundsSeen /\ TreasurySeen' = TreasurySeen
    BY <1>1, SeenIsBooked, SeenIsBookedNext
<1>. QED BY <1>2 DEF BookStep, Book!bookVars

(* One row comes, changes or goes, and stays in its account.               *)
LEMMA RowSeen ==
    ASSUME Typed, Typed', Good, Good', UNCHANGED <<accounts, base, houseBase>>,
           NEW id \in Ids, NEW row, txs' = [txs EXCEPT ![id] = row],
           NEW a \in Accounts, accounts[a] = "open",
           txs[id] \in Transaction => txs[id].account = a,
           row \in Transaction => row.account = a,
           NEW d \in Int, d = WorthToHouse(row) - WorthToHouse(txs[id])
    PROVE  Book!Credit(a, d)
<1>1. txs'[id] = row /\ \A i \in Ids \ {id} : txs'[i] = txs[i]
    BY DEF Typed, BooksTyped
<1>2. WorthToHouse(row) \in Int /\ WorthToHouse(txs[id]) \in Int
    BY SignedIsInt DEF WorthToHouse
<1>3. TotalOf(AllRows)' = TotalOf(AllRows) + d
  <2>1. TotalOf(AllRows)' = TotalOf(AllRows) - WorthToHouse(txs[id]) + WorthToHouse(txs'[id])
      BY <1>1, TotalsChange
  <2>. QED BY <1>1, <1>2, <2>1, TotalsAreInt
<1>4. ASSUME NEW b \in Accounts
      PROVE  TotalOf(RowsOf(b))' = TotalOf(RowsOf(b)) + IF b = a THEN d ELSE 0
  <2>1. TotalOf(RowsOf(b))' = TotalOf(RowsOf(b)) - WorthTo(txs[id], b) + WorthTo(txs'[id], b)
      BY <1>1, TotalsChange
  <2>2. /\ WorthTo(txs[id], b) = IF b = a THEN WorthToHouse(txs[id]) ELSE 0
        /\ WorthTo(txs'[id], b) = IF b = a THEN WorthToHouse(row) ELSE 0
      BY <1>1 DEF WorthTo, WorthToHouse
  <2>3. TotalOf(RowsOf(b)) \in Int
      BY TotalsAreInt
  <2>. QED BY <1>2, <2>1, <2>2, <2>3
<1>5. FundsBooked' = [FundsBooked EXCEPT ![a] = @ + d]
  <2>1. ASSUME NEW b \in Accounts
        PROVE  FundsBooked'[b] = FundsBooked[b] + IF b = a THEN d ELSE 0
    <3>1. base[b] \in Int /\ TotalOf(RowsOf(b)) \in Int
        BY TotalsAreInt DEF Typed, BooksTyped
    <3>2. PICK t \in Int : t = TotalOf(RowsOf(b))
        BY <3>1
    <3>3. FundsBooked[b] = IF accounts[b] = "open" THEN base[b] + t ELSE 0
        BY <3>2 DEF FundsBooked
    <3>4. FundsBooked'[b] = IF accounts[b] = "open"
                            THEN base[b] + (t + IF b = a THEN d ELSE 0) ELSE 0
        BY <1>4, <3>2 DEF FundsBooked
    <3>. QED BY <3>1, <3>3, <3>4
  <2>2. FundsBooked[a] \in Int /\ \A b \in Accounts : FundsBooked[b] \in Int
      BY TotalsAreInt DEF FundsBooked, Typed, BooksTyped
  <2>3. \A b \in Accounts : FundsBooked'[b] = [FundsBooked EXCEPT ![a] = @ + d][b]
      BY <2>1, <2>2 DEF FundsBooked
  <2>. QED BY <2>3 DEF FundsBooked
<1>6. TreasuryBooked' = TreasuryBooked + d
  <2>1. houseBase \in Int /\ TotalOf(AllRows) \in Int
      BY TotalsAreInt DEF Typed, BooksTyped
  <2>. QED BY <1>3, <2>1 DEF TreasuryBooked
<1>. QED BY <1>5, <1>6, SeenIsBooked, SeenIsBookedNext DEF Book!Credit

(* A given sum of one account changes, as that of the house may.           *)
LEMMA GivenSeen ==
    ASSUME Typed, Typed', Good, Good', UNCHANGED <<txs, accounts, houseBase>>,
           NEW a \in Accounts, accounts[a] = "open",
           NEW b, base' = [base EXCEPT ![a] = b]
    PROVE  BookStep
<1>1. base \in [Accounts -> Int] /\ base' \in [Accounts -> Int]
    BY DEF Typed, BooksTyped
<1>2. PICK d \in Int : d = base'[a] - base[a]
    BY <1>1
<1>3. base' = [base EXCEPT ![a] = @ + d]
  <2>1. base'[a] = b /\ base[a] + d = base'[a]
      BY <1>1, <1>2
  <2>. QED BY <2>1
<1>4. FundsBooked' = [FundsBooked EXCEPT ![a] = @ + d] /\ TreasuryBooked' = TreasuryBooked
  <2>1. ASSUME NEW c \in Accounts
        PROVE  FundsBooked'[c] = FundsBooked[c] + IF c = a THEN d ELSE 0
    <3>1. PICK t \in Int : t = TotalOf(RowsOf(c)) /\ TotalOf(RowsOf(c))' = t
        BY TotalsAreInt, TotalsSame
    <3>2. /\ FundsBooked[c] = IF accounts[c] = "open" THEN base[c] + t ELSE 0
          /\ FundsBooked'[c] = IF accounts[c] = "open" THEN base'[c] + t ELSE 0
        BY <3>1 DEF FundsBooked
    <3>3. base'[c] = base[c] + IF c = a THEN d ELSE 0
        BY <1>1, <1>3
    <3>. QED BY <1>1, <3>2, <3>3
  <2>2. \A c \in Accounts : FundsBooked[c] \in Int
      BY TotalsAreInt DEF FundsBooked, Typed, BooksTyped
  <2>3. \A c \in Accounts : FundsBooked'[c] = [FundsBooked EXCEPT ![a] = @ + d][c]
      BY <2>1, <2>2 DEF FundsBooked
  <2>. QED BY <2>3, TotalsSame DEF FundsBooked, TreasuryBooked
<1>5. Book!SetFunds(a, base'[a] - base[a])
    BY <1>2, <1>3, <1>4, SeenIsBooked, SeenIsBookedNext DEF Book!SetFunds
<1>. QED BY <1>5 DEF BookStep, Book!BookNext

LEMMA CreateSeen ==
    ASSUME Typed, Typed', Good, Good', NEW r \in Requests, CreateStep(r)
    PROVE  BookStep
<1>1. ASSUME NEW id \in Ids, Insert(r, id), accounts[task[r].tx.account] = "open"
      PROVE  BookStep
  <2>1. PICK t \in Transaction : t = task[r].tx
      BY <1>1, TaskOf DEF Insert, Creating, Typed, BooksTyped
  <2>2. /\ txs[id] = None /\ txs' = [txs EXCEPT ![id] = t]
        /\ UNCHANGED <<accounts, base, houseBase>>
      BY <1>1, <2>1 DEF Insert, history
  <2>3. t.account \in Accounts /\ Signed(t) \in Int
      BY SignedIsInt DEF Transaction
  <2>4. Signed(t) = WorthToHouse(t) - WorthToHouse(txs[id])
      BY <2>2, <2>3, MarkersAreNotRows DEF WorthToHouse
  <2>5. Book!Credit(t.account, Signed(t))
      BY <1>1, <2>1, <2>2, <2>3, <2>4, RowSeen, MarkersAreNotRows
  <2>6. Book!Effect(t) = Signed(t)
      BY DEF Book!Effect, Signed
  <2>7. Book!Post(id, t)
      BY <1>1, <2>1, <2>2, <2>5, <2>6 DEF Book!Post
  <2>8. t \in Book!Transaction
      BY DEF Transaction, Book!Transaction
  <2>. QED BY <2>7, <2>8 DEF BookStep, Book!BookNext
<1>2. ASSUME NEW id \in Ids, Insert(r, id), accounts[task[r].tx.account] # "open"
      PROVE  BookStep
    BY <1>2, BookStutters DEF Insert, history
<1>3. CASE \/ \E t \in Transaction : CheckAccount(r, t)
           \/ ReadAccount(r) \/ WriteAccount(r) \/ ReadHouse(r) \/ WriteHouse(r)
    BY <1>3, BookStutters
       DEF CheckAccount, ReadAccount, WriteAccount, ReadHouse, WriteHouse, books, history
<1>. QED BY <1>1, <1>2, <1>3 DEF CreateStep

LEMMA ChangeSeen ==
    ASSUME Typed, Typed', Good, Good', Audit, intact', NEW r \in Requests, ChangeStep(r)
    PROVE  BookStep
<1>1. ASSUME Update(r), txs' # txs PROVE BookStep
  <2>1. PICK id \in Ids, original \in Transaction, p \in Patch, net \in Int :
            Written(r, id, original, p, net)
      BY <1>1, UpdateWrites DEF Typed
  <2>2. PICK row \in Transaction : row = Merge(txs[id], p)
      BY <2>1, MergeIsTransaction DEF Written
  <2>3. PICK a \in Accounts : txs[id] \in Transaction /\ a = txs[id].account
      BY <2>1 DEF Written, Transaction
  <2>4. txs' = [txs EXCEPT ![id] = row] /\ txs'[id] = row
      BY <2>1, <2>2 DEF Written, Typed, BooksTyped
  <2>5. row.account = a /\ accounts[a] = "open"
      BY <2>3, <2>4, Audited DEF Strays, Good, RowsHaveAccounts
  <2>6. UNCHANGED <<accounts, base, houseBase>>
      BY <1>1 DEF Update, history
  <2>7. Signed(row) \in Int /\ Signed(txs[id]) \in Int
      BY <2>3, SignedIsInt
  <2>8. PICK d \in Int : d = Signed(row) - Signed(txs[id])
      BY <2>7
  <2>9. Book!Credit(a, d)
      BY <2>3, <2>4, <2>5, <2>6, <2>8, RowSeen DEF WorthToHouse
  <2>10. Book!Effect(row) - Book!Effect(txs[id]) = d
      BY <2>8 DEF Book!Effect, Signed
  <2>11. row \in Book!Transaction /\ txs[id] \in Book!Transaction
      BY <2>3 DEF Transaction, Book!Transaction
  <2>12. Book!Amend(id, row)
      BY <2>3, <2>4, <2>5, <2>9, <2>10, <2>11 DEF Book!Amend
  <2>. QED BY <2>11, <2>12 DEF BookStep, Book!BookNext
<1>2. ASSUME Delete(r), txs' # txs PROVE BookStep
  <2>1. PICK id \in Ids : id = task[r].id
      BY <1>2, TaskOf DEF Delete, Removing, Typed, BooksTyped
  <2>2. /\ txs[id] \in Transaction /\ txs' = [txs EXCEPT ![id] = Deleted]
        /\ UNCHANGED <<accounts, base, houseBase>>
      BY <1>2, <2>1 DEF Delete, history
  <2>3. PICK a \in Accounts : a = txs[id].account
      BY <2>2 DEF Transaction
  <2>4. accounts[a] = "open" /\ Signed(txs[id]) \in Int
      BY <2>2, <2>3, SignedIsInt DEF Good, RowsHaveAccounts
  <2>5. PICK d \in Int : d = -Signed(txs[id])
      BY <2>4
  <2>6. d = WorthToHouse(Deleted) - WorthToHouse(txs[id])
      BY <2>2, <2>4, <2>5, MarkersAreNotRows DEF WorthToHouse
  <2>7. Book!Credit(a, d)
      BY <2>2, <2>3, <2>4, <2>6, RowSeen, MarkersAreNotRows
  <2>8. -Book!Effect(txs[id]) = d
      BY <2>5 DEF Book!Effect, Signed
  <2>9. txs[id] \in Book!Transaction
      BY <2>2 DEF Transaction, Book!Transaction
  <2>10. Book!Reverse(id)
      BY <2>2, <2>3, <2>7, <2>8, <2>9 DEF Book!Reverse
  <2>. QED BY <2>10 DEF BookStep, Book!BookNext
<1>3. CASE txs' = txs
    BY <1>3, BookStutters
       DEF ChangeStep, ReadForUpdate, Update, ReadForRemove, Delete, books, history
<1>4. CASE \E id \in Ids : ReadForRemove(r, id) \/ \E p \in Patches : ReadForUpdate(r, id, p)
    BY <1>4, <1>3 DEF ReadForUpdate, ReadForRemove, books
<1>. QED BY <1>1, <1>2, <1>3, <1>4 DEF ChangeStep

(* An account that comes or goes has no rows.                              *)
LEMMA AccountSeen ==
    ASSUME Typed, Typed', Good, Good', Audit, intact', NEW r \in Requests, AccountStep(r)
    PROVE  BookStep
<1>a. /\ accounts \in [Accounts -> {"new", "open", "closed"}]
      /\ base \in [Accounts -> Int] /\ base' \in [Accounts -> Int]
    BY DEF Typed, BooksTyped
<1>1. ASSUME NEW a \in Accounts, ReadRows(r, a) \/ CountRows(r, a) PROVE BookStep
    BY <1>1, BookStutters DEF ReadRows, CountRows, books, history
<1>2. ASSUME Recalculate(r) PROVE BookStep
  <2>1. PICK a \in Accounts : a = task[r].account
      BY <1>2, TaskOf DEF Recalculate, Setting, Typed, BooksTyped
  <2>2. UNCHANGED <<txs, accounts, houseBase>>
      BY <1>2 DEF Recalculate
  <2>3. CASE accounts[a] = "open"
    <3>1. base' = [base EXCEPT ![a] = 0]
        BY <1>2, <2>1, <2>3 DEF Recalculate
    <3>. QED BY <2>2, <2>3, <3>1, GivenSeen
  <2>4. CASE accounts[a] # "open"
    <3>1. base' = base
        BY <1>2, <2>1, <2>4 DEF Recalculate
    <3>. QED BY <2>2, <3>1, BookStutters
  <2>. QED BY <2>3, <2>4
<1>3. ASSUME DropAccount(r) PROVE BookStep
  <2>1. PICK a \in Accounts : a = task[r].account
      BY <1>3, TaskOf DEF DropAccount, Dropping, Typed, BooksTyped
  <2>2. UNCHANGED <<base, houseBase>>
      BY <1>3 DEF DropAccount, history
  <2>3. CASE accounts[a] # "open"
    <3>1. UNCHANGED <<txs, accounts>>
        BY <1>3, <2>1, <2>3 DEF DropAccount
    <3>. QED BY <2>2, <3>1, BookStutters
  <2>4. CASE accounts[a] = "open"
    <3>1. /\ accounts' = [accounts EXCEPT ![a] = "closed"]
          /\ txs' = [id \in Ids |-> IF id \in RowsOf(a) THEN Deleted ELSE txs[id]]
        BY <1>3, <2>1, <2>4 DEF DropAccount
    <3>2. accounts'[a] = "closed" /\ \A c \in Accounts \ {a} : accounts'[c] = accounts[c]
        BY <1>a, <3>1
    <3>3. RowsOf(a) = {}
      <4> SUFFICES ASSUME NEW id \in RowsOf(a) PROVE FALSE
          OBVIOUS
      <4>1. id \in Ids /\ txs[id] \in Transaction /\ txs[id].account = a /\ txs'[id] = Deleted
          BY <3>1 DEF RowsOf, AllRows
      <4>. QED BY <3>2, <4>1, Audited DEF Strays
    <3>4. txs' = txs
        BY <3>1, <3>3 DEF Typed, BooksTyped
    <3>5. FundsBooked' = [FundsBooked EXCEPT ![a] = 0]
      <4>1. \A c \in Accounts : FundsBooked'[c] = IF c = a THEN 0 ELSE FundsBooked[c]
          BY <2>2, <3>2, <3>4, TotalsSame DEF FundsBooked
      <4>. QED BY <4>1 DEF FundsBooked
    <3>6. TreasuryBooked' = TreasuryBooked
        BY <2>2, <3>4, TotalsSame DEF TreasuryBooked
    <3>7. \A id \in Ids : txs[id] \in Book!Transaction => txs[id].account # a
        BY <3>3 DEF RowsOf, AllRows, Transaction, Book!Transaction
    <3>8. Book!Close(a)
        BY <2>2, <2>4, <3>1, <3>4, <3>5, <3>6, <3>7, SeenIsBooked, SeenIsBookedNext
           DEF Book!Close
    <3>. QED BY <3>8 DEF BookStep, Book!BookNext
  <2>. QED BY <2>3, <2>4
<1>4. ASSUME NEW a \in Accounts, NEW b \in Balances, OpenAccount(r, a, b) PROVE BookStep
  <2>1. /\ accounts[a] = "new" /\ accounts' = [accounts EXCEPT ![a] = "open"]
        /\ base' = [base EXCEPT ![a] = b] /\ UNCHANGED <<txs, houseBase>>
      BY <1>4 DEF OpenAccount
  <2>2. b \in Int /\ base'[a] = b
      BY <1>a, <2>1, LedgerAssumption DEF LedgerAssumption
  <2>3. accounts'[a] = "open" /\ \A c \in Accounts \ {a} : accounts'[c] = accounts[c]
      BY <1>a, <2>1
  <2>4. TotalOf(RowsOf(a)) = 0
    <3>1. RowsOf(a) = {}
        BY <2>1 DEF Good, RowsHaveAccounts, RowsOf, AllRows
    <3>. QED BY <3>1, SumEmpty DEF TotalOf
  <2>5. FundsBooked' = [FundsBooked EXCEPT ![a] = b]
    <3>1. FundsBooked'[a] = b
        BY <2>1, <2>2, <2>3, <2>4, TotalsSame DEF FundsBooked
    <3>2. \A c \in Accounts \ {a} : FundsBooked'[c] = FundsBooked[c]
        BY <1>a, <2>1, <2>3, TotalsSame DEF FundsBooked
    <3>. QED BY <3>1, <3>2 DEF FundsBooked
  <2>6. TreasuryBooked' = TreasuryBooked
      BY <2>1, TotalsSame DEF TreasuryBooked
  <2>7. Book!Open(a, base'[a])
      BY <2>1, <2>2, <2>5, <2>6, SeenIsBooked, SeenIsBookedNext DEF Book!Open
  <2>. QED BY <2>7 DEF BookStep, Book!BookNext
<1>5. ASSUME NEW a \in Accounts, NEW b \in Balances, AdjustAccount(r, a, b) PROVE BookStep
  <2>1. /\ accounts[a] = "open" /\ UNCHANGED <<txs, accounts, houseBase>>
        /\ base' = [base EXCEPT ![a] = @ + b - balance[a]]
      BY <1>5 DEF AdjustAccount
  <2>2. PICK c : base' = [base EXCEPT ![a] = c]
      BY <2>1
  <2>. QED BY <2>1, <2>2, GivenSeen
<1>6. ASSUME NEW b \in Balances, AdjustHouse(r, b) PROVE BookStep
  <2>1. UNCHANGED <<txs, accounts, base>>
      BY <1>6 DEF AdjustHouse
  <2>2. PICK h \in Int, k \in Int : h = houseBase /\ k = houseBase'
      BY DEF Typed, BooksTyped
  <2>3. PICK d \in Int : d = houseBase' - houseBase /\ houseBase' = houseBase + d
    <3>1. k - h \in Int /\ k = h + (k - h)
        OBVIOUS
    <3>. QED BY <2>2, <3>1
  <2>4. TreasuryBooked' = TreasuryBooked + d
    <3>1. PICK t \in Int : t = TotalOf(AllRows) /\ TotalOf(AllRows)' = t
        BY <2>1, TotalsAreInt, TotalsSame
    <3>. QED BY <2>2, <2>3, <3>1 DEF TreasuryBooked
  <2>5. FundsBooked' = FundsBooked
      BY <2>1, TotalsSame DEF FundsBooked
  <2>6. Book!SetTreasury(houseBase' - houseBase)
      BY <2>1, <2>3, <2>4, <2>5, SeenIsBooked, SeenIsBookedNext DEF Book!SetTreasury
  <2>. QED BY <2>6 DEF BookStep, Book!BookNext
<1>. QED BY <1>1, <1>2, <1>3, <1>4, <1>5, <1>6 DEF AccountStep

LEMMA SeenStep == Typed /\ GoodInv /\ [Next]_vars => (intact' => BookStep)
<1> SUFFICES ASSUME Typed, GoodInv, [Next]_vars, intact' PROVE BookStep
    OBVIOUS
<1>1. Typed' /\ Good'
    BY LedgerTypesStep, GoodStep DEF Typed, GoodInv
<1>2. CASE UNCHANGED vars
    BY <1>1, <1>2, BookStutters DEF GoodInv, vars, books, history
<1>3. CASE Restart
  <2>1. Good
      BY <1>3, Audited DEF Restart, GoodInv
  <2>. QED BY <1>1, <1>3, <2>1, BookStutters DEF Restart, books, history
<1>4. ASSUME NEW r \in Requests, CreateStep(r) \/ ChangeStep(r) \/ AccountStep(r)
      PROVE  BookStep
  <2>1. Audit
      BY <1>4 DEF CreateStep, CheckAccount, Insert, ReadAccount, WriteAccount, ReadHouse, WriteHouse,
          ChangeStep, ReadForUpdate, Update, ReadForRemove, Delete, AccountStep, ReadRows, CountRows,
          Recalculate, DropAccount, OpenAccount, AdjustAccount, AdjustHouse
  <2>2. Good
      BY <2>1, Audited DEF GoodInv
  <2>. QED BY <1>1, <1>4, <2>1, <2>2, CreateSeen, ChangeSeen, AccountSeen
<1>. QED BY <1>2, <1>3, <1>4 DEF Next

LEMMA SeenInit == Init => Book!BookInit
<1> SUFFICES ASSUME Init PROVE Book!BookInit
    OBVIOUS
<1>1. Owing = {}
    BY DEF Init, Owing, Inserted, Idle
<1>2. OwedToHouse = 0
    BY <1>1, NothingOwed
<1>3. houseBalance \in Int /\ houseBase = houseBalance
    BY LedgerAssumption DEF Init, LedgerAssumption
<1>4. TreasurySeen = houseBalance
    BY <1>2, <1>3 DEF TreasurySeen
<1>5. FundsSeen = [a \in Accounts |-> 0]
    BY DEF Init, FundsSeen
<1>. QED BY <1>3, <1>4, <1>5 DEF Init, Book!BookInit

(* Whatever creations, updates, removals, recalculations and adjustments   *)
(* run at once, and across restarts, each step is one of the atomic ledger *)
(* or none until a request spoils another one's work: for any accounts,    *)
(* amounts, requests and patches (processTransactionWorkflow,              *)
(* TransactionsService, AccountsService).                                  *)
THEOREM LedgerIsAtomic == Spec => AtomicWhileIntact
<1>1. Init => Typed /\ GoodInv /\ Book!BookInit
    BY LedgerTypesInit, GoodInit, SeenInit DEF Typed
<1>2. Typed /\ GoodInv /\ [Next]_vars => Typed' /\ GoodInv'
    BY LedgerTypesStep, GoodStep DEF Typed
<1>3. Typed /\ GoodInv /\ [Next]_vars => [intact' => BookStep]_vars
    BY SeenStep
<1>4. Spec => Book!BookInit /\ [][intact' => BookStep]_vars
    BY <1>1, <1>2, <1>3, PTL DEF Spec
<1>. QED BY <1>4 DEF AtomicWhileIntact, BookStep
=============================================================================
