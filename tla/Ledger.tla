------------------------------- MODULE Ledger -------------------------------
(***************************************************************************)
(* The books of one house: the transactions table, the balance column of   *)
(* each account and that of the house, and the requests of officers that   *)
(* create, update and remove transactions, recalculate an account, set a   *)
(* balance by hand, and open or remove accounts.  Creating a transaction   *)
(* is five database calls in no database transaction; updating or removing *)
(* one is a read followed by one database transaction.  Amounts are whole  *)
(* numbers (the columns are floats).                                       *)
(***************************************************************************)
EXTENDS Integers, FiniteSets, Functions

CONSTANTS
    Accounts,       \* accounts of the house
    Ids,            \* identifiers of transactions, never used again
    Requests,       \* concurrent requests
    Kinds,          \* the kinds of request the officers make
    Amounts,        \* amounts of transactions
    Patches,        \* bodies of PATCH /transactions/:id
    Balances,       \* initial balances and balances set by hand
    MaxRestarts,    \* bound on restarts of the server
    None, Deleted   \* an unused identifier or absent field; a removed row

Types == {"INCOME", "EXPENSE"}
Transaction == [type : Types, amount : Amounts, account : Accounts]
Patch == [type : Types \cup {None}, amount : Amounts \cup {None},
          account : Accounts \cup {None}]

ASSUME LedgerAssumption ==
    /\ Amounts \subseteq Nat /\ Balances \subseteq Int
    /\ Patches \subseteq Patch
    /\ MaxRestarts \in Nat
    /\ None \notin Transaction \cup Types \cup Amounts \cup Accounts
    /\ Deleted \notin Transaction /\ Deleted # None

VARIABLES
    txs,            \* the transactions table
    accounts,       \* "new", "open" or "closed"
    balance,        \* the balance column of each account
    houseBalance,   \* the balance column of the house
    task,           \* the state of each request between two database calls
    restarts,       \* history: restarts of the server
    base,           \* history: what each balance owes to no transaction
    houseBase,
    intact          \* history: no request has spoiled another one's work

books == <<txs, accounts, balance, houseBalance>>
history == <<base, houseBase>>
vars == <<books, task, restarts, history, intact>>

Idle == [pc |-> "idle"]
Creating == [pc : {"insert", "readAccount", "readHouse"}, tx : Transaction]
Writing == [pc : {"writeAccount", "writeHouse"}, tx : Transaction, seen : Int]
Changing == [pc : {"update"}, id : Ids, original : Transaction, patch : Patch]
Removing == [pc : {"delete"}, id : Ids, original : Transaction]
Setting == [pc : {"recalculate"}, account : Accounts, total : Int]
Dropping == [pc : {"drop"}, account : Accounts]

TypeOK ==
    /\ txs \in [Ids -> Transaction \cup {None, Deleted}]
    /\ accounts \in [Accounts -> {"new", "open", "closed"}]
    /\ balance \in [Accounts -> Int]
    /\ houseBalance \in Int
    /\ task \in [Requests -> Creating \cup Writing \cup Changing \cup Removing
                             \cup Setting \cup Dropping \cup {Idle}]
    /\ restarts \in 0 .. MaxRestarts
    /\ base \in [Accounts -> Int]
    /\ houseBase \in Int
    /\ intact \in BOOLEAN

Init ==
    /\ txs = [id \in Ids |-> None]
    /\ accounts = [a \in Accounts |-> "new"]
    /\ balance = [a \in Accounts |-> 0]
    /\ houseBalance \in Balances
    /\ task = [r \in Requests |-> Idle]
    /\ restarts = 0
    /\ base = balance
    /\ houseBase = houseBalance
    /\ intact = TRUE

-----------------------------------------------------------------------------
\* balanceChange: an income adds, an expense takes away.
Signed(t) == IF t.type = "INCOME" THEN t.amount ELSE -t.amount

AllRows == {id \in Ids : txs[id] \in Transaction}
RowsOf(a) == {id \in AllRows : txs[id].account = a}

\* Faulty form: the old row is not taken back.
NewEffect(original, row) == Signed(row)

\* netBalanceChange
NetChange(original, row) == Signed(row) - Signed(original)

\* The row after prisma.transaction.update: a field left out stays.
Merge(t, p) ==
    [type    |-> IF p.type = None THEN t.type ELSE p.type,
     amount  |-> IF p.amount = None THEN t.amount ELSE p.amount,
     account |-> IF p.account = None THEN t.account ELSE p.account]

Begin(r, kind, t) ==
    /\ kind \in Kinds
    /\ task[r] = Idle
    /\ task' = [task EXCEPT ![r] = t]

Continue(r, t) == task' = [task EXCEPT ![r] = t]
Finish(r) == Continue(r, Idle)

-----------------------------------------------------------------------------
(* The ways in which a step spoils the work of another request, or its own.*)
Inserted(t) == t.pc \in {"readAccount", "writeAccount", "readHouse", "writeHouse"}

\* What a request has read and will write from is changed by another one.
Outdates(r) ==
    LET t == task[r]
    IN  \/ t.pc = "writeAccount" /\ balance'[t.tx.account] # balance[t.tx.account]
        \/ t.pc = "writeHouse" /\ houseBalance' # houseBalance
        \/ t.pc \in {"update", "delete"} /\ txs'[t.id] \notin {t.original, Deleted}
        \/ t.pc = "recalculate" /\ \E id \in Ids :
                /\ txs'[id] # txs[id]
                /\ t.account \in {x.account : x \in {txs[id], txs'[id]} \cap Transaction}

\* A recalculation counts a row that its creator has yet to add.
CountsTwice(r) ==
    /\ task[r].pc = "recalculate"
    /\ \E s \in Requests : /\ task[s].pc \in {"readAccount", "writeAccount"}
                           /\ task[s].tx.account = task[r].account

\* A creation stops after its row is in.
Abandons(r) ==
    /\ task'[r] = Idle
    /\ \/ task[r].pc \in {"readAccount", "writeAccount", "readHouse"}
       \/ task[r].pc = "writeHouse" /\ restarts' # restarts

\* A row goes to another account, or away with its account.
Strays(id) ==
    /\ txs[id] \in Transaction
    /\ \/ txs'[id] \in Transaction /\ txs'[id].account # txs[id].account
       \/ txs'[id] = Deleted /\ accounts'[txs[id].account] # "open"

Audit ==
    intact' = ( /\ intact
                /\ \A r \in Requests :
                       IF task'[r] = task[r] THEN ~Outdates(r)
                       ELSE ~Abandons(r) /\ ~CountsTwice(r)
                /\ \A id \in Ids : ~Strays(id) )

-----------------------------------------------------------------------------
(* Creating a transaction: TransactionsService.create checks the account,  *)
(* then processTransactionWorkflow inserts the row, and reads and writes   *)
(* the balance of the account and that of the house.                       *)
CheckAccount(r, t) ==
    /\ accounts[t.account] = "open"
    /\ Begin(r, "create", [pc |-> "insert", tx |-> t])
    /\ UNCHANGED <<books, restarts, history>>
    /\ Audit

\* Refused by the foreign key when the account is gone.
Insert(r, id) ==
    /\ task[r].pc = "insert"
    /\ txs[id] = None
    /\ IF accounts[task[r].tx.account] = "open"
       THEN /\ txs' = [txs EXCEPT ![id] = task[r].tx]
            /\ Continue(r, [pc |-> "readAccount", tx |-> task[r].tx])
       ELSE Finish(r) /\ UNCHANGED txs
    /\ UNCHANGED <<accounts, balance, houseBalance, restarts, history>>
    /\ Audit

ReadAccount(r) ==
    /\ task[r].pc = "readAccount"
    /\ IF accounts[task[r].tx.account] = "open"
       THEN Continue(r, [pc |-> "writeAccount", tx |-> task[r].tx,
                         seen |-> balance[task[r].tx.account]])
       ELSE Finish(r)
    /\ UNCHANGED <<books, restarts, history>>
    /\ Audit

\* The new balance is computed from the one read before.
WriteAccount(r) ==
    /\ task[r].pc = "writeAccount"
    /\ IF accounts[task[r].tx.account] = "open"
       THEN /\ balance' = [balance EXCEPT ![task[r].tx.account] =
                               task[r].seen + Signed(task[r].tx)]
            /\ Continue(r, [pc |-> "readHouse", tx |-> task[r].tx])
       ELSE Finish(r) /\ UNCHANGED balance
    /\ UNCHANGED <<txs, accounts, houseBalance, restarts, history>>
    /\ Audit

ReadHouse(r) ==
    /\ task[r].pc = "readHouse"
    /\ Continue(r, [pc |-> "writeHouse", tx |-> task[r].tx, seen |-> houseBalance])
    /\ UNCHANGED <<books, restarts, history>>
    /\ Audit

WriteHouse(r) ==
    /\ task[r].pc = "writeHouse"
    /\ houseBalance' = task[r].seen + Signed(task[r].tx)
    /\ Finish(r)
    /\ UNCHANGED <<txs, accounts, balance, restarts, history>>
    /\ Audit

-----------------------------------------------------------------------------
(* Updating and removing: findOne reads the row outside the database       *)
(* transaction that changes it.                                            *)
ReadForUpdate(r, id, p) ==
    /\ txs[id] \in Transaction
    /\ Begin(r, "update", [pc |-> "update", id |-> id, original |-> txs[id], patch |-> p])
    /\ UNCHANGED <<books, restarts, history>>
    /\ Audit

\* Both balances move by the difference between the row as written and the
\* row as it was read, on the account it was read in.
Update(r) ==
    /\ task[r].pc = "update"
    /\ Finish(r)
    /\ LET id == task[r].id
           p == task[r].patch
           original == task[r].original
           row == Merge(txs[id], p)
           affecting == p.type # None \/ p.amount # None
           net == IF affecting THEN NetChange(original, row) ELSE 0
       IN  IF /\ txs[id] \in Transaction
              /\ p.account # None => accounts[p.account] = "open"
              /\ affecting => accounts[original.account] = "open"
           THEN /\ txs' = [txs EXCEPT ![id] = row]
                /\ balance' = [balance EXCEPT ![original.account] = @ + net]
                /\ houseBalance' = houseBalance + net
           ELSE UNCHANGED <<txs, balance, houseBalance>>
    /\ UNCHANGED <<accounts, restarts, history>>
    /\ Audit

ReadForRemove(r, id) ==
    /\ txs[id] \in Transaction
    /\ Begin(r, "remove", [pc |-> "delete", id |-> id, original |-> txs[id]])
    /\ UNCHANGED <<books, restarts, history>>
    /\ Audit

\* Faulty form: deleteMany, which does not mind that the row is gone.
DeleteAgain(r) ==
    /\ task[r].pc = "delete"
    /\ Finish(r)
    /\ LET id == task[r].id
           original == task[r].original
       IN  IF accounts[original.account] = "open"
           THEN /\ txs' = [txs EXCEPT ![id] = Deleted]
                /\ balance' = [balance EXCEPT ![original.account] = @ - Signed(original)]
                /\ houseBalance' = houseBalance - Signed(original)
           ELSE UNCHANGED <<txs, balance, houseBalance>>
    /\ UNCHANGED <<accounts, restarts, history>>
    /\ Audit

\* A row that is gone rolls the database transaction back.
Delete(r) ==
    /\ task[r].pc = "delete"
    /\ Finish(r)
    /\ LET id == task[r].id
           original == task[r].original
       IN  IF txs[id] \in Transaction /\ accounts[original.account] = "open"
           THEN /\ txs' = [txs EXCEPT ![id] = Deleted]
                /\ balance' = [balance EXCEPT ![original.account] = @ - Signed(original)]
                /\ houseBalance' = houseBalance - Signed(original)
           ELSE UNCHANGED <<txs, balance, houseBalance>>
    /\ UNCHANGED <<accounts, restarts, history>>
    /\ Audit

-----------------------------------------------------------------------------
(* AccountsService.                                                        *)
TotalOf(S) == SumFunctionOnSet([id \in AllRows |-> Signed(txs[id])], S)

ReadRows(r, a) ==
    /\ accounts[a] = "open"
    /\ Begin(r, "recalculate",
             [pc |-> "recalculate", account |-> a, total |-> TotalOf(RowsOf(a))])
    /\ UNCHANGED <<books, restarts, history>>
    /\ Audit

\* From here on the balance is that of the transactions alone.
Recalculate(r) ==
    /\ task[r].pc = "recalculate"
    /\ LET a == task[r].account
       IN  IF accounts[a] = "open"
           THEN /\ balance' = [balance EXCEPT ![a] = task[r].total]
                /\ base' = [base EXCEPT ![a] = 0]
           ELSE UNCHANGED <<balance, base>>
    /\ Finish(r)
    /\ UNCHANGED <<txs, accounts, houseBalance, restarts, houseBase>>
    /\ Audit

OpenAccount(r, a, b) ==
    /\ accounts[a] = "new"
    /\ Begin(r, "account", Idle)
    /\ accounts' = [accounts EXCEPT ![a] = "open"]
    /\ balance' = [balance EXCEPT ![a] = b]
    /\ base' = [base EXCEPT ![a] = b]
    /\ UNCHANGED <<txs, houseBalance, restarts, houseBase>>
    /\ Audit

\* PATCH of an account or of the house with a balance.
AdjustAccount(r, a, b) ==
    /\ accounts[a] = "open"
    /\ Begin(r, "adjust", Idle)
    /\ balance' = [balance EXCEPT ![a] = b]
    /\ base' = [base EXCEPT ![a] = @ + b - balance[a]]
    /\ UNCHANGED <<txs, accounts, houseBalance, restarts, houseBase>>
    /\ Audit

AdjustHouse(r, b) ==
    /\ Begin(r, "adjust", Idle)
    /\ houseBalance' = b
    /\ houseBase' = houseBase + b - houseBalance
    /\ UNCHANGED <<txs, accounts, balance, restarts, base>>
    /\ Audit

\* Only an account without transactions may go ...
CountRows(r, a) ==
    /\ accounts[a] = "open"
    /\ RowsOf(a) = {}
    /\ Begin(r, "drop", [pc |-> "drop", account |-> a])
    /\ UNCHANGED <<books, restarts, history>>
    /\ Audit

\* ... but the deletion takes those with it that have come in since.
DropAccount(r) ==
    /\ task[r].pc = "drop"
    /\ Finish(r)
    /\ LET a == task[r].account
       IN  IF accounts[a] = "open"
           THEN /\ accounts' = [accounts EXCEPT ![a] = "closed"]
                /\ txs' = [id \in Ids |-> IF id \in RowsOf(a) THEN Deleted ELSE txs[id]]
           ELSE UNCHANGED <<accounts, txs>>
    /\ UNCHANGED <<balance, houseBalance, restarts, history>>
    /\ Audit

\* The requests under way are lost with the process.
Restart ==
    /\ restarts < MaxRestarts
    /\ restarts' = restarts + 1
    /\ task' = [r \in Requests |-> Idle]
    /\ UNCHANGED <<books, history>>
    /\ Audit

-----------------------------------------------------------------------------
CreateStep(r) ==
    \/ \E t \in Transaction : CheckAccount(r, t)
    \/ \E id \in Ids : Insert(r, id)
    \/ ReadAccount(r)
    \/ WriteAccount(r)
    \/ ReadHouse(r)
    \/ WriteHouse(r)

ChangeStep(r) ==
    \/ \E id \in Ids, p \in Patches : ReadForUpdate(r, id, p)
    \/ Update(r)
    \/ \E id \in Ids : ReadForRemove(r, id)
    \/ Delete(r)

AccountStep(r) ==
    \/ \E a \in Accounts : ReadRows(r, a) \/ CountRows(r, a)
    \/ Recalculate(r)
    \/ DropAccount(r)
    \/ \E a \in Accounts, b \in Balances : OpenAccount(r, a, b) \/ AdjustAccount(r, a, b)
    \/ \E b \in Balances : AdjustHouse(r, b)

Next == Restart \/ \E r \in Requests : CreateStep(r) \/ ChangeStep(r) \/ AccountStep(r)

Spec == Init /\ [][Next]_vars
-----------------------------------------------------------------------------
(* What the balances still lack: the amounts of the rows that are in but   *)
(* whose creators have not reached the account, or the house, yet.         *)
Owing == {r \in Requests : Inserted(task[r])}
Owed(S) == SumFunctionOnSet([r \in Owing |-> Signed(task[r].tx)], S)

OwedTo(a) == Owed({r \in Owing : /\ task[r].pc \in {"readAccount", "writeAccount"}
                                 /\ task[r].tx.account = a})
OwedToHouse == Owed(Owing)

(* With any number of requests under way, as long as none has spoiled      *)
(* another one's work, each balance is its base plus its transactions,     *)
(* less what is still owed to it: there is no further way to lose money.   *)
LedgerAddsUp ==
    intact =>
        /\ \A a \in Accounts : accounts[a] = "open" =>
               balance[a] + OwedTo(a) = base[a] + TotalOf(RowsOf(a))
        /\ houseBalance + OwedToHouse = houseBase + TotalOf(AllRows)

(* When no request is under way, the balances are those of the             *)
(* transactions.                                                           *)
BalancesAddUp ==
    (\A r \in Requests : task[r] = Idle) =>
        /\ \A a \in Accounts : accounts[a] = "open" =>
               balance[a] = base[a] + TotalOf(RowsOf(a))
        /\ houseBalance = houseBase + TotalOf(AllRows)

(* What a user of the books may think of them: a creation takes effect on  *)
(* every balance when its row is inserted.                                 *)
FundsSeen == [a \in Accounts |-> IF accounts[a] = "open" THEN balance[a] + OwedTo(a) ELSE 0]
TreasurySeen == houseBalance + OwedToHouse

Book == INSTANCE AtomicLedger WITH
    rows <- txs,
    status <- accounts,
    funds <- FundsSeen,
    treasury <- TreasurySeen,
    given <- base,
    grant <- houseBase

(* With any number of requests, restarts and patches, every step of theirs *)
(* is one of an atomic ledger, or none, until one request spoils another   *)
(* one's work: only the ways of Audit lead out of it                       *)
(* (processTransactionWorkflow, TransactionsService, AccountsService).     *)
AtomicWhileIntact ==
    Book!BookInit /\ [][intact' => [Book!BookNext]_(Book!bookVars)]_vars
=============================================================================
