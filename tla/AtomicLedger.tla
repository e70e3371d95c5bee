---------------------------- MODULE AtomicLedger ----------------------------
(***************************************************************************)
(* What the books of a house promise: a row of the transactions table and  *)
(* its effect on the balance of its account and of the house are one step, *)
(* and only officers and recalculations set a balance otherwise, by what   *)
(* is written down as given.                                               *)
(***************************************************************************)
EXTENDS Integers

CONSTANTS Accounts, Ids, Types, Amounts, None, Deleted

VARIABLES
    rows,       \* the transactions table
    status,     \* which accounts are open
    funds,      \* the balance of each open account
    treasury,   \* the balance of the house
    given,      \* what each balance has from no transaction
    grant       \* the same of the house

bookVars == <<rows, status, funds, treasury, given, grant>>

Transaction == [type : Types, amount : Amounts, account : Accounts]

\* An income adds its amount to the balances, an expense takes it away.
Effect(t) == IF t.type = "INCOME" THEN t.amount ELSE -t.amount

Credit(a, d) ==
    /\ funds' = [funds EXCEPT ![a] = @ + d]
    /\ treasury' = treasury + d
    /\ UNCHANGED <<status, given, grant>>

BookInit ==
    /\ rows = [id \in Ids |-> None]
    /\ status = [a \in Accounts |-> "new"]
    /\ funds = [a \in Accounts |-> 0]
    /\ treasury \in Int
    /\ given = funds
    /\ grant = treasury

Post(id, t) ==
    /\ rows[id] = None
    /\ status[t.account] = "open"
    /\ rows' = [rows EXCEPT ![id] = t]
    /\ Credit(t.account, Effect(t))

\* A row changes its type or amount, and stays in its account.
Amend(id, t) ==
    /\ rows[id] \in Transaction
    /\ rows[id].account = t.account
    /\ rows' = [rows EXCEPT ![id] = t]
    /\ Credit(t.account, Effect(t) - Effect(rows[id]))

Reverse(id) ==
    /\ rows[id] \in Transaction
    /\ rows' = [rows EXCEPT ![id] = Deleted]
    /\ Credit(rows[id].account, -Effect(rows[id]))

\* An officer, or a recalculation, sets a balance: it moves by what is given
\* or taken.
SetFunds(a, d) ==
    /\ status[a] = "open"
    /\ given' = [given EXCEPT ![a] = @ + d]
    /\ funds' = [funds EXCEPT ![a] = @ + d]
    /\ UNCHANGED <<rows, status, treasury, grant>>

SetTreasury(d) ==
    /\ grant' = grant + d
    /\ treasury' = treasury + d
    /\ UNCHANGED <<rows, status, funds, given>>

Open(a, b) ==
    /\ status[a] = "new"
    /\ status' = [status EXCEPT ![a] = "open"]
    /\ given' = [given EXCEPT ![a] = b]
    /\ funds' = [funds EXCEPT ![a] = b]
    /\ UNCHANGED <<rows, treasury, grant>>

\* An account that has transactions stays.
Close(a) ==
    /\ status[a] = "open"
    /\ \A id \in Ids : rows[id] \in Transaction => rows[id].account # a
    /\ status' = [status EXCEPT ![a] = "closed"]
    /\ funds' = [funds EXCEPT ![a] = 0]
    /\ UNCHANGED <<rows, treasury, given, grant>>

BookNext ==
    \/ \E id \in Ids, t \in Transaction : Post(id, t) \/ Amend(id, t)
    \/ \E id \in Ids : Reverse(id)
    \/ \E a \in Accounts :
        \/ SetFunds(a, given'[a] - given[a])
        \/ Open(a, given'[a])
        \/ Close(a)
    \/ SetTreasury(grant' - grant)

BookSpec == BookInit /\ [][BookNext]_bookVars
=============================================================================
