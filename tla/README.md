# A verification project for no-mess-fullstack

The program administers a residential community: houses with members, accounts and
transactions, projects and proposals, assemblies with votings, minutes, and
notifications. The backend (`src/backend`) is a NestJS server on one Node.js event
loop with a PostgreSQL database behind Prisma; the frontend (`src/frontend`) is a
SvelteKit client with an HTTP client, a socket.io client and stores.

These TLA+ modules model the parts of both whose behaviour depends on the order of
things: every `await` is a point where another request, a timer, an answer of the network
or a restart may come in between. Paths below leave out `src/`; B stands for `backend/src/features`, S for
`backend/src/shared`, F for `frontend/src`.

## 1. Inventory

| Component | State | Operations | What is hard | What makes it correct |
|---|---|---|---|---|
| Tally (B/voting/services/voting-stats, voting-quorum, voting.service 426-475, S/services/business-rules 125-170, B/minutes 233-250) | none: five computations over the same votes | verdict per page, per workflow, per minutes; quorum as a percentage and as a head count | rounding of doubles, zero votes, abstentions, ties; each service has its own rule | the forms of quorum agree but where rounding parts them; the stricter verdict implies the laxer; a YES never hurts |
| Voting lifecycle (voting.service, voting-scheduler, voting-notification) | `votings`, `votes`, `timeouts` map in memory | create, update, remove, castVote, closeVoting, automatic close, timer | check-then-insert, membership that changes, a timer lost on restart or left at an old date, closing that reads outside the transaction | one vote per user, by a member; none without its voting; a timeout not before an end date; an armed timer ends in an announcement |
| Ledger (S/services/workflow 154-212, B/transactions, B/accounts) | `transactions`, `accounts.balance`, `houses.balance` | create (five calls), update, remove, recalculate, adjust, drop an account | read-modify-write across awaits, no transaction around creation, originals read too early | balances are what the transactions add up to |
| Decision workflow (S/services/workflow, B/assemblies, B/proposals, B/projects) | status of assemblies, proposals, projects; links between them | create, start, complete, cancel, decide, edit, remove | a completion is a loop of calls that may fail half way and be repeated; status checks on earlier reads; two ways to approve | outcomes reach proposals and projects; decisions stand |
| Minutes (B/minutes) | `minutes`, unique per assembly | create, validate, publish | check-then-insert | one per assembly, of completed assemblies |
| Voting rooms (B/voting/websockets) | maps: room to sockets, user to rooms, socket to user | join, leave, disconnect, cast vote, statistics | several sockets of one user; iteration over a set being emptied | the three maps agree |
| WebSocket connections (S/websockets) | maps of connections, users, rooms; counters of the rate limit; two interval timers | connect, ping, pong, disconnect, reconnect, cleanup | timers against messages, reconnection | a live user is reachable; a dead connection goes |
| Notifications (B/notifications) | `notifications` | create, bulk, the notify, send and broadcast functions, read, mark, remove, clear, findAll by pages | members change while they are told; a bulk stores row after row; what fails in between; pages shift | who belongs is told once; what is emitted as critical is stored; a reader of all pages misses nothing unexplained |
| Houses, memberships, users (B/houses, B/users, B/auth) | `houses`, `houseUsers`, `users` | register, create, remove, join, leave, change role | a request is admitted by roles that are gone when it takes effect | memberships are of existing houses and users |
| Budgets (B/budget) | `budgets`, unique per house and year | create, update, remove, comparison, execution report | a report of twelve reads while transactions change; limits of alerts, in doubles | nothing is counted twice; two views of the same figures agree but where rounding parts them |
| Frontend connection (F/shared/services/websocket.service, F/shared/stores/websocket.store) | socket, status, attempts, missed pings, what the indicator shows | connect, disconnect, retry, heartbeat, `setAuthToken` | late events of a replaced socket, timers after a log out | the status tells the truth; connections end with the session; retries end |
| Frontend session (F/features/auth, F/shared/services/api.service) | auth store, its copy in `localStorage` | log in, log out, page load, answer 401 | an answer after a log out | as above |
| Auth, file storage, e-mail, controllers, pages | none, or files | checks, I/O, rendering | - | - |

Interactions: controllers call services; services call Prisma; `AssembliesService`,
`ProposalsService`, `ProjectsService` and `TransactionsService` call `WorkflowService`;
`VotingService` calls the scheduler, the scheduler calls statistics, quorum and
notification services, and those broadcast to rooms. Everything shares the database;
nothing shares locks.

## 2. Plan

Done, in this order: `Tally`, `Poll`; `VotingLifecycle` over `BallotBox`; `Ledger` over
`AtomicLedger`; `AssemblyWorkflow`; `VotingRooms`; `WsConnections`; `ClientSocket` under
`ClientSession`; `Houses` under `Notifications`; `Budget`; and the proofs of section 5.

Left, and worth doing when this code changes: the delivery of notifications, once it is
settled that the gateway lists its sockets (section 7). Every safety property the passing
runs check is proved as well; a property added to a run should come with its theorem.

Every module is parameterised by CONSTANTS with named assumptions, has one action per
operation or database call, and declares no RECURSIVE operator.

## 3. Modules

| Module | Models | State |
|---|---|---|
| `Tally` | the arithmetic of all five verdicts and both forms of quorum, as operators on a vector of counts, with the percentages rounded as the doubles of the code | - |
| `Poll` | one voting as members vote, join and leave, also after they voted, and what each report says of it | counts, electorate, departed voters, quorum, type |
| `BallotBox` | what a votes table promises: enrol, one ballot each, discard with the voting | electors, ballots |
| `VotingLifecycle` | one voting: create (in a database transaction), update, remove, castVote, closing, timer, restart | rows, clock, timer, program counters of requests, announcements |
| `AtomicLedger` | a ledger in which each operation is one step | rows, accounts, funds, treasury, and what of them was given by hand or by a recalculation |
| `Ledger` | transactions and accounts, each database call a step | the tables, program counters with what was read, history |
| `AssemblyWorkflow` | assemblies, votings, proposals, projects and minutes, each database call a step | the tables, program counters with what was read, history |
| `VotingRooms` | the rooms of the voting namespace: messages that wait for the guard, the three maps, the channels of socket.io | sockets, messages in flight, maps, history |
| `WsConnections` | the connection tables of the main namespace: validation, replacement, heartbeat, cleanup | sockets, tables, pings in transit, history |
| `ClientSocket` | the connection service of the browser and its store: sockets created, replaced, failing, dropping, retried by hand; the heartbeat | wire of each socket, the one in use, status, attempts, missed pings, retries waiting, the indicator |
| `ClientSession` | logging in and out, a page load, the answer 401, composed with `ClientSocket`, which they open and close | session, its copy, logins in flight, the timer of the load |
| `Houses` | users, houses and memberships, each request admitted by the roles guard first | rows, requests admitted |
| `Notifications` | the table of notifications: calls that read the members of `Houses` and store row after row, emit, fail or are cut off; a client that pages | rows, calls, what was emitted, the walk |
| `Budget` | a budget beside the transactions of its year: comparison, report month by month, alerts, recommendations | rows, the two views |
| `MC*` | instances for TLC | |
| `VotingProofs` (of `Poll` and `VotingLifecycle`), `LedgerProofs`, `AssemblyProofs`, `RoomsProofs`, `ConnectionsProofs` (of `WsConnections` and `ClientSession`), `NotificationsProofs`, `BudgetProofs` | theorems | |
| `SumProofs` | lemmas on sums over finite sets, for `LedgerProofs` and `BudgetProofs` | |

Composition: `VotingLifecycle` and `Ledger` implement `BallotBox` and `AtomicLedger`
(`INSTANCE ... WITH` a refinement mapping); `Notifications` EXTENDS `Houses` and its steps
are those of either; `ClientSession` EXTENDS `ClientSocket`, whose actions it conjoins with
what they leave alone.

How code becomes action: a request is a record with a program counter `pc` and the
values it carries from one `await` to the next; an action is the code from one database
call to the next, with its early returns (a request that is refused ends, or, if it has
changed nothing, does not begin). Reads that no later write depends on are merged with
the call next to them. A Prisma `$transaction` whose calls lock the rows they write is
one action, except where code inside it reaches outside (`create` of a voting, whose
scheduler reads through another connection). Identifiers are never reused: a deleted row
keeps a marker. Cascades, `SetNull`, unique and foreign keys of `schema.prisma` are part
of the actions that meet them. Operators marked "Faulty form" are plausible mistakes the
properties must notice; no specification uses them.

In `VotingRooms` and `WsConnections` a handler is one action, for it runs to its end
between two awaits (`await this.handleReconnection`, websocket.gateway.ts:194, awaits a
function without an await of its own, and goes on before any event or timer); what waits is the guard (`pending`) or the validation of the token
(`validating`), and the socket may close meanwhile. socket.io is external: a closed
socket has left its channels, its `join` does nothing, and what is in transit to or from
it is lost. `isAlive` is `missedPings` below the limit; a room without participants is
an absent one, as the service deletes it in the same step. Messages that only read
(statistics, lists) are left out, and so is a restart of the server, which empties maps
and closes sockets together. A pong stands for the whole way of a ping to the client and
back; at most `MaxUnanswered` pings of a socket are counted as under way.

In `ClientSocket` everything between two callbacks is one action. A socket that `connect()`
replaces keeps its listeners and is not closed, so its events go on changing the one
status; a closed socket stands for a new one. `missed` has no action that lowers it, as the
server of the main namespace emits no 'pong' (section 6). In `Houses` a handler is one
action after its admission: what it looks at before its write is looked at again by a
unique key, a foreign key or the error of a missing row. In `Notifications` a creation in a
loop is an action each; a lookup of the members is an action, and so is the emission. In
`Budget` each month of the report is an action; a date says which month, and whether it
lies in the last second of it.

What is abstracted: texts, categories and logging; dates but for those of a voting, which
are ticks of a clock `now`, and the months of a budget; time zones; who is asking, where
the check is a role (but in `Houses`, where it is the point). In `AssemblyWorkflow` any
outcome may come of a voting (which one is `Tally`'s matter). Amounts are whole numbers
(the columns are floats), so that sums are exact; percentages are not, and are compared as
the code's doubles compare: `Tally.RoundedDown` and `Budget.RoundedUp` name the limits at
which a figure that is exactly there is computed as less, or as more. The ledger has one house. The two reads of `getRealTimeStats` are one
step. Of the announcements the last one of each kind of history is kept. Two notifications
are not created at the same millisecond. PATCH bodies do not contain explicit nulls. What is
left out altogether is in section 7.

## 4. Runs

| Run | Shows |
|---|---|
| `MCPoll` | up to seven users vote, join and leave, also after they voted, under ten quorums on, just below and just above whole head counts, and a house of fifty votes, where 29 votes are 58 percent but computed as less: what the backend reports of the quorum agrees in all five places but there, what a page shows as passed is recorded as approved, and a further YES never hurts |
| `MCVoting` | two users, two requests, an officer, one restart, dates that are moved and an end that a timer cannot wait for: safety of the votes table, its refinement of `BallotBox`, and that a timeout is announced only once an end date the voting has had is reached, or at once where the delay was out of range at creation. One option suffices (options are compared nowhere there) |
| `MCVotingSteady` | two users, one request, YES and NO, two rows (one running, one still to come): a full turnout that is announced is full, and liveness of an armed timer |
| `MCVotingLostTimer` (violation) | a restart loses the timeouts |
| `MCVotingNotOver` (violation) | after an update the timer fires at the old end: "Voting period has ended" is announced, and the voting goes on |
| `MCLedger` | two accounts, two transactions, two requests of any kind, one restart: up to the first spoiled write balances add up (`LedgerAddsUp`), and every step is one of `AtomicLedger` or none (`AtomicWhileIntact`) |
| `MCAssembly` | one assembly, voting and project, two proposals, two requests of any kind, one restart |
| `MCBudget` | two transactions, a year of two months, amounts and projections at and on both sides of the limits: the report counts each steady transaction once; report and comparison agree, but at just 110 percent |
| `MCClient` | two sockets, two logins in flight, two reconnections at once of two attempts each: which connections outlive the session, when status and indicator are true, and that retrying ends unless a socket connects again and again |
| `MCCommunity` | a house with one administrator and one who may register and join, two calls of the notification service, pages of one row: memberships, who is told, what is emitted, what a reader of all pages sees |
| `MCRooms` | a user with two sockets, another with one, two rooms, two messages waiting for the guard |
| `MCConnections` | three sockets of two users, the limit of three missed pings as in the code, one to three heartbeats between cleanups; liveness of the collection of dead entries |

Six more configurations show disagreements of section 6 that the code admits; run them by
hand with `tlc -config X.cfg M`, each ends with a counterexample:

| Configuration, module | Refutes |
|---|---|
| `MCVotingWindow.cfg`, `MCVoting` | every vote is of an instant between the dates of its voting: one that has begun, and been voted in, is moved to a later start by an update that had read it before |
| `MCVotingLateVote.cfg`, `MCVoting` | what a timeout announces as final is: a vote accepted in time is stored after the results were read |
| `MCVotingUnanimity.cfg`, `MCVoting` | a voting closed as unanimous has no NO |
| `MCLedgerLostUpdate.cfg`, `MCLedger` | two creations on one account both reach its balance |
| `MCAssemblyFinished.cfg`, `MCAssembly` | a finished project keeps its status |
| `MCClientReconnect.cfg`, `MCClient` | a dropped connection of a session is retried ('We'll handle reconnection manually', websocket.service.ts:76) |

Bounds. Two requests are enough for every hazard named: each is a conflict between one
request that has read and another that writes. `MaxRestarts = 1` allows a restart at
every point of every request, and the recovery after it. `MaxTime` gives a tick before,
within and after the period of a voting; `MaxDelay`, the largest delay `setTimeout` keeps,
is 2 in `MCVoting`, so that one row lies beyond it, and 9, beyond the horizon, in the
others. `Manageable` of `MCVoting` follows the voting with one voter and two tasks at once from
its end on, and throughout if its end is the late one: what a ballot box promises is settled
before the end, and what a timeout promises needs no second voter. Deadlock is not checked where rows
or the clock run out: the models stop because their bounds do.
`MCAssembly` interleaves two requests while there is one proposal and lets one at a time
work on two (`Manageable`); with one voting, the loop of `completeAssembly` over several votings is not
exercised, its body and its repetition after a restart are.

History variables and the constraints `StillIntact` and `BeforeRaces`. The ledger and
the workflows are not safe under every interleaving, and the runs do not pretend they are. `Ledger.intact`
turns false at the first step that spoils a request: it changes what another one has
read and will write from, counts a row its creator has yet to add, abandons a creation
half way, or moves a row away from its account. `AssemblyWorkflow.spoiled` collects
"race" (a row some request relies on is changed by another), "crash" (a restart between
the approval of a proposal and of its project) and "patch" (a PATCH sets a proposal
APPROVED, which moves no project). The properties say that there is no further way to go
wrong: everything that is not one of these, including all other interleavings and
restarts, is safe. States after a spoil satisfy them trivially, which is why the
constraints may cut there.

`VotingRooms.leftBehind` and `late` name the two ways in which a closed socket stays
listed (section 6), `WsConnections.superseded` and `unheard` the two in which an open
socket is not. They are histories of what happened, not of what the code did about it, so
that a fault of the code is not excused by them. Two sockets of one user and one of
another meet every case in the maps, which relate sockets of one user and users of one
room; two rooms make the loop over the rooms of a user visible. Two waiting messages can
change places. `FewVotes` follows one vote that is forwarded: no handler looks at the votes
forwarded before.

`MCPoll` takes seven users so that the smallest percentages of each type, all ties, and
head counts that do not divide the quorum occur. The double comparison
`votes / eligible * 100 >= quorum` differs from the rational one only where the two sides
are equal and the quorum is 29, 57 or 58 (compared for all houses up to 3000 when the module
was written; the quotient is the double next to the hundredth, so its product with 100 is
that of the hundredth): 50 members and 58 percent are the first such house `MCPoll`
visits, without NO and with one ABSTAIN at most. The type invariants of the modules with
proofs are proved instead of run; `Budget`'s is both.

`MCClient`: `MaxLoops` bounds the reconnections going on at once that a heartbeat or a drop
may start; the rounds of one are bounded by the code alone. What an invariant of the client tells apart is the socket in use and one other;
two logins in flight are what /login and /register allow. `ClientSocket.abandoned` names the
sockets replaced while still connecting, `crossed` a replaced socket's 'disconnect' after the
other's 'connect', `ClientSession.strays` the sockets that a timer opens after the log out:
the three ways in which socket, status and session may part, recorded as they happen and
independently of what the service does about them.

`Manageable` of `MCCommunity` does not interleave what does not touch each other: changes of
houses with calls that read no members, a second house with any call, a walk with calls that do more than store rows, rows
marked or removed without a walk. `Manageable` of `MCBudget` looks at what changes between
the reads with one amount and one budget, and at the limits with figures that stay. Two
months suffice for a transaction to move from one not yet read to one already read, and
back; the amounts 1, 9 and 11 and their sums against projections of 0, 10 and 20 are at 90,
100, 110 and 120 percent exactly and on both sides of each limit of alerts and
recommendations.

Fairness (`WsConnections.ConnectionsFairSpec`): the two interval timers run while the server does;
nothing is assumed of clients, validations or the network.

Fairness (`ClientSession.FairSpec`): the timers of the browser fire (page load, retry delay,
the timeout of `connect()`), and socket.io tells each socket it opens whether it connected,
as its own timeout makes it do. A retry delay is strongly fair: in the model its step waits
for one of the finitely many sockets to be free, in the browser for nothing. Nothing is
assumed of the user, of answers to logins or of the heartbeat.

Fairness (`VotingLifecycle`: `FairSpec`, `SteadySpec`): weak fairness of the clock, of the continuations of
requests already begun, of the closing steps and of the timer, because the event loop
runs every settled promise and every due timer; none of any step that begins a request,
because nobody must make one. `SteadySpec` leaves out updates, changes of membership and
restarts, each of which breaks one of its properties (section 6); what holds of the others
is checked under `Spec`.

## 5. Proofs

TLAPS proves, for all values of the constants that satisfy the named assumptions:

- `VotingProofs`, on `Poll`: type correctness; the reports of the quorum agree for every
  number of members and every quorum, but for the votes that are a quorum of 29, 57 or 58
  percent exactly (`CeilingOfPercent` turns the rounded head count into the percentage; the
  invariant adds that the departed are among the voters); what the
  list shows as passed is approved by workflow and minutes; what the detail page shows
  as passed is recorded as approved; a further YES turns no verdict to failed.
- `VotingProofs`, on `VotingLifecycle`: with the inductive invariant `Inv` (types, the
  three safety properties, the members a request in flight has checked having been members)
  type correctness, `OneVotePerUser`, `VotersBelonged`, `NoOrphanVotes`, and that
  `VotingLifecycle` implements `BallotBox`, for any number of users, requests and
  restarts. The strengthening is needed for `VotersBelonged`: the insert relies on a
  check made steps before. `TimeoutNotEarly`, for the same
  specification, from `PunctualInv`: the end of the row, committed or not, is among the instants
  from which a timeout is due (`due`: its end dates so far, and the instant of creation if the
  delay was out of range), the timer is set to one of them, and a closing as timed out that has
  begun has seen one of them reached.
  For `SteadySpec`, whose steps are the ones of `Spec` that do not
  update the voting, change the members or restart, `SteadyInv` adds that nothing happens
  to a voting before its birth and that what a closing task has concluded of the turnout
  stays true until it is announced (`IsJustified`). From it follows
  `FullTurnout`, which rests on `FullHeadCount`, the pigeonhole that as many votes as
  members, one each, are the votes of all.
- `SumProofs`: a sum over a finite set splits into that of two parts, depends only on the
  values in the set, changes by what one of them changes, and over naturals grows with the
  set. The library's theorem of the recursion of a fold takes an operator as a parameter,
  and so does the induction over finite sets; the lemmas go back to the definition of the
  fold instead, whose function `Sums` names, and take a counterexample that is least by
  inclusion.
- `LedgerProofs`: type correctness (`BooksTyped`, types table by table), and, for any
  number of requests at once, of restarts and of patches, `LedgerAddsUp`: as long as
  `intact`, what each request has read is as it read it (`Standing`), every row has an
  account (`RowsHaveAccounts`), and every balance and the house's, plus what is owed to it, is
  its base plus the sum of its rows (`Adds`). `AllFinite` says that there are finitely many
  rows and debts, which sums need. From the same invariant, `AtomicWhileIntact`: the
  refinement maps a balance to itself plus what creations under way still owe it
  (`FundsSeen`), which by `Adds` is its base plus its rows (`FundsBooked`), so that a write
  of a balance is a stutter and an insert is the posting (`RowSeen`), and a recalculation, a
  balance set by hand and an account opened or closed are the steps of the same name.
- `AssemblyProofs`: type correctness, for which one must know that no proposal refers to a
  project that is not there (`ProjectsLinked`) and that this was so when a completion listed
  it (`ListsProjects`); `OneMinutesPerAssembly`, which rests on the unique key alone;
  `MinutesAfterCompletion`, with the invariant that without a race each request's reading of
  an assembly is still true (`ReadingsHold`); `DecisionsStand`, with the same of proposals
  (`JudgedInv`: the status to be written is a step from the present one, the proposals
  listed by a completion are those of its votings, once each, as listed).
  `CompletionDecides`: every pending proposal of an assembly under completion is in a voting
  still to come or on the list at hand (`Covers`). `ApprovedMovesProject`: a project that has
  left PROPOSED never returns (`Begun`), so that what was read of the project of a proposal
  is as good as new (`ProjectInv`); and the project of an approved proposal has left it or
  some request is about to move it (`MovesInv`). All for any tables, bodies, requests and
  restarts.
- `RoomsProofs`: all properties of `MCRooms` for any users, sockets, votings and number of
  waiting messages. The inductive invariant adds that an open listed socket is known with
  its user (`OpenIsMapped`; otherwise its departure would be ignored) and that a socket
  that has not connected is listed nowhere (`NewIsSilent`).
- `ConnectionsProofs`, on `ClientSession`: type correctness and the three safety properties
  of `MCClient`, whose conjunction is inductive, for any number of sockets, logins and
  retries.
- `ConnectionsProofs`, on `WsConnections`: the safety properties of `MCConnections` for any
  users, sockets, limit and drift. The invariant adds that the misses of an open connection
  are pings it left unanswered (`MissedIsUnanswered`), that misses stay below the limit plus
  the heartbeats since the last cleanup (`MissedSoFar`), and that only connected sockets are
  listed (`OnlyConnected`).
- `NotificationsProofs`: type correctness; `MembershipsAreReal`, `MembersAreTold` and
  `PushFollowsStore`, for any users, houses, calls and bounds. The
  invariant says of each call what it still has to tell (`CallOK`): the members it read are
  between those who belonged all the time and those who belonged at some time, and rows
  stored plus rows left are one for each. `WalkIsComplete` for any number of rows and any
  size of a page: a steady row not yet seen has at least as many newer ones as the pages read
  so far hold, and without arrivals a row that was seen has fewer (`WalkOK`); counting the
  rows of a page gives the next one.
- `BudgetProofs`: type correctness; `ReportCountsOnce`, with the invariant `ReportInv` that
  after any month the steady rows of the months read (`Counted`) add up to no more than the
  report says, and to just that if nothing changed; `ViewsAgree`, from it, from the same of
  the comparison (`ComparisonInv`) and from the arithmetic of the limits, the rounding at
  110 percent included, for any transactions, whole amounts, projections and number of months.

Assumptions: `PollAssumption`, `LifecycleAssumption`, `LedgerAssumption`,
`WorkflowAssumption`, `RoomsAssumption`, `ConnectionsAssumption`, `ClientAssumption`,
`SessionAssumption`, `HousesAssumption`, `NotificationsAssumption`, `BudgetAssumption`,
`NoneAssumption`: identifiers and markers are distinct, users are finitely many, the seed is
consistent, bounds are naturals, each socket has the user of its token, and the pings
counted as under way reach the limit of missed ones.

Only model-checked: liveness (`ArmedTimerCloses`, `GhostsGo`, `RetriesEnd`), which needs
fairness and ENABLED, out of the prover's reach here.

## 6. Where the code and its texts disagree

Shown by a run: the lost timer (voting-scheduler.service.ts:17); the timeout announced at an
end that has been moved (voting.service.ts:228). Shown by the configurations to be run by
hand: the voting moved after a vote went in (205); the vote stored after the final results
(voting-scheduler.service.ts:137); the unanimity shortcut, which closes on a majority (101);
the lost update of a balance; the finished project that is approved again
(proposals.service.ts:428); the dropped connection that is not retried.

Met while modelling, not run:

- The detail page passes a voting of any type with more than half YES
  (voting-stats.service.ts:271), although voting-quorum.service.ts:221-243 publishes
  thresholds of 67 and 100.
- A voting without votes passes the rules for qualified majority and unanimity
  (business-rules.service.ts:155, 158) and is recorded as rejected (minutes.service.ts:241-245).
- A voting whose end has passed when it is created is never closed: the scheduler
  (34-36) reads it before the transaction that creates it has committed.
- 'Voting period has ended' (voting-scheduler.service.ts:148) is announced at once when the
  end is more than 2^31-1 ms away at creation (41).
- Turnout is computed as less than it is when the votes are just the quorum of 29, 57 or 58
  percent (29 / 50 * 100 is 57.99999999999999, voting-quorum.service.ts:51-54): the quorum is
  not met while zero votes are needed.
- Expenses of just 110 percent are a medium alert (11 / 10 * 100 is 110.00000000000001,
  budget.service.ts:205, 340), for which the report recommends nothing (394).
- Full turnout compares all votes with the members of now (112): votes of former members
  make up for members who have not voted.
- Closing by hand announces final results and leaves the voting open (voting.service.ts:548, 571).
- "Has not started" is checked by remove, too, on an earlier read than the write (408).
- A creation that stops after its row (workflow.service.ts:171) leaves it without
  effect; a patch that moves a transaction leaves its amount in the old account
  (transactions.service.ts:286, 337); an update takes back the row as read before the
  transaction (277, 333); a recalculation counts a row twice or overwrites a posting
  (accounts.service.ts:247, 267); an account may be deleted with a transaction inserted
  since it was counted (98, 108). `LedgerAddsUp` exempts exactly these.
- PATCH may set an assembly COMPLETED without processing its votings
  (assemblies.service.ts:198-231 against 277). PATCH may set a proposal APPROVED without its project.
- A failure between workflow.service.ts:120 and 131 leaves a proposal approved and its
  project proposed, and a second completion skips decided proposals.
- A proposal put to a new voting forgets its previous one (81-84); votings created
  by workflows arm no timer (69); date conflicts are checked when an assembly is
  changed (218) but not when it is created.
- "Remove user from all voting rooms (on disconnect)" (voting-websocket.service.ts:121):
  a socket that another socket of its user has left behind, or that joins after it has
  gone, stays a participant for ever (93, 131; voting-websocket.gateway.ts:92).
- 'You must join the voting room before casting a vote' (voting-websocket.gateway.ts:255)
  is also the answer to a user one of whose sockets is in the room, once another has left.
- "Remove old connection" (websocket.gateway.ts:396): the one removed may be the newer,
  and the one that replaces it may be dead; the table then has no live entry of a
  connected user. "Rejoin all voting rooms for the user" (399) rejoins none, as they went
  with the old connection.
- A connection that the cleanup drops is never announced as disconnected, and its client
  is neither closed nor taken back when it answers (websocket.service.ts:135, 178). No
  connection is ever stale (123): every heartbeat renews `lastPing` (161).
- The client counts pongs that the server of this namespace never sends
  (frontend websocket.service.ts:210, 273): after three beats it declares a healthy
  connection dead, shows "reconnecting" and, as `connect()` returns early on a connected socket
  (56), spends an attempt at each further beat.
- "Attempt reconnection if not manually disconnected" (248): without `setAuthToken`, which
  the pages do not call, an attempt finds no token and the loop ends in "error"; with a
  token the server refuses it need not end: each attempt connects first, which resets the
  count (238), and is disconnected by the server afterwards.
- Logging in as another user without logging out keeps the connection of the first, and an
  answer to a login that arrives after the log out opens a session again.
- "Clear auth token and redirect to login" (api.service.ts:92) removes 'auth_token' and
  'user', while the session is stored under 'auth': after a reload it is back.
- Income is an alert only from more than 10% below its target, so that its severity LOW,
  for up to 10%, is never given (budget.service.ts:349, 356). With nothing projected, comparison and report
  disagree: income is "100% below target" with a target of 0; expenses are not "exceeded",
  and yet the report asks to reduce costs.
- A month of the report ends at 23:59:59 of its last day, and so does the year of the
  comparison: a transaction in the last second of a month but the last is in the comparison and
  in no month, one in the last second of the year in neither.
- A broadcast whose list of targets is empty goes to everybody
  (notifications-websocket.service.ts:85).
  createBulk stores row by row: when it fails, the first half has been stored and nobody
  is told.
- findAll pages by offset: a row that leaves the query makes the reader of the next page
  miss one, a new row shows one twice. PUT of a notification may carry `read`, which is no
  column.
- The last administrator may leave or be demoted, and once no administrator or president is
  left, nothing can be administered any more; an admitted request takes effect after its
  sender has lost the role. A user's own `role` is set by the seed alone.
- getQuorumHistory divides by an empty electorate and calls the quorum met, while
  checkQuorumStatus says 0; getVotingThresholds publishes 67, while the list decides by
  66.67 and the workflow by 60.

## 7. Not modelled

- Reminders of votings, which only send; room broadcasts, of which `VotingRooms` says to
  whom; the rate limit of the main namespace, which guards one test message; its rooms,
  which only its own reconnection would fill.
- The delivery of notifications: whether the gateway of notifications lists a socket depends
  on whether the framework runs a guard on a lifecycle hook (@UseGuards on
  handleConnection). Which users an event is emitted to is modelled, which sockets get it is
  not. The functions `notify*`, `send*` and `broadcast*` have no caller in the repository
  yet; they are modelled as the calls they are written for.
- `validateQuorum` and `createAssemblyWorkflow` with given proposals, which no controller
  reaches; votings created by workflows in `VotingLifecycle` (they arm no timer); moving a
  transaction to another house; the cascades of deleting a house, an assembly or a user
  in `VotingLifecycle` and `Ledger`; validation, publication and rendering of minutes, one
  row each.
- The cache and the retries of the frontend's http.service, which nothing calls; voting.store,
  which merges pushed figures and joins rooms in a namespace without handlers for it.
- E-mails (S/email), which fill a template and send it: what they leave unfilled depends on
  the caller's data, and no caller is in the repository.
- File storage (a file is written and its path returned), the contents and expiry of tokens
  and hashing (library code), pages and components (rendering), migrations (generated) and
  the sample data of the seed.
