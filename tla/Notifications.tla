---------------------------- MODULE Notifications ----------------------------
(***************************************************************************)
(* Notifications: rows that NotificationsService stores for users, one by  *)
(* one, and what it then emits to their rooms.  A call works on while the  *)
(* members of its house, the rows and other calls change, fails half way,  *)
(* or is cut off by a restart.  Meanwhile a client reads the rows page by  *)
(* page.  E-mails, which are only logged, are left out.                    *)
(***************************************************************************)
EXTENDS Houses, Sequences

CONSTANTS
    Calls,          \* calls of the service, each used once
    Lists,          \* lists of users that a body may hold, as bags
    GlobalOfficers, \* seed users whose own role, which the code never sets,
                    \* is ADMIN, TREASURER or PRESIDENT
    Everyone,       \* all sockets of the namespace
    MaxRows,        \* bound on rows ever stored
    PageSize        \* limit of a query

ASSUME NotificationsAssumption ==
    /\ Lists \subseteq [Users -> Nat]
    /\ GlobalOfficers \subseteq SeedUsers
    /\ Everyone \notin Users
    /\ MaxRows \in Nat /\ PageSize \in Nat \ {0}

VARIABLES
    rows,           \* rows of Notification in the order of createdAt
    call,           \* the calls
    sent,           \* history: where each call has emitted
    walk            \* a client that reads the pages of findAll

callVars == <<rows, call, sent>>
vars == <<houseVars, callVars, walk>>

Row == [user : Users, by : Calls, state : {"unread", "read", "gone"}]

\* to: the users of the argument.  left: the creations still to be made.
\* steady, ever: history; who was a member of the house all the time, or at
\* some time, from the beginning of the call until its members were read.
Call ==
    [kind : {"none", "house", "budget", "bulk", "one", "critical", "broadcast", "system"},
     pc : {"new", "members", "each", "push", "done", "broken"},
     house : Houses \cup {None}, to : SUBSET Users, left : [Users -> Nat],
     steady : SUBSET Users, ever : SUBSET Users]

Idle == [pc |-> "idle"]

Walk ==
    [pc : {"page", "done"}, user : Users, unread : BOOLEAN, page : Nat,
     got : BOOLEAN, counted : BOOLEAN, total : Nat, base : SUBSET Nat,
     seen : SUBSET Nat, twice : BOOLEAN, lost : SUBSET Nat, grew : BOOLEAN, split : BOOLEAN]

TypeOK ==
    /\ HousesTypeOK
    /\ rows \in Seq(Row)
    /\ call \in [Calls -> Call]
    /\ sent \in [Calls -> SUBSET (Users \cup {Everyone})]
    /\ walk \in Walk \cup {Idle}

NoOne == [u \in Users |-> 0]

NewCall ==
    [kind |-> "none", pc |-> "new", house |-> None, to |-> {}, left |-> NoOne,
     steady |-> {}, ever |-> {}]

Init ==
    /\ HousesInit
    /\ rows = <<>>
    /\ call = [c \in Calls |-> NewCall]
    /\ sent = [c \in Calls |-> {}]
    /\ walk = Idle

-----------------------------------------------------------------------------
(* The pages of findAll, newest first.                                     *)

Matching(w, table) ==
    {i \in DOMAIN table :
        /\ table[i].user = w.user
        /\ table[i].state = "unread" \/ (table[i].state = "read" /\ ~w.unread)}

OnPage(w, k) ==
    LET all == Matching(w, rows)
    IN  {i \in all : Cardinality({j \in all : j > i}) \in k * PageSize .. k * PageSize + PageSize - 1}

\* What a walk notices of a change of the table: history.
Follow(w, table) ==
    IF w.pc # "page" THEN w
    ELSE LET came == Matching(w, table) \ Matching(w, rows)
             left == Matching(w, rows) \ Matching(w, table)
         IN  [w EXCEPT !.grew = @ \/ came # {},
                       !.split = @ \/ (came # {} /\ w.counted /\ ~w.got),
                       !.lost = @ \cup left]

\* The table changes.
Put(table) == rows' = table /\ walk' = Follow(walk, table)

StartWalk(u, unread) ==
    /\ walk = Idle
    /\ LET w == [pc |-> "page", user |-> u, unread |-> unread, page |-> 0,
                 got |-> FALSE, counted |-> FALSE, total |-> 0, base |-> {},
                 seen |-> {}, twice |-> FALSE, lost |-> {}, grew |-> FALSE, split |-> FALSE]
       IN  walk' = [w EXCEPT !.base = Matching(w, rows)]
    /\ UNCHANGED <<houseVars, callVars>>

\* Faulty form: pages are counted from one.
FindPageFromOne ==
    /\ walk.pc = "page" /\ ~walk.got
    /\ walk' = [walk EXCEPT !.got = TRUE,
                            !.seen = @ \cup OnPage(walk, walk.page + 1),
                            !.twice = @ \/ walk.seen \cap OnPage(walk, walk.page + 1) # {}]
    /\ UNCHANGED <<houseVars, callVars>>

\* The two queries of a page, in either order.
FindPage ==
    /\ walk.pc = "page" /\ ~walk.got
    /\ walk' = [walk EXCEPT !.got = TRUE,
                            !.seen = @ \cup OnPage(walk, walk.page),
                            !.twice = @ \/ walk.seen \cap OnPage(walk, walk.page) # {}]
    /\ UNCHANGED <<houseVars, callVars>>

CountRows ==
    /\ walk.pc = "page" /\ ~walk.counted
    /\ walk' = [walk EXCEPT !.counted = TRUE, !.total = Cardinality(Matching(walk, rows))]
    /\ UNCHANGED <<houseVars, callVars>>

\* The client goes on until it has had pagination.pages pages.
TurnPage ==
    /\ walk.pc = "page" /\ walk.got /\ walk.counted
    /\ walk' = IF walk.total <= (walk.page + 1) * PageSize
               THEN [walk EXCEPT !.pc = "done"]
               ELSE [walk EXCEPT !.page = @ + 1, !.got = FALSE, !.counted = FALSE,
                                 !.total = 0, !.split = FALSE]
    /\ UNCHANGED <<houseVars, callVars>>

-----------------------------------------------------------------------------
(* Calls begin.                                                            *)

OneOf(set) == [u \in Users |-> IF u \in set THEN 1 ELSE 0]

\* Where a call is when these creations are left to it.
Place(kind, left) ==
    IF left # NoOne THEN "each"
    ELSE IF kind \in {"critical", "broadcast"} THEN "push" ELSE "done"

Begin(c, kind, left) ==
    /\ call[c].pc = "new"
    /\ call' = [call EXCEPT ![c] =
                    [@ EXCEPT !.kind = kind, !.left = left,
                              !.to = {u \in Users : left[u] > 0}, !.pc = Place(kind, left)]]
    /\ UNCHANGED <<houseVars, rows, sent, walk>>

\* notifyAssemblyCreated, VotingStarted, ProjectCompleted, MinutesPublished:
\* first the entity is read, which goes with its house.
NotifyHouse(c, h) ==
    /\ call[c].pc = "new"
    /\ house[h] = "open"
    /\ call' = [call EXCEPT ![c] =
                    [@ EXCEPT !.kind = "house", !.pc = "members", !.house = h,
                              !.steady = Members(h), !.ever = Members(h)]]
    /\ UNCHANGED <<houseVars, rows, sent, walk>>

ReadMembers(c) ==
    /\ call[c].pc = "members"
    /\ LET members == Members(call[c].house)
       IN  call' = [call EXCEPT ![c] =
                        [@ EXCEPT !.left = OneOf(members), !.to = members,
                                  !.pc = Place("house", OneOf(members))]]
    /\ UNCHANGED <<houseVars, rows, sent, walk>>

NotifyBudgetAlert(c, h) == Begin(c, "budget", OneOf(Members(h) \cap GlobalOfficers))

CreateBulk(c, list) == Begin(c, "bulk", list)

Create(c, u) == Begin(c, "one", OneOf({u}))

\* The author of a proposal that was found.
NotifyProposalStatusChange(c, u) == u \in registered /\ Begin(c, "one", OneOf({u}))

SendCriticalVotingNotification(c, u) == Begin(c, "critical", OneOf({u}))

BroadcastCriticalVotingEvent(c, list) == Begin(c, "broadcast", list)

-----------------------------------------------------------------------------
(* Calls go on.                                                            *)

Done(c, u) ==
    LET left == [call[c].left EXCEPT ![u] = @ - 1]
    IN  call' = [call EXCEPT ![c] = [@ EXCEPT !.left = left, !.pc = Place(call[c].kind, left)]]

\* Faulty form: the user stays on the list.
StoreAndStay(c, u) ==
    /\ call[c].pc = "each" /\ call[c].left[u] > 0
    /\ u \in registered
    /\ Len(rows) < MaxRows
    /\ Put(Append(rows, [user |-> u, by |-> c, state |-> "unread"]))
    /\ call' = [call EXCEPT ![c].pc = Place(call[c].kind, call[c].left)]
    /\ UNCHANGED <<houseVars, sent>>

\* One creation.  createBulk makes them in the order of the
\* list, broadcastCriticalVotingEvent all at once.
Store(c, u) ==
    /\ call[c].pc = "each" /\ call[c].left[u] > 0
    /\ u \in registered
    /\ Len(rows) < MaxRows
    /\ Put(Append(rows, [user |-> u, by |-> c, state |-> "unread"]))
    /\ Done(c, u)
    /\ UNCHANGED <<houseVars, sent>>

\* createBulk: "User not found, skipping notification".
\* broadcastCriticalVotingEvent: the creation fails, for this or any reason.
Skip(c, u) ==
    /\ call[c].pc = "each" /\ call[c].left[u] > 0
    /\ \/ call[c].kind = "broadcast"
       \/ call[c].kind \in {"house", "budget", "bulk"} /\ u \notin registered
    /\ Done(c, u)
    /\ UNCHANGED <<houseVars, rows, sent, walk>>

\* Faulty form: the failure of a creation is only logged.
FailQuietly(c) ==
    /\ call[c].pc \in {"members", "each"}
    /\ call' = [call EXCEPT ![c].pc = IF call[c].kind = "critical" THEN "push" ELSE "broken"]
    /\ UNCHANGED <<houseVars, rows, sent, walk>>

\* The database, or a user who is not found by create, ends the call.
Fail(c) ==
    /\ call[c].pc \in {"members", "each"}
    /\ call[c].kind # "broadcast"
    /\ call' = [call EXCEPT ![c].pc = "broken"]
    /\ UNCHANGED <<houseVars, rows, sent, walk>>

\* broadcastNotification: without targets it is for all.
Addressees(users) == IF users = {} THEN {Everyone} ELSE users

Push(c) ==
    /\ call[c].pc = "push"
    /\ sent' = [sent EXCEPT ![c] = Addressees(call[c].to)]
    /\ call' = [call EXCEPT ![c].pc = "done"]
    /\ UNCHANGED <<houseVars, rows, walk>>

\* The functions that only emit: notifyNewVotingAvailable to
\* sendCriticalSystemNotification.
PushOnly(c, users) ==
    /\ call[c].pc = "new"
    /\ call' = [call EXCEPT ![c] = [@ EXCEPT !.kind = "system", !.pc = "done", !.to = users]]
    /\ sent' = [sent EXCEPT ![c] = Addressees(users)]
    /\ UNCHANGED <<houseVars, rows, walk>>

\* The server process ends and is started again.
Restart ==
    /\ admitted' = {}
    /\ call' = [c \in Calls |->
                    IF call[c].pc \in {"members", "each", "push"}
                    THEN [call[c] EXCEPT !.pc = "broken"] ELSE call[c]]
    /\ UNCHANGED <<registered, house, role, rows, sent, walk>>

-----------------------------------------------------------------------------
(* Rows are read and removed, by whoever knows their id.                   *)

Become(which, state) ==
    /\ Put([i \in DOMAIN rows |->
               IF i \in which THEN [rows[i] EXCEPT !.state = state] ELSE rows[i]])
    /\ UNCHANGED <<houseVars, call, sent>>

Own(u) == {i \in DOMAIN rows : rows[i].user = u /\ rows[i].state # "gone"}

MarkAsRead(i) == rows[i].state = "unread" /\ Become({i}, "read")

MarkAllAsRead(u) == Become(Own(u), "read")

Remove(i) == rows[i].state # "gone" /\ Become({i}, "gone")

ClearAllForUser(u) == Become(Own(u), "gone")

-----------------------------------------------------------------------------
\* Users, houses and memberships change; calls that have yet to read the
\* members take note (history).
Community ==
    /\ HousesStep
    /\ call' = [c \in Calls |->
                    IF call[c].pc # "members" THEN call[c]
                    ELSE LET now == {u \in Users : role'[call[c].house][u] # None}
                         IN  [call[c] EXCEPT !.steady = @ \cap now, !.ever = @ \cup now]]
    /\ UNCHANGED <<rows, sent, walk>>

BeginCall(c) ==
    \/ \E h \in Houses :
        \/ NotifyHouse(c, h)
        \/ NotifyBudgetAlert(c, h)
    \/ \E list \in Lists : CreateBulk(c, list) \/ BroadcastCriticalVotingEvent(c, list)
    \/ \E u \in Users :
        \/ Create(c, u)
        \/ NotifyProposalStatusChange(c, u)
        \/ SendCriticalVotingNotification(c, u)
    \/ \E users \in SUBSET Users : PushOnly(c, users)

Continue(c) ==
    \/ ReadMembers(c)
    \/ \E u \in Users : Store(c, u) \/ Skip(c, u)
    \/ Fail(c)
    \/ Push(c)

RowStep ==
    \/ \E i \in DOMAIN rows : MarkAsRead(i) \/ Remove(i)
    \/ \E u \in Users : MarkAllAsRead(u) \/ ClearAllForUser(u)

WalkStep ==
    \/ \E u \in Users, unread \in BOOLEAN : StartWalk(u, unread)
    \/ FindPage
    \/ CountRows
    \/ TurnPage

Next ==
    \/ Community
    \/ \E c \in Calls : BeginCall(c) \/ Continue(c)
    \/ Restart
    \/ RowStep
    \/ WalkStep

Spec == Init /\ [][Next]_vars

-----------------------------------------------------------------------------
(* Properties.                                                             *)

Told(c, u) == Cardinality({i \in DOMAIN rows : rows[i].by = c /\ rows[i].user = u})

(* While members come and go: once a house is being told, everybody who    *)
(* belonged to it from the beginning of the call is told once, or will be, *)
(* and nobody who did not belong at any time of it, unless the call failed *)
(* half way, where the first half stands and nobody is told twice          *)
(* (notifications.service.ts createBulk and the notify functions).         *)
MembersAreTold ==
    \A c \in Calls : call[c].kind = "house" =>
        \A u \in Users :
            /\ Told(c, u) > 0 => u \in call[c].ever
            /\ Told(c, u) + call[c].left[u] <= 1
            /\ call[c].pc \in {"each", "done"} /\ u \in call[c].steady =>
                    Told(c, u) + call[c].left[u] = 1

(* A critical notification is emitted only when it is stored for its user, *)
(* so that who is not connected finds it later; a broadcast one only when  *)
(* every creation has ended, to nobody but the users named, and to all     *)
(* only if nobody is (sendCriticalVotingNotification,                      *)
(* broadcastCriticalVotingEvent).                                          *)
PushFollowsStore ==
    \A c \in Calls : sent[c] # {} =>
        /\ call[c].kind = "critical" => \A u \in sent[c] : u \in Users /\ Told(c, u) = 1
        /\ call[c].kind = "broadcast" => call[c].left = NoOne
        /\ Everyone \in sent[c] => call[c].to = {}
        /\ sent[c] \subseteq call[c].to \cup {Everyone}

(* A client that reads page after page has seen every row that was there   *)
(* all the time, unless a newer one left the query meanwhile, or one came  *)
(* between the two reads of the last page; and it sees a row twice only if *)
(* one came (findAll).                                                     *)
WalkIsComplete ==
    walk.pc # "idle" =>
        /\ walk.pc = "done" =>
            \A i \in walk.base \cap Matching(walk, rows) :
                i \in walk.seen \/ (\E j \in walk.lost : j > i) \/ walk.split
        /\ walk.twice => walk.grew
=============================================================================
