------------------------ MODULE NotificationsProofs ------------------------
(* What Houses and Notifications promise, for any users, houses, roles,    *)
(* calls, lists and bounds.                                                *)
EXTENDS Notifications, FiniteSetTheorems, TLAPS

-----------------------------------------------------------------------------
(* Houses.                                                                 *)

LEMMA HousesInitTyped == HousesInit => HousesTypeOK /\ MembershipsAreReal
BY HousesAssumption
   DEF HousesAssumption, HousesInit, HousesTypeOK, MembershipsAreReal

\* What the handlers write: one membership at most, or a house and all of its.
LEMMA RoleTyped ==
    ASSUME HousesTypeOK, NEW r \in admitted,
           \/ RemoveHouse(r) \/ AssignUserToHouse(r)
           \/ RemoveUserFromHouse(r) \/ UpdateUserRole(r)
    PROVE  role' \in [Houses -> [Users -> Roles \cup {None}]]
<1>1. CASE RemoveHouse(r)
  <2>1. r.house \in Houses
    BY <1>1 DEF HousesTypeOK, HouseRequest
  <2>. QED BY <1>1, <2>1 DEF RemoveHouse, HousesTypeOK
<1>2. CASE AssignUserToHouse(r)
  <2>1. r.house \in Houses /\ r.user \in Users /\ r.role \in Roles
    BY <1>2 DEF HousesTypeOK, HouseRequest, AssignUserToHouse
  <2>. QED BY <1>2, <2>1 DEF AssignUserToHouse, HousesTypeOK
<1>3. CASE RemoveUserFromHouse(r)
  <2>1. r.house \in Houses /\ r.user \in Users
    BY <1>3 DEF HousesTypeOK, HouseRequest, RemoveUserFromHouse
  <2>. QED BY <1>3, <2>1 DEF RemoveUserFromHouse, HousesTypeOK
<1>4. CASE UpdateUserRole(r)
  <2>1. r.house \in Houses /\ r.user \in Users /\ r.role \in Roles
    BY <1>4 DEF HousesTypeOK, HouseRequest, UpdateUserRole
  <2>. QED BY <1>4, <2>1 DEF UpdateUserRole, HousesTypeOK
<1>. QED BY <1>1, <1>2, <1>3, <1>4

LEMMA HousesStepTyped == HousesTypeOK /\ HousesStep => HousesTypeOK'
<1> SUFFICES ASSUME HousesTypeOK, HousesStep PROVE HousesTypeOK'
    OBVIOUS
<1>1. ASSUME NEW u \in Users, Register(u) PROVE HousesTypeOK'
    BY <1>1 DEF Register, HousesTypeOK
<1>2. ASSUME NEW r \in HouseRequest, Admit(r) PROVE HousesTypeOK'
    BY <1>2 DEF Admit, HousesTypeOK
<1>3. ASSUME NEW r \in admitted, CreateHouse(r) PROVE HousesTypeOK'
    BY <1>3 DEF CreateHouse, Answer, HousesTypeOK
<1>4. ASSUME NEW r \in admitted, RemoveHouse(r) PROVE HousesTypeOK'
    BY <1>4, RoleTyped DEF RemoveHouse, Answer, HousesTypeOK
<1>5. ASSUME NEW r \in admitted, AssignUserToHouse(r) PROVE HousesTypeOK'
    BY <1>5, RoleTyped DEF AssignUserToHouse, Answer, HousesTypeOK
<1>6. ASSUME NEW r \in admitted, RemoveUserFromHouse(r) PROVE HousesTypeOK'
    BY <1>6, RoleTyped DEF RemoveUserFromHouse, Answer, HousesTypeOK
<1>7. ASSUME NEW r \in admitted, UpdateUserRole(r) PROVE HousesTypeOK'
    BY <1>7, RoleTyped DEF UpdateUserRole, Answer, HousesTypeOK
<1>8. ASSUME NEW r \in admitted, Refuse(r) PROVE HousesTypeOK'
    BY <1>8 DEF Refuse, Answer, HousesTypeOK
<1>. QED BY <1>1, <1>2, <1>3, <1>4, <1>5, <1>6, <1>7, <1>8 DEF HousesStep

LEMMA RealKept ==
    HousesTypeOK /\ MembershipsAreReal /\ HousesStep => MembershipsAreReal'
<1> SUFFICES ASSUME HousesTypeOK, MembershipsAreReal, HousesStep,
                    NEW h \in Houses, NEW u \in Users, role'[h][u] # None
             PROVE  house'[h] = "open" /\ u \in registered'
    BY DEF MembershipsAreReal
<1>1. ASSUME NEW v \in Users, Register(v) PROVE house'[h] = "open" /\ u \in registered'
    BY <1>1 DEF Register, MembershipsAreReal
<1>2. ASSUME NEW r \in HouseRequest, Admit(r) PROVE house'[h] = "open" /\ u \in registered'
    BY <1>2 DEF Admit, MembershipsAreReal
<1>3. ASSUME NEW r \in admitted, CreateHouse(r) PROVE house'[h] = "open" /\ u \in registered'
    BY <1>3 DEF CreateHouse, Answer, MembershipsAreReal, HousesTypeOK
<1>4. ASSUME NEW r \in admitted, RemoveHouse(r) PROVE house'[h] = "open" /\ u \in registered'
    BY <1>4 DEF RemoveHouse, Answer, MembershipsAreReal, HousesTypeOK
<1>5. ASSUME NEW r \in admitted, AssignUserToHouse(r)
      PROVE  house'[h] = "open" /\ u \in registered'
    BY <1>5 DEF AssignUserToHouse, Answer, MembershipsAreReal, HousesTypeOK
<1>6. ASSUME NEW r \in admitted, RemoveUserFromHouse(r) \/ UpdateUserRole(r)
      PROVE  house'[h] = "open" /\ u \in registered'
  <2>1. role[h][u] # None
    BY <1>6 DEF RemoveUserFromHouse, UpdateUserRole, Members, HousesTypeOK
  <2>. QED BY <1>6, <2>1
           DEF RemoveUserFromHouse, UpdateUserRole, Answer, MembershipsAreReal
<1>7. ASSUME NEW r \in admitted, Refuse(r) PROVE house'[h] = "open" /\ u \in registered'
    BY <1>7 DEF Refuse, Answer, MembershipsAreReal
<1>. QED BY <1>1, <1>2, <1>3, <1>4, <1>5, <1>6, <1>7 DEF HousesStep

-----------------------------------------------------------------------------
(* Types.                                                                  *)

LEMMA MatchingFinite ==
    ASSUME NEW w, NEW table \in Seq(Row)
    PROVE  Matching(w, table) \subseteq Nat /\ IsFiniteSet(Matching(w, table))
<1>1. DOMAIN table = 1 .. Len(table) /\ Len(table) \in Nat
    OBVIOUS
<1>2. IsFiniteSet(1 .. Len(table))
    BY <1>1, FS_Interval
<1>3. Matching(w, table) \subseteq 1 .. Len(table)
    BY <1>1 DEF Matching
<1>. QED BY <1>1, <1>2, <1>3, FS_Subset

LEMMA FalseTyped == FALSE \in BOOLEAN /\ TRUE \in BOOLEAN
OBVIOUS

\* A walk, and what its fields may be.
LEMMA WalkFields ==
    ASSUME NEW w \in Walk, NEW f \in SUBSET Nat,
           NEW b \in BOOLEAN, NEW g \in BOOLEAN
    PROVE  /\ [w EXCEPT !.grew = b, !.split = g, !.lost = f] \in Walk
           /\ [w EXCEPT !.got = TRUE, !.seen = f, !.twice = b] \in Walk
BY FalseTyped DEF Walk

LEMMA FollowTyped ==
    ASSUME rows \in Seq(Row), NEW table \in Seq(Row), walk \in Walk \cup {Idle}
    PROVE  Follow(walk, table) \in Walk \cup {Idle}
<1>1. CASE walk.pc # "page"
    BY <1>1 DEF Follow
<1>2. CASE walk.pc = "page"
  <2> DEFINE came == Matching(walk, table) \ Matching(walk, rows)
             left == Matching(walk, rows) \ Matching(walk, table)
             grown == walk.grew \/ came # {}
             torn == walk.split \/ (came # {} /\ walk.counted /\ ~walk.got)
             lost == walk.lost \cup left
  <2>1. walk \in Walk
    BY <1>2 DEF Idle
  <2>2. lost \in SUBSET Nat
    BY <2>1, MatchingFinite DEF Walk
  <2>3. grown \in BOOLEAN /\ torn \in BOOLEAN
    OBVIOUS
  <2>4. Follow(walk, table) = [walk EXCEPT !.grew = grown, !.split = torn,
                                           !.lost = lost]
    BY <1>2 DEF Follow
  <2> HIDE DEF grown, torn, lost
  <2>5. [walk EXCEPT !.grew = grown, !.split = torn, !.lost = lost] \in Walk
    BY <2>1, <2>2, <2>3, WalkFields
  <2>. QED BY <2>4, <2>5
<1>. QED BY <1>1, <1>2

LEMMA WalkStepTyped ==
    ASSUME rows \in Seq(Row), walk \in Walk \cup {Idle}, WalkStep
    PROVE  walk' \in Walk \cup {Idle}
<1>1. ASSUME NEW u \in Users, NEW unread \in BOOLEAN, StartWalk(u, unread)
      PROVE  walk' \in Walk
  <2> DEFINE w == [pc |-> "page", user |-> u, unread |-> unread, page |-> 0,
                   got |-> FALSE, counted |-> FALSE, total |-> 0, base |-> {},
                   seen |-> {}, twice |-> FALSE, lost |-> {}, grew |-> FALSE, split |-> FALSE]
  <2>1. w \in Walk
    BY FalseTyped DEF Walk
  <2>2. Matching(w, rows) \in SUBSET Nat
    BY MatchingFinite
  <2>3. walk' = [w EXCEPT !.base = Matching(w, rows)]
    BY <1>1 DEF StartWalk
  <2> HIDE DEF w
  <2>. QED BY <2>1, <2>2, <2>3 DEF Walk
<1>2. CASE FindPage
  <2> DEFINE page == OnPage(walk, walk.page)
             again == walk.twice \/ walk.seen \cap page # {}
  <2>1. walk \in Walk
    BY <1>2 DEF FindPage, Idle
  <2>2. walk.seen \cup page \in SUBSET Nat
    BY <2>1, MatchingFinite DEF Walk, OnPage
  <2>3. again \in BOOLEAN
    OBVIOUS
  <2>4. walk' = [walk EXCEPT !.got = TRUE, !.seen = walk.seen \cup page, !.twice = again]
    BY <1>2 DEF FindPage
  <2> HIDE DEF page, again
  <2>. QED BY <2>1, <2>2, <2>3, <2>4, WalkFields
<1>3. CASE CountRows
  <2>1. walk \in Walk
    BY <1>3 DEF CountRows, Idle
  <2>2. Cardinality(Matching(walk, rows)) \in Nat
    BY MatchingFinite, FS_CardinalityType
  <2>. QED BY <1>3, <2>1, <2>2, FalseTyped DEF CountRows, Walk
<1>4. CASE TurnPage
  <2>1. walk \in Walk
    BY <1>4 DEF TurnPage, Idle
  <2>2. [walk EXCEPT !.pc = "done"] \in Walk
    BY <2>1 DEF Walk
  <2> DEFINE next == walk.page + 1
  <2>0. next \in Nat
    BY <2>1 DEF Walk
  <2> HIDE DEF next
  <2>3. [walk EXCEPT !.page = next, !.got = FALSE, !.counted = FALSE,
                     !.total = 0, !.split = FALSE] \in Walk
    BY <2>0, <2>1, FalseTyped DEF Walk
  <2>. QED BY <1>4, <2>2, <2>3 DEF TurnPage, next
<1>. QED BY <1>1, <1>2, <1>3, <1>4 DEF WalkStep

LEMMA CallRecord ==
    ASSUME NEW x \in Call, NEW left \in [Users -> Nat], NEW to \in SUBSET Users,
           NEW pc \in {"new", "members", "each", "push", "done", "broken"}
    PROVE  /\ [x EXCEPT !.left = left, !.to = to, !.pc = pc] \in Call
           /\ [x EXCEPT !.left = left, !.pc = pc] \in Call
           /\ [x EXCEPT !.pc = pc] \in Call
BY DEF Call

LEMMA BegunRecord ==
    ASSUME NEW x \in Call, NEW left \in [Users -> Nat], NEW to \in SUBSET Users,
           NEW kind \in {"budget", "bulk", "one", "critical", "broadcast", "system"},
           NEW pc \in {"each", "push", "done"}
    PROVE  /\ [x EXCEPT !.kind = kind, !.left = left, !.to = to, !.pc = pc] \in Call
           /\ [x EXCEPT !.kind = kind, !.pc = pc, !.to = to] \in Call
BY DEF Call

LEMMA PlaceTyped ==
    ASSUME NEW kind, NEW left PROVE Place(kind, left) \in {"each", "push", "done"}
BY DEF Place

LEMMA NoOneTyped == NoOne \in [Users -> Nat]
BY DEF NoOne

LEMMA OneOfTyped == ASSUME NEW set PROVE OneOf(set) \in [Users -> Nat]
BY DEF OneOf

-----------------------------------------------------------------------------
(* The inductive invariant.  What each call has stored and has yet to      *)
(* store adds up to what it was asked for; a house's call is asked for the *)
(* members it found, between those of all the time and those of some time; *)
(* what was emitted was emitted at the end, to the users asked for.        *)

Counted(c) ==
    call[c].kind \in {"none", "house", "budget", "one", "critical"} =>
        \A u \in Users : Told(c, u) + call[c].left[u] = IF u \in call[c].to THEN 1 ELSE 0

Unborn(c) ==
    call[c].pc = "new" =>
        call[c].kind = "none" /\ call[c].to = {} /\ call[c].left = NoOne /\ sent[c] = {}

Reading(c) ==
    call[c].pc = "members" =>
        /\ call[c].kind = "house" /\ call[c].house \in Houses
        /\ call[c].to = {} /\ call[c].left = NoOne
        /\ call[c].steady \subseteq Members(call[c].house)
        /\ Members(call[c].house) \subseteq call[c].ever

Housed(c) ==
    call[c].kind = "house" =>
        /\ call[c].to \subseteq call[c].ever
        /\ call[c].pc \in {"each", "push", "done"} => call[c].steady \subseteq call[c].to

Known(c) == call[c].kind \in {"house", "budget"} => call[c].to \subseteq registered

Emitted(c) == sent[c] # {} => call[c].pc = "done" /\ sent[c] = Addressees(call[c].to)

Settled(c) ==
    /\ call[c].kind \in {"critical", "broadcast"} /\ call[c].pc \in {"push", "done"} =>
            call[c].left = NoOne
    /\ call[c].kind = "critical" => call[c].to # {}

CallOK(c) ==
    /\ Counted(c)
    /\ Unborn(c)
    /\ Reading(c)
    /\ Housed(c)
    /\ Known(c)
    /\ Emitted(c)
    /\ Settled(c)

Inv ==
    /\ TypeOK
    /\ MembershipsAreReal
    /\ \A c \in Calls : CallOK(c)

\* The rows of a call for a user.
RowsOf(table, c, u) == {i \in DOMAIN table : table[i].by = c /\ table[i].user = u}

LEMMA RowsOfFinite ==
    ASSUME NEW table \in Seq(Row), NEW c, NEW u
    PROVE  IsFiniteSet(RowsOf(table, c, u))
<1>1. DOMAIN table = 1 .. Len(table) /\ Len(table) \in Nat
    OBVIOUS
<1>2. IsFiniteSet(1 .. Len(table))
    BY <1>1, FS_Interval
<1>3. RowsOf(table, c, u) \subseteq 1 .. Len(table)
    BY <1>1 DEF RowsOf
<1>. QED BY <1>2, <1>3, FS_Subset

LEMMA ToldIsCount == ASSUME NEW c, NEW u PROVE Told(c, u) = Cardinality(RowsOf(rows, c, u))
BY DEF Told, RowsOf

LEMMA ToldNat == ASSUME rows \in Seq(Row), NEW c, NEW u PROVE Told(c, u) \in Nat
BY RowsOfFinite, ToldIsCount, FS_CardinalityType

LEMMA ToldStored ==
    ASSUME rows \in Seq(Row), NEW r \in Row, rows' = Append(rows, r), NEW c, NEW u
    PROVE  Told(c, u)' = Told(c, u) + IF r.by = c /\ r.user = u THEN 1 ELSE 0
<1> DEFINE old == RowsOf(rows, c, u)
           new == RowsOf(rows', c, u)
           n == Len(rows) + 1
<1>0. Told(c, u) = Cardinality(old) /\ Told(c, u)' = Cardinality(new)
    BY DEF Told, RowsOf
<1>1. /\ DOMAIN rows = 1 .. Len(rows) /\ Len(rows) \in Nat
      /\ DOMAIN rows' = 1 .. n
      /\ \A i \in 1 .. Len(rows) : rows'[i] = rows[i]
      /\ rows'[n] = r
    OBVIOUS
<1>2. n \notin old
    BY <1>1 DEF RowsOf
<1>3. IsFiniteSet(old)
    BY RowsOfFinite
<1>4. CASE r.by = c /\ r.user = u
  <2>1. new = old \cup {n}
    BY <1>1, <1>4 DEF RowsOf
  <2> HIDE DEF old, new, n
  <2>2. Cardinality(new) = Cardinality(old) + 1
    BY <1>2, <1>3, <2>1, FS_AddElement
  <2>. QED BY <1>0, <1>4, <2>2
<1>5. CASE ~(r.by = c /\ r.user = u)
  <2>1. new = old
    BY <1>1, <1>5 DEF RowsOf
  <2>2. Told(c, u) \in Nat
    BY ToldNat
  <2> HIDE DEF old, new
  <2>. QED BY <1>0, <1>5, <2>1, <2>2
<1>. QED BY <1>4, <1>5

\* A call that a step leaves alone.
LEMMA Untouched ==
    ASSUME NEW c \in Calls, CallOK(c), call'[c] = call[c], sent'[c] = sent[c],
           \A u \in Users : Told(c, u)' = Told(c, u),
           registered \subseteq registered', call[c].pc = "members" => UNCHANGED role
    PROVE  CallOK(c)'
<1>1. Counted(c)'
    BY DEF CallOK, Counted
<1>2. Unborn(c)' /\ Housed(c)' /\ Emitted(c)' /\ Settled(c)'
    BY DEF CallOK, Unborn, Housed, Emitted, Settled
<1>3. Reading(c)' /\ Known(c)'
    BY DEF CallOK, Reading, Members, Known
<1>. QED BY <1>1, <1>2, <1>3 DEF CallOK

LEMMA InitInv == Init => Inv
<1> SUFFICES ASSUME Init PROVE Inv
    OBVIOUS
<1>1. NewCall \in Call
    BY NoOneTyped DEF NewCall, Call
<1>2. rows \in Seq(Row) /\ rows = <<>>
    BY DEF Init
<1>3. \A c \in Calls, u \in Users : Told(c, u) = 0
  <2>1. DOMAIN rows = {}
    BY <1>2
  <2>. QED BY <2>1, FS_EmptySet DEF Told
<1>4. TypeOK /\ MembershipsAreReal
    BY <1>1, <1>2, HousesInitTyped DEF Init, TypeOK
<1>5. ASSUME NEW c \in Calls PROVE CallOK(c)
  <2>1. call[c] = NewCall /\ sent[c] = {}
    BY DEF Init
  <2>2. Counted(c)
    BY <1>3, <2>1 DEF NewCall, NoOne, Counted
  <2>. QED BY <2>1, <2>2
           DEF NewCall, CallOK, Unborn, Reading, Housed, Known, Emitted, Settled
<1>. QED BY <1>4, <1>5 DEF Inv

LEMMA ToldUnchanged == ASSUME UNCHANGED rows, NEW c, NEW u PROVE Told(c, u)' = Told(c, u)
BY DEF Told

LEMMA RegisteredGrows == HousesStep => registered \subseteq registered'
BY DEF HousesStep, Register, Admit, CreateHouse, RemoveHouse, AssignUserToHouse,
       RemoveUserFromHouse, UpdateUserRole, Refuse, Answer

LEMMA NoneTold ==
    ASSUME NEW c \in Calls, CallOK(c), TypeOK, call[c].pc \in {"new", "members"}, NEW u \in Users
    PROVE  Told(c, u) = 0
<1>1. call[c].kind \in {"none", "house"} /\ call[c].to = {} /\ call[c].left = NoOne
    BY DEF CallOK, Unborn, Reading
<1>2. Told(c, u) + 0 = 0
    BY <1>1 DEF CallOK, Counted, NoOne
<1>3. Told(c, u) \in Nat
    BY ToldNat DEF TypeOK
<1>. QED BY <1>2, <1>3

LEMMA CommunityKeeps == Inv /\ Community => Inv'
<1> SUFFICES ASSUME Inv, Community PROVE Inv'
    OBVIOUS
<1> DEFINE now(c) == {u \in Users : role'[call[c].house][u] # None}
<1>1. HousesTypeOK' /\ MembershipsAreReal' /\ registered \subseteq registered'
    BY HousesStepTyped, RealKept, RegisteredGrows DEF Inv, TypeOK, Community
<1>2. ASSUME NEW c \in Calls PROVE call'[c] \in Call /\ CallOK(c)'
  <2>0. /\ call[c] \in Call /\ CallOK(c) /\ sent'[c] = sent[c]
        /\ \A u \in Users : Told(c, u)' = Told(c, u)
    BY ToldUnchanged DEF Inv, TypeOK, Community
  <2>1. CASE call[c].pc # "members"
    <3>1. call'[c] = call[c]
      BY <2>1 DEF Community
    <3>. QED BY <1>1, <2>0, <2>1, <3>1, Untouched
  <2>2. CASE call[c].pc = "members"
    <3>1. call'[c] = [call[c] EXCEPT !.steady = @ \cap now(c), !.ever = @ \cup now(c)]
      BY <2>2 DEF Community
    <3>2. now(c) = Members(call[c].house)'
      BY <2>0, <2>2, <3>1 DEF Members, Call
    <3>3. now(c) \subseteq Users
      OBVIOUS
    <3> HIDE DEF now
    <3>4. call'[c] \in Call
      BY <2>0, <3>1, <3>3 DEF Call
    <3>5. /\ call'[c].kind = call[c].kind
          /\ call'[c].pc = call[c].pc /\ call'[c].to = call[c].to
          /\ call'[c].left = call[c].left /\ call'[c].house = call[c].house
          /\ call'[c].steady \subseteq now(c) /\ now(c) \subseteq call'[c].ever
      BY <2>0, <3>1 DEF Call
    <3>6. Unborn(c)' /\ Emitted(c)' /\ Settled(c)' /\ Known(c)' /\ Housed(c)'
      BY <1>1, <2>0, <2>2, <3>5
         DEF CallOK, Unborn, Reading, Emitted, Settled, Known, Housed
    <3>7. Counted(c)'
      BY <2>0, <3>5 DEF CallOK, Counted
    <3>8. Reading(c)'
      BY <2>0, <3>2, <3>5 DEF CallOK, Reading
    <3>. QED BY <3>4, <3>6, <3>7, <3>8 DEF CallOK
  <2>. QED BY <2>1, <2>2
<1>3. call' \in [Calls -> Call]
    BY <1>2 DEF Community
<1>. QED BY <1>1, <1>2, <1>3 DEF Inv, TypeOK, Community

\* A step that touches one call and no rows.
LEMMA OneCall ==
    ASSUME Inv, NEW c \in Calls, NEW x \in Call, call' = [call EXCEPT ![c] = x],
           UNCHANGED <<houseVars, rows, walk>>,
           sent' \in [Calls -> SUBSET (Users \cup {Everyone})],
           \A d \in Calls \ {c} : sent'[d] = sent[d],
           CallOK(c)'
    PROVE  Inv'
<1>1. ASSUME NEW d \in Calls, d # c PROVE CallOK(d)'
  <2>1. call'[d] = call[d] /\ sent'[d] = sent[d] /\ UNCHANGED <<registered, role>>
    BY <1>1 DEF Inv, TypeOK, houseVars
  <2>. QED BY <2>1, Untouched, ToldUnchanged DEF Inv
<1>2. \A d \in Calls : CallOK(d)'
    BY <1>1
<1>3. TypeOK'
    BY DEF Inv, TypeOK, HousesTypeOK, houseVars
<1>. QED BY <1>2, <1>3 DEF Inv, MembershipsAreReal, houseVars

LEMMA BeginKeeps ==
    ASSUME Inv, NEW c \in Calls, NEW left \in [Users -> Nat],
           NEW kind \in {"budget", "bulk", "one", "critical", "broadcast"},
           Begin(c, kind, left),
           kind \in {"budget", "one", "critical"} => \A u \in Users : left[u] <= 1,
           kind = "budget" => \A u \in Users : left[u] > 0 => u \in registered,
           kind = "critical" => \E u \in Users : left[u] > 0
    PROVE  Inv'
<1> DEFINE to == {u \in Users : left[u] > 0}
           pc == Place(kind, left)
           x == [call[c] EXCEPT !.kind = kind, !.left = left, !.to = to, !.pc = pc]
<1>0. call[c] \in Call /\ CallOK(c) /\ call[c].pc = "new"
    BY DEF Inv, TypeOK, Begin
<1>1. to \in SUBSET Users /\ pc \in {"each", "push", "done"}
    BY PlaceTyped
<1>2. call' = [call EXCEPT ![c] = x] /\ UNCHANGED <<houseVars, rows, sent, walk>>
    BY DEF Begin
<1>3. \A u \in Users : left[u] \in Nat /\ (u \in to <=> left[u] > 0)
    OBVIOUS
<1>4. /\ kind \in {"critical", "broadcast"} /\ pc \in {"push", "done"} => left = NoOne
      /\ kind = "critical" => to # {}
      /\ kind = "budget" => to \subseteq registered
    BY DEF Place
<1> HIDE DEF to, pc
<1>5. x \in Call
    BY <1>0, <1>1, BegunRecord
<1>6. /\ call'[c].kind = kind /\ call'[c].left = left
      /\ call'[c].to = to /\ call'[c].pc = pc /\ sent'[c] = {} /\ registered' = registered
    BY <1>0, <1>2 DEF Inv, TypeOK, Call, houseVars, CallOK, Unborn
<1>7. Counted(c)'
  <2>1. SUFFICES ASSUME kind \in {"budget", "one", "critical"}, NEW u \in Users
                 PROVE  Told(c, u)' + left[u] = IF u \in to THEN 1 ELSE 0
    BY <1>6 DEF Counted
  <2>2. Told(c, u)' = 0
    BY <1>0, <1>2, NoneTold, ToldUnchanged DEF Inv
  <2>. QED BY <1>3, <2>1, <2>2
<1>8. CallOK(c)'
    BY <1>1, <1>4, <1>6, <1>7
       DEF CallOK, Unborn, Reading, Housed, Known, Emitted, Settled
<1> HIDE DEF x
<1>. QED BY <1>2, <1>5, <1>8, OneCall DEF Inv, TypeOK

LEMMA BeginCallKeeps == ASSUME Inv, NEW c \in Calls, BeginCall(c) PROVE Inv'
<1>0. call[c] \in Call /\ CallOK(c) /\ sent[c] \in SUBSET (Users \cup {Everyone})
    BY DEF Inv, TypeOK
<1>1. ASSUME NEW h \in Houses, NotifyHouse(c, h) PROVE Inv'
  <2> DEFINE x == [call[c] EXCEPT !.kind = "house", !.pc = "members", !.house = h,
                                  !.steady = Members(h), !.ever = Members(h)]
  <2>1. /\ call' = [call EXCEPT ![c] = x]
        /\ call[c].pc = "new" /\ UNCHANGED <<houseVars, rows, sent, walk>>
    BY <1>1 DEF NotifyHouse
  <2>2. x \in Call
    BY <1>0 DEF Call, Members
  <2>3. call'[c] = x
    BY <2>1 DEF Inv, TypeOK
  <2>4. /\ x.kind = "house" /\ x.pc = "members" /\ x.house = h
        /\ x.steady = Members(h) /\ x.ever = Members(h)
        /\ x.to = call[c].to /\ x.left = call[c].left
    BY <1>0 DEF Call
  <2> HIDE DEF x
  <2>5. call[c].to = {} /\ call[c].left = NoOne /\ sent'[c] = {} /\ Members(h)' = Members(h)
    BY <1>0, <2>1 DEF CallOK, Unborn, Members, houseVars
  <2>6. Counted(c)'
    <3>1. \A u \in Users : Told(c, u)' = 0
      BY <1>0, <2>1, NoneTold, ToldUnchanged DEF Inv
    <3>. QED BY <2>3, <2>4, <2>5, <3>1 DEF Counted, NoOne
  <2>7. CallOK(c)'
    BY <2>3, <2>4, <2>5, <2>6
       DEF CallOK, Unborn, Reading, Housed, Known, Emitted, Settled
  <2>. QED BY <2>1, <2>2, <2>7, OneCall DEF Inv, TypeOK
<1>2. ASSUME NEW h \in Houses, NotifyBudgetAlert(c, h) PROVE Inv'
  <2> DEFINE left == OneOf(Members(h) \cap GlobalOfficers)
  <2>1. left \in [Users -> Nat] /\ \A u \in Users : left[u] <= 1
    BY DEF OneOf
  <2>2. \A u \in Users : left[u] > 0 => u \in registered
    BY DEF OneOf, Members, Inv, MembershipsAreReal
  <2>3. Begin(c, "budget", left)
    BY <1>2 DEF NotifyBudgetAlert
  <2> HIDE DEF left
  <2>. QED BY <2>1, <2>2, <2>3, BeginKeeps
<1>3. ASSUME NEW list \in Lists, CreateBulk(c, list) \/ BroadcastCriticalVotingEvent(c, list)
      PROVE  Inv'
  <2>1. list \in [Users -> Nat]
    BY NotificationsAssumption DEF NotificationsAssumption
  <2>. QED BY <1>3, <2>1, BeginKeeps DEF CreateBulk, BroadcastCriticalVotingEvent
<1>4. ASSUME NEW u \in Users, Create(c, u) \/ SendCriticalVotingNotification(c, u)
      PROVE  Inv'
  <2> DEFINE left == OneOf({u})
  <2>1. left \in [Users -> Nat] /\ (\A v \in Users : left[v] <= 1) /\ left[u] > 0
    BY DEF OneOf
  <2>2. Begin(c, "one", left) \/ Begin(c, "critical", left)
    BY <1>4 DEF Create, SendCriticalVotingNotification
  <2> HIDE DEF left
  <2>. QED BY <2>1, <2>2, BeginKeeps
<1>5. ASSUME NEW u \in Users, NotifyProposalStatusChange(c, u) PROVE Inv'
  <2> DEFINE left == OneOf({u})
  <2>1. left \in [Users -> Nat] /\ (\A v \in Users : left[v] <= 1)
    BY DEF OneOf
  <2>2. Begin(c, "one", left)
    BY <1>5 DEF NotifyProposalStatusChange
  <2> HIDE DEF left
  <2>. QED BY <2>1, <2>2, BeginKeeps
<1>6. ASSUME NEW users \in SUBSET Users, PushOnly(c, users) PROVE Inv'
  <2> DEFINE x == [call[c] EXCEPT !.kind = "system", !.pc = "done", !.to = users]
  <2>1. /\ call' = [call EXCEPT ![c] = x] /\ sent' = [sent EXCEPT ![c] = Addressees(users)]
        /\ UNCHANGED <<houseVars, rows, walk>>
    BY <1>6 DEF PushOnly
  <2>2. x \in Call
    BY <1>0, BegunRecord, NoOneTyped
  <2>3. call'[c] = x /\ sent'[c] = Addressees(users)
    BY <2>1 DEF Inv, TypeOK
  <2>4. x.kind = "system" /\ x.pc = "done" /\ x.to = users
    BY <1>0 DEF Call, CallOK
  <2> HIDE DEF x
  <2>5. Addressees(users) \in SUBSET (Users \cup {Everyone})
    BY DEF Addressees
  <2>6. CallOK(c)'
    BY <2>3, <2>4
       DEF CallOK, Counted, Unborn, Reading, Housed, Known, Emitted, Settled
  <2>7. sent' \in [Calls -> SUBSET (Users \cup {Everyone})] /\ \A d \in Calls \ {c} : sent'[d] = sent[d]
    BY <2>1, <2>5 DEF Inv, TypeOK
  <2>. QED BY <2>1, <2>2, <2>6, <2>7, OneCall
<1>. QED BY <1>1, <1>2, <1>3, <1>4, <1>5, <1>6 DEF BeginCall

-----------------------------------------------------------------------------
(* Calls go on.                                                            *)

\* A call leaves its place for another: all else stays.
LEMMA Moved ==
    ASSUME Inv, NEW c \in Calls, NEW pc \in {"members", "each", "push", "done", "broken"},
           call' = [call EXCEPT ![c].pc = pc]
    PROVE  /\ [call[c] EXCEPT !.pc = pc] \in Call
           /\ call' = [call EXCEPT ![c] = [call[c] EXCEPT !.pc = pc]]
           /\ call'[c] = [call[c] EXCEPT !.pc = pc]
           /\ call'[c].pc = pc
           /\ call'[c].kind = call[c].kind /\ call'[c].house = call[c].house
           /\ call'[c].to = call[c].to /\ call'[c].left = call[c].left
          
           /\ call'[c].steady = call[c].steady /\ call'[c].ever = call[c].ever
<1>1. call[c] \in Call /\ call \in [Calls -> Call]
    BY DEF Inv, TypeOK
<1>2. [call[c] EXCEPT !.pc = pc] \in Call
    BY <1>1, CallRecord, NoOneTyped
<1>3. call'[c] = [call[c] EXCEPT !.pc = pc]
    BY <1>1
<1>. QED BY <1>1, <1>2, <1>3 DEF Call

LEMMA FailKeeps == ASSUME Inv, NEW c \in Calls, Fail(c) PROVE Inv'
<1> DEFINE x == [call[c] EXCEPT !.pc = "broken"]
<1>1. /\ call' = [call EXCEPT ![c].pc = "broken"] /\ call[c].pc \in {"members", "each"}
      /\ UNCHANGED <<houseVars, rows, sent, walk>>
    BY DEF Fail
<1>2. /\ x \in Call /\ call' = [call EXCEPT ![c] = x]
      /\ call'[c].pc = "broken"
      /\ call'[c].kind = call[c].kind /\ call'[c].to = call[c].to
      /\ call'[c].left = call[c].left
      /\ call'[c].steady = call[c].steady /\ call'[c].ever = call[c].ever
    BY <1>1, Moved
<1>3. CallOK(c) /\ sent'[c] = {} /\ registered' = registered
    BY <1>1 DEF Inv, CallOK, Emitted, houseVars
<1>4. Counted(c)'
    BY <1>1, <1>2, <1>3, ToldUnchanged DEF CallOK, Counted
<1>5. Housed(c)' /\ Known(c)'
  <2>1. call[c].kind = "house" => call[c].to \subseteq call[c].ever
    BY <1>3 DEF CallOK, Housed
  <2>. QED BY <1>2, <1>3, <2>1 DEF CallOK, Housed, Known
<1>6. Settled(c)'
    BY <1>2, <1>3 DEF CallOK, Settled
<1>7. CallOK(c)'
    BY <1>2, <1>3, <1>4, <1>5, <1>6 DEF CallOK, Unborn, Reading, Emitted
<1> HIDE DEF x
<1>. QED BY <1>1, <1>2, <1>7, OneCall DEF Inv, TypeOK

LEMMA PushKeeps == ASSUME Inv, NEW c \in Calls, Push(c) PROVE Inv'
<1> DEFINE x == [call[c] EXCEPT !.pc = "done"]
<1>1. /\ call' = [call EXCEPT ![c].pc = "done"] /\ call[c].pc = "push"
      /\ sent' = [sent EXCEPT ![c] = Addressees(call[c].to)]
      /\ UNCHANGED <<houseVars, rows, walk>>
    BY DEF Push
<1>2. /\ x \in Call /\ call' = [call EXCEPT ![c] = x]
      /\ call'[c].pc = "done"
      /\ call'[c].kind = call[c].kind /\ call'[c].to = call[c].to
      /\ call'[c].left = call[c].left
      /\ call'[c].steady = call[c].steady /\ call'[c].ever = call[c].ever
    BY <1>1, Moved
<1>3. call[c].to \in SUBSET Users
    BY DEF Inv, TypeOK, Call
<1>4. Addressees(call[c].to) \in SUBSET (Users \cup {Everyone})
    BY <1>3 DEF Addressees
<1>5. /\ sent' \in [Calls -> SUBSET (Users \cup {Everyone})]
      /\ \A d \in Calls \ {c} : sent'[d] = sent[d]
      /\ sent'[c] = Addressees(call[c].to)
    BY <1>1, <1>4 DEF Inv, TypeOK
<1>6. CallOK(c) /\ registered' = registered
    BY <1>1 DEF Inv, houseVars
<1>7. Counted(c)'
    BY <1>1, <1>2, <1>6, ToldUnchanged DEF CallOK, Counted
<1>8. Housed(c)' /\ Known(c)' /\ Settled(c)' /\ Emitted(c)'
    BY <1>1, <1>2, <1>5, <1>6 DEF CallOK, Housed, Known, Settled, Emitted
<1>9. CallOK(c)'
    BY <1>2, <1>6, <1>7, <1>8 DEF CallOK, Unborn, Reading
<1> HIDE DEF x
<1>. QED BY <1>1, <1>2, <1>5, <1>9, OneCall

LEMMA ReadMembersKeeps == ASSUME Inv, NEW c \in Calls, ReadMembers(c) PROVE Inv'
<1> DEFINE members == Members(call[c].house)
           left == OneOf(members)
           pc == Place("house", left)
           x == [call[c] EXCEPT !.left = left, !.to = members, !.pc = pc]
<1>1. /\ call' = [call EXCEPT ![c] = x] /\ call[c].pc = "members"
      /\ UNCHANGED <<houseVars, rows, sent, walk>>
    BY DEF ReadMembers
<1>2. call[c] \in Call /\ CallOK(c) /\ call[c].kind = "house" /\ call[c].house \in Houses
    BY <1>1 DEF Inv, TypeOK, CallOK, Reading
<1>3. members \in SUBSET Users /\ members \subseteq registered
    BY <1>2 DEF Members, Inv, MembershipsAreReal
<1>4. /\ left \in [Users -> Nat]
      /\ \A u \in Users : left[u] = IF u \in members THEN 1 ELSE 0
    BY DEF OneOf
<1>5. call[c].steady \subseteq members /\ members \subseteq call[c].ever /\ sent[c] = {}
    BY <1>1, <1>2 DEF CallOK, Reading, Emitted
<1>6. pc \in {"each", "push", "done"}
    BY PlaceTyped
<1> HIDE DEF members, left, pc
<1>7. x \in Call
    BY <1>2, <1>3, <1>4, <1>6, CallRecord
<1>8. /\ call'[c].kind = "house" /\ call'[c].left = left /\ call'[c].to = members
      /\ call'[c].pc = pc
      /\ call'[c].steady = call[c].steady /\ call'[c].ever = call[c].ever
      /\ sent'[c] = {} /\ registered' = registered
    BY <1>1, <1>2, <1>5 DEF Inv, TypeOK, Call, houseVars
<1>9. Counted(c)'
  <2>1. ASSUME NEW u \in Users PROVE Told(c, u)' = 0
    BY <1>1, <1>2, NoneTold, ToldUnchanged DEF Inv
  <2>. QED BY <1>4, <1>8, <2>1 DEF Counted
<1>10. CallOK(c)'
    BY <1>2, <1>3, <1>5, <1>6, <1>8, <1>9
       DEF CallOK, Unborn, Reading, Housed, Known, Emitted, Settled
<1> HIDE DEF x
<1>. QED BY <1>1, <1>7, <1>10, OneCall DEF Inv, TypeOK

LEMMA DoneFields ==
    ASSUME Inv, NEW c \in Calls, NEW u \in Users, call[c].left[u] > 0, Done(c, u)
    PROVE  /\ call' \in [Calls -> Call] /\ call' = [call EXCEPT ![c] = call'[c]]
           /\ call'[c].left = [call[c].left EXCEPT ![u] = @ - 1]
           /\ call'[c].left \in [Users -> Nat]
           /\ call'[c].pc = Place(call[c].kind, call'[c].left)
           /\ call'[c].kind = call[c].kind /\ call'[c].house = call[c].house
           /\ call'[c].to = call[c].to
           /\ call'[c].steady = call[c].steady /\ call'[c].ever = call[c].ever
<1> DEFINE left == [call[c].left EXCEPT ![u] = @ - 1]
           pc == Place(call[c].kind, left)
           x == [call[c] EXCEPT !.left = left, !.pc = pc]
<1>1. call[c] \in Call /\ call \in [Calls -> Call] /\ call[c].left \in [Users -> Nat]
    BY DEF Inv, TypeOK, Call
<1>2. left \in [Users -> Nat]
    BY <1>1
<1>3. pc \in {"each", "push", "done"}
    BY PlaceTyped
<1>4. call' = [call EXCEPT ![c] = x]
    BY DEF Done
<1> HIDE DEF left, pc
<1>5. x \in Call
    BY <1>1, <1>2, <1>3, CallRecord
<1>6. call'[c] = x /\ call' \in [Calls -> Call] /\ call' = [call EXCEPT ![c] = call'[c]]
    BY <1>1, <1>4, <1>5
<1>7. /\ x.left = left /\ x.pc = pc /\ x.kind = call[c].kind /\ x.house = call[c].house
      /\ x.to = call[c].to
      /\ x.steady = call[c].steady /\ x.ever = call[c].ever
    BY <1>1 DEF Call
<1> HIDE DEF x
<1>. QED BY <1>2, <1>6, <1>7 DEF left, pc

\* One creation less; what is counted is for the caller to show.
LEMMA DoneOK ==
    ASSUME Inv, NEW c \in Calls, NEW u \in Users, call[c].pc = "each",
           call[c].left[u] > 0, Done(c, u), UNCHANGED <<houseVars, sent>>, Counted(c)'
    PROVE  CallOK(c)'
<1>1. CallOK(c) /\ sent'[c] = {} /\ registered' = registered
    BY DEF Inv, CallOK, Emitted, houseVars
<1>2. /\ call'[c].pc \in {"each", "push", "done"}
      /\ call'[c].pc # "each" => call'[c].left = NoOne
    BY DoneFields DEF Place
<1>3. Housed(c)' /\ Known(c)' /\ Settled(c)'
    BY <1>1, <1>2, DoneFields DEF CallOK, Housed, Known, Settled
<1>. QED BY <1>1, <1>2, <1>3, DoneFields DEF CallOK, Unborn, Reading, Emitted

LEMMA SkipKeeps == ASSUME Inv, NEW c \in Calls, NEW u \in Users, Skip(c, u) PROVE Inv'
<1>1. /\ Done(c, u) /\ call[c].pc = "each" /\ call[c].left[u] > 0
      /\ UNCHANGED <<houseVars, rows, sent, walk>>
    BY DEF Skip
<1>2. CallOK(c)
    BY DEF Inv
<1>3. call[c].kind \in {"broadcast", "bulk"}
  <2>1. ASSUME call[c].kind \in {"house", "budget"}, u \notin registered PROVE FALSE
    <3>1. u \notin call[c].to
      BY <1>2, <2>1 DEF CallOK, Known
    <3>2. Told(c, u) + call[c].left[u] = 0
      BY <1>2, <2>1, <3>1 DEF CallOK, Counted
    <3>3. Told(c, u) \in Nat /\ call[c].left[u] \in Nat
      BY ToldNat DEF Inv, TypeOK, Call
    <3>. QED BY <1>1, <3>2, <3>3
  <2>. QED BY <2>1 DEF Skip
<1>4. Counted(c)'
    BY <1>1, <1>3, DoneFields DEF Counted
<1>5. CallOK(c)'
    BY <1>1, <1>4, DoneOK
<1>6. call'[c] \in Call /\ call' = [call EXCEPT ![c] = call'[c]]
    BY <1>1, DoneFields
<1>. QED BY <1>1, <1>5, <1>6, OneCall DEF Inv, TypeOK

LEMMA StoreKeeps == ASSUME Inv, NEW c \in Calls, NEW u \in Users, Store(c, u) PROVE Inv'
<1> DEFINE r == [user |-> u, by |-> c, state |-> "unread"]
<1>1. /\ Done(c, u) /\ call[c].pc = "each" /\ call[c].left[u] > 0
      /\ rows' = Append(rows, r) /\ walk' = Follow(walk, Append(rows, r))
      /\ UNCHANGED <<houseVars, sent>>
    BY DEF Store, Put
<1>2. r \in Row /\ r.by = c /\ r.user = u
    BY DEF Row
<1>3. rows \in Seq(Row) /\ walk \in Walk \cup {Idle} /\ CallOK(c)
    BY DEF Inv, TypeOK
<1> HIDE DEF r
<1>4. rows' \in Seq(Row)
    BY <1>1, <1>2, <1>3
<1>5. walk' \in Walk \cup {Idle}
    BY <1>1, <1>3, <1>4, FollowTyped
<1>7. TypeOK' /\ MembershipsAreReal'
    BY <1>1, <1>4, <1>5, DoneFields
       DEF Inv, TypeOK, HousesTypeOK, MembershipsAreReal, houseVars
<1>8. ASSUME NEW d \in Calls, d # c PROVE CallOK(d)'
  <2>1. call'[d] = call[d] /\ sent'[d] = sent[d] /\ UNCHANGED <<registered, role>>
    BY <1>1, <1>8, DoneFields DEF Inv, TypeOK, houseVars
  <2>2. ASSUME NEW v \in Users PROVE Told(d, v)' = Told(d, v)
    <3>1. Told(d, v)' = Told(d, v) + IF r.by = d /\ r.user = v THEN 1 ELSE 0
      BY <1>1, <1>2, <1>3, ToldStored
    <3>2. Told(d, v) \in Nat
      BY <1>3, ToldNat
    <3>. QED BY <1>2, <1>8, <3>1, <3>2
  <2>. QED BY <2>1, <2>2, Untouched DEF Inv
<1>9. Counted(c)'
  <2>1. SUFFICES ASSUME call[c].kind \in {"none", "house", "budget", "one", "critical"},
                        NEW v \in Users
                 PROVE  Told(c, v)' + call'[c].left[v] = IF v \in call[c].to THEN 1 ELSE 0
    BY <1>1, DoneFields DEF Counted
  <2>2. Told(c, v) + call[c].left[v] = IF v \in call[c].to THEN 1 ELSE 0
    BY <1>3, <2>1 DEF CallOK, Counted
  <2>3. Told(c, v)' = Told(c, v) + IF u = v THEN 1 ELSE 0
    <3>1. Told(c, v)' = Told(c, v) + IF r.by = c /\ r.user = v THEN 1 ELSE 0
      BY <1>1, <1>2, <1>3, ToldStored
    <3>. QED BY <1>2, <3>1
  <2>4. Told(c, v) \in Nat /\ call[c].left \in [Users -> Nat]
    BY <1>3, ToldNat DEF Inv, TypeOK, Call
  <2>5. call'[c].left[v] = call[c].left[v] - IF u = v THEN 1 ELSE 0
    <3>1. call'[c].left = [call[c].left EXCEPT ![u] = @ - 1]
      BY <1>1, DoneFields
    <3>2. u \in Users /\ v \in Users /\ \A w \in Users : call[c].left[w] \in Nat
      BY <2>4
    <3>3. CASE u = v
      BY <2>4, <3>1, <3>3
    <3>4. CASE u # v
      BY <2>4, <3>1, <3>2, <3>4
    <3>. QED BY <3>3, <3>4
  <2>6. call[c].left[v] \in Nat
    BY <2>4
  <2>. QED BY <2>2, <2>3, <2>4, <2>5, <2>6
<1>10. CallOK(c)'
    BY <1>1, <1>9, DoneOK
<1>. QED BY <1>7, <1>8, <1>10 DEF Inv

-----------------------------------------------------------------------------
(* Restarts, rows, the walk, and steps of nothing.                         *)

LEMMA RestartKeeps == Inv /\ Restart => Inv'
<1> SUFFICES ASSUME Inv, Restart PROVE Inv'
    OBVIOUS
<1>1. UNCHANGED <<registered, house, role, rows, sent, walk>> /\ admitted' = {}
    BY DEF Restart
<1>2. ASSUME NEW c \in Calls PROVE call'[c] \in Call /\ CallOK(c)'
  <2>0. call[c] \in Call /\ CallOK(c) /\ sent'[c] = sent[c] /\ \A u \in Users : Told(c, u)' = Told(c, u)
    BY <1>1, ToldUnchanged DEF Inv, TypeOK
  <2>1. CASE call[c].pc \notin {"members", "each", "push"}
    <3>1. call'[c] = call[c]
      BY <2>1 DEF Restart
    <3>. QED BY <1>1, <2>0, <3>1, Untouched
  <2>2. CASE call[c].pc \in {"members", "each", "push"}
    <3>1. call'[c] = [call[c] EXCEPT !.pc = "broken"]
      BY <2>2 DEF Restart
    <3>2. call'[c] \in Call
      BY <2>0, <3>1, CallRecord, NoOneTyped
    <3>3. /\ call'[c].pc = "broken"
          /\ call'[c].kind = call[c].kind /\ call'[c].to = call[c].to
          /\ call'[c].left = call[c].left
          /\ call'[c].steady = call[c].steady /\ call'[c].ever = call[c].ever
      BY <2>0, <3>1 DEF Call
    <3>4. Counted(c)'
      BY <2>0, <3>3 DEF CallOK, Counted
    <3>5. Housed(c)' /\ Known(c)' /\ Settled(c)'
      BY <1>1, <2>0, <3>3 DEF CallOK, Housed, Known, Settled
    <3>6. sent'[c] = {}
      BY <2>0, <2>2 DEF CallOK, Emitted
    <3>. QED BY <2>0, <3>2, <3>3, <3>4, <3>5, <3>6 DEF CallOK, Unborn, Reading, Emitted
  <2>. QED BY <2>1, <2>2
<1>3. call' \in [Calls -> Call]
    BY <1>2 DEF Restart
<1>. QED BY <1>1, <1>2, <1>3
         DEF Inv, TypeOK, HousesTypeOK, MembershipsAreReal

\* Whatever the rows become, each stays of its user and its call.
LEMMA BecomeKeeps ==
    ASSUME Inv, NEW which, NEW state \in {"read", "gone"}, Become(which, state)
    PROVE  Inv'
<1> DEFINE table == [i \in DOMAIN rows |->
                        IF i \in which THEN [rows[i] EXCEPT !.state = state] ELSE rows[i]]
<1>1. /\ rows' = table /\ walk' = Follow(walk, table)
      /\ UNCHANGED <<houseVars, call, sent>>
    BY DEF Become, Put
<1>2. rows \in Seq(Row) /\ walk \in Walk \cup {Idle}
    BY DEF Inv, TypeOK
<1>3. \A i \in DOMAIN rows : table[i] \in Row /\ table[i].by = rows[i].by /\ table[i].user = rows[i].user
  <2> SUFFICES ASSUME NEW i \in DOMAIN rows
               PROVE  table[i] \in Row /\ table[i].by = rows[i].by /\ table[i].user = rows[i].user
      OBVIOUS
  <2>1. rows[i] \in Row
      BY <1>2
  <2>2. /\ [rows[i] EXCEPT !.state = state] \in Row
        /\ [rows[i] EXCEPT !.state = state].by = rows[i].by
        /\ [rows[i] EXCEPT !.state = state].user = rows[i].user
      BY <2>1 DEF Row
  <2>3. table[i] = [rows[i] EXCEPT !.state = state] \/ table[i] = rows[i]
      OBVIOUS
  <2>. QED BY <2>1, <2>2, <2>3
<1>4. table \in Seq(Row)
  <2>1. DOMAIN rows = 1 .. Len(rows) /\ Len(rows) \in Nat
    BY <1>2
  <2>2. table \in [1 .. Len(rows) -> Row]
    BY <1>3, <2>1
  <2> HIDE DEF table
  <2>. QED BY <2>1, <2>2
<1>5. DOMAIN table = DOMAIN rows
    OBVIOUS
<1> HIDE DEF table
<1>6. walk' \in Walk \cup {Idle}
    BY <1>1, <1>2, <1>4, FollowTyped
<1>7. ASSUME NEW c \in Calls PROVE CallOK(c)'
  <2>1. ASSUME NEW u \in Users PROVE Told(c, u)' = Told(c, u)
    <3>1. RowsOf(rows', c, u) = RowsOf(rows, c, u)
      BY <1>1, <1>3, <1>5 DEF RowsOf
    <3>. QED BY <3>1 DEF Told, RowsOf
  <2>. QED BY <1>1, <2>1, Untouched DEF Inv, houseVars
<1>. QED BY <1>1, <1>4, <1>6, <1>7
         DEF Inv, TypeOK, HousesTypeOK, MembershipsAreReal, houseVars

LEMMA WalkKeeps ==
    ASSUME Inv, UNCHANGED <<houseVars, callVars>>, walk' \in Walk \cup {Idle} PROVE Inv'
<1>1. UNCHANGED <<registered, house, role, admitted, rows, call, sent>>
    BY DEF houseVars, callVars
<1>2. \A c \in Calls : CallOK(c)'
    BY <1>1, Untouched, ToldUnchanged DEF Inv
<1>. QED BY <1>1, <1>2 DEF Inv, TypeOK, HousesTypeOK, MembershipsAreReal

LEMMA StepKeeps == Inv /\ [Next]_vars => Inv'
<1> SUFFICES ASSUME Inv, [Next]_vars PROVE Inv'
    OBVIOUS
<1>1. CASE Community
    BY <1>1, CommunityKeeps
<1>2. ASSUME NEW c \in Calls, BeginCall(c) PROVE Inv'
    BY <1>2, BeginCallKeeps
<1>3. ASSUME NEW c \in Calls, Continue(c) PROVE Inv'
    BY <1>3, ReadMembersKeeps, StoreKeeps, SkipKeeps, FailKeeps, PushKeeps DEF Continue
<1>4. CASE Restart
    BY <1>4, RestartKeeps
<1>5. CASE RowStep
    BY <1>5, BecomeKeeps DEF RowStep, MarkAsRead, Remove, MarkAllAsRead, ClearAllForUser
<1>6. CASE WalkStep
  <2>1. UNCHANGED <<houseVars, callVars>>
    BY <1>6 DEF WalkStep, StartWalk, FindPage, CountRows, TurnPage
  <2>. QED BY <1>6, <2>1, WalkStepTyped, WalkKeeps DEF Inv, TypeOK
<1>7. CASE UNCHANGED vars
    BY <1>7, WalkKeeps DEF vars, Inv, TypeOK
<1>. QED BY <1>1, <1>2, <1>3, <1>4, <1>5, <1>6, <1>7 DEF Next

-----------------------------------------------------------------------------
(* The pages of findAll.  A row that was there all the time and has not    *)
(* been seen has as many newer ones as the pages had so far hold, since it *)
(* gets further from the first page unless a newer one leaves; and without *)
(* arrivals a row that was seen stays within those pages.  The total of    *)
(* the last page is not below the rows there were when the page was read.  *)

Newer(w, table, i) == Cardinality({j \in Matching(w, table) : j > i})

\* How many rows the pages had so far hold.
Reached(w) == IF w.got THEN w.page * PageSize + PageSize ELSE w.page * PageSize

Missing(w, table) ==
    {i \in w.base \cap Matching(w, table) : i \notin w.seen /\ ~\E j \in w.lost : j > i}

Reads(w, table) ==
    /\ \A i \in Missing(w, table) : Reached(w) <= Newer(w, table, i)
    /\ w.got /\ w.counted /\ ~w.split /\ Missing(w, table) # {} => Reached(w) < w.total
    /\ ~w.got /\ w.counted /\ ~w.split => Cardinality(Matching(w, table)) <= w.total
    /\ ~w.grew => \A i \in w.seen \cap Matching(w, table) : Newer(w, table, i) < Reached(w)

WalkOK(w, table) ==
    w.pc # "idle" =>
        /\ w.base \subseteq DOMAIN table
        /\ w.twice => w.grew
        /\ w.pc = "page" => Reads(w, table)
        /\ w.pc = "done" /\ ~w.split => Missing(w, table) = {}

LEMMA NewerNat ==
    ASSUME NEW w, NEW table \in Seq(Row), NEW i
    PROVE  Newer(w, table, i) \in Nat
<1>1. IsFiniteSet({j \in Matching(w, table) : j > i})
    BY MatchingFinite, FS_Subset
<1>. QED BY <1>1, FS_CardinalityType DEF Newer

\* Who is in the query has fewer newer ones than there are in it.
LEMMA NewerFewer ==
    ASSUME NEW w, NEW table \in Seq(Row), NEW i \in Matching(w, table)
    PROVE  Newer(w, table, i) < Cardinality(Matching(w, table))
<1> DEFINE all == Matching(w, table)
           some == {j \in all : j > i}
<1>1. all \subseteq Nat /\ IsFiniteSet(all) /\ i \in all /\ i \notin some /\ some \subseteq all
    BY MatchingFinite
<1>2. some # all
    BY <1>1
<1> HIDE DEF all, some
<1>3. Cardinality(some) < Cardinality(all)
  <2>1. IsFiniteSet(some) /\ Cardinality(some) <= Cardinality(all)
      BY <1>1, FS_Subset
  <2>2. Cardinality(some) # Cardinality(all)
      BY <1>1, <1>2, FS_Subset
  <2>3. Cardinality(some) \in Nat /\ Cardinality(all) \in Nat
      BY <1>1, <2>1, FS_CardinalityType
  <2>. QED BY <2>1, <2>2, <2>3
<1>. QED BY <1>3 DEF Newer, all, some

LEMMA NewerMore ==
    ASSUME NEW w, NEW v, NEW table \in Seq(Row), NEW other \in Seq(Row), NEW i,
           {j \in Matching(w, table) : j > i} \subseteq Matching(v, other)
    PROVE  Newer(w, table, i) <= Newer(v, other, i)
<1> DEFINE few == {j \in Matching(w, table) : j > i}
           many == {j \in Matching(v, other) : j > i}
<1>1. few \subseteq many /\ IsFiniteSet(many)
    BY MatchingFinite, FS_Subset
<1> HIDE DEF few, many
<1>2. Cardinality(few) <= Cardinality(many)
    BY <1>1, FS_Subset
<1>. QED BY <1>2 DEF Newer, few, many

LEMMA ReachedNat == ASSUME NEW w \in Walk PROVE w.page * PageSize \in Nat /\ Reached(w) \in Nat
<1>1. w.page \in Nat /\ PageSize \in Nat
    BY NotificationsAssumption DEF Walk, NotificationsAssumption
<1>2. PICK p \in Nat, k \in Nat : p = w.page /\ k = PageSize
    BY <1>1
<1>3. p * k \in Nat /\ p * k + k \in Nat
    OBVIOUS
<1>. QED BY <1>2, <1>3 DEF Reached

\* What a change of the table does to a walk.
LEMMA FollowFields ==
    ASSUME NEW w \in Walk, NEW table, w.pc = "page"
    PROVE  LET v == Follow(w, table)
               came == Matching(w, table) \ Matching(w, rows)
           IN  /\ v.pc = w.pc /\ v.user = w.user /\ v.unread = w.unread /\ v.page = w.page
               /\ v.got = w.got /\ v.counted = w.counted /\ v.total = w.total
               /\ v.base = w.base /\ v.seen = w.seen /\ v.twice = w.twice
               /\ v.grew = (w.grew \/ came # {})
               /\ v.split = (w.split \/ (came # {} /\ w.counted /\ ~w.got))
               /\ v.lost = w.lost \cup (Matching(w, rows) \ Matching(w, table))
<1> DEFINE came == Matching(w, table) \ Matching(w, rows)
           left == Matching(w, rows) \ Matching(w, table)
           grown == w.grew \/ came # {}
           torn == w.split \/ (came # {} /\ w.counted /\ ~w.got)
           lost == w.lost \cup left
<1>1. Follow(w, table) = [w EXCEPT !.grew = grown, !.split = torn, !.lost = lost]
    BY DEF Follow
<1>2. PICK g, s, f : g = grown /\ s = torn /\ f = lost
    OBVIOUS
<1> HIDE DEF grown, torn, lost
<1>3. PICK v : v = Follow(w, table)
    OBVIOUS
<1>4. v = [w EXCEPT !.grew = g, !.split = s, !.lost = f]
    BY <1>1, <1>2, <1>3
<1>5. /\ v.pc = w.pc /\ v.user = w.user /\ v.unread = w.unread /\ v.page = w.page
      /\ v.got = w.got /\ v.counted = w.counted /\ v.total = w.total
      /\ v.base = w.base /\ v.seen = w.seen /\ v.twice = w.twice
      /\ v.grew = g /\ v.split = s /\ v.lost = f
    BY <1>4 DEF Walk
<1>. QED BY <1>2, <1>3, <1>5 DEF grown, torn, lost

LEMMA MatchingSame ==
    ASSUME NEW w, NEW v, NEW table, v.user = w.user, v.unread = w.unread
    PROVE  Matching(v, table) = Matching(w, table)
BY DEF Matching

\* Rows are added at the end, and what has left a query never comes back.
Grows(table) ==
    /\ DOMAIN rows \subseteq DOMAIN table
    /\ \A w : Matching(w, table) \cap DOMAIN rows \subseteq Matching(w, rows)

LEMMA FollowKeeps ==
    ASSUME rows \in Seq(Row), NEW table \in Seq(Row), walk \in Walk \cup {Idle},
           WalkOK(walk, rows), Grows(table)
    PROVE  WalkOK(Follow(walk, table), table)
<1> DEFINE old == Matching(walk, rows)
           new == Matching(walk, table)
<1>a. /\ old \subseteq Nat /\ IsFiniteSet(old) /\ new \subseteq Nat /\ IsFiniteSet(new)
      /\ new \cap DOMAIN rows \subseteq old /\ old \subseteq DOMAIN rows
    BY MatchingFinite DEF Grows, Matching
<1>b. \A i \in DOMAIN rows : \A j : j \in DOMAIN table /\ j \notin DOMAIN rows => j > i
    BY DEF Grows
<1>1. CASE walk.pc # "page"
  <2>1. Follow(walk, table) = walk
      BY <1>1 DEF Follow
  <2>2. walk.base \subseteq DOMAIN rows =>
            walk.base \subseteq DOMAIN table /\ Missing(walk, table) \subseteq Missing(walk, rows)
      BY <1>a DEF Missing, Grows
  <2>. QED BY <1>1, <2>1, <2>2 DEF WalkOK
<1>2. CASE walk.pc = "page"
  <2>0. walk \in Walk
      BY <1>2 DEF Idle
  <2>1. PICK v : v = Follow(walk, table)
      OBVIOUS
  <2>2. /\ v.pc = "page" /\ v.user = walk.user /\ v.unread = walk.unread /\ v.page = walk.page
        /\ v.got = walk.got /\ v.counted = walk.counted /\ v.total = walk.total
        /\ v.base = walk.base /\ v.seen = walk.seen /\ v.twice = walk.twice
        /\ v.grew = (walk.grew \/ new \ old # {})
        /\ v.split = (walk.split \/ (new \ old # {} /\ walk.counted /\ ~walk.got))
        /\ v.lost = walk.lost \cup (old \ new)
      BY <1>2, <2>0, <2>1, FollowFields
  <2>3. Reads(walk, rows) /\ walk.base \subseteq DOMAIN rows /\ (walk.twice => walk.grew)
      BY <1>2 DEF WalkOK
  <2>4. Matching(v, table) = new /\ Matching(v, rows) = old /\ Reached(v) = Reached(walk)
      BY <2>2, MatchingSame DEF Reached
  <2>5. Missing(v, table) \subseteq Missing(walk, rows)
      BY <1>a, <2>2, <2>3, <2>4 DEF Missing
  <2>6. ASSUME NEW i \in Missing(v, table)
        PROVE  Reached(v) <= Newer(v, table, i)
    <3>1. \A j \in old : j > i => j \in new
        BY <1>a, <2>2 DEF Missing
    <3>2. Newer(walk, rows, i) <= Newer(v, table, i)
        BY <2>4, <3>1, NewerMore
    <3>3. Reached(walk) <= Newer(walk, rows, i)
        BY <2>3, <2>5 DEF Reads
    <3>. QED BY <2>0, <2>4, <3>2, <3>3, NewerNat, ReachedNat
  <2>7. ASSUME ~v.grew, NEW i \in v.seen \cap Matching(v, table)
        PROVE  Newer(v, table, i) < Reached(v)
    <3>1. ~walk.grew /\ new \subseteq old /\ i \in walk.seen \cap old
        BY <2>2, <2>4, <2>7
    <3>2. Newer(v, table, i) <= Newer(walk, rows, i)
        BY <2>4, <3>1, NewerMore
    <3>3. Newer(walk, rows, i) < Reached(walk)
        BY <2>3, <3>1 DEF Reads
    <3>. QED BY <2>0, <2>4, <3>2, <3>3, NewerNat, ReachedNat
  <2>8. ASSUME ~v.got, v.counted, ~v.split PROVE Cardinality(Matching(v, table)) <= v.total
    <3>1. ~walk.split /\ new \subseteq old
        BY <2>2, <2>8
    <3>2. Cardinality(new) <= Cardinality(old)
        BY <1>a, <3>1, FS_Subset
    <3>3. Cardinality(old) <= walk.total
        BY <2>2, <2>3, <2>8, <3>1 DEF Reads
    <3>. QED BY <1>a, <2>0, <2>2, <2>4, <3>2, <3>3, FS_CardinalityType DEF Walk
  <2>9. v.got /\ v.counted /\ ~v.split /\ Missing(v, table) # {} => Reached(v) < v.total
      BY <2>2, <2>3, <2>4, <2>5 DEF Reads
  <2>10. v.base \subseteq DOMAIN table /\ (v.twice => v.grew)
      BY <2>2, <2>3 DEF Grows
  <2>. QED BY <2>1, <2>2, <2>6, <2>7, <2>8, <2>9, <2>10 DEF WalkOK, Reads
<1>. QED BY <1>1, <1>2

\* Storing a row, and marking or removing rows.
LEMMA GrowsByOne == ASSUME rows \in Seq(Row), NEW r PROVE Grows(Append(rows, r))
<1> DEFINE table == Append(rows, r)
<1>1. /\ DOMAIN rows = 1 .. Len(rows) /\ Len(rows) \in Nat /\ DOMAIN table = 1 .. Len(rows) + 1
      /\ \A i \in DOMAIN rows : table[i] = rows[i]
    OBVIOUS
<1> HIDE DEF table
<1>. QED BY <1>1 DEF Grows, Matching, table

LEMMA BecomeGrows ==
    ASSUME rows \in Seq(Row), NEW which, NEW state \in {"read", "gone"},
           state = "gone" \/ \A i \in which : rows[i].state # "gone"
    PROVE  Grows([i \in DOMAIN rows |->
                     IF i \in which THEN [rows[i] EXCEPT !.state = state] ELSE rows[i]])
<1> DEFINE table == [i \in DOMAIN rows |->
                        IF i \in which THEN [rows[i] EXCEPT !.state = state] ELSE rows[i]]
<1>1. DOMAIN table = DOMAIN rows
    OBVIOUS
<1>2. ASSUME NEW w, NEW i \in Matching(w, table) PROVE i \in Matching(w, rows)
  <2>1. i \in DOMAIN rows /\ rows[i] \in Row
      BY <1>1, <1>2 DEF Matching
  <2>2. CASE i \in which
    <3>1. table[i] = [rows[i] EXCEPT !.state = state]
        BY <2>1, <2>2
    <3>2. table[i].state = state /\ table[i].user = rows[i].user
        BY <2>1, <3>1 DEF Row
    <3>3. /\ table[i].user = w.user
          /\ table[i].state = "unread" \/ (table[i].state = "read" /\ ~w.unread)
        BY <1>2 DEF Matching
    <3>4. state = "read" /\ ~w.unread /\ rows[i].user = w.user
        BY <3>2, <3>3
    <3>5. rows[i].state \in {"unread", "read"}
        BY <2>1, <2>2, <3>4 DEF Row
    <3>. QED BY <2>1, <3>4, <3>5 DEF Matching
  <2>3. CASE i \notin which
    <3>1. table[i] = rows[i]
        BY <2>1, <2>3
    <3>. QED BY <1>2, <2>1, <3>1 DEF Matching
  <2>. QED BY <2>2, <2>3
<1> HIDE DEF table
<1>3. Grows(table)
    BY <1>1, <1>2 DEF Grows
<1>. QED BY <1>3 DEF table

LEMMA StartWalkKeeps ==
    ASSUME Inv, NEW u \in Users, NEW unread \in BOOLEAN, StartWalk(u, unread)
    PROVE  WalkOK(walk', rows)
<1>1. PICK v : /\ walk' = v
               /\ v.pc = "page" /\ v.page = 0 /\ v.got = FALSE /\ v.counted = FALSE
               /\ v.base \subseteq DOMAIN rows /\ v.seen = {} /\ v.twice = FALSE
  <2> DEFINE w == [pc |-> "page", user |-> u, unread |-> unread, page |-> 0,
                   got |-> FALSE, counted |-> FALSE, total |-> 0, base |-> {},
                   seen |-> {}, twice |-> FALSE, lost |-> {}, grew |-> FALSE, split |-> FALSE]
  <2>1. PICK all : all = Matching(w, rows) /\ all \subseteq DOMAIN rows
      BY DEF Matching
  <2>2. PICK v : v = walk' /\ v = [w EXCEPT !.base = all]
      BY <2>1 DEF StartWalk
  <2>3. /\ v.pc = "page" /\ v.page = 0 /\ v.got = FALSE /\ v.counted = FALSE
        /\ v.base = all /\ v.seen = {} /\ v.twice = FALSE
      BY <2>2
  <2>. QED BY <2>1, <2>2, <2>3
<1>2. Reached(v) = 0
    BY <1>1, NotificationsAssumption DEF Reached, NotificationsAssumption
<1>3. \A i : 0 <= Newer(v, rows, i)
    BY NewerNat DEF Inv, TypeOK
<1>. QED BY <1>1, <1>2, <1>3 DEF WalkOK, Reads

\* A page holds the rows with as many newer ones as the pages before it hold,
\* and fewer than those with it hold.
LEMMA FindPageKeeps == ASSUME Inv, WalkOK(walk, rows), FindPage PROVE WalkOK(walk', rows)
<1>1. walk \in Walk /\ rows \in Seq(Row)
    BY DEF FindPage, Idle, Inv, TypeOK
<1> DEFINE page == OnPage(walk, walk.page)
           again == walk.twice \/ walk.seen \cap page # {}
<1>2. PICK v : /\ walk' = v
               /\ v.pc = "page" /\ v.user = walk.user /\ v.unread = walk.unread
               /\ v.page = walk.page /\ v.got = TRUE /\ v.counted = walk.counted
               /\ v.total = walk.total /\ v.base = walk.base /\ v.seen = walk.seen \cup page
               /\ v.twice = again /\ v.lost = walk.lost /\ v.grew = walk.grew
               /\ v.split = walk.split
  <2>1. walk' = [walk EXCEPT !.got = TRUE, !.seen = walk.seen \cup page, !.twice = again]
      BY DEF FindPage
  <2> HIDE DEF page, again
  <2>. QED BY <1>1, <2>1 DEF Walk, FindPage
<1>3. walk.pc = "page" /\ ~walk.got /\ Reads(walk, rows)
    BY DEF FindPage, WalkOK
<1>4. Matching(v, rows) = Matching(walk, rows)
    BY <1>2, MatchingSame
<1>5. PICK n \in Nat, k \in Nat : n = walk.page * PageSize /\ k = PageSize
    BY <1>1, ReachedNat, NotificationsAssumption DEF NotificationsAssumption
<1>6. Reached(walk) = n /\ Reached(v) = n + k
    BY <1>2, <1>3, <1>5 DEF Reached
<1>7. ASSUME NEW i PROVE Newer(v, rows, i) \in Nat /\ Newer(v, rows, i) = Newer(walk, rows, i)
    BY <1>1, <1>4, NewerNat DEF Newer
<1>8. page = {i \in Matching(v, rows) : n <= Newer(v, rows, i) /\ Newer(v, rows, i) < n + k}
  <2>1. ASSUME NEW i \in Matching(v, rows)
        PROVE  i \in page <=> Newer(v, rows, i) \in n .. n + k - 1
      BY <1>4, <1>5 DEF OnPage, Newer
  <2>2. page \subseteq Matching(v, rows)
      BY <1>4 DEF OnPage
  <2> HIDE DEF page
  <2>. QED BY <1>7, <2>1, <2>2
<1> HIDE DEF page
<1>9. \A i \in Missing(v, rows) : n + k <= Newer(v, rows, i)
  <2> SUFFICES ASSUME NEW i \in Missing(v, rows) PROVE n + k <= Newer(v, rows, i)
      OBVIOUS
  <2>1. i \in Missing(walk, rows) /\ i \notin page /\ i \in Matching(v, rows)
      BY <1>2, <1>4 DEF Missing
  <2>2. n <= Newer(v, rows, i)
      BY <1>3, <1>6, <1>7, <2>1 DEF Reads
  <2>. QED BY <1>7, <1>8, <2>1, <2>2
<1>10. ASSUME v.counted, ~v.split, NEW i \in Missing(v, rows) PROVE n + k < v.total
  <2>1. Cardinality(Matching(v, rows)) <= v.total
      BY <1>2, <1>3, <1>4, <1>10 DEF Reads
  <2>2. i \in Matching(v, rows)
      BY <1>10 DEF Missing
  <2>3. Newer(v, rows, i) < Cardinality(Matching(v, rows))
      BY <1>1, <2>2, NewerFewer
  <2>4. n + k <= Newer(v, rows, i)
      BY <1>9, <1>10
  <2>5. Cardinality(Matching(v, rows)) \in Nat /\ v.total \in Nat
      BY <1>1, <1>2, MatchingFinite, FS_CardinalityType DEF Walk
  <2>. QED BY <1>7, <2>1, <2>3, <2>4, <2>5
<1>11. ASSUME ~v.grew
       PROVE  /\ walk.seen \cap page = {}
              /\ \A i \in v.seen \cap Matching(v, rows) : Newer(v, rows, i) < n + k
  <2>1. \A i \in walk.seen \cap Matching(v, rows) : Newer(v, rows, i) < n
      BY <1>2, <1>3, <1>4, <1>6, <1>7, <1>11 DEF Reads
  <2>. QED BY <1>2, <1>7, <1>8, <2>1
<1>12. (v.twice => v.grew) /\ v.base \subseteq DOMAIN rows
    BY <1>2, <1>3, <1>11 DEF WalkOK
<1>. QED BY <1>2, <1>6, <1>9, <1>10, <1>11, <1>12 DEF WalkOK, Reads

LEMMA CountRowsKeeps == ASSUME Inv, WalkOK(walk, rows), CountRows PROVE WalkOK(walk', rows)
<1>1. walk \in Walk /\ rows \in Seq(Row)
    BY DEF CountRows, Idle, Inv, TypeOK
<1>2. PICK v : /\ walk' = v
               /\ v.pc = "page" /\ v.user = walk.user /\ v.unread = walk.unread
               /\ v.page = walk.page /\ v.got = walk.got /\ v.counted = TRUE
               /\ v.total = Cardinality(Matching(walk, rows)) /\ v.base = walk.base
               /\ v.seen = walk.seen /\ v.twice = walk.twice /\ v.lost = walk.lost
               /\ v.grew = walk.grew /\ v.split = walk.split
  <2>1. PICK n : n = Cardinality(Matching(walk, rows))
      OBVIOUS
  <2>2. PICK v : v = walk' /\ v = [walk EXCEPT !.counted = TRUE, !.total = n]
      BY <2>1 DEF CountRows
  <2>3. /\ v.pc = "page" /\ v.user = walk.user /\ v.unread = walk.unread
        /\ v.page = walk.page /\ v.got = walk.got /\ v.counted = TRUE
        /\ v.total = n /\ v.base = walk.base
        /\ v.seen = walk.seen /\ v.twice = walk.twice /\ v.lost = walk.lost
        /\ v.grew = walk.grew /\ v.split = walk.split
      BY <1>1, <2>2 DEF CountRows, Walk
  <2>. QED BY <2>1, <2>2, <2>3
<1>3. walk.pc = "page" /\ Reads(walk, rows)
    BY DEF CountRows, WalkOK
<1>4. Matching(v, rows) = Matching(walk, rows) /\ Reached(v) = Reached(walk)
    BY <1>2, MatchingSame DEF Reached
<1>5. Missing(v, rows) = Missing(walk, rows) /\ \A i : Newer(v, rows, i) = Newer(walk, rows, i)
    BY <1>2, <1>4 DEF Missing, Newer
<1>6. v.total \in Nat /\ Cardinality(Matching(v, rows)) = v.total /\ Reached(v) \in Nat
    BY <1>1, <1>2, <1>4, MatchingFinite, FS_CardinalityType, ReachedNat
<1>7. ASSUME NEW i \in Missing(v, rows) PROVE Reached(v) < v.total
  <2>1. Reached(v) <= Newer(v, rows, i)
      BY <1>3, <1>4, <1>5, <1>7 DEF Reads
  <2>2. Newer(v, rows, i) < v.total
      BY <1>1, <1>6, <1>7, NewerFewer DEF Missing
  <2>3. Newer(v, rows, i) \in Nat
      BY <1>1, NewerNat
  <2>. QED BY <1>6, <2>1, <2>2, <2>3
<1>8. (v.twice => v.grew) /\ v.base \subseteq DOMAIN rows
    BY <1>2, <1>3 DEF WalkOK
<1>9. Cardinality(Matching(v, rows)) <= v.total
    BY <1>6
<1>. QED BY <1>2, <1>3, <1>4, <1>5, <1>7, <1>8, <1>9 DEF WalkOK, Reads

LEMMA TurnPageKeeps == ASSUME Inv, WalkOK(walk, rows), TurnPage PROVE WalkOK(walk', rows)
<1>1. walk \in Walk /\ rows \in Seq(Row)
    BY DEF TurnPage, Idle, Inv, TypeOK
<1>2. /\ walk.pc = "page" /\ walk.got /\ walk.counted /\ Reads(walk, rows)
      /\ walk.base \subseteq DOMAIN rows /\ (walk.twice => walk.grew)
    BY DEF TurnPage, WalkOK
<1>3. PICK p \in Nat, k \in Nat : p = walk.page /\ k = PageSize
    BY <1>1, NotificationsAssumption DEF Walk, NotificationsAssumption
<1>4. (p + 1) * k = p * k + k /\ p * k + k \in Nat
    OBVIOUS
<1>5. Reached(walk) = (walk.page + 1) * PageSize
    BY <1>2, <1>3, <1>4 DEF Reached
<1>6. CASE walk.total <= (walk.page + 1) * PageSize
  <2>1. PICK v : /\ walk' = v
                 /\ v.pc = "done" /\ v.user = walk.user /\ v.unread = walk.unread
                 /\ v.base = walk.base /\ v.seen = walk.seen /\ v.twice = walk.twice
                 /\ v.lost = walk.lost /\ v.grew = walk.grew /\ v.split = walk.split
      BY <1>1, <1>6 DEF TurnPage, Walk
  <2>2. Matching(v, rows) = Matching(walk, rows)
      BY <2>1, MatchingSame
  <2>3. Missing(v, rows) = Missing(walk, rows)
      BY <2>1, <2>2 DEF Missing
  <2>4. ~walk.split => Missing(walk, rows) = {}
    <3>1. ~(Reached(walk) < walk.total)
      <4>1. walk.total \in Nat /\ Reached(walk) \in Nat
          BY <1>1, ReachedNat DEF Walk
      <4>. QED BY <1>5, <1>6, <4>1
    <3>. QED BY <1>2, <3>1 DEF Reads
  <2>. QED BY <1>2, <2>1, <2>3, <2>4 DEF WalkOK
<1>7. CASE ~(walk.total <= (walk.page + 1) * PageSize)
  <2>1. PICK v : /\ walk' = v
                 /\ v.pc = "page" /\ v.user = walk.user /\ v.unread = walk.unread
                 /\ v.page = walk.page + 1 /\ v.got = FALSE /\ v.counted = FALSE
                 /\ v.base = walk.base /\ v.seen = walk.seen /\ v.twice = walk.twice
                 /\ v.lost = walk.lost /\ v.grew = walk.grew
    <3>1. PICK n : n = walk.page + 1
        OBVIOUS
    <3>2. PICK v : /\ v = walk'
                   /\ v = [walk EXCEPT !.page = n, !.got = FALSE, !.counted = FALSE,
                                       !.total = 0, !.split = FALSE]
        BY <1>7, <3>1 DEF TurnPage
    <3>3. /\ v.pc = "page" /\ v.user = walk.user /\ v.unread = walk.unread
          /\ v.page = n /\ v.got = FALSE /\ v.counted = FALSE
          /\ v.base = walk.base /\ v.seen = walk.seen /\ v.twice = walk.twice
          /\ v.lost = walk.lost /\ v.grew = walk.grew
        BY <1>1, <1>2, <3>2 DEF Walk
    <3>. QED BY <3>1, <3>2, <3>3
  <2>2. Matching(v, rows) = Matching(walk, rows)
      BY <2>1, MatchingSame
  <2>3. Missing(v, rows) = Missing(walk, rows) /\ \A i : Newer(v, rows, i) = Newer(walk, rows, i)
      BY <2>1, <2>2 DEF Missing, Newer
  <2>4. Reached(v) = Reached(walk)
      BY <1>5, <2>1 DEF Reached
  <2>. QED BY <1>2, <2>1, <2>2, <2>3, <2>4 DEF WalkOK, Reads
<1>. QED BY <1>6, <1>7

LEMMA WalkOKKept == Inv /\ WalkOK(walk, rows) /\ [Next]_vars => WalkOK(walk, rows)'
<1> SUFFICES ASSUME Inv, WalkOK(walk, rows), [Next]_vars PROVE WalkOK(walk', rows')
    OBVIOUS
<1>0. rows \in Seq(Row) /\ rows' \in Seq(Row) /\ walk \in Walk \cup {Idle}
    BY StepKeeps DEF Inv, TypeOK
<1>1. CASE UNCHANGED <<rows, walk>>
    BY <1>1
<1>2. ASSUME NEW table, rows' = table, walk' = Follow(walk, table), Grows(table)
      PROVE  WalkOK(walk', rows')
    BY <1>0, <1>2, FollowKeeps
<1>3. ASSUME NEW c \in Calls, NEW u \in Users, Store(c, u) PROVE WalkOK(walk', rows')
    BY <1>0, <1>2, <1>3, GrowsByOne DEF Store, Put
<1>4. ASSUME NEW which, NEW state \in {"read", "gone"}, Become(which, state),
             state = "gone" \/ \A i \in which : rows[i].state # "gone"
      PROVE  WalkOK(walk', rows')
    BY <1>0, <1>2, <1>4, BecomeGrows DEF Become, Put
<1>5. CASE RowStep
  <2>1. ASSUME NEW i \in DOMAIN rows, MarkAsRead(i) PROVE WalkOK(walk', rows')
      BY <1>4, <2>1 DEF MarkAsRead
  <2>2. ASSUME NEW i \in DOMAIN rows, Remove(i) PROVE WalkOK(walk', rows')
      BY <1>4, <2>2 DEF Remove
  <2>3. ASSUME NEW u \in Users, MarkAllAsRead(u) PROVE WalkOK(walk', rows')
      BY <1>4, <2>3 DEF MarkAllAsRead, Own
  <2>4. ASSUME NEW u \in Users, ClearAllForUser(u) PROVE WalkOK(walk', rows')
      BY <1>4, <2>4 DEF ClearAllForUser
  <2>. QED BY <1>5, <2>1, <2>2, <2>3, <2>4 DEF RowStep
<1>6. CASE WalkStep
  <2>1. rows' = rows
      BY <1>6 DEF WalkStep, StartWalk, FindPage, CountRows, TurnPage, callVars
  <2>. QED BY <1>6, <2>1, StartWalkKeeps, FindPageKeeps, CountRowsKeeps, TurnPageKeeps DEF WalkStep
<1>7. ASSUME NEW c \in Calls, BeginCall(c) PROVE UNCHANGED <<rows, walk>>
    BY <1>7 DEF BeginCall, NotifyHouse, NotifyBudgetAlert, CreateBulk, Create, Begin, PushOnly,
        NotifyProposalStatusChange, SendCriticalVotingNotification, BroadcastCriticalVotingEvent
<1>8. ASSUME NEW c \in Calls, Continue(c) PROVE WalkOK(walk', rows')
  <2>1. CASE \E u \in Users : Store(c, u)
      BY <1>3, <2>1
  <2>2. CASE ReadMembers(c) \/ (\E u \in Users : Skip(c, u)) \/ Fail(c) \/ Push(c)
      BY <1>1, <2>2 DEF ReadMembers, Skip, Fail, Push
  <2>. QED BY <1>8, <2>1, <2>2 DEF Continue
<1>9. CASE Community \/ Restart \/ UNCHANGED vars
    BY <1>1, <1>9 DEF Community, Restart, vars, callVars
<1>. QED BY <1>1, <1>5, <1>6, <1>7, <1>8, <1>9 DEF Next

-----------------------------------------------------------------------------
(* Results.                                                                *)

LEMMA Always == Spec => []Inv
BY InitInv, StepKeeps, PTL DEF Spec

(* Every variable keeps its type, a reader's walk included.                *)
THEOREM CommunityTypeCorrect == Spec => []TypeOK
<1>1. Inv => TypeOK
    BY DEF Inv
<1>. QED BY <1>1, Always, PTL

(* Nobody belongs to a house that was removed, nor belongs without being   *)
(* registered (houses.service.ts assignUserToHouse, remove).               *)
THEOREM MembershipsReal == Spec => []MembershipsAreReal
<1>1. Inv => MembershipsAreReal
    BY DEF Inv
<1>. QED BY <1>1, Always, PTL

(* A house's members are told once each, however members come and go       *)
(* (notifications.service.ts createBulk and the notify functions).         *)
THEOREM MembersTold == Spec => []MembersAreTold
<1>1. Inv => MembersAreTold
  <2> SUFFICES ASSUME Inv, NEW c \in Calls, call[c].kind = "house", NEW u \in Users
               PROVE  /\ Told(c, u) > 0 => u \in call[c].ever
                      /\ Told(c, u) + call[c].left[u] <= 1
                      /\ call[c].pc \in {"each", "done"} /\ u \in call[c].steady =>
                             Told(c, u) + call[c].left[u] = 1
      BY DEF MembersAreTold
  <2>1. Told(c, u) + call[c].left[u] = IF u \in call[c].to THEN 1 ELSE 0
      BY DEF Inv, CallOK, Counted
  <2>2. Told(c, u) \in Nat /\ call[c].left[u] \in Nat
      BY ToldNat DEF Inv, TypeOK, Call
  <2>3. /\ call[c].to \subseteq call[c].ever
        /\ call[c].pc \in {"each", "done"} => call[c].steady \subseteq call[c].to
      BY DEF Inv, CallOK, Housed
  <2>4. Told(c, u) > 0 => u \in call[c].to
      BY <2>1, <2>2
  <2>5. Told(c, u) + call[c].left[u] <= 1
      BY <2>1, <2>2
  <2>. QED BY <2>1, <2>3, <2>4, <2>5
<1>. QED BY <1>1, Always, PTL

(* A critical notification is emitted after it is stored, a broadcast one  *)
(* after every creation has ended (sendCriticalVotingNotification,         *)
(* broadcastCriticalVotingEvent).                                          *)
THEOREM PushFollows == Spec => []PushFollowsStore
<1>1. Inv => PushFollowsStore
  <2> SUFFICES ASSUME Inv, NEW c \in Calls, sent[c] # {}
               PROVE  /\ call[c].kind = "critical" =>
                             \A u \in sent[c] : u \in Users /\ Told(c, u) = 1
                      /\ call[c].kind = "broadcast" => call[c].left = NoOne
                      /\ Everyone \in sent[c] => call[c].to = {}
                      /\ sent[c] \subseteq call[c].to \cup {Everyone}
      BY DEF PushFollowsStore
  <2>1. /\ call[c].pc = "done" /\ sent[c] = Addressees(call[c].to)
        /\ call[c].kind \in {"critical", "broadcast"} => call[c].left = NoOne
        /\ call[c].kind = "critical" => call[c].to # {}
      BY DEF Inv, CallOK, Emitted, Settled
  <2>2. call[c].to \subseteq Users /\ Everyone \notin Users
      BY NotificationsAssumption DEF NotificationsAssumption, Inv, TypeOK, Call
  <2>3. ASSUME call[c].kind = "critical", NEW u \in sent[c] PROVE u \in Users /\ Told(c, u) = 1
    <3>1. u \in call[c].to /\ u \in Users
      BY <2>1, <2>2, <2>3 DEF Addressees
    <3>2. Told(c, u) + call[c].left[u] = 1
      BY <2>3, <3>1 DEF Inv, CallOK, Counted
    <3>3. call[c].left[u] = 0 /\ Told(c, u) \in Nat
      BY <2>1, <2>3, <3>1, ToldNat DEF NoOne, Inv, TypeOK
    <3>. QED BY <3>1, <3>2, <3>3
  <2>. QED BY <2>1, <2>2, <2>3 DEF Addressees
<1>. QED BY <1>1, Always, PTL

(* A client that reads page after page has seen every row that was there   *)
(* all the time, unless a newer one left the query meanwhile or one came   *)
(* between the two reads of the last page, and sees a row twice only if    *)
(* one came: for any number of rows and any size of a page (findAll).      *)
THEOREM WalkComplete == Spec => []WalkIsComplete
<1>1. Init => WalkOK(walk, rows)
    BY DEF Init, Idle, WalkOK
<1>2. Spec => []WalkOK(walk, rows)
    BY <1>1, Always, WalkOKKept, PTL DEF Spec
<1>3. Inv /\ WalkOK(walk, rows) => WalkIsComplete
    BY DEF WalkOK, WalkIsComplete, Missing
<1>. QED BY <1>2, <1>3, Always, PTL
=============================================================================
