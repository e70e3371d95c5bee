------------------------------- MODULE Houses -------------------------------
(***************************************************************************)
(* Users, houses and who has which role where.  A request to change them   *)
(* is admitted by JwtStrategy and RolesGuard, which read the roles of its  *)
(* user, and takes effect later, when other requests may have changed      *)
(* users, houses and roles.  Each handler looks before it writes; what it  *)
(* looks at is protected again by a unique key, a foreign key or the error *)
(* of a missing row at its write, so a handler is one step.                *)
(***************************************************************************)
EXTENDS FiniteSets, Naturals

CONSTANTS
    Users,          \* e-mail addresses that may be registered
    Houses,
    Roles,
    None,           \* no role: not a member
    SeedUsers,      \* the users of the seed
    SeedRole,       \* the memberships of the seed
    SeedHouses,     \* the houses of the seed
    MaxAdmitted     \* bound on admitted requests that have not taken effect

ASSUME HousesAssumption ==
    /\ None \notin Roles \cup {"ADMIN", "PRESIDENT"}
    /\ SeedUsers \subseteq Users /\ SeedHouses \subseteq Houses
    /\ SeedRole \in [Houses -> [Users -> Roles \cup {None}]]
    /\ \A h \in Houses, u \in Users :
        SeedRole[h][u] # None => h \in SeedHouses /\ u \in SeedUsers
    /\ MaxAdmitted \in Nat

VARIABLES
    registered,     \* rows of User; the code deletes none
    house,          \* each house: "new", "open" or "removed"
    role,           \* rows of HouseUser
    admitted        \* requests past the guards

houseVars == <<registered, house, role, admitted>>

\* @Roles of the routes.  createHouse has no member, assign and updateRole a
\* role to give.
Allowed(op) ==
    IF op \in {"create", "remove"} THEN {"ADMIN"} ELSE {"ADMIN", "PRESIDENT"}

HouseRequest ==
    [op : {"create", "remove"}, house : Houses]
        \cup [op : {"assign", "updateRole"}, house : Houses, user : Users, role : Roles]
        \cup [op : {"removeUser"}, house : Houses, user : Users]

HousesTypeOK ==
    /\ registered \subseteq Users
    /\ house \in [Houses -> {"new", "open", "removed"}]
    /\ role \in [Houses -> [Users -> Roles \cup {None}]]
    /\ admitted \subseteq HouseRequest

HousesInit ==
    /\ registered = SeedUsers
    /\ house = [h \in Houses |-> IF h \in SeedHouses THEN "open" ELSE "new"]
    /\ role = SeedRole
    /\ admitted = {}

Members(h) == {u \in Users : role[h][u] # None}

\* The users that have one of the roles in some house.
Holders(roles) == {u \in registered : \E h \in Houses : role[h][u] \in roles}

-----------------------------------------------------------------------------
\* register; nothing makes a member of the new user.
Register(u) ==
    /\ u \notin registered
    /\ registered' = registered \cup {u}
    /\ UNCHANGED <<house, role, admitted>>

\* The routes have a parameter id, not houseId: a role in any house will do.
Admit(r) ==
    /\ Holders(Allowed(r.op)) # {}
    /\ Cardinality(admitted) < MaxAdmitted
    /\ admitted' = admitted \cup {r}
    /\ UNCHANGED <<registered, house, role>>

Answer(r) == r \in admitted /\ admitted' = admitted \ {r} /\ UNCHANGED registered

CreateHouse(r) ==
    /\ r.op = "create" /\ house[r.house] = "new"
    /\ Answer(r)
    /\ house' = [house EXCEPT ![r.house] = "open"]
    /\ UNCHANGED role

\* Memberships go with their house.
RemoveHouse(r) ==
    /\ r.op = "remove" /\ house[r.house] = "open"
    /\ Answer(r)
    /\ house' = [house EXCEPT ![r.house] = "removed"]
    /\ role' = [role EXCEPT ![r.house] = [u \in Users |-> None]]

\* Faulty form: the house is not examined again.
AssignUnchecked(r) ==
    /\ r.op = "assign" /\ r.user \in registered
    /\ role[r.house][r.user] = None
    /\ Answer(r)
    /\ role' = [role EXCEPT ![r.house][r.user] = r.role]
    /\ UNCHANGED house

AssignUserToHouse(r) ==
    /\ r.op = "assign" /\ house[r.house] = "open" /\ r.user \in registered
    /\ role[r.house][r.user] = None
    /\ Answer(r)
    /\ role' = [role EXCEPT ![r.house][r.user] = r.role]
    /\ UNCHANGED house

RemoveUserFromHouse(r) ==
    /\ r.op = "removeUser" /\ r.user \in Members(r.house)
    /\ Answer(r)
    /\ role' = [role EXCEPT ![r.house][r.user] = None]
    /\ UNCHANGED house

UpdateUserRole(r) ==
    /\ r.op = "updateRole" /\ r.user \in Members(r.house)
    /\ Answer(r)
    /\ role' = [role EXCEPT ![r.house][r.user] = r.role]
    /\ UNCHANGED house

\* 404, 409, or the error of the database.
Refuse(r) ==
    /\ \/ r.op = "remove" /\ house[r.house] # "open"
       \/ /\ r.op = "assign"
          /\ \/ house[r.house] # "open"
             \/ r.user \notin registered
             \/ r.user \in Members(r.house)
       \/ r.op \in {"removeUser", "updateRole"} /\ r.user \notin Members(r.house)
    /\ Answer(r)
    /\ UNCHANGED <<house, role>>

HousesStep ==
    \/ \E u \in Users : Register(u)
    \/ \E r \in HouseRequest :
        /\ r.op = "create" => house[r.house] = "new"
        /\ Admit(r)
    \/ \E r \in admitted :
        \/ CreateHouse(r)
        \/ RemoveHouse(r)
        \/ AssignUserToHouse(r)
        \/ RemoveUserFromHouse(r)
        \/ UpdateUserRole(r)
        \/ Refuse(r)

-----------------------------------------------------------------------------
(* Properties.                                                             *)

(* Every membership is of a registered user in a house that exists, though *)
(* the request that makes it may have been admitted before the house went  *)
(* (houses.service.ts assignUserToHouse, remove; the cascade of HouseUser).*)
MembershipsAreReal ==
    \A h \in Houses, u \in Users :
        role[h][u] # None => house[h] = "open" /\ u \in registered
=============================================================================
