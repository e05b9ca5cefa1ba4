---------------------------- MODULE UserAccounts ----------------------------
(***************************************************************************)
(* Users, their sessions and roles: services/user_service.go,              *)
(* controllers/user_controller.go, auth_controller.go and the session      *)
(* check of base_controller.go.  Of a user's columns role and is_active    *)
(* decide something; name, email, language and password are left out, and  *)
(* with them the profile page.  Everybody is of one branch.                *)
(*                                                                         *)
(* Every request runs in a goroutine of its own; req is what is under way  *)
(* of all the pages, and todo bounds what people do.                       *)
(***************************************************************************)
EXTENDS Naturals

CONSTANTS
    Users,          \* user ids
    Role,           \* the role of each user who is there in the beginning
    Requests,       \* requests that may be under way at once
    Workloads       \* what people do, and how often at most

Roles == {"technician", "admin", "super_admin", "viewer"}
AdminRoles == {"admin", "super_admin"}
Kinds == {"create", "edit", "status", "assign", "delete", "import", "workflow", "users"}
Nobody == 0         \* assigned_to is NULL, and Go's zero value

(* The migrations create an administrator.                                  *)
ASSUME UsersAssumption ==
    /\ Users \subseteq Nat \ {Nobody}
    /\ DOMAIN Role \subseteq Users
    /\ \A u \in DOMAIN Role : Role[u] \in Roles
    /\ \E u \in DOMAIN Role : Role[u] \in AdminRoles
    /\ Workloads \subseteq [fields : SUBSET STRING, times : [Kinds -> Nat]]

VARIABLES
    user,       \* the users table, by id
    session,    \* the users who are logged in
    shaken,     \* see NobodyIsLockedOut in Desk; not in the program
    req,        \* the requests under way
    todo        \* what is left of the workload

people == <<user, session, shaken>>

Idle == [pc |-> "idle"]
Become(r, request) == req' = [req EXCEPT ![r] = request]
Act(kind) == todo.times[kind] > 0 /\ todo' = [todo EXCEPT !.times[kind] = @ - 1]

WithId(f, id, value) == [i \in DOMAIN f \cup {id} |-> IF i = id THEN value ELSE f[i]]

UsersInit ==
    /\ user = [u \in DOMAIN Role |-> [role |-> Role[u], active |-> TRUE]]
    /\ session = DOMAIN Role
    /\ shaken = FALSE
    /\ req = [r \in Requests |-> Idle]
    /\ todo \in Workloads

(* loadCurrentUser: the user of the session as the table has it now.        *)
Acting(u) == u \in session /\ user[u].active

HasRole(u, roles) == Acting(u) /\ user[u].role \in roles

Staff(u) == HasRole(u, {"technician", "admin", "super_admin"})
Administrator(u) == HasRole(u, AdminRoles)
SuperAdmin(u) == HasRole(u, {"super_admin"})

ActiveAdmins == {u \in DOMAIN user : user[u].active /\ user[u].role \in AdminRoles}

----------------------------------------------------------------------------
Authenticated(u) == u \in DOMAIN user /\ user[u].active

Login(u) ==
    /\ u \notin session
    /\ Authenticated(u)
    /\ session' = session \cup {u}
    /\ Act("users")
    /\ UNCHANGED <<user, shaken, req>>

Logout(u) ==
    /\ u \in session
    /\ session' = session \ {u}
    /\ Act("users")
    /\ UNCHANGED <<user, shaken, req>>

(* The first request of a user who was deactivated ends the session.        *)
EndSession(u) ==
    /\ u \in session
    /\ ~user[u].active
    /\ session' = session \ {u}
    /\ UNCHANGED <<user, shaken, req, todo>>

CreateUser(a, u, role) ==
    /\ Administrator(a)
    /\ u \notin DOMAIN user
    /\ user' = WithId(user, u, [role |-> role, active |-> TRUE])
    /\ Act("users")
    /\ UNCHANGED <<session, shaken, req>>

(* The user form writes the role it shows or another, also the actor's own. *)
UpdateUser(a, u, role) ==
    /\ Administrator(a)
    /\ u \in DOMAIN user
    /\ user' = [user EXCEPT ![u].role = role]
    /\ shaken' = (shaken \/ (u \in ActiveAdmins /\ role \notin AdminRoles))
    /\ Act("users")
    /\ UNCHANGED <<session, req>>

\* Mutant: one's own account, too.
Anyone(a) == DOMAIN user

OthersThan(a) == DOMAIN user \ {a}

(* ToggleActive reads is_active and then writes its opposite.               *)
ReadActive(r, a, u) ==
    /\ Administrator(a)
    /\ req[r] = Idle
    /\ u \in OthersThan(a)
    /\ Become(r, [pc |-> "toggle", user |-> u, active |-> ~user[u].active])
    /\ Act("users")
    /\ UNCHANGED people

ToggleActive(r) ==
    /\ req[r].pc = "toggle"
    /\ user' = [user EXCEPT ![req[r].user].active = req[r].active]
    /\ shaken' = (shaken \/ \E other \in Requests \ {r} : req[other].pc = "toggle")
    /\ Become(r, Idle)
    /\ UNCHANGED <<session, todo>>

UserPages ==
    \/ \E u \in Users : Login(u) \/ Logout(u) \/ EndSession(u)
    \/ \E a, u \in Users, role \in Roles : CreateUser(a, u, role) \/ UpdateUser(a, u, role)
    \/ \E a, u \in Users, r \in Requests : ReadActive(r, a, u)
    \/ \E r \in Requests : ToggleActive(r)
=============================================================================
