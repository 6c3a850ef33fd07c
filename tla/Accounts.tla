------------------------------ MODULE Accounts ------------------------------
(***************************************************************************)
(* The portal's users, machines and assignments: the rows of the store and *)
(* the requests that change them (apps/gateway/src/control.ts).            *)
(*                                                                         *)
(* Store calls are synchronous, so a handler is one action unless it       *)
(* awaits an scrypt: hashPassword or verifyPassword.  Such a request is    *)
(* read and checked when it arrives and written back when the hash is      *)
(* there, and anything may happen in between.  A password is not kept: that *)
(* it is right, or valid, is a free choice.  POST takes any text for a role, *)
(* PATCH only one of the three.                                            *)
(***************************************************************************)
EXTENDS Naturals, FiniteSets

CONSTANTS
  User, Machine,
  Request,              \* requests that may await a hash at once
  BootstrapAdmin        \* DSH_GATEWAY_ADMIN_ID

ASSUME BootstrapAdminIsUser == BootstrapAdmin \in User

VARIABLES
  up,                   \* the gateway process runs
  role,                 \* rows of users: their role, or "none"
  machine,              \* rows of machines: their status, or "none"
  assigned,             \* rows of assignments: <<machine, user>>
  request,              \* what awaits a hash, as it was read
  appointedBy           \* history: role of whoever last wrote a user's row

rows == <<role, machine, assigned>>
accountVars == <<up, role, machine, assigned, request, appointedBy>>

Role == {"system-admin", "admin", "user"}
RoleText == Role \cup {"other"}
Status == {"pending", "approved", "revoked"}

NoRequest == [kind |-> "none"]
(* target and role: the row to be written; as: the role of the user that    *)
(* made the request, read when it arrived; partial: the body held no role.   *)
RequestRecord ==
  [kind : {"create", "edit", "password"}, target : User, role : RoleText,
   as : RoleText, partial : BOOLEAN]

IsUser(u) == role[u] # "none"
IsAdmin(u) == role[u] \in {"system-admin", "admin"}
-------------------------------------------------------------------------------
(* A database an operator may have filled, and the bootstrap user.            *)
Init ==
  /\ up = TRUE
  /\ role \in [User -> RoleText \cup {"none"}] /\ IsUser(BootstrapAdmin)
  /\ machine = [m \in Machine |-> "none"]
  /\ assigned = {}
  /\ request = [r \in Request |-> NoRequest]
  /\ appointedBy = [u \in User |-> "system-admin"]
-------------------------------------------------------------------------------
Upsert(u, p, as) ==
  /\ role' = [role EXCEPT ![u] = p]
  /\ appointedBy' = [appointedBy EXCEPT ![u] = as]

Await(r, kind, u, p, as, partial) ==
  /\ request[r] = NoRequest
  /\ request' = [request EXCEPT ![r] =
       [kind |-> kind, target |-> u, role |-> p, as |-> as, partial |-> partial]]

(* POST /gw/users writes whatever row has the id.                            *)
MayCreate(a, p) == IsAdmin(a) /\ (p = "system-admin" => role[a] = "system-admin")
CreateUser(r, a, u, p) ==
  /\ up /\ MayCreate(a, p)
  /\ Await(r, "create", u, p, role[a], FALSE)
  /\ UNCHANGED <<up, rows, appointedBy>>

(* PATCH /gw/users/:id: a body without a role writes back the one it read.    *)
AnyAdminMayEdit(a, u, p) == IsAdmin(a) /\ a # u /\ IsUser(u)   \* defect
MayEdit(a, u, p) ==
  /\ IsAdmin(a) /\ a # u /\ IsUser(u)
  /\ role[a] = "system-admin" \/ (role[u] # "system-admin" /\ p # "system-admin")

ResetPassword(r, a, u, p, partial) ==
  /\ up /\ MayEdit(a, u, p)
  /\ Await(r, "edit", u, p, role[a], partial)
  /\ UNCHANGED <<up, rows, appointedBy>>

EditRole(a, u, p) ==
  /\ up /\ MayEdit(a, u, p) /\ p # role[u]
  /\ Upsert(u, p, role[a])
  /\ UNCHANGED <<up, machine, assigned, request>>

(* POST /gw/me/password: verified against the row read, and hashed.           *)
ChangePassword(r, a) ==
  /\ up /\ IsUser(a)
  /\ Await(r, "password", a, role[a], role[a], TRUE)
  /\ UNCHANGED <<up, rows, appointedBy>>

WriteBack(r) ==
  /\ up /\ request[r] # NoRequest
  /\ Upsert(request[r].target, request[r].role, request[r].as)
  /\ request' = [request EXCEPT ![r] = NoRequest]
  /\ UNCHANGED <<up, machine, assigned>>

(* The old password was wrong, or the new one too short.                      *)
Refuse(r) ==
  /\ up /\ request[r] # NoRequest /\ request[r].kind = "password"
  /\ request' = [request EXCEPT ![r] = NoRequest]
  /\ UNCHANGED <<up, rows, appointedBy>>

SystemAdmins == {u \in User : role[u] = "system-admin"}
KeptAssignments(u) == assigned   \* defect: rows of a deleted user
WithoutUser(u) == {x \in assigned : x[2] # u}
DeleteUser(a, u) ==
  /\ up /\ IsAdmin(a) /\ a # u /\ IsUser(u)
  /\ role[u] = "system-admin" =>
       role[a] = "system-admin" /\ Cardinality(SystemAdmins) > 1
  /\ role' = [role EXCEPT ![u] = "none"]
  /\ assigned' = WithoutUser(u)
  /\ UNCHANGED <<up, machine, request, appointedBy>>
-------------------------------------------------------------------------------
(* A node registers (NodeRegistry!RegisterWithCode).                          *)
Register(m) ==
  /\ up /\ machine[m] = "none"
  /\ machine' = [machine EXCEPT ![m] = "pending"]
  /\ UNCHANGED <<up, role, assigned, request, appointedBy>>

SetStatus(a, m, s) ==
  /\ up /\ IsAdmin(a)
  /\ \/ s = "approved" /\ machine[m] = "pending"
     \/ s = "revoked" /\ machine[m] # "none"
  /\ machine' = [machine EXCEPT ![m] = s]
  /\ UNCHANGED <<up, role, assigned, request, appointedBy>>

DeleteMachine(a, m) ==
  /\ up /\ IsAdmin(a) /\ machine[m] # "none"
  /\ machine' = [machine EXCEPT ![m] = "none"]
  /\ assigned' = {x \in assigned : x[1] # m}
  /\ UNCHANGED <<up, role, request, appointedBy>>

Assign(a, m, u) ==
  /\ up /\ IsAdmin(a) /\ machine[m] # "none" /\ IsUser(u)
  /\ assigned' = assigned \cup {<<m, u>>}
  /\ UNCHANGED <<up, role, machine, request, appointedBy>>

Unassign(a, m, u) ==
  /\ up /\ IsAdmin(a)
  /\ assigned' = assigned \ {<<m, u>>}
  /\ UNCHANGED <<up, role, machine, request, appointedBy>>
-------------------------------------------------------------------------------
(* Requests are lost with the process; the next one makes sure of its admin.  *)
Exit ==
  /\ up /\ up' = FALSE
  /\ request' = [r \in Request |-> NoRequest]
  /\ UNCHANGED <<rows, appointedBy>>

Boot ==
  /\ ~up /\ up' = TRUE
  /\ IF IsUser(BootstrapAdmin)
     THEN UNCHANGED <<role, appointedBy>>
     ELSE Upsert(BootstrapAdmin, "system-admin", "system-admin")
  /\ UNCHANGED <<machine, assigned, request>>

UserRequest ==
  \/ \E r \in Request, a \in User :
       \/ \E u \in User, p \in RoleText : CreateUser(r, a, u, p)
       \/ \E u \in User, p \in Role : ResetPassword(r, a, u, p, FALSE)
       \/ \E u \in User : ResetPassword(r, a, u, role[u], TRUE)
       \/ ChangePassword(r, a)
  \/ \E a, u \in User : DeleteUser(a, u) \/ \E p \in Role : EditRole(a, u, p)
  \/ \E r \in Request : WriteBack(r) \/ Refuse(r)

MachineRequest ==
  \E m \in Machine :
    \/ Register(m)
    \/ \E a \in User :
         \/ \E s \in Status : SetStatus(a, m, s)
         \/ DeleteMachine(a, m)
         \/ \E u \in User : Assign(a, m, u) \/ Unassign(a, m, u)

Next == UserRequest \/ MachineRequest \/ Exit \/ Boot

Spec == Init /\ [][Next]_accountVars
-------------------------------------------------------------------------------
TypeOK ==
  /\ up \in BOOLEAN
  /\ role \in [User -> RoleText \cup {"none"}]
  /\ machine \in [Machine -> Status \cup {"none"}]
  /\ assigned \subseteq Machine \X User
  /\ request \in [Request -> RequestRecord \cup {NoRequest}]
  /\ appointedBy \in [User -> RoleText]

(* A grant never outlives its user or its machine: whoever is created again    *)
(* under the id, even by a write that was under way when the row was deleted,   *)
(* starts without any (ON DELETE CASCADE, and the check of POST               *)
(* /gw/assignments).                                                       *)
AssignmentsHaveRows ==
  \A x \in assigned : machine[x[1]] # "none" /\ IsUser(x[2])

(* Whoever is a system admin was last written by a request that a system      *)
(* admin made, or had been made one so: by all three requests that write a     *)
(* role, however they overlap ("a plain admin must not be able to promote").    *)
SystemAdminsAreAppointed ==
  \A u \in User : role[u] = "system-admin" => appointedBy[u] = "system-admin"

(* An edit whose body holds no role leaves the role as it is (the comment of   *)
(* PATCH: "only the fields present in the body are touched").                *)
OnlyFieldsPresentAreTouched ==
  [][\A r \in Request :
       /\ request[r] # NoRequest /\ request[r].kind = "edit" /\ request[r].partial
       /\ WriteBack(r)
       => role'[request[r].target] = role[request[r].target]]_accountVars
===============================================================================
