--------------------------- MODULE Accounts_proofs ---------------------------
(***************************************************************************)
(* Theorems about the accounts, for any users, machines and requests.      *)
(***************************************************************************)
EXTENDS Sessions, FiniteSetTheorems, TLAPS

(* What awaits a hash and will make a system admin was asked for by one.       *)
PendingAppointments ==
  \A r \in Request :
    request[r] # NoRequest /\ request[r].role = "system-admin" =>
      request[r].as = "system-admin"

Appointments == SystemAdminsAreAppointed /\ PendingAppointments

USE DEF Role, RoleText, Status

LEMMA RecordsDiffer == ASSUME NEW x \in RequestRecord PROVE x # NoRequest
  BY DEF RequestRecord, NoRequest

(* Each request keeps the types: Upsert and Await are given rows and records.   *)
LEMMA UpsertTypes ==
  ASSUME TypeOK, NEW u \in User, NEW p \in RoleText, NEW as \in RoleText, Upsert(u, p, as)
  PROVE  /\ role' \in [User -> RoleText \cup {"none"}]
         /\ appointedBy' \in [User -> RoleText]
  BY DEF TypeOK, Upsert

LEMMA AwaitTypes ==
  ASSUME TypeOK, NEW r \in Request, NEW kind \in {"create", "edit", "password"},
         NEW u \in User, NEW p \in RoleText, NEW as \in RoleText, NEW partial \in BOOLEAN,
         Await(r, kind, u, p, as, partial)
  PROVE  request' \in [Request -> RequestRecord \cup {NoRequest}]
  <1> DEFINE record == [kind |-> kind, target |-> u, role |-> p, as |-> as, partial |-> partial]
  <1>1. record \in RequestRecord
    BY DEF RequestRecord
  <1>2. request' = [request EXCEPT ![r] = record]
    BY DEF Await
  <1> QED
    BY <1>1, <1>2 DEF TypeOK

LEMMA RequestTypes ==
  ASSUME TypeOK, NEW r \in Request, request[r] # NoRequest
  PROVE  /\ request[r].target \in User /\ request[r].role \in RoleText
         /\ request[r].as \in RoleText
  <1>1. request[r] \in RequestRecord
    BY DEF TypeOK
  <1> QED
    BY <1>1 DEF RequestRecord

LEMMA WriteBackIsUpsert ==
  ASSUME TypeOK, NEW r \in Request, WriteBack(r)
  PROVE  /\ request[r] # NoRequest
         /\ Upsert(request[r].target, request[r].role, request[r].as)
         /\ request' = [request EXCEPT ![r] = NoRequest]
  BY DEF WriteBack

LEMMA TypeStep ==
  ASSUME TypeOK, [Next]_accountVars
  PROVE  TypeOK'
  <1>0. CASE UNCHANGED accountVars
    BY <1>0 DEF TypeOK, accountVars
  <1>1. ASSUME NEW r \in Request, NEW a \in User, NEW u \in User, NEW p \in RoleText,
               CreateUser(r, a, u, p)
        PROVE  TypeOK'
    <2>1. role[a] \in RoleText
      BY <1>1 DEF CreateUser, MayCreate, IsAdmin
    <2>2. request' \in [Request -> RequestRecord \cup {NoRequest}]
      BY <1>1, <2>1, AwaitTypes DEF CreateUser
    <2> QED
      BY <1>1, <2>2 DEF CreateUser, TypeOK, rows
  <1>2. ASSUME NEW r \in Request, NEW a \in User, NEW u \in User, NEW p \in RoleText \cup {"none"},
               NEW partial \in BOOLEAN, p \in Role \/ p = role[u],
               ResetPassword(r, a, u, p, partial)
        PROVE  TypeOK'
    <2>1. role[a] \in RoleText /\ p \in RoleText
      BY <1>2 DEF ResetPassword, MayEdit, IsAdmin, IsUser
    <2>2. request' \in [Request -> RequestRecord \cup {NoRequest}]
      BY <1>2, <2>1, AwaitTypes DEF ResetPassword
    <2> QED
      BY <1>2, <2>2 DEF ResetPassword, TypeOK, rows
  <1>3. ASSUME NEW r \in Request, NEW a \in User, ChangePassword(r, a)
        PROVE  TypeOK'
    <2>1. role[a] \in RoleText
      BY <1>3 DEF ChangePassword, IsUser, TypeOK
    <2>2. request' \in [Request -> RequestRecord \cup {NoRequest}]
      BY <1>3, <2>1, AwaitTypes DEF ChangePassword
    <2> QED
      BY <1>3, <2>2 DEF ChangePassword, TypeOK, rows
  <1>4. ASSUME NEW a \in User, NEW u \in User, DeleteUser(a, u)
        PROVE  TypeOK'
    BY <1>4 DEF DeleteUser, WithoutUser, TypeOK
  <1>5. ASSUME NEW a \in User, NEW u \in User, NEW p \in Role, EditRole(a, u, p)
        PROVE  TypeOK'
    <2>1. role[a] \in RoleText
      BY <1>5 DEF EditRole, MayEdit, IsAdmin
    <2> QED
      BY <1>5, <2>1, UpsertTypes DEF EditRole, TypeOK
  <1>6. ASSUME NEW r \in Request, WriteBack(r)
        PROVE  TypeOK'
    <2>1. /\ role' \in [User -> RoleText \cup {"none"}]
          /\ appointedBy' \in [User -> RoleText]
      BY <1>6, WriteBackIsUpsert, RequestTypes, UpsertTypes
    <2>2. request' \in [Request -> RequestRecord \cup {NoRequest}]
      BY <1>6, WriteBackIsUpsert DEF TypeOK
    <2> QED
      BY <1>6, <2>1, <2>2 DEF WriteBack, TypeOK
  <1>7. ASSUME NEW r \in Request, Refuse(r)
        PROVE  TypeOK'
    BY <1>7 DEF Refuse, TypeOK, rows
  <1>8. CASE MachineRequest
    BY <1>8 DEF MachineRequest, Register, SetStatus, DeleteMachine, Assign, Unassign, TypeOK
  <1>9. CASE Exit
    BY <1>9 DEF Exit, TypeOK, rows
  <1>10. CASE Boot
    BY <1>10, UpsertTypes, BootstrapAdminIsUser DEF Boot, TypeOK
  <1>11. \A u \in User : role[u] \in RoleText \cup {"none"}
    BY DEF TypeOK
  <1> QED
    BY <1>0, <1>1, <1>2, <1>3, <1>4, <1>5, <1>6, <1>7, <1>8, <1>9, <1>10, <1>11
    DEF Next, UserRequest

(* Every reachable state is well typed: no request writes a role that none      *)
(* read or gave.                                                             *)
THEOREM AccountTypes == Spec => []TypeOK
  <1>1. Init => TypeOK
    BY DEF Init, TypeOK
  <1> QED
    BY <1>1, TypeStep, PTL DEF Spec
-------------------------------------------------------------------------------
LEMMA UpsertKeepsRows ==
  ASSUME TypeOK, AssignmentsHaveRows, NEW u \in User, NEW p \in RoleText, NEW as \in RoleText,
         Upsert(u, p, as), UNCHANGED <<machine, assigned>>
  PROVE  AssignmentsHaveRows'
  <1>1. ASSUME NEW v \in User, IsUser(v) PROVE IsUser(v)'
    BY <1>1 DEF TypeOK, Upsert, IsUser
  <1>2. \A x \in assigned : x[2] \in User
    BY DEF TypeOK
  <1> QED
    BY <1>1, <1>2 DEF AssignmentsHaveRows

LEMMA RowsStep ==
  ASSUME TypeOK, AssignmentsHaveRows, [Next]_accountVars
  PROVE  AssignmentsHaveRows'
  <1>1. CASE UNCHANGED rows
    BY <1>1 DEF AssignmentsHaveRows, rows, IsUser
  <1>2. ASSUME NEW a \in User, NEW u \in User, DeleteUser(a, u)
        PROVE  AssignmentsHaveRows'
    <2>1. ASSUME NEW x \in assigned' PROVE machine'[x[1]] # "none" /\ role'[x[2]] # "none"
      <3>1. x \in assigned /\ x[2] # u /\ x[2] \in User
        BY <1>2, <2>1 DEF DeleteUser, WithoutUser, TypeOK
      <3> QED
        BY <1>2, <3>1 DEF DeleteUser, AssignmentsHaveRows, IsUser, TypeOK
    <2> QED
      BY <2>1 DEF AssignmentsHaveRows, IsUser
  <1>3. ASSUME NEW a \in User, NEW u \in User, NEW p \in Role, EditRole(a, u, p)
        PROVE  AssignmentsHaveRows'
    <2>1. role[a] \in RoleText
      BY <1>3 DEF EditRole, MayEdit, IsAdmin
    <2> QED
      BY <1>3, <2>1, UpsertKeepsRows DEF EditRole
  <1>4. ASSUME NEW r \in Request, WriteBack(r)
        PROVE  AssignmentsHaveRows'
    <2>1. UNCHANGED <<machine, assigned>>
      BY <1>4 DEF WriteBack
    <2> QED
      BY <1>4, <2>1, WriteBackIsUpsert, RequestTypes, UpsertKeepsRows
  <1>5. ASSUME NEW m \in Machine, Register(m)
        PROVE  AssignmentsHaveRows'
    BY <1>5 DEF Register, AssignmentsHaveRows, IsUser, TypeOK
  <1>6. ASSUME NEW m \in Machine, NEW a \in User, NEW s \in Status, SetStatus(a, m, s)
        PROVE  AssignmentsHaveRows'
    BY <1>6 DEF SetStatus, AssignmentsHaveRows, IsUser, TypeOK
  <1>7. ASSUME NEW m \in Machine, NEW a \in User, DeleteMachine(a, m)
        PROVE  AssignmentsHaveRows'
    BY <1>7 DEF DeleteMachine, AssignmentsHaveRows, IsUser, TypeOK
  <1>8. ASSUME NEW m \in Machine, NEW a \in User, NEW u \in User, Assign(a, m, u)
        PROVE  AssignmentsHaveRows'
    BY <1>8 DEF Assign, AssignmentsHaveRows, IsUser
  <1>9. ASSUME NEW m \in Machine, NEW a \in User, NEW u \in User, Unassign(a, m, u)
        PROVE  AssignmentsHaveRows'
    BY <1>9 DEF Unassign, AssignmentsHaveRows, IsUser
  <1>10. CASE Boot
    <2>1. CASE IsUser(BootstrapAdmin)
      BY <1>10, <2>1, <1>1 DEF Boot, rows
    <2>2. CASE ~IsUser(BootstrapAdmin)
      BY <1>10, <2>2, UpsertKeepsRows, BootstrapAdminIsUser DEF Boot
    <2> QED
      BY <2>1, <2>2
  <1> QED
    BY <1>1, <1>2, <1>3, <1>4, <1>5, <1>6, <1>7, <1>8, <1>9, <1>10
    DEF Next, UserRequest, MachineRequest, CreateUser, ResetPassword, ChangePassword, Refuse,
        Exit, accountVars, rows

(* No grant outlives its user or its machine, whatever requests are under way.   *)
THEOREM GrantsHaveRows == Spec => []AssignmentsHaveRows
  <1>1. Init => AssignmentsHaveRows
    BY DEF Init, AssignmentsHaveRows
  <1>2. TypeOK /\ AssignmentsHaveRows /\ [Next]_accountVars => AssignmentsHaveRows'
    BY RowsStep
  <1> QED
    BY <1>1, <1>2, AccountTypes, PTL DEF Spec
-------------------------------------------------------------------------------
LEMMA UpsertAppoints ==
  ASSUME TypeOK, SystemAdminsAreAppointed, NEW u \in User, NEW p \in RoleText, NEW as \in RoleText,
         Upsert(u, p, as), p = "system-admin" => as = "system-admin"
  PROVE  SystemAdminsAreAppointed'
  BY DEF TypeOK, Upsert, SystemAdminsAreAppointed

LEMMA AwaitAppoints ==
  ASSUME TypeOK, PendingAppointments, NEW r \in Request, NEW kind, NEW u \in User, NEW p,
         NEW as, NEW partial, Await(r, kind, u, p, as, partial),
         p = "system-admin" => as = "system-admin"
  PROVE  PendingAppointments'
  <1> DEFINE record == [kind |-> kind, target |-> u, role |-> p, as |-> as, partial |-> partial]
  <1>1. request' = [request EXCEPT ![r] = record]
    BY DEF Await
  <1>2. \A q \in Request : request'[q] = record \/ request'[q] = request[q]
    BY <1>1 DEF TypeOK
  <1>3. record.role = p /\ record.as = as
    OBVIOUS
  <1> QED
    BY <1>2, <1>3 DEF PendingAppointments

LEMMA FewerPending ==
  ASSUME TypeOK, PendingAppointments, NEW r \in Request,
         request' = [request EXCEPT ![r] = NoRequest]
  PROVE  PendingAppointments'
  <1>1. \A q \in Request : request'[q] = NoRequest \/ request'[q] = request[q]
    BY DEF TypeOK
  <1> QED
    BY <1>1 DEF PendingAppointments

LEMMA AppointmentStep ==
  ASSUME TypeOK, Appointments, [Next]_accountVars
  PROVE  Appointments'
  <1> USE DEF Appointments
  <1>1. CASE UNCHANGED <<role, appointedBy, request>>
    BY <1>1 DEF SystemAdminsAreAppointed, PendingAppointments
  <1>2. ASSUME UNCHANGED <<role, appointedBy>> PROVE SystemAdminsAreAppointed'
    BY <1>2 DEF SystemAdminsAreAppointed
  <1>3. ASSUME UNCHANGED request PROVE PendingAppointments'
    BY <1>3 DEF PendingAppointments
  <1>4. ASSUME NEW r \in Request, NEW a \in User, NEW u \in User, NEW p \in RoleText,
               CreateUser(r, a, u, p)
        PROVE  Appointments'
    <2>1. PendingAppointments'
      BY <1>4, AwaitAppoints DEF CreateUser, MayCreate
    <2> QED
      BY <1>2, <1>4, <2>1 DEF CreateUser, rows
  <1>5. ASSUME NEW r \in Request, NEW a \in User, NEW u \in User, NEW p, NEW partial,
               p \in Role \/ p = role[u], ResetPassword(r, a, u, p, partial)
        PROVE  Appointments'
    <2>1. PendingAppointments'
      BY <1>5, AwaitAppoints DEF ResetPassword, MayEdit
    <2> QED
      BY <1>2, <1>5, <2>1 DEF ResetPassword, rows
  <1>6. ASSUME NEW r \in Request, NEW a \in User, ChangePassword(r, a)
        PROVE  Appointments'
    <2>1. PendingAppointments'
      BY <1>6, AwaitAppoints DEF ChangePassword
    <2> QED
      BY <1>2, <1>6, <2>1 DEF ChangePassword, rows
  <1>7. ASSUME NEW a \in User, NEW u \in User, DeleteUser(a, u)
        PROVE  Appointments'
    BY <1>3, <1>7 DEF DeleteUser, SystemAdminsAreAppointed, TypeOK
  <1>8. ASSUME NEW a \in User, NEW u \in User, NEW p \in Role, EditRole(a, u, p)
        PROVE  Appointments'
    <2>1. role[a] \in RoleText /\ (p = "system-admin" => role[a] = "system-admin")
      BY <1>8 DEF EditRole, MayEdit, IsAdmin
    <2> QED
      BY <1>3, <1>8, <2>1, UpsertAppoints DEF EditRole
  <1>9. ASSUME NEW r \in Request, WriteBack(r)
        PROVE  Appointments'
    <2>1. request[r].role = "system-admin" => request[r].as = "system-admin"
      BY <1>9, WriteBackIsUpsert DEF PendingAppointments
    <2>2. SystemAdminsAreAppointed'
      BY <1>9, <2>1, WriteBackIsUpsert, RequestTypes, UpsertAppoints
    <2>3. PendingAppointments'
      BY <1>9, WriteBackIsUpsert, FewerPending
    <2> QED
      BY <2>2, <2>3
  <1>10. ASSUME NEW r \in Request, Refuse(r)
         PROVE  Appointments'
    BY <1>2, <1>10, FewerPending DEF Refuse, rows
  <1>11. CASE Exit
    BY <1>2, <1>11 DEF Exit, rows, PendingAppointments
  <1>12. CASE Boot
    BY <1>1, <1>3, <1>12, UpsertAppoints, BootstrapAdminIsUser DEF Boot
  <1> QED
    BY <1>1, <1>4, <1>5, <1>6, <1>7, <1>8, <1>9, <1>10, <1>11, <1>12
    DEF Next, UserRequest, MachineRequest, Register, SetStatus, DeleteMachine, Assign, Unassign,
        accountVars

(* A row that says system admin was last written for a system admin: no        *)
(* overlap of requests, and no write-back of an old role, appoints anybody.     *)
THEOREM SystemAdminsAppointed == Spec => []SystemAdminsAreAppointed
  <1>1. Init => Appointments
    BY DEF Init, Appointments, SystemAdminsAreAppointed, PendingAppointments
  <1>2. TypeOK /\ Appointments /\ [Next]_accountVars => Appointments'
    BY AppointmentStep
  <1>3. Appointments => SystemAdminsAreAppointed
    BY DEF Appointments
  <1> QED
    BY <1>1, <1>2, <1>3, AccountTypes, PTL DEF Spec
-------------------------------------------------------------------------------
(* A session's end is renewed with its use, and its use is not before its sign-in. *)
Renewed ==
  \A s \in issued :
    /\ session[s].issuedAt <= now
    /\ session[s].expiresAt = lastUse[s] + idleTTL

SessionsHold == SessionsTypeOK /\ Renewed

LEMMA Times ==
  /\ 0 \in 0 .. MaxTime /\ \A x \in 0 .. MaxTime : x \in Nat
  /\ idleTTL \in Nat /\ absoluteTTL \in Nat /\ sessionMax \in Nat
  /\ \A x \in 0 .. MaxTime : x + idleTTL \in Nat
  /\ now \in 0 .. MaxTime /\ now < MaxTime => now + 1 \in 0 .. MaxTime
BY TunablesPositive, TimeGiven

LEMMA SessionRead ==
  ASSUME SessionsTypeOK, NEW s \in Session
  PROVE  /\ session[s] \in SessionRecord /\ session[s].user \in User
         /\ session[s].issuedAt \in 0 .. MaxTime /\ session[s].expiresAt \in Nat
         /\ session[s].machine \in Machine \cup {NoMachine} /\ lastUse[s] \in 0 .. MaxTime
<1>1. session[s] \in SessionRecord /\ lastUse[s] \in 0 .. MaxTime
  BY DEF SessionsTypeOK
<1> QED
  BY <1>1 DEF SessionRecord

(* The open sessions are finitely many, and fewer of them are fewer.               *)
LEMMA FewerOpen ==
  ASSUME SessionsTypeOK, NEW X, X \subseteq open
  PROVE  IsFiniteSet(X) /\ Cardinality(X) \in Nat /\ Cardinality(X) <= sessionMax
<1>1. IsFiniteSet(open) /\ Cardinality(open) <= sessionMax
  BY SessionsFinite, FS_Subset DEF SessionsTypeOK
<1>2. IsFiniteSet(X) /\ Cardinality(X) <= Cardinality(open)
  BY <1>1, FS_Subset
<1>3. Cardinality(X) \in Nat /\ Cardinality(open) \in Nat
  BY <1>1, <1>2, FS_CardinalityType
<1> QED
  BY <1>1, <1>2, <1>3, Times

(* evict(): at most sessionMax stay, the new one among them.  One that was in use   *)
(* goes only when as many others are in use, to the oldest of them all.             *)
LEMMA EvictedIs ==
  ASSUME SessionsTypeOK, NEW s \in Session, s \notin open, NEW Y,
         Y \in Evicted(open \cup {s}, s)
  PROVE  /\ Y \subseteq open \cup {s} /\ Cardinality(Y) <= sessionMax
         /\ \A t \in open : ~Expired(t) /\ t \notin Y =>
              /\ Cardinality(Y) = sessionMax
              /\ \A v \in Y \ {s} : ~Expired(v) /\ session[t].issuedAt <= session[v].issuedAt
<1> DEFINE X == open \cup {s}
           alive == {t \in X : t = s \/ ~Expired(t)}
           oldest == {t \in alive \ {s} : \A v \in alive \ {s} :
                        session[t].issuedAt <= session[v].issuedAt}
<1>1. /\ IsFiniteSet(open) /\ Cardinality(open) \in Nat /\ Cardinality(open) <= sessionMax
      /\ sessionMax \in Nat
  BY FewerOpen, Times
<1>2. IsFiniteSet(X) /\ Cardinality(X) = Cardinality(open) + 1
  BY <1>1, FS_AddElement
<1>3. alive \subseteq X /\ IsFiniteSet(alive) /\ Cardinality(alive) <= Cardinality(X)
  BY <1>2, FS_Subset
<1>4. Cardinality(alive) \in Nat
  BY <1>3, FS_CardinalityType
<1>5. \A t \in open : ~Expired(t) => t \in alive
  OBVIOUS
<1>6. \/ Cardinality(X) <= sessionMax /\ Y = X
      \/ Cardinality(X) > sessionMax /\ Cardinality(alive) <= sessionMax /\ Y = alive
      \/ Cardinality(alive) > sessionMax /\ \E t \in oldest : Y = alive \ {t}
  <2> HIDE DEF X, alive, oldest
  <2>1. Y \in CASE Cardinality(X) <= sessionMax -> {X}
               [] Cardinality(X) > sessionMax /\ Cardinality(alive) <= sessionMax -> {alive}
               [] OTHER -> {alive \ {t} : t \in oldest}
    BY Zenon DEF Evicted, X, alive, oldest
  <2>2. Cardinality(X) \in Nat
    BY <1>1, <1>2
  <2> QED
    BY <2>1, <2>2, <1>1, <1>4
<1>7. CASE Cardinality(X) <= sessionMax /\ Y = X
  BY <1>7
<1>8. CASE Cardinality(alive) <= sessionMax /\ Y = alive
  BY <1>3, <1>5, <1>8
<1>9. ASSUME Cardinality(alive) > sessionMax, NEW t \in oldest, Y = alive \ {t}
      PROVE  /\ Y \subseteq X /\ Cardinality(Y) = sessionMax
             /\ \A v \in open : ~Expired(v) /\ v \notin Y => v = t
             /\ \A v \in Y \ {s} : ~Expired(v) /\ session[t].issuedAt <= session[v].issuedAt
  <2>1. t \in alive
    OBVIOUS
  <2>2. Cardinality(Y) = Cardinality(alive) - 1
    <3> HIDE DEF alive
    <3> QED
      BY <1>3, <1>9, <2>1, FS_RemoveElement
  <2>3. Cardinality(alive) = sessionMax + 1
    <3> HIDE DEF alive, X
    <3> QED
      BY <1>1, <1>2, <1>3, <1>4, <1>9
  <2>4. Cardinality(Y) = sessionMax
    BY <1>1, <2>2, <2>3
  <2> QED
    BY <1>3, <1>9, <2>4
<1> QED
  <2> HIDE DEF X, alive, oldest
  <2>1. sessionMax <= sessionMax
    BY <1>1
  <2>2. CASE Cardinality(alive) > sessionMax /\ \E t \in oldest : Y = alive \ {t}
    BY <2>1, <2>2, <1>9 DEF X
  <2> QED
    BY <1>6, <1>7, <1>8, <2>2

LEMMA GetKeeps ==
  ASSUME SessionsHold, NEW s \in Session, Live(s), NEW m \in Machine \cup {NoMachine},
         Get(s, m), TypeOK'
  PROVE  SessionsHold'
<1> DEFINE r == [user |-> session[s].user, issuedAt |-> session[s].issuedAt,
                 expiresAt |-> now + idleTTL, machine |-> m]
<1> USE DEF SessionsHold
<1>1. r \in SessionRecord
  BY SessionRead, Times DEF SessionRecord, SessionsTypeOK
<1>2. /\ session' = [session EXCEPT ![s] = r] /\ lastUse' = [lastUse EXCEPT ![s] = now]
      /\ UNCHANGED <<now, open, issued, verifying>>
  BY DEF Get, SessionsTypeOK
<1>3. SessionsTypeOK'
  BY <1>1, <1>2 DEF SessionsTypeOK
<1>4. ASSUME NEW t \in issued
      PROVE  session'[t].issuedAt <= now /\ session'[t].expiresAt = lastUse'[t] + idleTTL
  BY <1>2, <1>4 DEF SessionsTypeOK, Renewed
<1> QED
  BY <1>2, <1>3, <1>4 DEF Renewed

LEMMA SignInKeeps ==
  ASSUME SessionsHold, NEW u \in User, NEW s \in Session, SignIn(u, s)
  PROVE  SessionsHold'
<1> DEFINE r == [user |-> u, issuedAt |-> now, expiresAt |-> now + idleTTL, machine |-> NoMachine]
<1> USE DEF SessionsHold
<1>1. r \in SessionRecord
  BY Times DEF SessionRecord, SessionsTypeOK
<1>2. /\ session' = [session EXCEPT ![s] = r] /\ lastUse' = [lastUse EXCEPT ![s] = now]
      /\ issued' = issued \cup {s} /\ verifying' \subseteq verifying
      /\ now' = now /\ open' \in Evicted(open \cup {s}, s)
  BY DEF SignIn
<1>3. TypeOK'
  BY DEF SignIn, accountVars, rows, TypeOK, SessionsTypeOK
<1>4. open' \subseteq open \cup {s} /\ Cardinality(open') <= sessionMax
  BY <1>2, EvictedIs DEF SignIn, SessionsTypeOK
<1>5. SessionsTypeOK'
  BY <1>1, <1>2, <1>3, <1>4 DEF SessionsTypeOK
<1>6. ASSUME NEW t \in issued'
      PROVE  session'[t].issuedAt <= now /\ session'[t].expiresAt = lastUse'[t] + idleTTL
  <2>1. CASE t = s
    BY <1>2, <2>1, Times DEF SessionsTypeOK
  <2>2. CASE t # s
    BY <1>2, <1>6, <2>2 DEF SessionsTypeOK, Renewed
  <2> QED
    BY <2>1, <2>2
<1> QED
  BY <1>2, <1>5, <1>6 DEF Renewed

(* Sessions that end, by sign-out, sweep, expiry or with the process.               *)
LEMMA FewerKeep ==
  ASSUME SessionsHold, TypeOK', open' \subseteq open, verifying' \subseteq verifying,
         UNCHANGED <<now, session, issued, lastUse>>
  PROVE  SessionsHold'
<1>1. Cardinality(open') <= sessionMax
  BY FewerOpen DEF SessionsHold
<1> QED
  BY <1>1 DEF SessionsHold, SessionsTypeOK, Renewed

LEMMA TickKeeps == ASSUME SessionsHold, Tick PROVE SessionsHold'
<1>1. now' \in 0 .. MaxTime /\ now' = now + 1 /\ UNCHANGED <<open, session, issued, verifying, lastUse>>
  BY Times DEF Tick, SessionsHold, SessionsTypeOK
<1>2. TypeOK'
  BY DEF Tick, accountVars, rows, TypeOK, SessionsHold, SessionsTypeOK
<1>3. SessionsTypeOK'
  BY <1>1, <1>2 DEF SessionsHold, SessionsTypeOK
<1>4. ASSUME NEW s \in issued PROVE session[s].issuedAt <= now + 1
  <2>1. s \in Session /\ session[s].issuedAt <= now
    BY DEF SessionsHold, SessionsTypeOK, Renewed
  <2>2. session[s].issuedAt \in Nat /\ now \in Nat
    BY <2>1, SessionRead, Times DEF SessionsHold, SessionsTypeOK
  <2> QED
    BY <2>1, <2>2
<1> QED
  BY <1>1, <1>3, <1>4 DEF SessionsHold, Renewed

(* The accounts' own steps, and those that leave their rows alone.                 *)
LEMMA AccountsKeep ==
  ASSUME TypeOK, [SessionsNext]_vars
  PROVE  TypeOK'
<1>1. [Next]_accountVars => TypeOK'
  BY TypeStep
<1>2. (UserRequest \/ MachineRequest \/ Boot \/ Exit) => Next
  BY DEF Next
<1> QED
  BY <1>1, <1>2 DEF SessionsNext, vars, BeginSignIn, SignInDenied, SignIn, Use, OpenConsole, Get,
     UseExpired, Prune, Drop, SignOut, Tick, ExitWithSessions

LEMMA SessionStep ==
  ASSUME SessionsHold, [SessionsNext]_vars
  PROVE  SessionsHold'
<1>0. TypeOK'
  BY AccountsKeep DEF SessionsHold, SessionsTypeOK
<1>1. CASE UNCHANGED sessionVars
  BY <1>0, <1>1, FewerKeep DEF sessionVars
<1>2. ASSUME NEW u \in User, BeginSignIn(u) PROVE SessionsHold'
  BY <1>0, <1>2 DEF BeginSignIn, SessionsHold, SessionsTypeOK, Renewed
<1>3. ASSUME NEW u \in User, SignInDenied(u) PROVE SessionsHold'
  BY <1>0, <1>3, FewerKeep DEF SignInDenied
<1>4. ASSUME NEW u \in User, NEW s \in Session, SignIn(u, s) PROVE SessionsHold'
  BY <1>4, SignInKeeps
<1>5. ASSUME NEW s \in Session, Use(s) PROVE SessionsHold'
  <2>1. session[s].machine \in Machine \cup {NoMachine}
    BY SessionRead DEF SessionsHold
  <2> QED
    BY <1>0, <1>5, <2>1, GetKeeps DEF Use
<1>6. ASSUME NEW s \in Session, NEW m \in Machine, OpenConsole(s, m) PROVE SessionsHold'
  BY <1>0, <1>6, GetKeeps DEF OpenConsole
<1>7. ASSUME NEW X, Drop(X) PROVE SessionsHold'
  BY <1>0, <1>7, FewerKeep DEF Drop
<1>8. ASSUME NEW s \in Session, SignOut(s) PROVE SessionsHold'
  BY <1>0, <1>8, FewerKeep DEF SignOut
<1>9. CASE Tick
  BY <1>9, TickKeeps
<1>10. CASE ExitWithSessions
  BY <1>0, <1>10, FewerKeep DEF ExitWithSessions
<1> QED
  BY <1>1, <1>2, <1>3, <1>4, <1>5, <1>6, <1>7, <1>8, <1>9, <1>10
  DEF SessionsNext, vars, UseExpired, Prune

LEMMA SessionsStart == SessionsInit => SessionsHold
<1> SUFFICES ASSUME SessionsInit PROVE SessionsHold
  OBVIOUS
<1>1. TypeOK
  BY DEF SessionsInit, Init, TypeOK
<1>2. Cardinality({}) = 0 /\ sessionMax \in Nat
  BY FS_EmptySet, Times
<1>3. PICK u \in User : session = [s \in Session |->
        [user |-> u, issuedAt |-> 0, expiresAt |-> 0, machine |-> NoMachine]]
  BY DEF SessionsInit
<1>4. session \in [Session -> SessionRecord]
  BY <1>3, Times DEF SessionRecord
<1> QED
  BY <1>1, <1>2, <1>4, Times DEF SessionsInit, SessionsHold, SessionsTypeOK, Renewed

(* The sessions are well typed, and never more than sessionMax (SessionStore).       *)
THEOREM SessionTypes == SessionsSpec => []SessionsTypeOK
<1>1. SessionsHold /\ [SessionsNext]_vars => SessionsHold'
  BY SessionStep
<1>2. SessionsHold => SessionsTypeOK
  BY DEF SessionsHold
<1> QED
  BY <1>1, <1>2, SessionsStart, PTL DEF SessionsSpec

(* Nobody is let in under a token idleTTL after its last use or absoluteTTL after    *)
(* its sign-in, however often it was renewed (get(), create() and evict()).          *)
THEOREM LatecomersStayOut == SessionsSpec => NobodyComesBackLate
<1> DEFINE InTime(s) == now <= lastUse[s] + idleTTL /\ now <= session[s].issuedAt + absoluteTTL
<1>1. ASSUME SessionsHold, [SessionsNext]_vars, NEW s \in issued, lastUse'[s] # lastUse[s]
      PROVE  InTime(s)
  <2>1. s \in Session /\ session[s].expiresAt = lastUse[s] + idleTTL
    BY <1>1 DEF SessionsHold, SessionsTypeOK, Renewed
  <2>2. Live(s) => InTime(s)
    <3>1. /\ now \in Nat /\ session[s].expiresAt \in Nat /\ session[s].issuedAt \in Nat
          /\ absoluteTTL \in Nat
      BY <1>1, <2>1, SessionRead, Times DEF SessionsHold, SessionsTypeOK
    <3> QED
      BY <2>1, <3>1 DEF Live, Expired
  <2>3. ASSUME NEW t \in Session, NEW m, Live(t), Get(t, m) PROVE Live(s)
    BY <1>1, <2>3 DEF Get, SessionsHold, SessionsTypeOK
  <2>4. ASSUME NEW u \in User, NEW t \in Session, SignIn(u, t) PROVE FALSE
    BY <1>1, <2>4 DEF SignIn, SessionsHold, SessionsTypeOK
  <2>5. lastUse' # lastUse
    BY <1>1
  <2> QED
    BY <1>1, <2>2, <2>3, <2>4, <2>5
    DEF SessionsNext, vars, sessionVars, BeginSignIn, SignInDenied, Use, OpenConsole, UseExpired,
        Prune, Drop, SignOut, Tick, ExitWithSessions
<1>2. ASSUME SessionsHold, [SessionsNext]_vars
      PROVE  [\A s \in issued : lastUse'[s] # lastUse[s] =>
                now <= lastUse[s] + idleTTL /\ now <= session[s].issuedAt + absoluteTTL]_vars
  BY <1>1, <1>2
<1>3. SessionsHold /\ [SessionsNext]_vars => SessionsHold'
  BY SessionStep
<1> QED
  BY <1>2, <1>3, SessionsStart, PTL DEF SessionsSpec, NobodyComesBackLate

(* A session in use ends by its sign-out, with the process, or when sessionMax      *)
(* others are open, in use and not older (evict()).                                *)
THEOREM SessionsInUseAreKept == SessionsSpec => LiveSessionsAreKept
<1> DEFINE Outlived(s) ==
      /\ Cardinality(open') = sessionMax
      /\ \A t \in open' : (t \in open => Live(t)) /\ session'[t].issuedAt >= session[s].issuedAt
<1>1. ASSUME SessionsHold, SessionsNext, NEW s \in Session, Live(s), s \notin open'
      PROVE  SignOut(s) \/ ~up' \/ Outlived(s)
  <2>1. ASSUME NEW u \in User, NEW n \in Session, SignIn(u, n) PROVE Outlived(s)
    <3>1. /\ n \notin open /\ open' \in Evicted(open \cup {n}, n) /\ s \in open /\ ~Expired(s)
          /\ session'[n].issuedAt = now /\ s # n
          /\ \A t \in Session : t # n => session'[t] = session[t]
      BY <1>1, <2>1 DEF SignIn, Live, SessionsHold, SessionsTypeOK
    <3>2. /\ Cardinality(open') = sessionMax /\ open' \subseteq open \cup {n}
          /\ \A v \in open' \ {n} : ~Expired(v) /\ session[s].issuedAt <= session[v].issuedAt
      BY <1>1, <3>1, EvictedIs DEF SessionsHold
    <3>3. session[s].issuedAt <= now /\ open \subseteq Session
      BY <1>1 DEF Live, SessionsHold, SessionsTypeOK, Renewed
    <3>4. session[s].issuedAt \in Nat /\ now \in Nat
      BY <1>1, SessionRead, Times DEF SessionsHold, SessionsTypeOK
    <3>5. ASSUME NEW t \in open'
          PROVE  (t \in open => Live(t)) /\ session'[t].issuedAt >= session[s].issuedAt
      <4>1. CASE t = n
        BY <3>1, <3>3, <3>4, <4>1
      <4>2. CASE t # n
        <5>1. t \in open /\ t \in Session /\ ~Expired(t) /\ session[s].issuedAt <= session[t].issuedAt
          BY <3>2, <3>3, <4>2
        <5>2. session[t].issuedAt \in Nat /\ session'[t] = session[t]
          BY <1>1, <3>1, <4>2, <5>1, SessionRead DEF SessionsHold
        <5> QED
          BY <3>4, <5>1, <5>2 DEF Live
      <4> QED
        BY <4>1, <4>2
    <3> QED
      BY <3>2, <3>5
  <2>2. ASSUME NEW X, Drop(X) PROVE FALSE
    BY <1>1, <2>2 DEF Drop, Live
  <2>3. ASSUME NEW t \in Session, SignOut(t) PROVE SignOut(s)
    BY <1>1, <2>3 DEF SignOut, Live
  <2>4. open' # open
    BY <1>1 DEF Live
  <2>5. ExitWithSessions => ~up'
    BY DEF ExitWithSessions, Exit
  <2> HIDE DEF Outlived
  <2> QED
    BY <1>1, <2>1, <2>2, <2>3, <2>4, <2>5
    DEF SessionsNext, sessionVars, BeginSignIn, SignInDenied, Use, OpenConsole, Get, UseExpired,
        Prune, Tick
<1>2. ASSUME SessionsHold, [SessionsNext]_vars
      PROVE  [\A s \in Session : Live(s) /\ s \notin open' =>
                \/ SignOut(s) \/ ~up'
                \/ /\ Cardinality(open') = sessionMax
                   /\ \A t \in open' :
                        (t \in open => Live(t)) /\ session'[t].issuedAt >= session[s].issuedAt]_vars
  BY <1>1, <1>2
<1>3. SessionsHold /\ [SessionsNext]_vars => SessionsHold'
  BY SessionStep
<1> QED
  BY <1>2, <1>3, SessionsStart, PTL DEF SessionsSpec, LiveSessionsAreKept
===============================================================================
