------------------------ MODULE LoginThrottle_proofs ------------------------
(* Theorems about LoginThrottle, for any accounts, addresses and sign-ins,    *)
(* any limits, windows and back-off, and any number of restarts.             *)
EXTENDS LoginThrottle, TLAPS, FiniteSetTheorems

LEMMA BackoffPositive == ASSUME NEW n \in Nat PROVE NextBackoff(n) \in Nat
BY BackoffGiven DEF NextBackoff

LEMMA RecentSubset == ASSUME NEW X, NEW w PROVE Recent(X, w) \subseteq X
BY DEF Recent

LEMMA FilteredType ==
  /\ \A s \in AccountState : RecentFails(s) \in AccountState
  /\ \A s \in IpState : RecentAttempts(s) \in IpState
  /\ NoAccount \in AccountState /\ NoAddress \in IpState
BY DEF RecentFails, RecentAttempts, Recent, AccountState, IpState, NoAccount, NoAddress

LEMMA FilteredEmpty ==
  RecentFails(NoAccount) = NoAccount /\ RecentAttempts(NoAddress) = NoAddress
<1>1. Recent({}, accountWindow) = {} /\ Recent({}, ipWindow) = {}
  BY DEF Recent
<1>2. QED
  BY <1>1 DEF RecentFails, RecentAttempts, NoAccount, NoAddress

LEMMA FilteredHeld ==
  /\ \A s \in AccountState : RecentFails(s).held = s.held
  /\ \A s \in IpState : RecentAttempts(s).held = s.held
BY DEF RecentFails, RecentAttempts, AccountState, IpState

(* Only an account that holds failures can be out of them.                  *)
LEMMA ExhaustedIsHeld ==
  ASSUME TypeOK, NEW a \in Account, Exhausted(a) PROVE accounts[a].held
<1>1. Recent({}, accountWindow) = {}
  BY DEF Recent
<1>2. Cardinality({}) = 0
  BY FS_EmptySet
<1>3. ~accounts[a].held => accounts[a].fails = {}
  BY DEF TypeOK, NoAccount
<1>4. QED
  BY <1>1, <1>2, <1>3, LimitsPositive DEF Exhausted
-------------------------------------------------------------------------------
(* Types.                                                                   *)

AttemptRecord ==
  [pc : {"idle", "refused", "verifying", "denied", "in", "lost"}, account : Account, ip : Address]

LEMMA TypeInit == Init => TypeOK
BY BoundsGiven DEF Init, TypeOK, NoAccount, NoAddress, AccountState, IpState

LEMMA TypeStep == TypeOK /\ [Next]_vars => TypeOK'
<1> SUFFICES ASSUME TypeOK, [Next]_vars PROVE TypeOK'
  OBVIOUS
<1>1. ASSUME NEW x \in Attempt, NEW a \in Account, NEW i \in Address, Check(x, a, i)
      PROVE TypeOK'
  <2>1. ips' \in [Address -> IpState] /\ \A j \in Address : ~ips'[j].held => ips'[j] = NoAddress
    BY <1>1, FilteredType, FilteredEmpty, FilteredHeld DEF Check, TypeOK
  <2>2. /\ accounts' \in [Account -> AccountState]
        /\ accountRow' \in [Account -> AccountState]
        /\ pardoned' \subseteq Attempt /\ promised' \in [Account -> Nat] /\ deleted' \subseteq Account
        /\ \A b \in Account : \A s \in {accounts'[b], accountRow'[b]} : ~s.held => s = NoAccount
    <3>1. CASE UNCHANGED <<accounts, accountRow, history>>
      BY <3>1 DEF TypeOK, history
    <3>2. CASE Exhausted(a) /\ Lock(a)
      <4>1. now + NextBackoff(accounts[a].lockCount) \in Nat
        BY BackoffPositive DEF TypeOK, AccountState
      <4>2. accounts' \in [Account -> AccountState] /\ accounts'[a].held
        <5> DEFINE locked == [held |-> accounts[a].held, fails |-> {},
                              lockUntil |-> now + NextBackoff(accounts[a].lockCount),
                              lockCount |-> accounts[a].lockCount + 1]
        <5>1. locked \in AccountState /\ locked.held = accounts[a].held
          BY <4>1 DEF TypeOK, AccountState
        <5>2. accounts' = [accounts EXCEPT ![a] = locked]
          BY <3>2 DEF Lock
        <5>3. QED
          BY <3>2, <5>1, <5>2, ExhaustedIsHeld DEF TypeOK
      <4>3. QED
        BY <3>2, <4>1, <4>2 DEF Lock, Stored, Settle, TypeOK
    <3>3. CASE /\ accounts' = [accounts EXCEPT ![a] = RecentFails(@)]
               /\ UNCHANGED <<accountRow, history>>
      BY <3>3, FilteredType, FilteredEmpty, FilteredHeld DEF TypeOK, history
    <3>4. QED
      BY <1>1, <3>1, <3>2, <3>3 DEF Check
  <2>3. QED
    BY <1>1, <2>1, <2>2 DEF Check, TypeOK, clock
<1>2. ASSUME NEW x \in Attempt, RecordFailure(x) PROVE TypeOK'
  <2>1. attempt[x].account \in Account /\ attempt[x].ip \in Address
    BY DEF TypeOK
  <2>2. /\ accounts' \in [Account -> AccountState]
        /\ accounts'[attempt[x].account].held
        /\ \A b \in Account : b # attempt[x].account => accounts'[b] = accounts[b]
    <3> DEFINE a == attempt[x].account
               charged == [held |-> TRUE, fails |-> accounts[a].fails \cup {x},
                           lockUntil |-> accounts[a].lockUntil, lockCount |-> accounts[a].lockCount]
    <3>1. charged \in AccountState /\ charged.held
      BY <2>1 DEF TypeOK, AccountState
    <3>2. accounts' = [accounts EXCEPT ![a] = charged]
      BY <1>2 DEF RecordFailure
    <3>3. QED
      BY <2>1, <3>1, <3>2 DEF TypeOK
  <2>3. /\ ips' \in [Address -> IpState]
        /\ ips'[attempt[x].ip].held
        /\ \A j \in Address : j # attempt[x].ip => ips'[j] = ips[j]
    BY <1>2, <2>1 DEF RecordFailure, TypeOK, IpState
  <2>4. /\ accountRow' \in [Account -> AccountState]
        /\ \A b \in Account : accountRow'[b] \in {accounts'[b], accountRow[b]}
        /\ accountRow'[attempt[x].account] = accounts'[attempt[x].account]
    BY <1>2, <2>1, <2>2 DEF RecordFailure, Stored, TypeOK
  <2>5. /\ ipRow' \in [Address -> IpState]
        /\ \A j \in Address : ipRow'[j] \in {ips'[j], ipRow[j]}
        /\ ipRow'[attempt[x].ip] = ips'[attempt[x].ip]
    BY <1>2, <2>1, <2>3 DEF RecordFailure, TypeOK
  <2>6. \A b \in Account : \A s \in {accounts'[b], accountRow'[b]} : ~s.held => s = NoAccount
    BY <2>2, <2>4 DEF TypeOK
  <2>7. \A j \in Address : \A s \in {ips'[j], ipRow'[j]} : ~s.held => s = NoAddress
    BY <2>3, <2>5 DEF TypeOK
  <2>8. attempt' \in [Attempt -> AttemptRecord]
    <3>1. [attempt[x] EXCEPT !.pc = "denied"] \in AttemptRecord
      BY DEF TypeOK, AttemptRecord
    <3>2. QED
      BY <1>2, <3>1 DEF RecordFailure, TypeOK, AttemptRecord
  <2>9. /\ at' \in [Attempt -> 0..MaxTime]
        /\ deleted' \subseteq Account
        /\ UNCHANGED <<now, boots, up, pardoned, promised>>
    BY <1>2 DEF RecordFailure, Stored, TypeOK, clock
  <2>10. QED
    BY <2>2, <2>3, <2>4, <2>5, <2>6, <2>7, <2>8, <2>9 DEF TypeOK, AttemptRecord
<1>3. ASSUME NEW x \in Attempt, RecordSuccess(x) PROVE TypeOK'
  BY <1>3, FilteredType DEF RecordSuccess, Stored, Settle, TypeOK, clock
<1>4. ASSUME NEW a \in Account, DeleteUser(a) PROVE TypeOK'
  BY <1>4, FilteredType DEF DeleteUser, Settle, TypeOK, clock
<1>5. ASSUME Prune PROVE TypeOK'
  <2>1. /\ accounts' \in [Account -> AccountState] /\ accountRow' \in [Account -> AccountState]
        /\ \A b \in Account : \A s \in {accounts'[b], accountRow'[b]} : ~s.held => s = NoAccount
    BY <1>5, FilteredType, FilteredEmpty, FilteredHeld DEF Prune, TypeOK
  <2>2. /\ ips' \in [Address -> IpState] /\ ipRow' \in [Address -> IpState]
        /\ \A j \in Address : \A s \in {ips'[j], ipRow'[j]} : ~s.held => s = NoAddress
    BY <1>5, FilteredType, FilteredEmpty, FilteredHeld DEF Prune, TypeOK
  <2>3. QED
    BY <1>5, <2>1, <2>2 DEF Prune, TypeOK, clock, history
<1>6. CASE Exit
  BY <1>6, FilteredType DEF Exit, TypeOK, clock, history
<1>7. CASE Boot
  BY <1>7, FilteredType, FilteredEmpty, FilteredHeld, BoundsGiven DEF Boot, Hydrated, TypeOK, history
<1>8. CASE Tick
  BY <1>8, BoundsGiven DEF Tick, TypeOK, tables, history
<1>9. CASE UNCHANGED vars
  BY <1>9 DEF vars, TypeOK
<1>10. QED
  BY <1>1, <1>2, <1>3, <1>4, <1>5, <1>6, <1>7, <1>8, <1>9 DEF Next

(* Every reachable state is well typed; what is not held is empty.            *)
THEOREM ThrottleTypes == Spec => []TypeOK
BY TypeInit, TypeStep, PTL DEF Spec

(* An attempt is admitted by check() and by nothing else.                    *)
LEMMA OnlyCheckAdmits ==
  ASSUME TypeOK, [Next]_vars, NEW x \in Attempt, Admitted(x)
  PROVE  \E a \in Account, i \in Address : Check(x, a, i)
<1> USE DEF Admitted, TypeOK
<1>1. ASSUME NEW y \in Attempt, NEW a \in Account, NEW i \in Address, Check(y, a, i), y # x
      PROVE FALSE
  BY <1>1 DEF Check
<1>2. ASSUME NEW y \in Attempt, RecordFailure(y) \/ RecordSuccess(y) PROVE FALSE
  BY <1>2 DEF RecordFailure, RecordSuccess
<1>3. ASSUME NEW a \in Account, DeleteUser(a) PROVE FALSE
  BY <1>3 DEF DeleteUser
<1>4. ASSUME Prune \/ Boot \/ Tick \/ UNCHANGED vars PROVE FALSE
  BY <1>4 DEF Prune, Boot, Tick, vars
<1>5. ASSUME Exit PROVE FALSE
  BY <1>5 DEF Exit
<1>6. QED
  BY <1>1, <1>2, <1>3, <1>4, <1>5 DEF Next
-------------------------------------------------------------------------------
(* Lockouts.  While a promised lockout lasts, the row and the entry carry it. *)

LockKept ==
  \A a \in Account : promised[a] > now =>
    /\ accountRow[a].lockUntil >= promised[a]
    /\ up => accounts[a].lockUntil >= promised[a]

LEMMA FilteredLock == \A s \in AccountState : RecentFails(s).lockUntil = s.lockUntil
BY DEF RecentFails, AccountState

LEMMA LockKeptStep == TypeOK /\ LockKept /\ [Next]_vars => LockKept'
<1> SUFFICES ASSUME TypeOK, LockKept, [Next]_vars PROVE LockKept'
  OBVIOUS
<1> USE DEF LockKept
<1>1. ASSUME NEW x \in Attempt, NEW a \in Account, NEW i \in Address, Check(x, a, i)
      PROVE LockKept'
  <2>1. CASE UNCHANGED <<accounts, accountRow, history>>
    BY <1>1, <2>1 DEF Check, clock, history
  <2>2. CASE Lock(a)
    <3>1. now + NextBackoff(accounts[a].lockCount) \in Nat
      BY BackoffPositive DEF TypeOK, AccountState
    <3>2. /\ promised' = [promised EXCEPT ![a] = now + NextBackoff(accounts[a].lockCount)]
          /\ accounts'[a].lockUntil = now + NextBackoff(accounts[a].lockCount)
          /\ accountRow'[a] = accounts'[a]
          /\ \A b \in Account : b # a => accounts'[b] = accounts[b] /\ accountRow'[b] = accountRow[b]
      BY <2>2 DEF Lock, Stored, Settle, TypeOK
    <3>3. QED
      BY <1>1, <3>1, <3>2 DEF Check, clock, TypeOK
  <2>3. CASE /\ accounts' = [accounts EXCEPT ![a] = RecentFails(@)]
             /\ UNCHANGED <<accountRow, history>>
    BY <1>1, <2>3, FilteredLock DEF Check, clock, history, TypeOK
  <2>4. QED
    BY <1>1, <2>1, <2>2, <2>3 DEF Check
<1>2. ASSUME NEW x \in Attempt, RecordFailure(x) PROVE LockKept'
  <2>1. \A b \in Account : /\ accounts'[b].lockUntil = accounts[b].lockUntil
                           /\ accountRow'[b] \in {accounts'[b], accountRow[b]}
    BY <1>2 DEF RecordFailure, Stored, TypeOK
  <2>2. QED
    BY <1>2, <2>1 DEF RecordFailure, clock, history
<1>3. ASSUME NEW x \in Attempt, RecordSuccess(x) PROVE LockKept'
  BY <1>3 DEF RecordSuccess, Stored, Settle, clock, TypeOK
<1>4. ASSUME NEW a \in Account, DeleteUser(a) PROVE LockKept'
  BY <1>4 DEF DeleteUser, Settle, clock, TypeOK
<1>5. ASSUME Prune PROVE LockKept'
  <2>1. ASSUME NEW a \in Account, promised[a] > now PROVE ~Expired(accounts[a])
    BY <1>5, <2>1 DEF Expired, Prune, TypeOK, AccountState
  <2>2. ASSUME NEW a \in Account, promised[a] > now
        PROVE  accounts'[a].lockUntil = accounts[a].lockUntil /\ accountRow'[a] = accountRow[a]
    BY <1>5, <2>1, <2>2, FilteredLock DEF Prune, TypeOK
  <2>3. QED
    BY <1>5, <2>2 DEF Prune, clock, history
<1>6. CASE Exit
  BY <1>6 DEF Exit, clock, history
<1>7. CASE Boot
  BY <1>7, FilteredLock DEF Boot, Hydrated, history, TypeOK
<1>8. CASE Tick
  BY <1>8 DEF Tick, tables, history, TypeOK
<1>9. CASE UNCHANGED vars
  BY <1>9 DEF vars
<1>10. QED
  BY <1>1, <1>2, <1>3, <1>4, <1>5, <1>6, <1>7, <1>8, <1>9 DEF Next

(* A lockout holds to its end from every address, through prunes, failures    *)
(* still under way and restarts; only a success or a deletion lifts it.      *)
THEOREM LocksHold == Spec => LockHolds
<1>1. Init => LockKept
  BY DEF Init, LockKept
<1>2. TypeOK /\ LockKept /\ [Next]_vars
        => [\A x \in Attempt : Admitted(x) => promised[attempt'[x].account] <= now]_vars
  <2> SUFFICES ASSUME TypeOK, LockKept, [Next]_vars, NEW x \in Attempt, Admitted(x)
               PROVE  promised[attempt'[x].account] <= now
    OBVIOUS
  <2>1. PICK a \in Account, i \in Address : Check(x, a, i)
    BY OnlyCheckAdmits
  <2>2. attempt'[x].account = a /\ up /\ ~Locked(a)
    BY <2>1 DEF Check, Admitted, TypeOK
  <2>3. promised[a] \in Int /\ now \in Int /\ accounts[a].lockUntil \in Int
    BY DEF TypeOK, AccountState
  <2>4. promised[a] <= now
    BY <2>2, <2>3 DEF Locked, LockKept
  <2>5. QED
    BY <2>2, <2>4
<1>3. QED
  BY <1>1, <1>2, LockKeptStep, ThrottleTypes, PTL DEF Spec, LockHolds
-------------------------------------------------------------------------------
(* Failures.  Those that count are remembered, in the entry and in the row.    *)

AccountCounts ==
  \A a \in Account : /\ Counted(a) \subseteq accountRow[a].fails
                     /\ up => Counted(a) \subseteq accounts[a].fails
AddressCounts ==
  \A i \in Address : /\ CountedFrom(i) \subseteq ipRow[i].attempts
                     /\ up => CountedFrom(i) \subseteq ips[i].attempts

LEMMA FilteredFails ==
  /\ \A s \in AccountState : RecentFails(s).fails = Recent(s.fails, accountWindow)
  /\ \A s \in IpState : RecentAttempts(s).attempts = Recent(s.attempts, ipWindow)
BY DEF RecentFails, RecentAttempts, AccountState, IpState

(* What counts is recent, so that filtering a superset of it keeps it.        *)
LEMMA CountedIsRecent ==
  /\ \A a \in Account : \A X : Counted(a) \subseteq X => Counted(a) \subseteq Recent(X, accountWindow)
  /\ \A i \in Address : \A X : CountedFrom(i) \subseteq X => CountedFrom(i) \subseteq Recent(X, ipWindow)
BY DEF Counted, CountedFrom, Recent

(* A step that denies nobody lets nothing more count.                        *)
LEMMA NothingMoreCounts ==
  ASSUME TypeOK, now' \in Nat, now' >= now, at' = at, pardoned \subseteq pardoned',
         \A x \in Attempt : attempt'[x].pc = "denied"
                              => attempt[x].pc = "denied" /\ attempt'[x] = attempt[x]
  PROVE  /\ \A a \in Account : Counted(a)' \subseteq Counted(a)
         /\ \A i \in Address : CountedFrom(i)' \subseteq CountedFrom(i)
<1>1. now \in Int /\ \A x \in Attempt : at[x] \in Int
  BY DEF TypeOK
<1>2. accountWindow \in Int /\ ipWindow \in Int
  BY LimitsPositive
<1>3. QED
  BY <1>1, <1>2 DEF Counted, CountedFrom, Recent, Denied

LEMMA PardonClears ==
  ASSUME NEW a \in Account, NEW until, Settle(a, until), attempt' = attempt \/
         \A x \in Attempt : attempt'[x].pc = "denied" => attempt'[x] = attempt[x]
  PROVE  Counted(a)' = {} /\ pardoned \subseteq pardoned'
BY DEF Settle, Counted, Recent, Denied

LEMMA AccountCountsStep == TypeOK /\ TypeOK' /\ AccountCounts /\ [Next]_vars => AccountCounts'
<1> SUFFICES ASSUME TypeOK, TypeOK', AccountCounts, [Next]_vars PROVE AccountCounts'
  OBVIOUS
<1> USE DEF AccountCounts
<1>a. now \in Nat /\ now' \in Nat
  BY BoundsGiven DEF TypeOK
<1>1. ASSUME NEW x \in Attempt, NEW a \in Account, NEW i \in Address, Check(x, a, i)
      PROVE AccountCounts'
  <2>0. /\ now' = now /\ at' = at /\ up' = up
        /\ \A y \in Attempt : attempt'[y].pc = "denied"
             => attempt[y].pc = "denied" /\ attempt'[y] = attempt[y]
    BY <1>1 DEF Check, clock, TypeOK
  <2>1. CASE UNCHANGED <<accounts, accountRow, history>>
    BY <1>a, <2>0, <2>1, NothingMoreCounts DEF history
  <2>2. CASE Lock(a)
    <3>1. Counted(a)' = {} /\ pardoned \subseteq pardoned'
      BY <2>0, <2>2, PardonClears DEF Lock
    <3>2. \A b \in Account : Counted(b)' \subseteq Counted(b)
      BY <1>a, <2>0, <3>1, NothingMoreCounts
    <3>3. \A b \in Account : b # a => accounts'[b] = accounts[b] /\ accountRow'[b] = accountRow[b]
      BY <2>2 DEF Lock, Stored, TypeOK
    <3>4. QED
      BY <2>0, <3>1, <3>2, <3>3
  <2>3. CASE /\ accounts' = [accounts EXCEPT ![a] = RecentFails(@)]
             /\ UNCHANGED <<accountRow, history>>
    <3>1. \A b \in Account : Counted(b)' \subseteq Counted(b)
      BY <1>a, <2>0, <2>3, NothingMoreCounts DEF history
    <3>2. ASSUME NEW b \in Account, up PROVE Counted(b) \subseteq accounts'[b].fails
      BY <2>3, <3>2, CountedIsRecent, FilteredFails DEF TypeOK
    <3>3. QED
      BY <2>0, <2>3, <3>1, <3>2
  <2>4. QED
    BY <1>1, <2>1, <2>2, <2>3 DEF Check
<1>2. ASSUME NEW x \in Attempt, RecordFailure(x) PROVE AccountCounts'
  <2>0. PICK a \in Account : a = attempt[x].account
    BY DEF TypeOK
  <2>1. a \in Account /\ up /\ up' /\ now' = now /\ pardoned' = pardoned
    BY <1>2 DEF RecordFailure, TypeOK, clock, history
  <2>2. ASSUME NEW b \in Account
        PROVE  Counted(b)' \subseteq Counted(b) \cup (IF b = a THEN {x} ELSE {})
    BY <1>2, <2>0, <2>1 DEF RecordFailure, Counted, Recent, Denied, TypeOK
  <2>3. accounts'[a].fails = accounts[a].fails \cup {x} /\ accountRow'[a] = accounts'[a]
    BY <1>2, <2>0, <2>1 DEF RecordFailure, Stored, TypeOK
  <2>4. \A b \in Account : b # a => accounts'[b] = accounts[b] /\ accountRow'[b] = accountRow[b]
    BY <1>2, <2>0, <2>1 DEF RecordFailure, Stored, TypeOK
  <2>5. QED
    BY <2>1, <2>2, <2>3, <2>4
<1>3. ASSUME NEW x \in Attempt, RecordSuccess(x) PROVE AccountCounts'
  <2>0. PICK a \in Account : a = attempt[x].account
    BY DEF TypeOK
  <2>1. /\ a \in Account /\ now' = now /\ at' = at /\ up' = up
        /\ \A y \in Attempt : attempt'[y].pc = "denied"
             => attempt[y].pc = "denied" /\ attempt'[y] = attempt[y]
    BY <1>3 DEF RecordSuccess, TypeOK, clock
  <2>2. Counted(a)' = {} /\ pardoned \subseteq pardoned'
    BY <1>3, <2>0, <2>1, PardonClears DEF RecordSuccess
  <2>3. \A b \in Account : Counted(b)' \subseteq Counted(b)
    BY <1>a, <2>1, <2>2, NothingMoreCounts
  <2>4. \A b \in Account : b # a => accounts'[b] = accounts[b] /\ accountRow'[b] = accountRow[b]
    BY <1>3, <2>0, <2>1 DEF RecordSuccess, Stored, TypeOK
  <2>5. ASSUME NEW b \in Account
        PROVE  /\ Counted(b)' \subseteq accountRow'[b].fails
               /\ up' => Counted(b)' \subseteq accounts'[b].fails
    <3>1. CASE b = a
      BY <2>2, <3>1
    <3>2. CASE b # a
      BY <2>1, <2>3, <2>4, <3>2
    <3>3. QED
      BY <3>1, <3>2
  <2>6. QED
    BY <2>5
<1>4. ASSUME NEW a \in Account, DeleteUser(a) PROVE AccountCounts'
  <2>1. now' = now /\ at' = at /\ up' = up /\ attempt' = attempt /\ accounts' = accounts
    BY <1>4 DEF DeleteUser, clock
  <2>2. Counted(a)' = {} /\ pardoned \subseteq pardoned'
    BY <1>4, <2>1, PardonClears DEF DeleteUser
  <2>3. \A b \in Account : Counted(b)' \subseteq Counted(b)
    BY <1>a, <2>1, <2>2, NothingMoreCounts
  <2>4. \A b \in Account : b # a => accountRow'[b] = accountRow[b]
    BY <1>4 DEF DeleteUser, TypeOK
  <2>5. QED
    BY <2>1, <2>2, <2>3, <2>4
<1>5. ASSUME Prune PROVE AccountCounts'
  <2>1. /\ now' = now /\ at' = at /\ attempt' = attempt /\ pardoned' = pardoned /\ up /\ up'
    BY <1>5 DEF Prune, clock, history
  <2>2. \A b \in Account : Counted(b)' \subseteq Counted(b)
    BY <1>a, <2>1, NothingMoreCounts
  <2>3. ASSUME NEW b \in Account PROVE Counted(b) \subseteq Recent(accounts[b].fails, accountWindow)
    BY <2>1, CountedIsRecent
  <2>4. ASSUME NEW b \in Account
        PROVE  Counted(b) \subseteq accounts'[b].fails /\ Counted(b) \subseteq accountRow'[b].fails
    <3>1. CASE Expired(accounts[b])
      BY <1>5, <2>3, <3>1 DEF Expired, Prune, TypeOK
    <3>2. CASE ~Expired(accounts[b])
      BY <1>5, <2>3, <3>2, FilteredFails DEF Prune, TypeOK
    <3>3. QED
      BY <3>1, <3>2
  <2>5. QED
    BY <2>1, <2>2, <2>4
<1>6. ASSUME Exit PROVE AccountCounts'
  <2>1. /\ now' = now /\ at' = at /\ pardoned' = pardoned /\ ~up' /\ accountRow' = accountRow
        /\ \A y \in Attempt : attempt'[y].pc = "denied"
             => attempt[y].pc = "denied" /\ attempt'[y] = attempt[y]
    BY <1>6 DEF Exit, clock, history, TypeOK
  <2>2. QED
    BY <1>a, <2>1, NothingMoreCounts
<1>7. ASSUME Boot PROVE AccountCounts'
  <2>1. /\ now' = now /\ at' = at /\ attempt' = attempt /\ pardoned' = pardoned
        /\ accountRow' = accountRow
    BY <1>7 DEF Boot, history
  <2>2. \A b \in Account : Counted(b)' \subseteq Counted(b)
    BY <1>a, <2>1, NothingMoreCounts
  <2>3. ASSUME NEW b \in Account PROVE Counted(b) \subseteq accounts'[b].fails
    <3>1. accounts'[b] = RecentFails(accountRow[b]) /\ accountRow[b] \in AccountState
      BY <1>7 DEF Boot, Hydrated, TypeOK
    <3>2. accounts'[b].fails = Recent(accountRow[b].fails, accountWindow)
      BY <3>1, FilteredFails
    <3>3. Counted(b) \subseteq accountRow[b].fails
      OBVIOUS
    <3>4. QED
      BY <3>2, <3>3, CountedIsRecent
  <2>4. QED
    BY <2>1, <2>2, <2>3
<1>8. ASSUME Tick PROVE AccountCounts'
  <2>1. /\ now' >= now /\ at' = at /\ attempt' = attempt /\ pardoned' = pardoned
        /\ up' = up /\ accounts' = accounts /\ accountRow' = accountRow
    BY <1>8, <1>a DEF Tick, tables, history
  <2>2. QED
    BY <1>a, <2>1, NothingMoreCounts
<1>9. CASE UNCHANGED vars
  BY <1>9 DEF vars, Counted, Recent, Denied
<1>10. QED
  BY <1>1, <1>2, <1>3, <1>4, <1>5, <1>6, <1>7, <1>8, <1>9 DEF Next

LEMMA AddressCountsStep == TypeOK /\ TypeOK' /\ AddressCounts /\ [Next]_vars => AddressCounts'
<1> SUFFICES ASSUME TypeOK, TypeOK', AddressCounts, [Next]_vars PROVE AddressCounts'
  OBVIOUS
<1> USE DEF AddressCounts
<1>a. now \in Nat /\ now' \in Nat
  BY BoundsGiven DEF TypeOK
<1>1. ASSUME NEW x \in Attempt, NEW a \in Account, NEW i \in Address, Check(x, a, i)
      PROVE AddressCounts'
  <2>1. /\ now' = now /\ at' = at /\ up' = up /\ ipRow' = ipRow /\ pardoned \subseteq pardoned'
        /\ \A y \in Attempt : attempt'[y].pc = "denied"
             => attempt[y].pc = "denied" /\ attempt'[y] = attempt[y]
    BY <1>1 DEF Check, clock, history, Lock, Settle, TypeOK
  <2>2. \A j \in Address : CountedFrom(j)' \subseteq CountedFrom(j)
    BY <1>a, <2>1, NothingMoreCounts
  <2>3. ASSUME NEW j \in Address, up PROVE CountedFrom(j) \subseteq ips'[j].attempts
    BY <1>1, <2>3, CountedIsRecent, FilteredFails DEF Check, TypeOK
  <2>4. QED
    BY <2>1, <2>2, <2>3
<1>2. ASSUME NEW x \in Attempt, RecordFailure(x) PROVE AddressCounts'
  <2>0. PICK i \in Address : i = attempt[x].ip
    BY DEF TypeOK
  <2>1. i \in Address /\ up /\ up' /\ now' = now
    BY <1>2 DEF RecordFailure, TypeOK, clock
  <2>2. ASSUME NEW j \in Address
        PROVE  CountedFrom(j)' \subseteq CountedFrom(j) \cup (IF j = i THEN {x} ELSE {})
    BY <1>2, <2>0, <2>1 DEF RecordFailure, CountedFrom, Recent, Denied, TypeOK
  <2>3. ips'[i].attempts = ips[i].attempts \cup {x} /\ ipRow'[i] = ips'[i]
    BY <1>2, <2>0, <2>1 DEF RecordFailure, TypeOK
  <2>4. \A j \in Address : j # i => ips'[j] = ips[j] /\ ipRow'[j] = ipRow[j]
    BY <1>2, <2>0, <2>1 DEF RecordFailure, TypeOK
  <2>5. QED
    BY <2>1, <2>2, <2>3, <2>4
<1>3. ASSUME NEW x \in Attempt, RecordSuccess(x) PROVE AddressCounts'
  <2>1. /\ now' = now /\ at' = at /\ up' = up /\ ips' = ips /\ ipRow' = ipRow
        /\ pardoned \subseteq pardoned'
        /\ \A y \in Attempt : attempt'[y].pc = "denied"
             => attempt[y].pc = "denied" /\ attempt'[y] = attempt[y]
    BY <1>3 DEF RecordSuccess, Settle, TypeOK, clock
  <2>2. QED
    BY <1>a, <2>1, NothingMoreCounts
<1>4. ASSUME NEW a \in Account, DeleteUser(a) PROVE AddressCounts'
  <2>1. /\ now' = now /\ at' = at /\ up' = up /\ attempt' = attempt /\ ips' = ips
        /\ ipRow' = ipRow /\ pardoned \subseteq pardoned'
    BY <1>4 DEF DeleteUser, Settle, clock
  <2>2. QED
    BY <1>a, <2>1, NothingMoreCounts
<1>5. ASSUME Prune PROVE AddressCounts'
  <2>1. /\ now' = now /\ at' = at /\ attempt' = attempt /\ pardoned' = pardoned /\ up /\ up'
    BY <1>5 DEF Prune, clock, history
  <2>2. \A j \in Address : CountedFrom(j)' \subseteq CountedFrom(j)
    BY <1>a, <2>1, NothingMoreCounts
  <2>3. ASSUME NEW j \in Address PROVE CountedFrom(j) \subseteq Recent(ips[j].attempts, ipWindow)
    BY <2>1, CountedIsRecent
  <2>4. ASSUME NEW j \in Address
        PROVE  CountedFrom(j) \subseteq ips'[j].attempts /\ CountedFrom(j) \subseteq ipRow'[j].attempts
    <3>1. CASE ExpiredAddress(ips[j])
      BY <1>5, <2>3, <3>1 DEF ExpiredAddress, Prune, TypeOK
    <3>2. CASE ~ExpiredAddress(ips[j])
      BY <1>5, <2>3, <3>2, FilteredFails DEF Prune, TypeOK
    <3>3. QED
      BY <3>1, <3>2
  <2>5. QED
    BY <2>1, <2>2, <2>4
<1>6. ASSUME Exit PROVE AddressCounts'
  <2>1. /\ now' = now /\ at' = at /\ pardoned' = pardoned /\ ~up' /\ ipRow' = ipRow
        /\ \A y \in Attempt : attempt'[y].pc = "denied"
             => attempt[y].pc = "denied" /\ attempt'[y] = attempt[y]
    BY <1>6 DEF Exit, clock, history, TypeOK
  <2>2. QED
    BY <1>a, <2>1, NothingMoreCounts
<1>7. ASSUME Boot PROVE AddressCounts'
  <2>1. /\ now' = now /\ at' = at /\ attempt' = attempt /\ pardoned' = pardoned
        /\ ipRow' = ipRow
    BY <1>7 DEF Boot, history
  <2>2. \A j \in Address : CountedFrom(j)' \subseteq CountedFrom(j)
    BY <1>a, <2>1, NothingMoreCounts
  <2>3. ASSUME NEW j \in Address PROVE CountedFrom(j) \subseteq ips'[j].attempts
    <3>1. CountedFrom(j) \subseteq Recent(ipRow[j].attempts, ipWindow)
      BY CountedIsRecent
    <3>2. ips'[j].attempts = Recent(ipRow[j].attempts, ipWindow)
      BY <1>7, FilteredFails DEF Boot, TypeOK
    <3>3. QED
      BY <3>1, <3>2
  <2>4. QED
    BY <2>1, <2>2, <2>3
<1>8. ASSUME Tick PROVE AddressCounts'
  <2>1. /\ now' >= now /\ at' = at /\ attempt' = attempt /\ pardoned' = pardoned
        /\ up' = up /\ ips' = ips /\ ipRow' = ipRow
    BY <1>8, <1>a DEF Tick, tables, history
  <2>2. QED
    BY <1>a, <2>1, NothingMoreCounts
<1>9. CASE UNCHANGED vars
  BY <1>9 DEF vars, CountedFrom, Recent, Denied
<1>10. QED
  BY <1>1, <1>2, <1>3, <1>4, <1>5, <1>6, <1>7, <1>8, <1>9 DEF Next

LEMMA CountsInit == Init => AccountCounts /\ AddressCounts
BY DEF Init, AccountCounts, AddressCounts, Counted, CountedFrom, Recent, Denied

(* A set of sign-ins is no larger than one that contains it.                  *)
LEMMA FewerAttempts ==
  ASSUME NEW X, NEW Y, X \subseteq Y, Y \subseteq Attempt
  PROVE  /\ Cardinality(X) \in Nat /\ Cardinality(Y) \in Nat
         /\ Cardinality(X) <= Cardinality(Y)
<1>1. IsFiniteSet(Y)
  BY AttemptsFinite, FS_Subset
<1>2. QED
  BY <1>1, FS_Subset, FS_CardinalityType

(* The limits hold for any number of sign-ins under way at once, through      *)
(* prunes and restarts: what was denied, is recent and is not settled was     *)
(* fewer than the limit when an attempt was admitted.                       *)
THEOREM GuessesCounted == Spec => GuessesAreCounted
<1>1. TypeOK /\ AccountCounts /\ AddressCounts /\ [Next]_vars
        => [\A x \in Attempt : Admitted(x) =>
              /\ Cardinality(Counted(attempt'[x].account)) < accountMax
              /\ Cardinality(CountedFrom(attempt'[x].ip)) < ipMax]_vars
  <2> SUFFICES ASSUME TypeOK, AccountCounts, AddressCounts, [Next]_vars,
                      NEW x \in Attempt, Admitted(x)
               PROVE  /\ Cardinality(Counted(attempt'[x].account)) < accountMax
                      /\ Cardinality(CountedFrom(attempt'[x].ip)) < ipMax
    OBVIOUS
  <2>1. PICK a \in Account, i \in Address : Check(x, a, i)
    BY OnlyCheckAdmits
  <2>2. attempt'[x].account = a /\ attempt'[x].ip = i /\ up /\ ~Exhausted(a) /\ ~Capped(i)
    BY <2>1 DEF Check, Admitted, TypeOK
  <2>3. Counted(a) \subseteq Recent(accounts[a].fails, accountWindow)
    BY <2>2, CountedIsRecent DEF AccountCounts
  <2>4. CountedFrom(i) \subseteq Recent(ips[i].attempts, ipWindow)
    BY <2>2, CountedIsRecent DEF AddressCounts
  <2>5. /\ Recent(accounts[a].fails, accountWindow) \subseteq Attempt
        /\ Recent(ips[i].attempts, ipWindow) \subseteq Attempt
    BY DEF Recent, TypeOK, AccountState, IpState
  <2>6. Cardinality(Counted(a)) < accountMax
    BY <2>2, <2>3, <2>5, FewerAttempts, LimitsPositive DEF Exhausted
  <2>7. Cardinality(CountedFrom(i)) < ipMax
    BY <2>2, <2>4, <2>5, FewerAttempts, LimitsPositive DEF Capped
  <2>8. QED
    BY <2>2, <2>6, <2>7
<1>2. QED
  BY <1>1, CountsInit, AccountCountsStep, AddressCountsStep, ThrottleTypes, PTL
     DEF Spec, GuessesAreCounted
-------------------------------------------------------------------------------
(* The store.  Whatever the throttle remembers was denied, so that recording  *)
(* a failure disturbs the time stamp of nothing it remembers.               *)

Charged ==
  \A x \in Attempt : ~Denied(x) =>
    /\ \A a \in Account : x \notin accounts[a].fails /\ x \notin accountRow[a].fails
    /\ \A i \in Address : x \notin ips[i].attempts /\ x \notin ipRow[i].attempts

(* Entries are equal after filtering, field by field.                        *)
LEMMA SameFiltered ==
  /\ \A s, t \in AccountState :
       RecentFails(s) = RecentFails(t)
         <=> /\ s.held = t.held /\ s.lockUntil = t.lockUntil /\ s.lockCount = t.lockCount
             /\ Recent(s.fails, accountWindow) = Recent(t.fails, accountWindow)
  /\ \A s, t \in IpState :
       RecentAttempts(s) = RecentAttempts(t)
         <=> s.held = t.held /\ Recent(s.attempts, ipWindow) = Recent(t.attempts, ipWindow)
<1>1. \A s \in AccountState :
        RecentFails(s) = [held |-> s.held, fails |-> Recent(s.fails, accountWindow),
                          lockUntil |-> s.lockUntil, lockCount |-> s.lockCount]
  BY DEF RecentFails, AccountState
<1>2. \A s \in IpState :
        RecentAttempts(s) = [held |-> s.held, attempts |-> Recent(s.attempts, ipWindow)]
  BY DEF RecentAttempts, IpState
<1>3. QED
  BY <1>1, <1>2

(* Filtering twice is filtering once.                                       *)
LEMMA FilteredTwice ==
  /\ \A s \in AccountState : RecentFails(RecentFails(s)) = RecentFails(s)
  /\ \A s \in IpState : RecentAttempts(RecentAttempts(s)) = RecentAttempts(s)
<1>1. \A X, w : Recent(Recent(X, w), w) = Recent(X, w)
  BY DEF Recent
<1>2. \A s \in AccountState : RecentFails(s).lockCount = s.lockCount
  BY DEF RecentFails, AccountState
<1>3. \A s \in AccountState : RecentFails(RecentFails(s)) = RecentFails(s)
  BY <1>1, <1>2, FilteredType, FilteredFails, FilteredHeld, FilteredLock, SameFiltered
<1>4. \A s \in IpState : RecentAttempts(RecentAttempts(s)) = RecentAttempts(s)
  BY <1>1, FilteredType, FilteredFails, FilteredHeld, SameFiltered
<1>5. QED
  BY <1>3, <1>4

(* As time passes, and as other attempts fail, equal filtered sets stay equal. *)
LEMMA RecentStays ==
  ASSUME now \in Int, now' \in Int, now' >= now, NEW X \in SUBSET Attempt, NEW Y \in SUBSET Attempt,
         NEW w \in Int, \A x \in X \cup Y : at'[x] = at[x] /\ at[x] \in Int,
         Recent(X, w) = Recent(Y, w)
  PROVE  Recent(X, w)' = Recent(Y, w)'
<1>1. \A x \in X \cup Y : now' < at'[x] + w => now < at[x] + w
  OBVIOUS
<1>2. Recent(X, w)' = {x \in Recent(X, w) : now' < at'[x] + w}
  BY <1>1 DEF Recent
<1>3. Recent(Y, w)' = {x \in Recent(Y, w) : now' < at'[x] + w}
  BY <1>1 DEF Recent
<1>4. QED
  BY <1>2, <1>3

(* An entry and a row that are not written still agree afterwards.            *)
LEMMA UnwrittenAgree ==
  ASSUME TypeOK, now' \in Nat, now' >= now,
         NEW s \in AccountState, NEW t \in AccountState,
         \A x \in s.fails \cup t.fails : at'[x] = at[x],
         RecentFails(s) = RecentFails(t)
  PROVE  RecentFails(s)' = RecentFails(t)'
<1>1. /\ s.held = t.held /\ s.lockUntil = t.lockUntil /\ s.lockCount = t.lockCount
      /\ Recent(s.fails, accountWindow) = Recent(t.fails, accountWindow)
  BY SameFiltered
<1>2. Recent(s.fails, accountWindow)' = Recent(t.fails, accountWindow)'
  <2>1. now \in Int /\ now' \in Int /\ accountWindow \in Int
    BY LimitsPositive DEF TypeOK
  <2>2. PICK X \in SUBSET Attempt, Y \in SUBSET Attempt : X = s.fails /\ Y = t.fails
    BY DEF AccountState
  <2>3. \A x \in X \cup Y : at'[x] = at[x] /\ at[x] \in Int
    BY <2>2 DEF TypeOK
  <2>4. Recent(X, accountWindow)' = Recent(Y, accountWindow)'
    BY <1>1, <2>1, <2>2, <2>3, RecentStays
  <2>5. QED
    BY <2>2, <2>4
<1>3. RecentFails(s)' = [held |-> s.held, fails |-> Recent(s.fails, accountWindow)',
                         lockUntil |-> s.lockUntil, lockCount |-> s.lockCount]
  BY DEF RecentFails, AccountState
<1>4. RecentFails(t)' = [held |-> t.held, fails |-> Recent(t.fails, accountWindow)',
                         lockUntil |-> t.lockUntil, lockCount |-> t.lockCount]
  BY DEF RecentFails, AccountState
<1>5. QED
  BY <1>1, <1>2, <1>3, <1>4

LEMMA UnwrittenAddressAgree ==
  ASSUME TypeOK, now' \in Nat, now' >= now,
         NEW s \in IpState, NEW t \in IpState,
         \A x \in s.attempts \cup t.attempts : at'[x] = at[x],
         RecentAttempts(s) = RecentAttempts(t)
  PROVE  RecentAttempts(s)' = RecentAttempts(t)'
<1>1. s.held = t.held /\ Recent(s.attempts, ipWindow) = Recent(t.attempts, ipWindow)
  BY SameFiltered
<1>2. Recent(s.attempts, ipWindow)' = Recent(t.attempts, ipWindow)'
  <2>1. now \in Int /\ now' \in Int /\ ipWindow \in Int
    BY LimitsPositive DEF TypeOK
  <2>2. PICK X \in SUBSET Attempt, Y \in SUBSET Attempt : X = s.attempts /\ Y = t.attempts
    BY DEF IpState
  <2>3. \A x \in X \cup Y : at'[x] = at[x] /\ at[x] \in Int
    BY <2>2 DEF TypeOK
  <2>4. Recent(X, ipWindow)' = Recent(Y, ipWindow)'
    BY <1>1, <2>1, <2>2, <2>3, RecentStays
  <2>5. QED
    BY <2>2, <2>4
<1>3. /\ RecentAttempts(s)' = [held |-> s.held, attempts |-> Recent(s.attempts, ipWindow)']
      /\ RecentAttempts(t)' = [held |-> t.held, attempts |-> Recent(t.attempts, ipWindow)']
  BY DEF RecentAttempts, IpState
<1>4. QED
  BY <1>1, <1>2, <1>3

LEMMA ChargedStep == TypeOK /\ Charged /\ [Next]_vars => Charged'
<1> SUFFICES ASSUME TypeOK, Charged, [Next]_vars, NEW x \in Attempt, ~Denied(x)'
             PROVE  /\ \A a \in Account : x \notin accounts'[a].fails /\ x \notin accountRow'[a].fails
                    /\ \A i \in Address : x \notin ips'[i].attempts /\ x \notin ipRow'[i].attempts
  BY DEF Charged
<1> USE DEF Charged, Denied
<1>a. \A X, w : x \notin X => x \notin Recent(X, w)
  BY RecentSubset
<1>b. x \notin NoAccount.fails /\ x \notin NoAddress.attempts
  BY DEF NoAccount, NoAddress
<1>1. ASSUME NEW y \in Attempt, NEW a \in Account, NEW i \in Address, Check(y, a, i)
      PROVE  /\ \A b \in Account : x \notin accounts'[b].fails /\ x \notin accountRow'[b].fails
             /\ \A j \in Address : x \notin ips'[j].attempts /\ x \notin ipRow'[j].attempts
  <2>1. attempt[x].pc # "denied"
    BY <1>1 DEF Check, TypeOK
  <2>2. \A j \in Address : x \notin ips'[j].attempts /\ x \notin ipRow'[j].attempts
    BY <1>1, <1>a, <2>1, FilteredFails DEF Check, TypeOK
  <2>3. CASE UNCHANGED <<accounts, accountRow, history>>
    BY <2>1, <2>2, <2>3
  <2>4. CASE Lock(a)
    BY <2>1, <2>2, <2>4 DEF Lock, Stored, TypeOK
  <2>5. CASE /\ accounts' = [accounts EXCEPT ![a] = RecentFails(@)]
             /\ UNCHANGED <<accountRow, history>>
    BY <1>a, <2>1, <2>2, <2>5, FilteredFails DEF TypeOK
  <2>6. QED
    BY <1>1, <2>3, <2>4, <2>5 DEF Check
<1>2. ASSUME NEW y \in Attempt, RecordFailure(y)
      PROVE  /\ \A b \in Account : x \notin accounts'[b].fails /\ x \notin accountRow'[b].fails
             /\ \A j \in Address : x \notin ips'[j].attempts /\ x \notin ipRow'[j].attempts
  <2>1. attempt[x].pc # "denied" /\ x # y
    BY <1>2 DEF RecordFailure, TypeOK
  <2>2. \A b \in Account : x \notin accounts'[b].fails /\ x \notin accountRow'[b].fails
    BY <1>2, <2>1 DEF RecordFailure, Stored, TypeOK
  <2>3. \A j \in Address : x \notin ips'[j].attempts /\ x \notin ipRow'[j].attempts
    BY <1>2, <2>1 DEF RecordFailure, TypeOK
  <2>4. QED
    BY <2>2, <2>3
<1>3. ASSUME NEW y \in Attempt, RecordSuccess(y)
      PROVE  /\ \A b \in Account : x \notin accounts'[b].fails /\ x \notin accountRow'[b].fails
             /\ \A j \in Address : x \notin ips'[j].attempts /\ x \notin ipRow'[j].attempts
  BY <1>3, <1>b DEF RecordSuccess, Stored, TypeOK
<1>4. CASE \E a \in Account : DeleteUser(a)
  BY <1>4, <1>b DEF DeleteUser, TypeOK
<1>5. CASE Prune
  BY <1>5, <1>a, <1>b, FilteredFails DEF Prune, TypeOK
<1>6. CASE Exit
  BY <1>6, <1>b DEF Exit, TypeOK
<1>7. CASE Boot
  BY <1>7, <1>a, FilteredFails DEF Boot, Hydrated, TypeOK
<1>8. CASE Tick
  BY <1>8 DEF Tick, tables
<1>9. CASE UNCHANGED vars
  BY <1>9 DEF vars
<1>10. QED
  BY <1>1, <1>2, <1>3, <1>4, <1>5, <1>6, <1>7, <1>8, <1>9 DEF Next

(* An account that a step does not write, but perhaps filters.                *)
LEMMA AccountKept ==
  ASSUME TypeOK, TypeOK', Charged, now' >= now,
         \A x \in Attempt : Denied(x) => at'[x] = at[x],
         NEW a \in Account, AccountAgrees(a), accountRow'[a] = accountRow[a],
         accounts'[a] \in {accounts[a], RecentFails(accounts[a])},
         a \in deleted => a \in deleted' \/ accounts'[a] = accountRow'[a]
  PROVE  AccountAgrees(a)'
<1>0. CASE a \in deleted /\ ~accountRow[a].held
  BY <1>0 DEF AccountAgrees
<1>00. SUFFICES ASSUME RecentFails(accountRow[a]) = RecentFails(accounts[a]) PROVE AccountAgrees(a)'
  BY <1>0 DEF AccountAgrees
<1>1. now' \in Nat
  BY BoundsGiven DEF TypeOK
<1>2. PICK s \in AccountState, t \in AccountState : s = accountRow'[a] /\ t = accounts'[a]
  BY DEF TypeOK
<1>3. RecentFails(s) = RecentFails(t)
  BY <1>00, <1>2, FilteredTwice DEF TypeOK
<1>4. \A x \in s.fails \cup t.fails : at'[x] = at[x]
  <2>1. s.fails \subseteq accountRow[a].fails /\ t.fails \subseteq accounts[a].fails
    BY <1>2, FilteredFails, RecentSubset DEF TypeOK
  <2>2. s.fails \subseteq Attempt /\ t.fails \subseteq Attempt
    BY <1>2 DEF AccountState
  <2>3. QED
    BY <2>1, <2>2 DEF Charged
<1>5. RecentFails(s)' = RecentFails(t)'
  BY <1>1, <1>3, <1>4, UnwrittenAgree
<1>6. QED
  BY <1>2, <1>5 DEF AccountAgrees, RecentFails, Recent

LEMMA AddressKept ==
  ASSUME TypeOK, TypeOK', Charged, now' >= now,
         \A x \in Attempt : Denied(x) => at'[x] = at[x],
         NEW i \in Address, AddressAgrees(i), ipRow'[i] = ipRow[i],
         ips'[i] \in {ips[i], RecentAttempts(ips[i])}
  PROVE  AddressAgrees(i)'
<1>1. now' \in Nat
  BY BoundsGiven DEF TypeOK
<1>2. PICK s \in IpState, t \in IpState : s = ipRow'[i] /\ t = ips'[i]
  BY DEF TypeOK
<1>3. RecentAttempts(s) = RecentAttempts(t)
  BY <1>2, FilteredTwice DEF AddressAgrees, TypeOK
<1>4. \A x \in s.attempts \cup t.attempts : at'[x] = at[x]
  <2>1. s.attempts \subseteq ipRow[i].attempts /\ t.attempts \subseteq ips[i].attempts
    BY <1>2, FilteredFails, RecentSubset DEF TypeOK
  <2>2. s.attempts \subseteq Attempt /\ t.attempts \subseteq Attempt
    BY <1>2 DEF IpState
  <2>3. QED
    BY <2>1, <2>2 DEF Charged
<1>5. RecentAttempts(s)' = RecentAttempts(t)'
  BY <1>1, <1>3, <1>4, UnwrittenAddressAgree
<1>6. QED
  BY <1>2, <1>3, <1>5 DEF AddressAgrees, RecentAttempts, Recent

(* What has no entry has no row.                                             *)
LEMMA SameHeld ==
  ASSUME TypeOK, NEW a \in Account, AccountAgrees(a), ~accounts[a].held
  PROVE  ~accountRow[a].held
<1>1. accountRow[a] \in AccountState /\ accounts[a] \in AccountState
  BY DEF TypeOK
<1>2. QED
  BY <1>1, SameFiltered DEF AccountAgrees

LEMMA StoreAgreesStep ==
  TypeOK /\ TypeOK' /\ Charged /\ StoreAgrees /\ [Next]_vars => StoreAgrees'
<1> SUFFICES ASSUME TypeOK, TypeOK', Charged, StoreAgrees, [Next]_vars, up'
             PROVE  /\ \A b \in Account : AccountAgrees(b)'
                    /\ \A j \in Address : AddressAgrees(j)'
  BY DEF StoreAgrees, AccountAgrees, AddressAgrees
<1>a. now \in Nat /\ now' \in Nat
  BY BoundsGiven DEF TypeOK
<1>b. up => /\ \A b \in Account : AccountAgrees(b)
            /\ \A j \in Address : AddressAgrees(j)
  BY DEF StoreAgrees, AccountAgrees, AddressAgrees
<1>w. /\ \A b \in Account : accountRow'[b] = accounts'[b] => AccountAgrees(b)'
      /\ \A j \in Address : ipRow'[j] = ips'[j] => AddressAgrees(j)'
  BY DEF AccountAgrees, AddressAgrees
<1>1. ASSUME NEW x \in Attempt, NEW a \in Account, NEW i \in Address, Check(x, a, i)
      PROVE  /\ \A b \in Account : AccountAgrees(b)'
             /\ \A j \in Address : AddressAgrees(j)'
  <2>1. up /\ now' >= now /\ at' = at
    BY <1>1, <1>a DEF Check, clock
  <2>2. \A j \in Address : ipRow'[j] = ipRow[j] /\ ips'[j] \in {ips[j], RecentAttempts(ips[j])}
    BY <1>1 DEF Check, TypeOK
  <2>3. \A j \in Address : AddressAgrees(j)'
    BY <1>b, <2>1, <2>2, AddressKept
  <2>4. \A b \in Account :
          \/ accountRow'[b] = accounts'[b]
          \/ /\ accountRow'[b] = accountRow[b]
             /\ accounts'[b] \in {accounts[b], RecentFails(accounts[b])}
             /\ b \in deleted => b \in deleted'
    <3>1. CASE UNCHANGED <<accounts, accountRow, history>>
      BY <3>1 DEF history
    <3>2. CASE Lock(a)
      BY <3>2 DEF Lock, Stored, TypeOK
    <3>3. CASE /\ accounts' = [accounts EXCEPT ![a] = RecentFails(@)]
               /\ UNCHANGED <<accountRow, history>>
      BY <3>3 DEF TypeOK, history
    <3>4. QED
      BY <1>1, <3>1, <3>2, <3>3 DEF Check
  <2>5. \A b \in Account : AccountAgrees(b)'
    BY <1>b, <1>w, <2>1, <2>4, AccountKept
  <2>6. QED
    BY <2>3, <2>5
<1>2. ASSUME NEW x \in Attempt, RecordFailure(x)
      PROVE  /\ \A b \in Account : AccountAgrees(b)'
             /\ \A j \in Address : AddressAgrees(j)'
  <2>1. up /\ now' >= now /\ \A y \in Attempt : Denied(y) => at'[y] = at[y]
    BY <1>2, <1>a DEF RecordFailure, clock, Denied, TypeOK
  <2>2. \A b \in Account : \/ accountRow'[b] = accounts'[b]
                           \/ /\ accountRow'[b] = accountRow[b] /\ accounts'[b] = accounts[b]
                              /\ b \in deleted => b \in deleted'
    BY <1>2 DEF RecordFailure, Stored, TypeOK
  <2>3. \A j \in Address : \/ ipRow'[j] = ips'[j]
                           \/ ipRow'[j] = ipRow[j] /\ ips'[j] = ips[j]
    BY <1>2 DEF RecordFailure, TypeOK
  <2>4. \A b \in Account : AccountAgrees(b)'
    BY <1>b, <1>w, <2>1, <2>2, AccountKept
  <2>5. \A j \in Address : AddressAgrees(j)'
    BY <1>b, <1>w, <2>1, <2>3, AddressKept
  <2>6. QED
    BY <2>4, <2>5
<1>3. ASSUME NEW x \in Attempt, RecordSuccess(x)
      PROVE  /\ \A b \in Account : AccountAgrees(b)'
             /\ \A j \in Address : AddressAgrees(j)'
  <2>1. up /\ now' >= now /\ at' = at /\ ips' = ips /\ ipRow' = ipRow
    BY <1>3, <1>a DEF RecordSuccess, clock
  <2>2. \A b \in Account : \/ accountRow'[b] = accounts'[b]
                           \/ /\ accountRow'[b] = accountRow[b] /\ accounts'[b] = accounts[b]
                              /\ b \in deleted => b \in deleted'
    BY <1>3 DEF RecordSuccess, Stored, TypeOK
  <2>3. \A b \in Account : AccountAgrees(b)'
    BY <1>b, <1>w, <2>1, <2>2, AccountKept
  <2>4. \A j \in Address : AddressAgrees(j)'
    BY <1>b, <2>1, AddressKept
  <2>5. QED
    BY <2>3, <2>4
<1>4. ASSUME NEW a \in Account, DeleteUser(a)
      PROVE  /\ \A b \in Account : AccountAgrees(b)'
             /\ \A j \in Address : AddressAgrees(j)'
  <2>1. /\ up /\ now' >= now /\ at' = at /\ ips' = ips /\ ipRow' = ipRow /\ accounts' = accounts
        /\ accountRow'[a] = NoAccount /\ (accounts[a].held => a \in deleted')
        /\ \A b \in Account : b # a => accountRow'[b] = accountRow[b]
        /\ deleted \subseteq deleted'
    BY <1>4, <1>a DEF DeleteUser, clock, TypeOK
  <2>2. AccountAgrees(a)'
    <3>1. CASE accounts[a].held
      BY <2>1, <3>1 DEF AccountAgrees, NoAccount
    <3>2. CASE ~accounts[a].held
      <4>1. accountRow'[a] = accounts'[a]
        BY <2>1, <3>2 DEF TypeOK
      <4>2. QED
        BY <1>w, <4>1
    <3>3. QED
      BY <3>1, <3>2
  <2>3. \A b \in Account : b # a => AccountAgrees(b)'
    BY <1>b, <2>1, AccountKept
  <2>4. \A j \in Address : AddressAgrees(j)'
    BY <1>b, <2>1, AddressKept
  <2>5. QED
    BY <2>2, <2>3, <2>4
<1>5. ASSUME Prune
      PROVE  /\ \A b \in Account : AccountAgrees(b)'
             /\ \A j \in Address : AddressAgrees(j)'
  <2>1. up /\ now' >= now /\ at' = at
    BY <1>5, <1>a DEF Prune, clock
  <2>2. ASSUME NEW b \in Account PROVE AccountAgrees(b)'
    <3>1. CASE ~Expired(accounts[b])
      <4>1. accountRow'[b] = accountRow[b] /\ accounts'[b] = RecentFails(accounts[b])
        BY <1>5, <3>1 DEF Prune, TypeOK
      <4>2. b \in deleted => b \in deleted' \/ accounts'[b] = accountRow'[b]
        <5>1. CASE accounts'[b].held
          BY <1>5, <5>1 DEF Prune
        <5>2. CASE ~accounts'[b].held
          <6>1. ~accounts[b].held
            BY <4>1, <5>2, FilteredHeld DEF TypeOK
          <6>2. ~accountRow[b].held
            BY <1>b, <2>1, <6>1, SameHeld
          <6>3. QED
            BY <4>1, <5>2, <6>2 DEF TypeOK
        <5>3. QED
          BY <5>1, <5>2
      <4>3. QED
        BY <1>b, <2>1, <4>1, <4>2, AccountKept
    <3>2. CASE Expired(accounts[b])
      <4>1. accounts'[b] = NoAccount
        BY <1>5, <3>2 DEF Prune, TypeOK
      <4>2. accountRow'[b] = NoAccount
        <5>1. CASE accounts[b].held
          BY <1>5, <3>2, <5>1 DEF Prune, TypeOK
        <5>2. CASE ~accounts[b].held
          <6>1. accountRow'[b] = accountRow[b]
            BY <1>5, <5>2 DEF Prune, TypeOK
          <6>2. ~accountRow[b].held
            BY <1>b, <2>1, <5>2, SameHeld
          <6>3. QED
            BY <6>1, <6>2 DEF TypeOK
        <5>3. QED
          BY <5>1, <5>2
      <4>3. QED
        BY <1>w, <4>1, <4>2
    <3>3. QED
      BY <3>1, <3>2
  <2>3. ASSUME NEW j \in Address PROVE AddressAgrees(j)'
    <3>1. CASE ~ExpiredAddress(ips[j])
      <4>1. ipRow'[j] = ipRow[j] /\ ips'[j] = RecentAttempts(ips[j])
        BY <1>5, <3>1 DEF Prune, TypeOK
      <4>2. QED
        BY <1>b, <2>1, <4>1, AddressKept
    <3>2. CASE ExpiredAddress(ips[j])
      <4>1. ips'[j] = NoAddress
        BY <1>5, <3>2 DEF Prune, TypeOK
      <4>2. ipRow'[j] = NoAddress
        <5>1. ips[j].held = ipRow[j].held
          <6>1. ipRow[j] \in IpState /\ ips[j] \in IpState
            BY DEF TypeOK
          <6>2. QED
            BY <1>b, <2>1, <6>1, SameFiltered DEF AddressAgrees
        <5>2. CASE ips[j].held
          BY <1>5, <3>2, <5>2 DEF Prune, TypeOK
        <5>3. CASE ~ips[j].held
          BY <1>5, <5>1, <5>3 DEF Prune, TypeOK
        <5>4. QED
          BY <5>2, <5>3
      <4>3. QED
        BY <1>w, <4>1, <4>2
    <3>3. QED
      BY <3>1, <3>2
  <2>4. QED
    BY <2>2, <2>3
<1>6. CASE Exit
  BY <1>6 DEF Exit
<1>7. ASSUME Boot
      PROVE  /\ \A b \in Account : AccountAgrees(b)'
             /\ \A j \in Address : AddressAgrees(j)'
  <2>1. /\ now' = now /\ at' = at /\ accountRow' = accountRow /\ ipRow' = ipRow
        /\ \A b \in Account : accounts'[b] = RecentFails(accountRow[b])
        /\ \A j \in Address : ips'[j] = RecentAttempts(ipRow[j])
    BY <1>7 DEF Boot, Hydrated
  <2>2. ASSUME NEW b \in Account PROVE AccountAgrees(b)'
    <3>1. PICK s \in AccountState : s = accountRow[b]
      BY DEF TypeOK
    <3>2. RecentFails(s)' = RecentFails(s)
      BY <2>1 DEF RecentFails, Recent
    <3>3. RecentFails(RecentFails(s))' = RecentFails(RecentFails(s))
      BY <2>1 DEF RecentFails, Recent
    <3>4. RecentFails(RecentFails(s)) = RecentFails(s)
      BY FilteredTwice
    <3>5. QED
      BY <2>1, <3>1, <3>2, <3>3, <3>4 DEF AccountAgrees, RecentFails, Recent
  <2>3. ASSUME NEW j \in Address PROVE AddressAgrees(j)'
    <3>1. PICK s \in IpState : s = ipRow[j]
      BY DEF TypeOK
    <3>2. RecentAttempts(s)' = RecentAttempts(s)
      BY <2>1 DEF RecentAttempts, Recent
    <3>3. RecentAttempts(RecentAttempts(s))' = RecentAttempts(RecentAttempts(s))
      BY <2>1 DEF RecentAttempts, Recent
    <3>4. RecentAttempts(RecentAttempts(s)) = RecentAttempts(s) /\ RecentAttempts(s).held = s.held
      BY FilteredTwice, FilteredHeld
    <3>5. QED
      BY <2>1, <3>1, <3>2, <3>3, <3>4 DEF AddressAgrees, RecentAttempts, Recent
  <2>4. QED
    BY <2>2, <2>3
<1>8. CASE Tick
  <2>1. /\ up /\ now' >= now /\ at' = at /\ accounts' = accounts /\ accountRow' = accountRow
        /\ ips' = ips /\ ipRow' = ipRow /\ deleted' = deleted
    BY <1>8, <1>a DEF Tick, tables, history
  <2>2. QED
    BY <1>b, <2>1, AccountKept, AddressKept
<1>9. CASE UNCHANGED vars
  <2>1. /\ up /\ now' >= now /\ at' = at /\ accounts' = accounts /\ accountRow' = accountRow
        /\ ips' = ips /\ ipRow' = ipRow /\ deleted' = deleted
    BY <1>9, <1>a DEF vars
  <2>2. QED
    BY <1>b, <2>1, AccountKept, AddressKept
<1>10. QED
  BY <1>1, <1>2, <1>3, <1>4, <1>5, <1>6, <1>7, <1>8, <1>9 DEF Next

(* While the gateway runs, the store holds what the maps hold and the maps     *)
(* what the store holds, so that a restart neither forgives a failure nor     *)
(* punishes anybody twice; but for accounts deleted since their last write.   *)
THEOREM StoreAndMapsAgree == Spec => []StoreAgrees
<1>1. Init => Charged /\ StoreAgrees
  <2>1. Init => Charged
    BY DEF Init, Charged, NoAccount, NoAddress
  <2>2. Init => StoreAgrees
    BY DEF Init, StoreAgrees, AccountAgrees, AddressAgrees
  <2>3. QED
    BY <2>1, <2>2
<1>2. QED
  BY <1>1, ChargedStep, StoreAgreesStep, ThrottleTypes, PTL DEF Spec
===============================================================================
