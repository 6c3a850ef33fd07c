---------------------------- MODULE LoginThrottle ----------------------------
(***************************************************************************)
(* The gateway's sign-in throttle: a cap of failures per address, a        *)
(* lockout per account that grows with each lockout, both written through  *)
(* to the store (apps/gateway/src/login-throttle.ts, and the sign-in        *)
(* handler of auth.ts that consults it).                                   *)
(*                                                                         *)
(* A sign-in is two steps, for verifyPassword awaits a scrypt: it is       *)
(* checked, and later its outcome is recorded.  Any number of sign-ins may *)
(* be between the two.  Store calls are synchronous, so each step is one   *)
(* action.  A failure is named by its attempt, at[x] is its time stamp.    *)
(***************************************************************************)
EXTENDS Naturals, FiniteSets, Sequences

CONSTANTS
  Account, Address,
  Attempt,                      \* sign-ins; each is made once
  ipMax, ipWindow, accountMax, accountWindow, backoff,
  MaxTime,                      \* bound of the clock
  MaxBoots                      \* bound of the restarts

ASSUME AttemptsFinite == IsFiniteSet(Attempt)
ASSUME LimitsPositive ==
  /\ ipMax \in Nat \ {0} /\ ipWindow \in Nat \ {0}
  /\ accountMax \in Nat \ {0} /\ accountWindow \in Nat \ {0}
ASSUME BackoffGiven == backoff \in Seq(Nat \ {0}) /\ Len(backoff) > 0
ASSUME BoundsGiven == MaxTime \in Nat /\ MaxBoots \in Nat

VARIABLES
  now,
  up, boots,            \* the gateway process; how often it was started again
  accounts, ips,        \* LoginThrottle.accounts, .ips
  accountRow, ipRow,    \* the rows of the store
  attempt, at,          \* where each sign-in is; when it failed
  pardoned,             \* history: failures a lockout, a success or a deletion settled
  promised,             \* history: until when each account was said to be locked
  deleted               \* history: entries whose row was deleted, and not written since

vars == <<now, up, boots, accounts, ips, accountRow, ipRow, attempt, at,
          pardoned, promised, deleted>>
clock == <<now, boots>>
tables == <<accounts, ips, accountRow, ipRow>>
history == <<pardoned, promised, deleted>>

(* "held": there is an entry of the map, a row of the table.                *)
NoAccount == [held |-> FALSE, fails |-> {}, lockUntil |-> 0, lockCount |-> 0]
NoAddress == [held |-> FALSE, attempts |-> {}]

Recent(X, window) == {x \in X : now < at[x] + window}

RecentFails(s) == [s EXCEPT !.fails = Recent(@, accountWindow)]
RecentAttempts(s) == [s EXCEPT !.attempts = Recent(@, ipWindow)]

(* Failures of an account, or from an address, that count: whatever the      *)
(* throttle remembers of them.                                              *)
Denied(x) == attempt[x].pc = "denied"
Counted(a) ==
  Recent({x \in Attempt \ pardoned : Denied(x) /\ attempt[x].account = a}, accountWindow)
CountedFrom(i) == Recent({x \in Attempt : Denied(x) /\ attempt[x].ip = i}, ipWindow)
-------------------------------------------------------------------------------
Init ==
  /\ now = 0 /\ up = TRUE /\ boots = 0
  /\ accounts = [a \in Account |-> NoAccount] /\ accountRow = accounts
  /\ ips = [i \in Address |-> NoAddress] /\ ipRow = ips
  /\ \E a \in Account, i \in Address :
       attempt = [x \in Attempt |-> [pc |-> "idle", account |-> a, ip |-> i]]
  /\ at = [x \in Attempt |-> 0]
  /\ pardoned = {} /\ promised = [a \in Account |-> 0] /\ deleted = {}
-------------------------------------------------------------------------------
(* check(): the first refusal that applies, of the address or the account.    *)

Capped(i) == Cardinality(Recent(ips[i].attempts, ipWindow)) >= ipMax
Locked(a) == accounts[a].lockUntil > now
AnyonesFails(a) ==   \* defect: an account is locked for the failures of others
  Cardinality(Recent(UNION {accounts[b].fails : b \in Account}, accountWindow)) >= accountMax
Exhausted(a) == Cardinality(Recent(accounts[a].fails, accountWindow)) >= accountMax

NextBackoff(count) == backoff[IF count < Len(backoff) THEN count + 1 ELSE Len(backoff)]

(* An account out of failures is locked, which settles them.                 *)
KeptInMemory(a) ==   \* defect: the entry is not written through
  UNCHANGED <<accountRow, deleted>>
Stored(a) ==
  /\ accountRow' = [accountRow EXCEPT ![a] = accounts'[a]]
  /\ deleted' = deleted \ {a}
Settle(a, until) ==
  /\ pardoned' = pardoned \cup {x \in Attempt : Denied(x) /\ attempt[x].account = a}
  /\ promised' = [promised EXCEPT ![a] = until]
Lock(a) ==
  LET until == now + NextBackoff(accounts[a].lockCount) IN
  /\ accounts' = [accounts EXCEPT ![a] =
       [held |-> @.held, fails |-> {}, lockUntil |-> until, lockCount |-> @.lockCount + 1]]
  /\ Stored(a)
  /\ Settle(a, until)

Check(x, a, i) ==
  /\ up /\ attempt[x].pc = "idle"
  /\ ips' = [ips EXCEPT ![i] = RecentAttempts(@)]
  /\ attempt' = [attempt EXCEPT ![x] =
       [pc |-> IF Capped(i) \/ Locked(a) \/ Exhausted(a) THEN "refused" ELSE "verifying",
        account |-> a, ip |-> i]]
  /\ \/ (Capped(i) \/ Locked(a)) /\ UNCHANGED <<accounts, accountRow, history>>
     \/ ~Capped(i) /\ ~Locked(a) /\ Exhausted(a) /\ Lock(a)
     \/ /\ ~Capped(i) /\ ~Locked(a) /\ ~Exhausted(a)
        /\ accounts' = [accounts EXCEPT ![a] = RecentFails(@)]
        /\ UNCHANGED <<accountRow, history>>
  /\ UNCHANGED <<clock, up, ipRow, at>>

(* recordFailure(), after the scrypt: counted against both, saved as they are. *)
RecordFailure(x) ==
  LET a == attempt[x].account i == attempt[x].ip IN
  /\ up /\ attempt[x].pc = "verifying"
  /\ attempt' = [attempt EXCEPT ![x].pc = "denied"]
  /\ at' = [at EXCEPT ![x] = now]
  /\ accounts' = [accounts EXCEPT ![a] =
       [held |-> TRUE, fails |-> @.fails \cup {x}, lockUntil |-> @.lockUntil,
        lockCount |-> @.lockCount]]
  /\ ips' = [ips EXCEPT ![i] = [held |-> TRUE, attempts |-> @.attempts \cup {x}]]
  /\ Stored(a)
  /\ ipRow' = [ipRow EXCEPT ![i] = ips'[i]]
  /\ UNCHANGED <<clock, up, pardoned, promised>>

(* recordSuccess(): the account starts afresh, even if it was locked while    *)
(* the password was being verified.                                         *)
RecordSuccess(x) ==
  LET a == attempt[x].account IN
  /\ up /\ attempt[x].pc = "verifying"
  /\ attempt' = [attempt EXCEPT ![x].pc = "in"]
  /\ accounts' = [accounts EXCEPT ![a] = NoAccount]
  /\ Stored(a)
  /\ Settle(a, 0)
  /\ UNCHANGED <<clock, up, ips, ipRow, at>>
-------------------------------------------------------------------------------
(* prune(), every minute: what has expired leaves the maps and the tables.    *)

NoFailures(s) == Recent(s.fails, accountWindow) = {}   \* defect: locks are not looked at
Expired(s) == s.lockUntil <= now /\ Recent(s.fails, accountWindow) = {}
ExpiredAddress(s) == Recent(s.attempts, ipWindow) = {}

Prune ==
  /\ up
  /\ accounts' = [a \in Account |-> IF Expired(accounts[a]) THEN NoAccount
                                    ELSE RecentFails(accounts[a])]
  /\ accountRow' = [a \in Account |-> IF accounts[a].held /\ Expired(accounts[a])
                                      THEN NoAccount ELSE accountRow[a]]
  /\ ips' = [i \in Address |-> IF ExpiredAddress(ips[i]) THEN NoAddress
                               ELSE RecentAttempts(ips[i])]
  /\ ipRow' = [i \in Address |-> IF ips[i].held /\ ExpiredAddress(ips[i])
                                 THEN NoAddress ELSE ipRow[i]]
  /\ deleted' = {a \in deleted : accounts'[a].held}
  /\ UNCHANGED <<clock, up, attempt, at, pardoned, promised>>

(* An administrator deletes the account: the row goes, the map's entry stays. *)
DeleteUser(a) ==
  /\ up
  /\ accountRow' = [accountRow EXCEPT ![a] = NoAccount]
  /\ deleted' = deleted \cup {b \in {a} : accounts[b].held}
  /\ Settle(a, 0)
  /\ UNCHANGED <<clock, up, accounts, ips, ipRow, attempt, at>>

(* The process ends, at any point, and is started again: hydrate().          *)
Exit ==
  /\ up /\ up' = FALSE
  /\ accounts' = [a \in Account |-> NoAccount]
  /\ ips' = [i \in Address |-> NoAddress]
  /\ attempt' = [x \in Attempt |-> IF attempt[x].pc = "verifying"
                                   THEN [attempt[x] EXCEPT !.pc = "lost"] ELSE attempt[x]]
  /\ deleted' = {}
  /\ UNCHANGED <<clock, accountRow, ipRow, at, pardoned, promised>>

OnlyLocked(s) ==     \* defect: only lockouts are loaded
  IF s.lockUntil > now THEN RecentFails(s) ELSE NoAccount
Hydrated(s) == RecentFails(s)

Boot ==
  /\ ~up /\ up' = TRUE
  /\ boots < MaxBoots /\ boots' = boots + 1
  /\ accounts' = [a \in Account |-> Hydrated(accountRow[a])]
  /\ ips' = [i \in Address |-> RecentAttempts(ipRow[i])]
  /\ UNCHANGED <<now, accountRow, ipRow, attempt, at, history>>

Tick ==
  /\ now < MaxTime /\ now' = now + 1
  /\ UNCHANGED <<up, boots, tables, attempt, at, history>>
-------------------------------------------------------------------------------
Next ==
  \/ \E x \in Attempt :
       \/ \E a \in Account, i \in Address : Check(x, a, i)
       \/ RecordFailure(x) \/ RecordSuccess(x)
  \/ \E a \in Account : DeleteUser(a)
  \/ Prune \/ Exit \/ Boot \/ Tick

Spec == Init /\ [][Next]_vars
-------------------------------------------------------------------------------
AccountState == [held : BOOLEAN, fails : SUBSET Attempt, lockUntil : Nat, lockCount : Nat]
IpState == [held : BOOLEAN, attempts : SUBSET Attempt]

(* An entry that is not held holds nothing.                                 *)
TypeOK ==
  /\ now \in 0..MaxTime /\ up \in BOOLEAN /\ boots \in 0..MaxBoots
  /\ accounts \in [Account -> AccountState] /\ accountRow \in [Account -> AccountState]
  /\ ips \in [Address -> IpState] /\ ipRow \in [Address -> IpState]
  /\ attempt \in [Attempt -> [pc : {"idle", "refused", "verifying", "denied", "in", "lost"},
                              account : Account, ip : Address]]
  /\ at \in [Attempt -> 0..MaxTime]
  /\ pardoned \subseteq Attempt /\ promised \in [Account -> Nat] /\ deleted \subseteq Account
  /\ \A a \in Account : \A s \in {accounts[a], accountRow[a]} : ~s.held => s = NoAccount
  /\ \A i \in Address : \A s \in {ips[i], ipRow[i]} : ~s.held => s = NoAddress

AccountAgrees(a) ==
  \/ RecentFails(accountRow[a]) = RecentFails(accounts[a])
  \/ a \in deleted /\ ~accountRow[a].held
AddressAgrees(i) == RecentAttempts(ipRow[i]) = RecentAttempts(ips[i])

(* Each row holds what its entry holds, and there is a row for an entry and   *)
(* an entry for a row, so that a restart neither forgives nor punishes        *)
(* (login-throttle.ts:6) and no row is left that prune() cannot see.  The     *)
(* one exception: an account deleted since it was last written has no row,   *)
(* while its entry stays in memory.                                         *)
StoreAgrees ==
  up => /\ \A a \in Account : AccountAgrees(a)
        /\ \A i \in Address : AddressAgrees(i)

Admitted(x) == attempt[x].pc = "idle" /\ attempt'[x].pc = "verifying"

(* No attempt is admitted before the end of a lockout, from whatever address, *)
(* prunes and restarts in between notwithstanding.                          *)
LockHolds == [][\A x \in Attempt : Admitted(x) => promised[attempt'[x].account] <= now]_vars

(* No attempt is admitted to an account, or from an address, with its limit   *)
(* of failures in the window used up, restarts and prunes notwithstanding;   *)
(* only those still being verified when it was admitted may exceed it.       *)
GuessesAreCounted ==
  [][\A x \in Attempt : Admitted(x) =>
       /\ Cardinality(Counted(attempt'[x].account)) < accountMax
       /\ Cardinality(CountedFrom(attempt'[x].ip)) < ipMax]_vars

(* A deleted account, when it is made again, does not inherit the lockout     *)
(* (control.ts:227): an attempt is refused only for its address, for a       *)
(* lockout that stands, or for failures that count.                         *)
DeletionClearsLockout ==
  [][\A x \in Attempt : LET a == attempt'[x].account IN
       attempt[x].pc = "idle" /\ attempt'[x].pc = "refused"
         => \/ Capped(attempt'[x].ip)
            \/ promised[a] > now
            \/ Cardinality(Counted(a)) >= accountMax]_vars
===============================================================================
