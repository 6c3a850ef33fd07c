------------------------------ MODULE Sessions ------------------------------
(***************************************************************************)
(* The gateway's sessions (SessionStore of apps/gateway/src/auth.ts) and    *)
(* the console requests authorised by them (authz.ts, router.ts, main.ts),  *)
(* on the rows that Accounts changes.                                      *)
(*                                                                         *)
(* A session lives in memory: it ends idleTTL after its last request, at    *)
(* most absoluteTTL after its sign-in, at sign-out, with the process, or    *)
(* when more than sessionMax are open.  It names its user; the user's row   *)
(* is read anew on every request, in the same turn of the event loop.      *)
(***************************************************************************)
EXTENDS Accounts

CONSTANTS
  Session,                            \* tokens: random, each issued once
  idleTTL, absoluteTTL, sessionMax,
  MaxTime,                            \* bound of the clock
  NoMachine

ASSUME TunablesPositive ==
  idleTTL \in Nat \ {0} /\ absoluteTTL \in Nat \ {0} /\ sessionMax \in Nat \ {0}
ASSUME TimeGiven == MaxTime \in Nat
ASSUME NoMachineIsNone == NoMachine \notin Machine
ASSUME SessionsFinite == IsFiniteSet(Session)

VARIABLES
  now,
  open,                 \* the keys of SessionStore.sessions
  session,              \* their records
  issued,               \* tokens issued so far
  verifying,            \* users with a sign-in in its scrypt
  lastUse               \* history: when a request was last let in under a token

sessionVars == <<now, open, session, issued, verifying, lastUse>>
vars == <<accountVars, sessionVars>>

SessionRecord ==
  [user : User, issuedAt : 0..MaxTime, expiresAt : Nat, machine : Machine \cup {NoMachine}]

WithoutAbsolute(s) == now > session[s].expiresAt   \* defect
Expired(s) ==
  now > session[s].expiresAt \/ now > session[s].issuedAt + absoluteTTL
Live(s) == s \in open /\ ~Expired(s)
-------------------------------------------------------------------------------
SessionsInit ==
  /\ Init
  /\ now = 0 /\ open = {} /\ issued = {} /\ verifying = {}
  /\ \E u \in User : session = [s \in Session |->
       [user |-> u, issuedAt |-> 0, expiresAt |-> 0, machine |-> NoMachine]]
  /\ lastUse = [s \in Session |-> 0]

BeginSignIn(u) ==
  /\ up /\ IsUser(u)
  /\ verifying' = verifying \cup {u}
  /\ UNCHANGED <<accountVars, now, open, session, issued, lastUse>>

SignInDenied(u) ==
  /\ u \in verifying
  /\ verifying' = verifying \ {u}
  /\ UNCHANGED <<accountVars, now, open, session, issued, lastUse>>

(* evict(): what stays of X when the new session s makes them too many.        *)
OldestFirst(X, s) ==   \* defect: expired ones are not dropped first
  IF Cardinality(X) <= sessionMax THEN {X}
  ELSE {X \ {t} : t \in {t \in X \ {s} : \A v \in X \ {s} : session[t].issuedAt <= session[v].issuedAt}}
Evicted(X, s) ==
  LET alive == {t \in X : t = s \/ ~Expired(t)}
      oldest == {t \in alive \ {s} : \A v \in alive \ {s} :
                   session[t].issuedAt <= session[v].issuedAt}
  IN CASE Cardinality(X) <= sessionMax -> {X}
       [] Cardinality(X) > sessionMax /\ Cardinality(alive) <= sessionMax -> {alive}
       [] OTHER -> {alive \ {t} : t \in oldest}

(* create(); of sessions issued in the same millisecond any may be the oldest.  *)
SignIn(u, s) ==
  /\ u \in verifying /\ s \notin issued
  /\ verifying' = verifying \ {u}
  /\ issued' = issued \cup {s}
  /\ session' = [session EXCEPT ![s] =
       [user |-> u, issuedAt |-> now, expiresAt |-> now + idleTTL, machine |-> NoMachine]]
  /\ lastUse' = [lastUse EXCEPT ![s] = now]
  /\ open' \in Evicted(open \cup {s}, s)
  /\ UNCHANGED <<accountVars, now>>

(* get(): the preHandler of every request, and the upgrade of a WebSocket.      *)
Get(s, m) ==
  /\ session' = [session EXCEPT ![s] =
       [user |-> @.user, issuedAt |-> @.issuedAt, expiresAt |-> now + idleTTL, machine |-> m]]
  /\ lastUse' = [lastUse EXCEPT ![s] = now]
  /\ UNCHANGED <<accountVars, now, open, issued, verifying>>

(* authorizeConsole()                                                        *)
Authorized(u, m) ==
  /\ IsUser(u) /\ machine[m] = "approved"
  /\ role[u] = "user" => <<m, u>> \in assigned

(* A request that is not for a console, or is refused one, or is for the       *)
(* console this session is bound to: paths without a machine, and upgrades.     *)
Use(s) == up /\ Live(s) /\ Get(s, session[s].machine)

(* consoleAuthz(): opening /console/:machineId binds the session to it.         *)
OpenConsole(s, m) ==
  /\ up /\ Live(s) /\ Authorized(session[s].user, m)
  /\ Get(s, m)

(* get() or machineOf() of an expired session, and the sweep.                   *)
Drop(X) ==
  /\ X # {} /\ X \subseteq {s \in open : Expired(s)}
  /\ open' = open \ X
  /\ UNCHANGED <<accountVars, now, session, issued, verifying, lastUse>>
UseExpired(s) == up /\ Drop({s})
Prune == up /\ Drop({s \in open : Expired(s)})

SignOut(s) ==
  /\ up /\ s \in open
  /\ open' = open \ {s}
  /\ UNCHANGED <<accountVars, now, session, issued, verifying, lastUse>>

Tick ==
  /\ now < MaxTime
  /\ now' = now + 1
  /\ UNCHANGED <<accountVars, open, session, issued, verifying, lastUse>>

ExitWithSessions ==
  /\ Exit
  /\ open' = {} /\ verifying' = {}
  /\ UNCHANGED <<now, session, issued, lastUse>>

SessionsNext ==
  \/ (UserRequest \/ MachineRequest \/ Boot) /\ UNCHANGED sessionVars
  \/ \E u \in User : BeginSignIn(u) \/ SignInDenied(u) \/ \E s \in Session : SignIn(u, s)
  \/ \E s \in Session :
       Use(s) \/ UseExpired(s) \/ SignOut(s) \/ \E m \in Machine : OpenConsole(s, m)
  \/ Prune \/ Tick \/ ExitWithSessions

SessionsSpec == SessionsInit /\ [][SessionsNext]_vars
-------------------------------------------------------------------------------
SessionsTypeOK ==
  /\ TypeOK
  /\ now \in 0..MaxTime
  /\ open \subseteq issued /\ issued \subseteq Session
  /\ Cardinality(open) <= sessionMax
  /\ session \in [Session -> SessionRecord]
  /\ verifying \subseteq User
  /\ lastUse \in [Session -> 0..MaxTime]

(* Nobody is let in under a token later than idleTTL after its last use, nor    *)
(* later than absoluteTTL after its sign-in, whatever renewed, swept or evicted  *)
(* sessions in between.                                                      *)
NobodyComesBackLate ==
  [][\A s \in issued :
       lastUse'[s] # lastUse[s] =>
         now <= lastUse[s] + idleTTL /\ now <= session[s].issuedAt + absoluteTTL]_vars

(* A session in use is lost only by its sign-out, with the process, or to as    *)
(* many other sessions, in use as well, none of them from before it.             *)
LiveSessionsAreKept ==
  [][\A s \in Session :
       Live(s) /\ s \notin open' =>
         \/ SignOut(s) \/ ~up'
         \/ /\ Cardinality(open') = sessionMax
            /\ \A t \in open' :
                 (t \in open => Live(t)) /\ session'[t].issuedAt >= session[s].issuedAt]_vars
===============================================================================
