---------------------------- MODULE NodeLink_proofs ----------------------------
(***************************************************************************)
(* That a process of the machine always has exactly one thing under way    *)
(* towards its gateway, for every set of codes and machines and all bounds. *)
(* The invariant is inductive together with the types: a handler that ends  *)
(* a link arms the timer in the same step, and the ones that make a link    *)
(* clear it.                                                                *)
(***************************************************************************)
EXTENDS NodeLink, TLAPS

USE DEF Role, Link, Config, Job, Phase

(* What the records of the module are.                                      *)
LEMMA Records ==
  /\ NoLink \in Link /\ Dialled \in Link
  /\ \A p \in Phase : Lost(p) \in Link
  /\ Blank \in Config
  /\ NoJob \in Job
<1>1. NoLink \in Link
  BY DEF NoLink
<1>2. Dialled \in Link
  BY <1>1 DEF Dialled, NoLink
<1>3. \A p \in Phase : Lost(p) \in Link
  BY <1>1 DEF Lost, NoLink
<1>4. Blank \in Config
  BY DEF Blank
<1>5. NoJob \in Job
  BY <1>4 DEF NoJob
<1> QED
  BY <1>1, <1>2, <1>3, <1>4, <1>5

LEMMA Bounds == MaxEdits \in Nat /\ MaxLosses \in Nat /\ MaxRestarts \in Nat /\ MaxMute \in Nat
BY BoundsAreNumbers

LEMMA InitTypes == Init => TypeOK
<1> SUFFICES ASSUME Init PROVE TypeOK
  OBVIOUS
<1>1. config \in Config /\ link \in [Role -> Link] /\ job \in [Role -> Job]
  BY Records DEF Init
<1>2. /\ memory \in [Role -> Machine \cup {NoMachine}] /\ timer \in [Role -> BOOLEAN]
      /\ issued \in [Code -> Machine \cup {NoMachine}]
      /\ machine \in [Machine -> {"none", "pending", "approved", "gone"}]
  BY DEF Init
<1>3. /\ edits \in 0 .. MaxEdits /\ losses \in 0 .. MaxLosses
      /\ restarts \in 0 .. MaxRestarts /\ mute \in 0 .. MaxMute
  BY Bounds DEF Init
<1> QED
  BY <1>1, <1>2, <1>3 DEF Init, TypeOK

LEMMA StrayTypes ==
  ASSUME TypeOK, NEW r \in Role PROVE StrayWith(r) \subseteq Code
BY DEF TypeOK, StrayWith

(* Dialling keeps the types.                                                *)
LEMMA DialTypes ==
  ASSUME TypeOK, NEW r \in Role, NEW i \in Machine \cup {NoMachine}, Dials(r, i)
  PROVE  /\ link' \in [Role -> Link]
         /\ memory' \in [Role -> Machine \cup {NoMachine}]
         /\ timer' \in [Role -> BOOLEAN]
         /\ stray' \subseteq Code
BY Records, StrayTypes DEF TypeOK, Dials, Stopped

LEMMA TimerFiresTypes == ASSUME TypeOK, NEW r \in Role, TimerFires(r) PROVE TypeOK'
<1>1. config.id \in Machine \cup {NoMachine} /\ Dials(r, config.id)
  BY DEF TypeOK, TimerFires, Reread
<1>2. /\ link' \in [Role -> Link] /\ memory' \in [Role -> Machine \cup {NoMachine}]
      /\ timer' \in [Role -> BOOLEAN] /\ stray' \subseteq Code
  BY <1>1, DialTypes
<1> QED
  BY <1>1, <1>2 DEF TypeOK, TimerFires, Reread, gateway, counters

LEMMA AnswersTypes == ASSUME TypeOK, NEW r \in Role, Answers(r) PROVE TypeOK'
BY Records, Bounds DEF TypeOK, Answers, CodeOf, gateway, counters

LEMMA GatewayAdmitsTypes == ASSUME TypeOK, NEW r \in Role, GatewayAdmits(r) PROVE TypeOK'
BY Records, Bounds DEF TypeOK, GatewayAdmits, Redeem, Redeemable, gateway, counters

LEMMA GatewayRecognisesTypes == ASSUME TypeOK, NEW r \in Role, GatewayRecognises(r) PROVE TypeOK'
BY Records, Bounds DEF TypeOK, GatewayRecognises, gateway, counters

LEMMA GatewayRefusesTypes == ASSUME TypeOK, NEW r \in Role, GatewayRefuses(r) PROVE TypeOK'
<1>1. link' \in [Role -> Link]
  BY Records DEF TypeOK, GatewayRefuses
<1> QED
  BY <1>1 DEF TypeOK, GatewayRefuses, gateway, counters

LEMMA HearsRegistrationTypes == ASSUME TypeOK, NEW r \in Role, HearsRegistration(r) PROVE TypeOK'
<1>1. link[r].id \in Machine \cup {NoMachine}
  BY DEF TypeOK
<1>2. RegisteredAs(link[r].id) \in Link
  BY <1>1 DEF RegisteredAs
<1>3. link' \in [Role -> Link]
  BY <1>2 DEF TypeOK, HearsRegistration
<1>4. link[r].id \in Machine \cup {NoMachine}
  BY DEF TypeOK
<1>5. [config EXCEPT !.id = link[r].id] \in Config
  BY <1>4 DEF TypeOK
<1>6. [kind |-> "persist", step |-> "read",
       copy |-> [config EXCEPT !.id = link[r].id], mixed |-> FALSE] \in Job
  BY <1>5
<1>7. job' \in [Role -> Job]
  BY <1>6 DEF TypeOK, HearsRegistration
<1>8. memory' \in [Role -> Machine \cup {NoMachine}]
  BY <1>4 DEF TypeOK, HearsRegistration
<1> QED
  BY <1>1, <1>2, <1>3, <1>4, <1>5, <1>6, <1>7, <1>8 DEF TypeOK, HearsRegistration, gateway, counters

LEMMA HearsApprovalTypes == ASSUME TypeOK, NEW r \in Role, HearsApproval(r) PROVE TypeOK'
BY Records, Bounds DEF TypeOK, HearsApproval, gateway, counters

LEMMA ClosesTypes == ASSUME TypeOK, NEW r \in Role, Closes(r) PROVE TypeOK'
<1>1. link' \in [Role -> Link]
  BY Records DEF TypeOK, Closes
<1>2. timer' \in [Role -> BOOLEAN]
  BY DEF TypeOK, Closes, Again
<1> QED
  BY <1>1, <1>2 DEF TypeOK, Closes, gateway, counters

LEMMA WatchdogTypes == ASSUME TypeOK, NEW r \in Role, Watchdog(r) PROVE TypeOK'
<1>1. link' \in [Role -> Link]
  BY Records DEF TypeOK, Watchdog
<1> QED
  BY <1>1 DEF TypeOK, Watchdog, gateway, counters

LEMMA AttemptFailsTypes == ASSUME TypeOK, NEW r \in Role, AttemptFails(r) PROVE TypeOK'
<1>1. link' \in [Role -> Link]
  BY Records DEF TypeOK, AttemptFails
<1> QED
  BY <1>1 DEF TypeOK, AttemptFails, gateway, counters

LEMMA EmptiesTypes == ASSUME TypeOK, NEW r \in Role, Empties(r) PROVE TypeOK'
<1>1. config' \in Config
  BY Records DEF Empties
<1>2. job' \in [Role -> Job]
  BY DEF TypeOK, Empties
<1> QED
  BY <1>1, <1>2 DEF TypeOK, Empties, gateway, counters

LEMMA FillsTypes == ASSUME TypeOK, NEW r \in Role, Fills(r) PROVE TypeOK'
<1>1. job[r] \in Job /\ job[r].copy \in Config /\ Other(r) \in Role /\ Other(r) # r
  BY DEF TypeOK, Other
<1>2. config' \in Config
  BY <1>1, Records DEF Fills, Written
<1>3. job' \in [Role -> Job]
  <2> DEFINE o == Other(r)
             j == [job EXCEPT ![r] = NoJob]
             b == j[o].mixed \/ job[o].step = "emptied"
  <2>1. job' = [j EXCEPT ![o].mixed = b]
    BY DEF Fills
  <2>2. j \in [Role -> Job]
    BY Records DEF TypeOK
  <2>3. b \in BOOLEAN
    OBVIOUS
  <2> HIDE DEF j, b, o
  <2>4. o \in Role
    BY <1>1 DEF o
  <2> QED
    BY <2>1, <2>2, <2>3, <2>4
<1>4. saved' \in Machine \cup {NoMachine}
  BY <1>1 DEF TypeOK, Fills
<1>5. /\ link' \in [Role -> Link] /\ memory' \in [Role -> Machine \cup {NoMachine}]
      /\ timer' \in [Role -> BOOLEAN] /\ stray' \subseteq Code
      /\ pairing' \in Code \cup {NoCode} /\ known' \in BOOLEAN
  <2>1. CASE job[r].kind = "onboard"
    <3>1. /\ Dials(r, NoMachine) /\ pairing' = job[r].copy.code /\ known' = TRUE
      BY <2>1 DEF Fills
    <3>2. NoMachine \in Machine \cup {NoMachine} /\ job[r].copy.code \in Code \cup {NoCode}
      BY <1>1
    <3> QED
      BY <3>1, <3>2, DialTypes
  <2>2. CASE job[r].kind # "onboard"
    BY <2>2 DEF TypeOK, Fills
  <2> QED
    BY <2>1, <2>2
<1> QED
  BY <1>2, <1>3, <1>4, <1>5 DEF TypeOK, Fills, gateway, counters

LEMMA LinkLostTypes == ASSUME TypeOK, NEW r \in Role, LinkLost(r) PROVE TypeOK'
<1>1. link' \in [Role -> Link]
  BY Records DEF TypeOK, LinkLost
<1>2. stray' \subseteq Code
  BY StrayTypes DEF LinkLost
<1>3. losses' \in 0 .. MaxLosses
  BY Bounds DEF TypeOK, LinkLost
<1> QED
  BY <1>1, <1>2, <1>3 DEF TypeOK, LinkLost, gateway, counters

LEMMA UpgradeUnansweredTypes == ASSUME TypeOK, NEW r \in Role, UpgradeUnanswered(r) PROVE TypeOK'
<1>1. link' \in [Role -> Link]
  BY Records DEF TypeOK, UpgradeUnanswered
<1>2. mute' \in 0 .. MaxMute /\ losses' \in 0 .. MaxLosses
  BY Bounds DEF TypeOK, UpgradeUnanswered
<1> QED
  BY <1>1, <1>2 DEF TypeOK, UpgradeUnanswered, gateway, counters

LEMMA RestartTypes == ASSUME TypeOK, NEW r \in Role, Restart(r) PROVE TypeOK'
<1>1. link' \in [Role -> Link]
  BY Records DEF TypeOK, Restart
<1>2. stray' \subseteq Code
  BY StrayTypes DEF Restart
<1>3. restarts' \in 0 .. MaxRestarts
  BY Bounds DEF TypeOK, Restart
<1>4. job' \in [Role -> Job]
  BY Records DEF TypeOK, Restart
<1>5. memory' \in [Role -> Machine \cup {NoMachine}]
  BY DEF TypeOK, Restart
<1>6. timer' \in [Role -> BOOLEAN]
  BY DEF TypeOK, Restart
<1>7. known' \in BOOLEAN /\ pairing' \in Code \cup {NoCode}
  BY DEF TypeOK, Restart
<1> QED
  BY <1>1, <1>2, <1>3, <1>4, <1>5, <1>6, <1>7 DEF TypeOK, Restart, gateway, counters

LEMMA StrayCodeTypes == ASSUME TypeOK, GatewayHearsStray PROVE TypeOK'
BY DEF TypeOK, GatewayHearsStray, Redeem, Redeemable, gateway, counters

LEMMA EditTypes ==
  ASSUME TypeOK, NEW c \in Code, Onboard(c) \/ ApplyConfig(c) PROVE TypeOK'
<1>1. edits' \in 0 .. MaxEdits
  BY Bounds DEF TypeOK, Onboard, ApplyConfig
<1>2. /\ [url |-> TRUE, code |-> c, id |-> NoMachine] \in Config
      /\ [config EXCEPT !.code = c] \in Config
  BY DEF TypeOK
<1>3. job' \in [Role -> Job]
  <2>1. CASE Onboard(c)
    BY <1>2, <2>1 DEF TypeOK, Onboard
  <2>2. CASE ApplyConfig(c)
    BY <1>2, <2>2 DEF TypeOK, ApplyConfig
  <2> QED
    BY <2>1, <2>2
<1> QED
  BY <1>1, <1>3 DEF TypeOK, Onboard, ApplyConfig, gateway

LEMMA AdminTypes ==
  ASSUME TypeOK, NEW m \in Machine, Approve(m) \/ Removed(m) PROVE TypeOK'
BY DEF TypeOK, Approve, Removed, counters

(* The types hold throughout.                                               *)
LEMMA NextTypes == TypeOK /\ [Next]_vars => TypeOK'
<1> SUFFICES ASSUME TypeOK, [Next]_vars PROVE TypeOK'
  OBVIOUS
<1>1. CASE UNCHANGED vars
  BY <1>1 DEF TypeOK, vars, gateway, counters
<1>2. CASE GatewayHearsStray
  BY <1>2, StrayCodeTypes
<1>3. CASE \E c \in Code : Onboard(c) \/ ApplyConfig(c)
  BY <1>3, EditTypes
<1>4. CASE \E m \in Machine : Approve(m) \/ Removed(m)
  BY <1>4, AdminTypes
<1>5. ASSUME NEW r \in Role,
             \/ TimerFires(r) \/ Answers(r)
             \/ GatewayAdmits(r) \/ GatewayRecognises(r) \/ GatewayRefuses(r)
             \/ HearsRegistration(r) \/ HearsApproval(r)
             \/ Closes(r) \/ Watchdog(r) \/ AttemptFails(r)
             \/ Empties(r) \/ Fills(r)
             \/ LinkLost(r) \/ UpgradeUnanswered(r) \/ Restart(r)
      PROVE  TypeOK'
  BY <1>5, TimerFiresTypes, AnswersTypes, GatewayAdmitsTypes,
     GatewayRecognisesTypes, GatewayRefusesTypes, HearsRegistrationTypes,
     HearsApprovalTypes, ClosesTypes, WatchdogTypes, AttemptFailsTypes,
     EmptiesTypes, FillsTypes, LinkLostTypes, UpgradeUnansweredTypes, RestartTypes
<1> QED
  BY <1>1, <1>2, <1>3, <1>4, <1>5 DEF Next

(* Every variable has its type in every state.                              *)
THEOREM LinkTypes == Spec => []TypeOK
<1>1. Init => TypeOK
  BY InitTypes
<1>2. TypeOK /\ [Next]_vars => TypeOK'
  BY NextTypes
<1> QED
  BY <1>1, <1>2, PTL DEF Spec

-------------------------------------------------------------------------------
(* One attempt at a time.                                                  *)

(* A step that leaves both timers, and for each role whether it has a       *)
(* socket, alone leaves the invariant alone if it makes no gateway known.    *)
LEMMA Undisturbed ==
  ASSUME OneAttempt, timer' = timer, known' = known,
         \A q \in Role : (link'[q].phase = "none") <=> (link[q].phase = "none")
  PROVE  OneAttempt'
BY DEF OneAttempt, Tended

LEMMA DialTended ==
  ASSUME TypeOK, NEW r \in Role, NEW i, Dials(r, i)
  PROVE  /\ Tended(r)'
         /\ \A q \in Role \ {r} : Tended(q)' = Tended(q)
<1>1. /\ link'[r].phase = "connecting" /\ timer'[r] = FALSE
      /\ \A q \in Role \ {r} : link'[q] = link[q] /\ timer'[q] = timer[q]
  BY DEF TypeOK, Dials, Dialled, NoLink, Stopped
<1> QED
  BY <1>1 DEF Tended

(* Only the plugin onboards.                                                 *)
OnlyThePlugin == job["supervisor"].kind # "onboard"

LEMMA OnlyThePluginStep == TypeOK /\ OnlyThePlugin /\ [Next]_vars => OnlyThePlugin'
<1> SUFFICES ASSUME TypeOK, OnlyThePlugin, [Next]_vars PROVE OnlyThePlugin'
  OBVIOUS
<1> USE DEF OnlyThePlugin
<1>1. CASE UNCHANGED job
  BY <1>1
<1>2. ASSUME NEW c \in Code, Onboard(c) \/ ApplyConfig(c) PROVE OnlyThePlugin'
  BY <1>2 DEF Onboard, ApplyConfig, TypeOK
<1>3. ASSUME NEW r \in Role, HearsRegistration(r) PROVE OnlyThePlugin'
  BY <1>3 DEF HearsRegistration, TypeOK
<1>4. ASSUME NEW r \in Role, Empties(r) PROVE OnlyThePlugin'
  BY <1>4 DEF Empties, TypeOK
<1>5. ASSUME NEW r \in Role, Fills(r) PROVE OnlyThePlugin'
  <2>1. job'["supervisor"].kind \in {"none", job["supervisor"].kind}
    BY <1>5 DEF Fills, Other, NoJob, TypeOK
  <2> QED
    BY <2>1
<1>6. ASSUME NEW r \in Role, Restart(r) PROVE OnlyThePlugin'
  BY <1>6 DEF Restart, NoJob, TypeOK
<1>7. ASSUME NEW r \in Role,
             \/ TimerFires(r) \/ Answers(r)
             \/ GatewayAdmits(r) \/ GatewayRecognises(r) \/ GatewayRefuses(r)
             \/ HearsApproval(r) \/ Closes(r) \/ Watchdog(r) \/ AttemptFails(r)
             \/ LinkLost(r) \/ UpgradeUnanswered(r)
      PROVE  UNCHANGED job
  BY <1>7 DEF TimerFires, Answers, GatewayAdmits, GatewayRecognises,
     GatewayRefuses, HearsApproval, Closes, Watchdog, AttemptFails, LinkLost,
     UpgradeUnanswered
<1>8. CASE GatewayHearsStray \/ (\E m \in Machine : Approve(m) \/ Removed(m))
  BY <1>8 DEF GatewayHearsStray, Approve, Removed
<1> QED
  BY <1>1, <1>2, <1>3, <1>4, <1>5, <1>6, <1>7, <1>8 DEF Next, vars

LEMMA OneAttemptStep == TypeOK /\ OnlyThePlugin /\ OneAttempt /\ [Next]_vars => OneAttempt'
<1> SUFFICES ASSUME TypeOK, OnlyThePlugin, OneAttempt, [Next]_vars PROVE OneAttempt'
  OBVIOUS
<1> DEFINE Kept == \A q \in Role : (link'[q].phase = "none") <=> (link[q].phase = "none")
<1>1. CASE UNCHANGED vars
  BY <1>1 DEF OneAttempt, Tended, vars
<1>2. CASE GatewayHearsStray
  BY <1>2, Undisturbed DEF GatewayHearsStray
<1>3. CASE \E c \in Code : Onboard(c) \/ ApplyConfig(c)
  BY <1>3, Undisturbed DEF Onboard, ApplyConfig
<1>4. CASE \E m \in Machine : Approve(m) \/ Removed(m)
  BY <1>4, Undisturbed DEF Approve, Removed
<1>5. ASSUME NEW r \in Role, TimerFires(r) PROVE OneAttempt'
  <2>1. Dials(r, Reread(r)) /\ known' = known
    BY <1>5 DEF TimerFires
  <2>2. /\ Tended(r)'
        /\ \A q \in Role \ {r} : Tended(q)' = Tended(q)
    BY <2>1, DialTended
  <2> QED
    BY <2>1, <2>2 DEF OneAttempt
<1>6. ASSUME NEW r \in Role, Answers(r) PROVE OneAttempt'
  <2>1. Kept
    BY <1>6 DEF Answers, TypeOK
  <2> QED
    BY <1>6, <2>1, Undisturbed DEF Answers
<1>7. ASSUME NEW r \in Role,
             GatewayAdmits(r) \/ GatewayRecognises(r) \/ GatewayRefuses(r)
      PROVE  OneAttempt'
  <2>1. CASE GatewayAdmits(r)
    <3>1. Kept
      BY <2>1 DEF GatewayAdmits, TypeOK
    <3> QED
      BY <2>1, <3>1, Undisturbed DEF GatewayAdmits
  <2>2. CASE GatewayRecognises(r)
    <3>1. Kept
      BY <2>2 DEF GatewayRecognises, TypeOK
    <3> QED
      BY <2>2, <3>1, Undisturbed DEF GatewayRecognises
  <2>3. CASE GatewayRefuses(r)
    <3>1. Kept
      BY <2>3 DEF GatewayRefuses, Lost, NoLink, TypeOK
    <3> QED
      BY <2>3, <3>1, Undisturbed DEF GatewayRefuses
  <2> QED
    BY <1>7, <2>1, <2>2, <2>3
<1>8. ASSUME NEW r \in Role, HearsRegistration(r) \/ HearsApproval(r)
      PROVE  OneAttempt'
  <2>1. CASE HearsRegistration(r)
    <3>1. link' = [link EXCEPT ![r] = RegisteredAs(link[r].id)]
      BY <2>1 DEF HearsRegistration
    <3>2. link[r].phase # "none"
      BY <2>1 DEF HearsRegistration
    <3>3. Kept
      BY <3>1, <3>2 DEF TypeOK, RegisteredAs
    <3> QED
      BY <2>1, <3>3, Undisturbed DEF HearsRegistration
  <2>2. CASE HearsApproval(r)
    <3>1. Kept
      BY <2>2 DEF HearsApproval, TypeOK
    <3> QED
      BY <2>2, <3>1, Undisturbed DEF HearsApproval
  <2> QED
    BY <1>8, <2>1, <2>2
<1>9. ASSUME NEW r \in Role, Closes(r) PROVE OneAttempt'
  <2>1. /\ link'[r].phase = "none" /\ timer'[r] = TRUE /\ known' = known
        /\ \A q \in Role \ {r} : link'[q] = link[q] /\ timer'[q] = timer[q]
    BY <1>9 DEF Closes, Again, NoLink, TypeOK
  <2> QED
    BY <2>1 DEF OneAttempt, Tended
<1>10. ASSUME NEW r \in Role, Watchdog(r) \/ AttemptFails(r) PROVE OneAttempt'
  <2>1. Kept
    BY <1>10 DEF Watchdog, Watched, AttemptFails, Lost, NoLink, TypeOK
  <2>2. timer' = timer /\ known' = known
    BY <1>10 DEF Watchdog, AttemptFails
  <2> QED
    BY <2>1, <2>2, Undisturbed
<1>11. ASSUME NEW r \in Role, Empties(r) PROVE OneAttempt'
  BY <1>11, Undisturbed DEF Empties
<1>12. ASSUME NEW r \in Role, Fills(r) PROVE OneAttempt'
  <2>1. CASE job[r].kind = "onboard"
    <3>1. Dials(r, NoMachine)
      BY <1>12, <2>1 DEF Fills
    <3>2. /\ Tended(r)'
          /\ \A q \in Role \ {r} : Tended(q)' = Tended(q)
      BY <3>1, DialTended
    <3>3. r = "console"
      BY <1>12, <2>1 DEF OnlyThePlugin
    <3> QED
      BY <3>2, <3>3 DEF OneAttempt
  <2>2. CASE job[r].kind # "onboard"
    BY <1>12, <2>2, Undisturbed DEF Fills
  <2> QED
    BY <2>1, <2>2
<1>13. ASSUME NEW r \in Role, LinkLost(r) \/ UpgradeUnanswered(r) PROVE OneAttempt'
  <2>1. CASE LinkLost(r)
    <3>1. link[r].phase # "none" /\ timer' = timer /\ known' = known
      BY <2>1 DEF LinkLost, Alive
    <3>2. \E p \in Phase \ {"none"} : link' = [link EXCEPT ![r] = Lost(p)]
      BY <2>1 DEF LinkLost
    <3>3. Kept
      BY <3>1, <3>2 DEF Lost, NoLink, TypeOK
    <3> QED
      BY <3>1, <3>3, Undisturbed
  <2>2. CASE UpgradeUnanswered(r)
    <3>1. Kept
      BY <2>2 DEF UpgradeUnanswered, Lost, NoLink, TypeOK
    <3> QED
      BY <2>2, <3>1, Undisturbed DEF UpgradeUnanswered
  <2> QED
    BY <1>13, <2>1, <2>2
<1>14. ASSUME NEW r \in Role, Restart(r) PROVE OneAttempt'
  <2>1. \A q \in Role \ {r} : link'[q] = link[q] /\ timer'[q] = timer[q]
    BY <1>14 DEF Restart, TypeOK
  <2>2. CASE config.url
    <3>1. link'[r].phase # "none" /\ timer'[r] = FALSE
      BY <1>14, <2>2 DEF Restart, Dialled, NoLink, TypeOK
    <3> QED
      BY <1>14, <2>1, <3>1 DEF Restart, OneAttempt, Tended
  <2>3. CASE ~ config.url
    <3>1. /\ link'[r].phase = "none" /\ timer'[r] = (r = "supervisor")
          /\ r = "console" => known' = FALSE
      BY <1>14, <2>3 DEF Restart, NoLink, TypeOK
    <3> QED
      BY <1>14, <2>1, <3>1 DEF Restart, OneAttempt, Tended
  <2> QED
    BY <2>2, <2>3
<1> QED
  BY <1>1, <1>2, <1>3, <1>4, <1>5, <1>6, <1>7, <1>8, <1>9, <1>10, <1>11, <1>12,
     <1>13, <1>14 DEF Next

(* A process that knows a gateway has a socket or the timer of its next      *)
(* attempt, and never both.                                                  *)
THEOREM AlwaysOneAttempt == Spec => []OneAttempt
<1>1. Init => OneAttempt /\ OnlyThePlugin
  BY DEF Init, OneAttempt, Tended, NoLink, OnlyThePlugin, NoJob
<1>2. TypeOK /\ OnlyThePlugin /\ OneAttempt /\ [Next]_vars
        => (OneAttempt /\ OnlyThePlugin)'
  BY OneAttemptStep, OnlyThePluginStep
<1> QED
  BY <1>1, <1>2, LinkTypes, PTL DEF Spec
===============================================================================
