------------------------------- MODULE NodeLink -------------------------------
(***************************************************************************)
(* The two outbound connections of one customer machine and the            *)
(* configuration file they share: the plugin's Connection                  *)
(* (plugins/dsh-gateway-agent/src/index.js), the supervisor's connect loop *)
(* (daemon.js), the store both read and write (config.js), and of the      *)
(* gateway the admission of a node (apps/gateway/src/nodes.ts).            *)
(*                                                                         *)
(* The roles are two processes.  Each runs its handlers to the end, but    *)
(* the file is written without a lock: reading it, emptying it and filling *)
(* it are three steps the other process can come between.  A node key      *)
(* travels and is stored with its machine id and is not told apart from    *)
(* it; delays and the back-off between attempts are left out.              *)
(***************************************************************************)
EXTENDS Naturals

CONSTANTS
  Code,         \* pairing codes the gateway issued
  Machine,      \* machine ids the gateway can draw
  NoCode, NoMachine,
  MaxEdits,     \* bound: onboard and applyConfig calls from the settings card
  MaxLosses,    \* bound: links cut or fallen silent, upgrades unanswered
  MaxRestarts,  \* bound: process restarts
  MaxMute       \* bound: of these, upgrades that are accepted and never answered

Role == {"console", "supervisor"}

ASSUME NobodyIsReal == NoCode \notin Code /\ NoMachine \notin Machine
ASSUME BoundsAreNumbers == {MaxEdits, MaxLosses, MaxRestarts, MaxMute} \subseteq Nat

VARIABLES
  config,   \* config.json: gatewayUrl (set or not), pairingCode, machineId + nodeKey
  memory,   \* this.machineId and this.nodeKey of each role
  pairing,  \* the console's code: an argument kept by its reconnect closures
  known,    \* the console was given a gateway address in this run of dsh
  link,     \* this.ws of each role and how far its handshake got
  timer,    \* this.reconnectTimer of each role
  job,      \* the read-modify-write of the file each role is in the middle of
  stray,    \* codes in flight on sockets their process has given up
  issued,   \* gateway: the machine each code was consumed by
  machine,  \* gateway: status of each machine's row
  saved,    \* history: the identity the file was given since the last onboard
  edits, losses, restarts, mute

gateway == <<issued, machine>>
counters == <<edits, losses, restarts, mute>>
vars == <<config, memory, pairing, known, link, timer, job, stray, gateway,
          saved, counters>>
-------------------------------------------------------------------------------
(* Records.                                                                *)

(* What a reader makes of a file that is missing, empty or garbled.          *)
Blank == [url |-> FALSE, code |-> NoCode, id |-> NoMachine]
Config == [url : BOOLEAN, code : Code \cup {NoCode}, id : Machine \cup {NoMachine}]

(* "connecting", "answered" (the challenge), "replied" (the reply is on its  *)
(* way), "pending" and "online" (the reply was heard); "ended": the close    *)
(* event is due.  "silent" and "hung": the peer is gone and nothing says so, *)
(* after and before the socket opened; "mute": the upgrade is never answered. *)
Phase == {"none", "connecting", "answered", "replied", "pending", "online",
          "ended", "silent", "hung", "mute"}
Link == [phase : Phase, code : Code \cup {NoCode}, id : Machine \cup {NoMachine},
         key : BOOLEAN]
NoLink == [phase |-> "none", code |-> NoCode, id |-> NoMachine, key |-> FALSE]
Dialled == [NoLink EXCEPT !.phase = "connecting"]
Lost(p) == [NoLink EXCEPT !.phase = p]

NoJob == [kind |-> "none", step |-> "none", copy |-> Blank, mixed |-> FALSE]
Job == [kind : {"none", "persist", "onboard", "apply"},
        step : {"none", "read", "emptied"}, copy : Config, mixed : BOOLEAN]

Free(r) == job[r].kind = "none"   \* between handlers
Alive(r) == link[r].phase \notin {"none", "ended", "silent", "hung", "mute"}
Joined(r) == link[r].phase \in {"pending", "online"}
Other(r) == IF r = "console" THEN "supervisor" ELSE "console"

TypeOK ==
  /\ config \in Config
  /\ memory \in [Role -> Machine \cup {NoMachine}]
  /\ pairing \in Code \cup {NoCode}
  /\ known \in BOOLEAN
  /\ link \in [Role -> Link]
  /\ timer \in [Role -> BOOLEAN]
  /\ job \in [Role -> Job]
  /\ stray \subseteq Code
  /\ issued \in [Code -> Machine \cup {NoMachine}]
  /\ machine \in [Machine -> {"none", "pending", "approved", "gone"}]
  /\ saved \in Machine \cup {NoMachine}
  /\ edits \in 0 .. MaxEdits /\ losses \in 0 .. MaxLosses
  /\ restarts \in 0 .. MaxRestarts /\ mute \in 0 .. MaxMute

(* A fresh installation: the plugin is idle, the supervisor looks for an     *)
(* address from time to time.                                                *)
Init ==
  /\ config = Blank
  /\ memory = [r \in Role |-> NoMachine]
  /\ pairing = NoCode
  /\ known = FALSE
  /\ link = [r \in Role |-> NoLink]
  /\ timer = [r \in Role |-> r = "supervisor"]
  /\ job = [r \in Role |-> NoJob]
  /\ stray = {}
  /\ issued = [c \in Code |-> NoMachine]
  /\ machine = [m \in Machine |-> "none"]
  /\ saved = NoMachine
  /\ edits = 0 /\ losses = 0 /\ restarts = 0 /\ mute = 0
-------------------------------------------------------------------------------
(* Connecting and coming back.                                             *)

(* A code on a socket that is given up may still reach the gateway.          *)
StrayWith(r) ==
  IF link[r].phase = "answered" /\ link[r].code # NoCode
  THEN stray \cup {link[r].code} ELSE stray

(* Both read the file again before an attempt: an identity the other process *)
(* obtained is picked up.                                                     *)
BootSnapshot(r) == memory[r]   \* defect: keep what this process knew
Reread(r) == config.id

(* stop() clears the timer of the next attempt.                              *)
LeftRunning(r) == timer[r]   \* defect: connect() without stop()
Stopped(r) == FALSE

(* stop(), then a new socket.                                                *)
Dials(r, id) ==
  /\ link' = [link EXCEPT ![r] = Dialled]
  /\ memory' = [memory EXCEPT ![r] = id]
  /\ timer' = [timer EXCEPT ![r] = Stopped(r)]
  /\ stray' = StrayWith(r)

(* The supervisor dials only where an address is configured, else it arms    *)
(* the timer again; the console's closure has its own.                       *)
TimerFires(r) ==
  /\ Free(r) /\ timer[r]
  /\ r = "supervisor" => config.url
  /\ Dials(r, Reread(r))
  /\ UNCHANGED <<config, pairing, known, job, gateway, saved, counters>>

(* 'open' and the challenge: the identity in memory, or else the code - the  *)
(* console's own, the supervisor's as the file has it now.                    *)
CodeOf(r) == IF r = "console" THEN pairing ELSE config.code

Answers(r) ==
  /\ Free(r) /\ link[r].phase = "connecting"
  /\ link' = [link EXCEPT ![r] =
       [phase |-> "answered", id |-> memory[r], key |-> FALSE,
        code |-> IF memory[r] = NoMachine THEN CodeOf(r) ELSE NoCode]]
  /\ UNCHANGED <<config, memory, pairing, known, timer, job, stray, gateway,
                 saved, counters>>

(* An invalid, an expired and a used code meet the same refusal.             *)
Redeemable(c) == c # NoCode /\ issued[c] = NoMachine

Redeem(c, m) ==
  /\ Redeemable(c) /\ machine[m] = "none"
  /\ issued' = [issued EXCEPT ![c] = m]
  /\ machine' = [machine EXCEPT ![m] = "pending"]

GatewayAdmits(r) ==
  /\ link[r].phase = "answered"
  /\ \E m \in Machine :
       /\ Redeem(link[r].code, m)
       /\ link' = [link EXCEPT ![r] =
            [phase |-> "replied", code |-> NoCode, id |-> m, key |-> TRUE]]
  /\ UNCHANGED <<config, memory, pairing, known, timer, job, stray, saved, counters>>

Welcome(m) == m # NoMachine /\ machine[m] \in {"pending", "approved"}

GatewayRecognises(r) ==
  /\ link[r].phase = "answered"
  /\ Welcome(link[r].id)
  /\ link' = [link EXCEPT ![r].phase = "replied"]
  /\ UNCHANGED <<config, memory, pairing, known, timer, job, stray, gateway,
                 saved, counters>>

(* 4001 to 4004.                                                             *)
GatewayRefuses(r) ==
  /\ link[r].phase = "answered"
  /\ ~ Redeemable(link[r].code) /\ ~ Welcome(link[r].id)
  /\ link' = [link EXCEPT ![r] = Lost("ended")]
  /\ UNCHANGED <<config, memory, pairing, known, timer, job, stray, gateway,
                 saved, counters>>

GatewayHearsStray ==
  \E c \in stray :
    /\ stray' = stray \ {c}
    /\ \/ \E m \in Machine : Redeem(c, m)
       \/ UNCHANGED gateway   \* lost, or refused
    /\ UNCHANGED <<config, memory, pairing, known, link, timer, job, saved, counters>>

(* registration_status: the identity is taken over; a key is stored.         *)
RegisteredAs(m) ==
  [phase |-> IF machine[m] = "approved" THEN "online" ELSE "pending",
   code |-> NoCode, id |-> m, key |-> FALSE]

HearsRegistration(r) ==
  /\ Free(r) /\ link[r].phase = "replied"
  /\ link' = [link EXCEPT ![r] = RegisteredAs(link[r].id)]
  /\ memory' = [memory EXCEPT ![r] = link[r].id]
  /\ job' = IF link[r].key
            THEN [job EXCEPT ![r] = [kind |-> "persist", step |-> "read",
                    copy |-> [config EXCEPT !.id = link[r].id], mixed |-> FALSE]]
            ELSE job
  /\ UNCHANGED <<config, pairing, known, timer, stray, gateway, saved, counters>>

HearsApproval(r) ==
  /\ Free(r) /\ link[r].phase = "pending" /\ machine[link[r].id] = "approved"
  /\ link' = [link EXCEPT ![r].phase = "online"]
  /\ UNCHANGED <<config, memory, pairing, known, timer, job, stray, gateway,
                 saved, counters>>

(* The close event, after a refusal, a failure or the end of the machine      *)
(* (told after the reply it follows): scheduleReconnect().                   *)
Again(r) == TRUE

Closes(r) ==
  /\ Free(r)
  /\ link[r].phase = "ended" \/ (Joined(r) /\ ~ Welcome(link[r].id))
  /\ link' = [link EXCEPT ![r] = NoLink]
  /\ timer' = [timer EXCEPT ![r] = Again(r)]
  /\ UNCHANGED <<config, memory, pairing, known, job, stray, gateway, saved, counters>>

(* The watchdog closes an open socket the gateway has been silent on; the    *)
(* close event follows when the closing handshake times out.                 *)
Unwatched(r) == FALSE   \* defect: no watchdog
Watched(r) == link[r].phase = "silent"

Watchdog(r) ==
  /\ Free(r) /\ Watched(r)
  /\ link' = [link EXCEPT ![r] = Lost("ended")]
  /\ UNCHANGED <<config, memory, pairing, known, timer, job, stray, gateway,
                 saved, counters>>

(* A socket that never opened has no watchdog: the operating system gives a  *)
(* connection attempt up.                                                     *)
AttemptFails(r) ==
  /\ link[r].phase = "hung"
  /\ link' = [link EXCEPT ![r] = Lost("ended")]
  /\ UNCHANGED <<config, memory, pairing, known, timer, job, stray, gateway,
                 saved, counters>>
-------------------------------------------------------------------------------
(* The shared file.                                                        *)

(* onboard(): the address and the code are set, the identity is deleted.     *)
Onboard(c) ==
  /\ Free("console") /\ edits < MaxEdits
  /\ edits' = edits + 1
  /\ job' = [job EXCEPT !["console"] = [kind |-> "onboard", step |-> "read",
       copy |-> [url |-> TRUE, code |-> c, id |-> NoMachine], mixed |-> FALSE]]
  /\ UNCHANGED <<config, memory, pairing, known, link, timer, stray, gateway,
                 saved, losses, restarts, mute>>

(* applyConfig(): client fields only, and no reconnection.                    *)
ApplyConfig(c) ==
  /\ Free("console") /\ edits < MaxEdits
  /\ edits' = edits + 1
  /\ job' = [job EXCEPT !["console"] = [kind |-> "apply", step |-> "read",
       copy |-> [config EXCEPT !.code = c], mixed |-> FALSE]]
  /\ UNCHANGED <<config, memory, pairing, known, link, timer, stray, gateway,
                 saved, losses, restarts, mute>>

(* writeFileSync: the file is emptied first.                                  *)
Empties(r) ==
  /\ job[r].step = "read"
  /\ config' = Blank
  /\ job' = [job EXCEPT ![r].step = "emptied"]
  /\ UNCHANGED <<memory, pairing, known, link, timer, stray, gateway, saved, counters>>

(* Two writers that both emptied it write over one another.                  *)
Written(r) == IF job[r].mixed THEN {job[r].copy, Blank} ELSE {job[r].copy}

Fills(r) ==
  /\ job[r].step = "emptied"
  /\ config' \in Written(r)
  /\ job' = [job EXCEPT ![r] = NoJob,
             ![Other(r)].mixed = @ \/ job[Other(r)].step = "emptied"]
  /\ saved' = CASE job[r].kind = "onboard" -> NoMachine
                [] job[r].kind = "persist" -> job[r].copy.id
                [] OTHER -> saved
  /\ IF job[r].kind = "onboard"
     THEN /\ Dials(r, NoMachine)
          /\ pairing' = job[r].copy.code
          /\ known' = TRUE
     ELSE UNCHANGED <<memory, pairing, known, link, timer, stray>>
  /\ UNCHANGED <<gateway, counters>>
-------------------------------------------------------------------------------
(* The administrator, the network and the processes.                       *)

(* Approval is told on the live links; revoking and deleting close them.     *)
Approve(m) ==
  /\ machine[m] = "pending"
  /\ machine' = [machine EXCEPT ![m] = "approved"]
  /\ UNCHANGED <<config, memory, pairing, known, link, timer, job, stray, issued,
                 saved, counters>>

Removed(m) ==
  /\ Welcome(m)
  /\ machine' = [machine EXCEPT ![m] = "gone"]
  /\ UNCHANGED <<config, memory, pairing, known, link, timer, job, stray, issued,
                 saved, counters>>

(* A cut both ends notice, a peer that vanishes, or a gateway restart.        *)
LinkLost(r) ==
  /\ losses < MaxLosses /\ Alive(r)
  /\ losses' = losses + 1
  /\ \E p \in {"ended", IF link[r].phase = "connecting" THEN "hung" ELSE "silent"} :
       link' = [link EXCEPT ![r] = Lost(p)]
  /\ stray' = StrayWith(r)
  /\ UNCHANGED <<config, memory, pairing, known, timer, job, gateway, saved,
                 edits, restarts, mute>>

(* The connection is accepted and the upgrade request never answered.         *)
UpgradeUnanswered(r) ==
  /\ mute < MaxMute /\ losses < MaxLosses /\ link[r].phase = "connecting"
  /\ mute' = mute + 1 /\ losses' = losses + 1
  /\ link' = [link EXCEPT ![r] = Lost("mute")]
  /\ UNCHANGED <<config, memory, pairing, known, timer, job, stray, gateway,
                 saved, edits, restarts>>

(* The process dies, whatever it was doing to the file, and is started       *)
(* again: it dials if the file has an address; the supervisor will look       *)
(* again, the plugin will not.                                                *)
Restart(r) ==
  /\ restarts < MaxRestarts
  /\ restarts' = restarts + 1
  /\ job' = [job EXCEPT ![r] = NoJob]
  /\ stray' = StrayWith(r)
  /\ memory' = [memory EXCEPT ![r] = IF config.url THEN config.id ELSE NoMachine]
  /\ link' = [link EXCEPT ![r] = IF config.url THEN Dialled ELSE NoLink]
  /\ timer' = [timer EXCEPT ![r] = r = "supervisor" /\ ~ config.url]
  /\ IF r = "console"
     THEN known' = config.url /\ pairing' = config.code
     ELSE UNCHANGED <<known, pairing>>
  /\ UNCHANGED <<config, gateway, saved, edits, losses, mute>>
-------------------------------------------------------------------------------
Next ==
  \/ \E r \in Role :
       \/ TimerFires(r) \/ Answers(r)
       \/ GatewayAdmits(r) \/ GatewayRecognises(r) \/ GatewayRefuses(r)
       \/ HearsRegistration(r) \/ HearsApproval(r)
       \/ Closes(r) \/ Watchdog(r) \/ AttemptFails(r)
       \/ Empties(r) \/ Fills(r)
       \/ LinkLost(r) \/ UpgradeUnanswered(r) \/ Restart(r)
  \/ GatewayHearsStray
  \/ \E c \in Code : Onboard(c) \/ ApplyConfig(c)
  \/ \E m \in Machine : Approve(m) \/ Removed(m)

Spec == Init /\ [][Next]_vars

(* Timers fire, sockets report, the gateway answers the sockets it has, and   *)
(* a process goes on.  Nothing is promised of losses, restarts or people.     *)
Fairness ==
  \A r \in Role :
    /\ WF_vars(TimerFires(r)) /\ WF_vars(Answers(r))
    /\ WF_vars(GatewayAdmits(r)) /\ WF_vars(GatewayRecognises(r))
    /\ WF_vars(GatewayRefuses(r))
    /\ WF_vars(HearsRegistration(r)) /\ WF_vars(HearsApproval(r))
    /\ WF_vars(Closes(r)) /\ WF_vars(Watchdog(r)) /\ WF_vars(AttemptFails(r))
    /\ WF_vars(Empties(r)) /\ WF_vars(Fills(r))

FairSpec == Spec /\ Fairness
-------------------------------------------------------------------------------
(* Properties.                                                             *)

(* A process that knows a gateway has exactly one thing under way: a socket   *)
(* or the timer of the next attempt.  It never sits idle after a failure, and *)
(* no forgotten timer replaces a link that works (index.js connect, stop and  *)
(* scheduleReconnect; daemon.js scheduleReconnect).                           *)
Tended(r) == timer[r] # (link[r].phase # "none")
OneAttempt == Tended("supervisor") /\ (known => Tended("console"))

(* Once the file keeps an identity the gateway accepts, both processes are    *)
(* registered in the end, and shown approved if the machine is: through lost  *)
(* and silent links, refused codes, restarts and half-written files           *)
(* (index.js 262-294, 319-326; daemon.js 564-586, 664-682); unless an upgrade  *)
(* stays unanswered, which nothing ends.                                     *)
Usable ==
  config.url /\ Welcome(config.id) /\ \A r \in Role : link[r].phase # "mute"
BothJoin == \A r \in Role :
  IF Joined(r) /\ machine[link[r].id] = "approved"
  THEN link[r].phase = "online" ELSE Joined(r)
Rejoins == <>[](Usable /\ known) => <>[]BothJoin

(* Of two processes with one one-time code, one is refused and takes over     *)
(* what the other was issued: after a single onboarding both end as the       *)
(* machine the file names (index.js 288-292, daemon.js 539-548, 605-616).     *)
SameMachine == \A r \in Role : Joined(r) /\ link[r].id = config.id
OneMachine == [](edits <= 1) /\ <>[](Usable /\ known) => <>[]SameMachine

(* "Persist the issued identity into the SAME shared config the plugin uses,  *)
(* so later restarts reconnect instead of re-onboarding" (daemon.js): an      *)
(* identity that was stored stays until the next onboarding.                  *)
IdentityIsKept ==
  saved # NoMachine /\ (\A r \in Role : job[r].step # "emptied") => config.id = saved

(* "Close the socket if the gateway has been silent past the watchdog         *)
(* window" (index.js): no link stays silent for good.                         *)
SilenceIsNoticed ==
  \A r \in Role : link[r].phase \in {"silent", "hung", "mute"}
                    ~> link[r].phase \notin {"silent", "hung", "mute"}
===============================================================================
