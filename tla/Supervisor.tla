------------------------------ MODULE Supervisor ------------------------------
(***************************************************************************)
(* The lifecycle supervisor of a machine's dsh: start, stop and restart    *)
(* requests of the gateway, the detached readiness wait of each start, the *)
(* periodic state refresh, exits of the managed child, restarts of the     *)
(* supervisor itself (plugins/dsh-gateway-agent/src/daemon.js).            *)
(*                                                                         *)
(* Requests overlap: handleControl is not awaited, so a request arrives    *)
(* while another awaits a probe, a script or an exit.  One action is the   *)
(* code between two such awaits.  A continuation that only waits for a     *)
(* microtask (Resuming) runs before any other event.                       *)
(***************************************************************************)
EXTENDS Naturals, FiniteSets

CONSTANTS
  Control,     \* ids of the gateway's control requests; each is sent once
  Bootstrap,   \* boots of the supervisor, the bound on its restarts
  Refresh,     \* calls of refreshState that may be in flight together
  Hand,        \* the dsh somebody starts by hand
  NoProc,
  Attempts,    \* probes of a readiness wait (120 in the code)
  Setups       \* the contents of daemon.json, but for the "enabled" box

ASSUME BootstrapIsNoControl == Bootstrap \cap Control = {}
ASSUME HandIsNoOp == Hand \notin Control \cup Bootstrap
ASSUME NoProcIsNone == NoProc \notin Control \cup Bootstrap \cup {Hand}
ASSUME AttemptsPositive == Attempts \in Nat \ {0}
ASSUME SetupsAreSettings ==
  Setups \subseteq [child : BOOLEAN,         \* a child command: dsh is a managed child
                    probe : BOOLEAN,         \* a status script
                    startScript : BOOLEAN, stopScript : BOOLEAN]

DaemonState == {"unknown", "starting", "running", "stopped", "exited"}

(* Each request and each boot starts at most one dsh, so it names that dsh.  *)
Op == Control \cup Bootstrap
Proc == Op \cup {Hand}

VARIABLES
  config,         \* daemon.json, but for "enabled"
  sup,            \* the supervisor process: "down", "boot" (bootstrap), "serving"
  boots,          \* the boots made
  state, file,    \* Supervisor.state; daemon-state.json
  child,          \* Supervisor.child
  killed,         \* children whose .killed flag is set
  stopRequested,
  token,          \* startToken
  dsh,            \* the dsh processes of the machine
  kin,            \* children of this supervisor whose exit event is to come
  op,             \* where each bootstrap(), start(), stop() and restart() is
  ready,          \* the readiness wait armed by each start()
  refresh,        \* where each refreshState() is
  answer,         \* what the gateway was told of each request
  disturbed       \* history: operations disturbed, or a killed child outlived stop()

vars == <<config, sup, boots, state, file, child, killed, stopRequested,
          token, dsh, kin, op, ready, refresh, answer, disturbed>>
past == <<boots, disturbed>>
life == <<sup, past>>
managed == <<child, killed, kin>>

NoOp == [pc |-> "idle", act |-> "start", token |-> 0, seen |-> FALSE, target |-> NoProc]
NoWait == [pc |-> "none", token |-> 0, left |-> 0, seen |-> FALSE]
WaitFor(t) == [pc |-> "wait", token |-> t, left |-> Attempts, seen |-> FALSE]
NoRefresh == [pc |-> "none", seen |-> FALSE]

Alive(p) == dsh[p] \in {"booting", "up"}
AnyAlive == \E p \in Proc : Alive(p)
DshUp == \E p \in Proc : dsh[p] = "up"

IsChildRunning == child # NoProc /\ child \notin killed

(* setState: the state and its file change together.                        *)
SetState(s) == state' = s /\ file' = s

(* An operation ends; the gateway is told, unless it was the bootstrap.      *)
Finish(o, what) ==
  /\ op' = [op EXCEPT ![o] = NoOp]
  /\ answer' = IF o \in Control THEN [answer EXCEPT ![o] = what] ELSE answer
  /\ sup' = IF o \in Bootstrap THEN "serving" ELSE sup

(* An action threw: handleControl answers and writes the file, bootstrap logs. *)
Fail(o) ==
  /\ Finish(o, "failed")
  /\ state' = state
  /\ file' = IF o \in Control THEN state ELSE file

(* An operation goes on to the next of its awaits.                          *)
Goto(o, pc) ==
  /\ op' = [op EXCEPT ![o].pc = pc]
  /\ UNCHANGED <<answer, sup>>
-------------------------------------------------------------------------------
Init ==
  /\ config \in Setups
  /\ sup = "down" /\ boots = {}
  /\ state = "unknown" /\ file \in DaemonState   \* what an earlier supervisor left
  /\ child = NoProc /\ killed = {} /\ kin = {}
  /\ stopRequested = FALSE /\ token = 0
  /\ dsh = [p \in Proc |-> "dead"]
  /\ op = [o \in Op |-> NoOp]
  /\ ready = [o \in Op |-> NoWait]
  /\ refresh = [r \in Refresh |-> NoRefresh]
  /\ answer = [c \in Control |-> "idle"]
  /\ disturbed = FALSE
-------------------------------------------------------------------------------
(* start()                                                                  *)

AlwaysLaunch == TRUE   \* defect: start() does not look at its own child
NeedsLaunch == ~IsChildRunning

(* The synchronous beginning, up to the await of the probe.  reloadConfig()    *)
(* reads "enabled" as the settings card last left it: either way.            *)
BeginStart(o) ==
  /\ op[o].pc = "start"
  /\ stopRequested' = FALSE
  /\ \/ Fail(o)
     \/ ~NeedsLaunch /\ Finish(o, "ok") /\ SetState(state)
     \/ /\ NeedsLaunch
        /\ Goto(o, IF config.probe THEN "probing" ELSE "launch")
        /\ UNCHANGED <<state, file>>
  /\ UNCHANGED <<config, past, managed, token, dsh, ready, refresh>>

(* From "not up" on.  Child mode: spawn and answer "starting"; without a      *)
(* probe the living child counts as running.  Script mode: run the start     *)
(* script; without one start() throws, in state "starting".                  *)
Launch(o) ==
  /\ token' = token + 1
  /\ \/ /\ config.child
        /\ dsh' = [dsh EXCEPT ![o] = "booting"]
        /\ child' = o /\ kin' = kin \cup {o}
        /\ ready' = IF config.probe THEN [ready EXCEPT ![o] = WaitFor(token + 1)] ELSE ready
        /\ SetState(IF config.probe THEN "starting" ELSE "running")
        /\ Finish(o, "ok")
     \/ /\ ~config.child
        /\ SetState("starting")
        /\ \/ ~config.startScript /\ Finish(o, "failed")
           \/ /\ config.startScript
              /\ op' = [op EXCEPT ![o].pc = "script", ![o].token = token + 1]
              /\ UNCHANGED <<answer, sup>>
        /\ UNCHANGED <<dsh, child, kin, ready>>
  /\ UNCHANGED <<config, past, killed, stopRequested, refresh>>

LaunchUnprobed(o) == op[o].pc = "launch" /\ Launch(o)

(* The status script of bootstrap() or start() has looked at the machine.    *)
StartProbes(o) ==
  /\ op[o].pc = "probing"
  /\ op' = [op EXCEPT ![o].pc = "probed", ![o].seen = DshUp]
  /\ UNCHANGED <<config, life, state, file, managed, stopRequested, token, dsh, ready,
                 refresh, answer>>

(* Its answer arrives.  "Not up": bootstrap() goes on with start().           *)
StartProbed(o) ==
  /\ op[o].pc = "probed"
  /\ \/ /\ op[o].seen
        /\ SetState("running") /\ Finish(o, "ok")
        /\ UNCHANGED <<config, past, managed, stopRequested, token, dsh, ready, refresh>>
     \/ /\ ~op[o].seen /\ op[o].act = "bootstrap"
        /\ op' = [op EXCEPT ![o].pc = "start", ![o].act = "start"]
        /\ UNCHANGED <<config, life, state, file, managed, stopRequested, token, dsh, ready,
                       refresh, answer>>
     \/ ~op[o].seen /\ op[o].act # "bootstrap" /\ Launch(o)

(* The start script ends, well or not; it may have put dsh in the background. *)
StartScriptDone(o) ==
  /\ op[o].pc = "script"
  /\ dsh' \in {dsh, [dsh EXCEPT ![o] = "booting"]}
  /\ \/ /\ Finish(o, "ok")
        /\ \/ /\ config.probe
              /\ ready' = [ready EXCEPT ![o] = WaitFor(op[o].token)]
              /\ SetState(state)
           \/ ~config.probe /\ SetState("running") /\ UNCHANGED ready
     \/ Finish(o, "failed") /\ SetState("exited") /\ UNCHANGED ready
  /\ UNCHANGED <<config, past, managed, stopRequested, token, refresh>>
-------------------------------------------------------------------------------
(* stop() and restart()                                                     *)

(* A living child gets SIGTERM, which sets its .killed flag.  Without one the *)
(* stop script runs.  Without that one too, stop() just reports "stopped":    *)
(* the answer "no stop command" is for state "running", and the state has    *)
(* become "starting" above.                                                 *)
BeginStop(o) ==
  /\ op[o].pc = "stop"
  /\ token' = token + 1
  /\ SetState("starting")
  /\ \/ /\ IsChildRunning
        /\ stopRequested' = TRUE
        /\ killed' = killed \cup {child}
        /\ op' = [op EXCEPT ![o].pc = "stopping", ![o].target = child]
     \/ /\ ~IsChildRunning
        /\ op' = [op EXCEPT ![o].pc = IF config.stopScript THEN "stopscript" ELSE "stopped"]
        /\ UNCHANGED <<killed, stopRequested>>
  /\ UNCHANGED <<config, life, child, kin, dsh, ready, refresh, answer>>

GraceNeverEnds(o) == op[o].pc = "never"   \* defect: waits for the exit only
GraceEnds(o) == op[o].pc = "killing"

(* stopTimeoutMs passed: SIGKILL.  Then the 3 s of grace passed.  The stop    *)
(* script ended, or was killed after 30 s.                                  *)
StopWaited(o) ==
  /\ \/ op[o].pc = "stopping" /\ Goto(o, "killing") /\ UNCHANGED disturbed
     \/ GraceEnds(o) /\ Goto(o, "stopped") /\ disturbed' = TRUE
     \/ op[o].pc = "stopscript" /\ Goto(o, "stopped") /\ UNCHANGED disturbed
  /\ UNCHANGED <<config, boots, state, file, managed, stopRequested, token, dsh, ready, refresh>>

(* The end of stop(); restart() goes on with start().                        *)
StopFinished(o) ==
  /\ op[o].pc = "stopped"
  /\ stopRequested' = FALSE
  /\ SetState("stopped")
  /\ \/ /\ op[o].act = "restart"
        /\ op' = [op EXCEPT ![o].pc = "start", ![o].target = NoProc]
        /\ UNCHANGED <<answer, sup>>
     \/ op[o].act # "restart" /\ Finish(o, "ok")
  /\ UNCHANGED <<config, past, managed, token, dsh, ready, refresh>>

(* What runs before any other event: the synchronous part of an operation,   *)
(* and what follows an await that is already settled.  Two operations resumed *)
(* by one event take turns: stop(), then start(), then its launch.           *)
Rank(pc) == CASE pc \in {"stop", "stopped"} -> 1 [] pc = "start" -> 2
              [] pc = "launch" -> 3 [] OTHER -> 4
Resuming(o) == Rank(op[o].pc) < 4
Turn(o) == \A q \in Op : Rank(op[o].pc) <= Rank(op[q].pc)
Resume(o) ==
  Turn(o) /\ (BeginStart(o) \/ LaunchUnprobed(o) \/ BeginStop(o) \/ StopFinished(o))
-------------------------------------------------------------------------------
(* Requests, the child's exit, the readiness waits, the refresh.            *)

(* handleControl: a request of the gateway begins, whatever is under way.    *)
HandleControl(c, act) ==
  /\ sup = "serving" /\ answer[c] = "idle"
  /\ op' = [op EXCEPT ![c] = [NoOp EXCEPT !.act = act,
                                          !.pc = IF act = "start" THEN "start" ELSE "stop"]]
  /\ answer' = [answer EXCEPT ![c] = "pending"]
  /\ disturbed' = (disturbed \/ \E o \in Op : op[o].pc # "idle")
  /\ UNCHANGED <<config, sup, boots, state, file, managed, stopRequested, token, dsh, ready, refresh>>

(* The exit event of a child, whichever it is: this.child is forgotten, and  *)
(* a stop() that waits for it goes on.                                      *)
OnChildExit(p) ==
  /\ p \in kin /\ dsh[p] = "dead"
  /\ kin' = kin \ {p} /\ killed' = killed \ {p}
  /\ child' = NoProc
  /\ SetState(IF stopRequested THEN state ELSE "exited")
  /\ op' = [o \in Op |-> IF op[o].pc \in {"stopping", "killing"} /\ op[o].target = p
                         THEN [op[o] EXCEPT !.pc = "stopped"] ELSE op[o]]
  /\ UNCHANGED <<config, life, stopRequested, token, dsh, ready, refresh, answer>>

(* waitReady: after each sleep a superseded wait, and one whose child is     *)
(* gone, gives up.                                                          *)
ReadyWakes(o) ==
  LET w == ready[o] IN
  /\ w.pc = "wait"
  /\ ready' = [ready EXCEPT ![o] =
       IF w.token # token \/ (config.child /\ ~IsChildRunning) THEN NoWait
       ELSE [w EXCEPT !.pc = "probing", !.left = @ - 1]]
  /\ UNCHANGED <<config, life, state, file, managed, stopRequested, token, dsh, op, refresh,
                 answer>>

ReadyProbes(o) ==
  /\ ready[o].pc = "probing"
  /\ ready' = [ready EXCEPT ![o].pc = "probed", ![o].seen = DshUp]
  /\ UNCHANGED <<config, life, state, file, managed, stopRequested, token, dsh, op, refresh,
                 answer>>

Exhausted(w) == w.left = 0

NeverGivesUp(w) == FALSE /\ w.left = 0   \* defect: the wait ends without a verdict
GivesUp(w) == Exhausted(w) /\ w.token = token

(* "Up" sets the state, without another look at the token.                   *)
ReadyProbed(o) ==
  LET w == ready[o] IN
  /\ w.pc = "probed"
  /\ ready' = [ready EXCEPT ![o] = IF w.seen \/ Exhausted(w) THEN NoWait
                                   ELSE [w EXCEPT !.pc = "wait"]]
  /\ \/ w.seen /\ SetState("running")
     \/ ~w.seen /\ GivesUp(w) /\ SetState("exited")
     \/ ~w.seen /\ ~GivesUp(w) /\ UNCHANGED <<state, file>>
  /\ UNCHANGED <<config, life, managed, stopRequested, token, dsh, op, refresh, answer>>

(* refreshState, every 15 s: not while "starting"; a living child is running; *)
(* otherwise the probe tells.                                               *)
RefreshTick(r) ==
  /\ sup = "serving" /\ refresh[r].pc = "none" /\ state # "starting"
  /\ \/ /\ IsChildRunning /\ state # "running"
        /\ SetState("running") /\ UNCHANGED refresh
     \/ /\ ~IsChildRunning /\ config.probe
        /\ refresh' = [refresh EXCEPT ![r].pc = "probing"]
        /\ UNCHANGED <<state, file>>
  /\ UNCHANGED <<config, life, managed, stopRequested, token, dsh, op, ready, answer>>

RefreshProbes(r) ==
  /\ refresh[r].pc = "probing"
  /\ refresh' = [refresh EXCEPT ![r] = [pc |-> "probed", seen |-> DshUp]]
  /\ UNCHANGED <<config, life, state, file, managed, stopRequested, token, dsh, op, ready,
                 answer>>

OnlyUp(seen) == IF seen THEN "running" ELSE state   \* defect: "down" is not acted on
OnlyDown(seen) ==                                   \* defect: "up" is not acted on
  IF ~seen /\ state = "running" THEN "exited" ELSE state
Refreshed(seen) ==
  IF seen THEN "running" ELSE IF state = "running" THEN "exited" ELSE state

RefreshProbed(r) ==
  /\ refresh[r].pc = "probed"
  /\ refresh' = [refresh EXCEPT ![r] = NoRefresh]
  /\ \/ Refreshed(refresh[r].seen) # state /\ SetState(Refreshed(refresh[r].seen))
     \/ Refreshed(refresh[r].seen) = state /\ UNCHANGED <<state, file>>
  /\ UNCHANGED <<config, life, managed, stopRequested, token, dsh, op, ready, answer>>
-------------------------------------------------------------------------------
(* The supervisor process and the machine around it.                        *)

(* bootstrap(): off, supervision reports nothing.  Without a probe a managed *)
(* child that was running is not ours any more.  Otherwise the probe, if      *)
(* there is one, and start().                                               *)
Boot(b) ==
  /\ sup = "down" /\ b \notin boots
  /\ boots' = boots \cup {b}
  /\ \/ /\ SetState("unknown") /\ sup' = "serving"
        /\ UNCHANGED op
     \/ /\ ~config.probe /\ config.child /\ file = "running"
        /\ SetState("exited") /\ sup' = "serving"
        /\ UNCHANGED op
     \/ /\ (config.probe \/ ~config.child \/ file # "running")
        /\ op' = [op EXCEPT ![b] = IF config.probe
                                   THEN [NoOp EXCEPT !.pc = "probing", !.act = "bootstrap"]
                                   ELSE [NoOp EXCEPT !.pc = "start"]]
        /\ sup' = "boot"
        /\ UNCHANGED <<state, file>>
  /\ UNCHANGED <<config, disturbed, managed, stopRequested, token, dsh, ready, refresh, answer>>

(* The supervisor shuts down, which saves the state, or crashes.  dsh is not *)
(* stopped; what the process remembered is gone, and so are the requests it  *)
(* had not answered.                                                        *)
Exit ==
  /\ sup # "down"
  /\ sup' = "down"
  /\ file' \in {file, state} /\ state' = "unknown"
  /\ child' = NoProc /\ killed' = {} /\ kin' = {}
  /\ stopRequested' = FALSE /\ token' = 0
  /\ op' = [o \in Op |-> NoOp]
  /\ ready' = [o \in Op |-> NoWait]
  /\ refresh' = [r \in Refresh |-> NoRefresh]
  /\ answer' = [c \in Control |-> IF answer[c] = "pending" THEN "lost" ELSE answer[c]]
  /\ disturbed' = FALSE
  /\ UNCHANGED <<config, boots, dsh>>

(* dsh comes up if it gets the port, and may end at any time: by a signal,   *)
(* by the stop script, by itself.                                           *)
DshBoots(p) ==
  /\ dsh[p] = "booting" /\ ~DshUp
  /\ dsh' = [dsh EXCEPT ![p] = "up"]
  /\ UNCHANGED <<config, life, state, file, managed, stopRequested, token, op, ready, refresh,
                 answer>>

DshEnds(p) ==
  /\ Alive(p)
  /\ dsh' = [dsh EXCEPT ![p] = "dead"]
  /\ UNCHANGED <<config, life, state, file, managed, stopRequested, token, op, ready, refresh,
                 answer>>

DshByHand ==
  /\ ~AnyAlive
  /\ dsh' = [dsh EXCEPT ![Hand] = "booting"]
  /\ UNCHANGED <<config, life, state, file, managed, stopRequested, token, op, ready, refresh,
                 answer>>
-------------------------------------------------------------------------------
Idle == \A o \in Op : ~Resuming(o)

(* The events that carry one operation, its readiness wait and its child.     *)
Event(o) ==
  \/ StartProbes(o) \/ StartProbed(o) \/ StartScriptDone(o) \/ StopWaited(o)
  \/ ReadyWakes(o) \/ ReadyProbes(o) \/ ReadyProbed(o)
  \/ OnChildExit(o)
RefreshState(r) == RefreshTick(r) \/ RefreshProbes(r) \/ RefreshProbed(r)

Next ==
  \/ \E o \in Op : Resume(o)
  \/ /\ Idle
     /\ \/ \E o \in Op : Event(o)
        \/ \E c \in Control, act \in {"start", "stop", "restart"} : HandleControl(c, act)
        \/ \E p \in Proc : DshBoots(p) \/ DshEnds(p)
        \/ \E r \in Refresh : RefreshState(r)
        \/ \E b \in Bootstrap : Boot(b)
        \/ Exit \/ DshByHand

Spec == Init /\ [][Next]_vars

(* Scripts end (runScript kills them after 30 s), timers fire, the events of  *)
(* the process are delivered, the refresh comes round.  Nothing is assumed   *)
(* of dsh, of the gateway, or that the supervisor is started again.          *)
Fairness ==
  /\ \A o \in Op : WF_vars(Resume(o) \/ (Idle /\ Event(o)))
  /\ \A r \in Refresh : WF_vars(Idle /\ RefreshState(r))

FairSpec == Spec /\ Fairness
-------------------------------------------------------------------------------
TypeOK ==
  /\ config \in Setups
  /\ sup \in {"down", "boot", "serving"} /\ boots \subseteq Bootstrap
  /\ state \in DaemonState /\ file \in DaemonState
  /\ child \in Op \cup {NoProc}
  /\ killed \subseteq kin /\ kin \subseteq Op
  /\ stopRequested \in BOOLEAN /\ token \in Nat /\ disturbed \in BOOLEAN
  /\ dsh \in [Proc -> {"dead", "booting", "up"}]
  /\ op \in [Op -> [pc : {"idle", "start", "launch", "probing", "probed", "script", "stop",
                          "stopping", "killing", "stopscript", "stopped"},
                    act : {"bootstrap", "start", "stop", "restart"}, token : Nat, seen : BOOLEAN,
                    target : Op \cup {NoProc}]]
  /\ ready \in [Op -> [pc : {"none", "wait", "probing", "probed"}, token : Nat,
                       left : 0..Attempts, seen : BOOLEAN]]
  /\ refresh \in [Refresh -> [pc : {"none", "probing", "probed"}, seen : BOOLEAN]]
  /\ answer \in [Control -> {"idle", "pending", "ok", "failed", "lost"}]

(* "starting" means that an action is in flight (protocol/src/daemon.js:52),  *)
(* or its readiness wait; where a start has something to run.                *)
InFlight == \E o \in Op : op[o].pc # "idle" \/ ready[o].pc # "none"
CanStart == config.child \/ config.startScript
StartingIsInFlight == state = "starting" /\ CanStart => InFlight

(* The same as the protocol's comment says it, of every setup.               *)
StartingIsAnAction == state = "starting" => InFlight

(* As long as no two operations overlap and the killed die in time, the       *)
(* supervisor never loses sight of a living child, hence never has two       *)
(* (start() looks before it spawns: "Already running -- or still booting     *)
(* from a previous start", daemon.js:353).                                  *)
OneChild ==
  ~disturbed => \A p \in kin : Alive(p) /\ p \notin killed => child = p

(* A readiness wait that a newer start or stop has superseded does not set   *)
(* the state ("Bumped by every start/stop so a stale readiness wait cannot   *)
(* win", daemon.js:254).                                                    *)
StaleWaitNeverWins ==
  [][\A o \in Op : ready[o].pc = "probed" /\ ready[o].token # token /\ ready'[o] # ready[o]
                   /\ sup' = sup => state' = state]_vars

(* Each request is answered, once, unless the supervisor goes away: the      *)
(* abstract request life cycle.                                             *)
Lifecycle == INSTANCE RequestLifecycle
  WITH Request <- Control, Answer <- {"ok", "failed", "lost"}, outcome <- answer
ControlsAnswered == Lifecycle!Spec

(* "starting" does not last: the wait gives up, the stop ends, the script    *)
(* is killed.                                                               *)
StartingEnds == state = "starting" /\ CanStart ~> state # "starting"

(* With a status script, "running" does not outlast a dsh that is gone...     *)
RunningIsRefuted ==
  state = "running" /\ config.probe /\ ~AnyAlive ~> state # "running" \/ AnyAlive

(* ... and a dsh that is up does not stay reported as down, whoever started  *)
(* it.                                                                      *)
LiveIsNoticed ==
  sup = "serving" /\ state \in {"unknown", "stopped", "exited"} /\ config.probe /\ DshUp
    ~> sup # "serving" \/ state \in {"starting", "running"} \/ ~DshUp
===============================================================================
