--------------------------- MODULE SupervisorControl ---------------------------
(***************************************************************************)
(* "Save daemon settings" on the agent's settings card: the plugin writes  *)
(* daemon.json and starts or stops the standalone supervisor                *)
(* (plugins/dsh-gateway-agent/src/index.js, supervisor-control.js), which   *)
(* it knows by the pid that the supervisor last wrote to daemon-state.json  *)
(* (daemon.js).                                                            *)
(*                                                                         *)
(* Pids are used again; a process that is not a supervisor is a stranger.   *)
(* A service manager, where one is installed, starts the supervisor of its  *)
(* own again whenever that has exited.  There is one dsh home: a supervisor *)
(* of another one has the same command line.                               *)
(*                                                                         *)
(* Four things that the code lets happen make a save act on less than there *)
(* is; each is a mishap, and counted.  It begins before the one before it   *)
(* has answered; it reads the state file while that is half written; it     *)
(* takes a live supervisor for another process, for ps failed or took too   *)
(* long; it gives up on the supervisor it spawned, which has not written its *)
(* pid: bootstrap() awaits the status script first, and that may take longer *)
(* than the save waits.                                                    *)
(***************************************************************************)
EXTENDS Naturals, FiniteSets

CONSTANTS
  Pid, Save,
  MaxMishaps,       \* bound of mishaps
  MaxCrashes,       \* bound of supervisors that die by themselves
  MaxStrangers,     \* bound of strangers
  None

ASSUME PidsGiven == None \notin Pid /\ IsFiniteSet(Pid) /\ IsFiniteSet(Save)
ASSUME BoundsGiven == MaxMishaps \in Nat /\ MaxCrashes \in Nat /\ MaxStrangers \in Nat

VARIABLES
  service,          \* whether a service manager is installed
  managed,          \* the supervisor it started, None before it starts one (again)
  proc,             \* what each pid is
  pidFile,          \* supervisorPid in daemon-state.json
  save,             \* the saves of the card
  crashes, strangers,
  overlapping,      \* a history: the saves that began before another had answered
  mishaps           \* a history: how many mishaps there were

vars == <<service, managed, proc, pidFile, save, crashes, strangers, overlapping, mishaps>>
bounds == <<crashes, strangers>>
history == <<overlapping, mishaps>>

NoSave == [st |-> "idle", want |-> FALSE, pid |-> None, result |-> "none"]

Supervisors == {p \in Pid : proc[p] \in {"running", "exiting"}}
Alive(p) == p # None /\ proc[p] # "free"

(* isOurSupervisor(): by the command line, when ps can tell it.                 *)
AnyProcess(p) == Alive(p)   \* defect
IsOurs(p) == p \in Supervisors
Look(p) == {IsOurs(p), FALSE}

InProgress == {s \in Save : save[s].st \notin {"idle", "answered"}}

Init ==
  /\ service \in BOOLEAN /\ managed = None
  /\ proc = [p \in Pid |-> "free"]
  /\ pidFile = None
  /\ save = [s \in Save |-> NoSave]
  /\ crashes = 0 /\ strangers = 0
  /\ overlapping = {} /\ mishaps = 0
-------------------------------------------------------------------------------
To(s, st, want, p) ==
  save' = [save EXCEPT ![s] = [st |-> st, want |-> want, pid |-> p, result |-> "none"]]
Answer(s, result) ==
  save' = [save EXCEPT ![s] =
             [st |-> "answered", want |-> save[s].want, pid |-> save[s].pid, result |-> result]]

Costs(mishap) ==
  IF mishap THEN mishaps < MaxMishaps /\ mishaps' = mishaps + 1 ELSE UNCHANGED mishaps

(* spawn(), detached, unless it throws.                                        *)
Spawn(s, p) ==
  /\ proc[p] = "free"
  /\ proc' = [proc EXCEPT ![p] = "running"]
  /\ To(s, "polling", TRUE, p)

Launch(s) == (\E p \in Pid : Spawn(s, p)) \/ (Answer(s, "failed") /\ UNCHANGED proc)

(* saveDaemonConfig() and applySupervision(), up to the command line of a pid p   *)
(* that is alive; no pid is read of a half-written file.                         *)
Begins(s, p) ==
  /\ save[s].st = "idle" /\ p \in {pidFile, None}
  /\ Costs(InProgress # {} \/ p # pidFile)
  /\ overlapping' = IF InProgress = {} THEN overlapping ELSE overlapping \cup {s}
  /\ UNCHANGED <<service, managed, pidFile, bounds>>

SaveStarts(s) ==
  \E p \in Pid \cup {None} :
    /\ Begins(s, p)
    /\ IF Alive(p) THEN To(s, "identify", TRUE, p) /\ UNCHANGED proc ELSE Launch(s)

SaveStops(s) ==
  \E p \in Pid \cup {None} :
    /\ Begins(s, p) /\ UNCHANGED proc
    /\ IF Alive(p) THEN To(s, "identify", FALSE, p)
       ELSE Answer(s, "not-running")

(* startSupervisor(), with the command line.                                   *)
StartIdentified(s) ==
  /\ save[s].st = "identify" /\ save[s].want
  /\ \E ours \in Look(save[s].pid) :
       /\ Costs(IsOurs(save[s].pid) /\ ~ours)
       /\ IF ours THEN Answer(s, "already-running") /\ UNCHANGED proc ELSE Launch(s)
  /\ UNCHANGED <<service, managed, pidFile, bounds, overlapping>>

(* A poll that sees no supervisor in the state file is followed by the next one.   *)
ChildIsAlive(s) == Alive(save[s].pid)   \* defect: before it has registered
Registered(s) == pidFile # None /\ IsOurs(pidFile)

PollFinds(s) ==
  /\ save[s].st = "polling" /\ Registered(s)
  /\ Answer(s, "started")
  /\ UNCHANGED <<service, managed, proc, pidFile, bounds, history>>

(* The deadline.                                                               *)
PollGivesUp(s) ==
  /\ save[s].st = "polling" /\ Costs(save[s].pid \in Supervisors /\ ~Registered(s))
  /\ Answer(s, "failed")
  /\ UNCHANGED <<service, managed, proc, pidFile, bounds, overlapping>>

(* What a process that dies was writing is half written for good.                *)
Vanishes(p) ==
  /\ proc' = [proc EXCEPT ![p] = "free"]
  /\ pidFile' \in {pidFile, IF p \in Supervisors THEN None ELSE pidFile}

(* stopSupervisor(), with the command line: SIGTERM, handled or not (Windows, or     *)
(* before the handler is there), or the exception of kill().                      *)
StopIdentified(s) ==
  LET p == save[s].pid IN
  /\ save[s].st = "identify" /\ ~save[s].want
  /\ \E ours \in Look(p) :
       /\ Costs(IsOurs(p) /\ ~ours)
       /\ \/ ours /\ To(s, "waiting", FALSE, p) /\ Vanishes(p)
          \/ ours /\ To(s, "waiting", FALSE, p) /\ UNCHANGED pidFile
             /\ proc' = [proc EXCEPT ![p] = "exiting"]
          \/ /\ Answer(s, IF ours THEN "failed" ELSE "refused")
             /\ UNCHANGED <<proc, pidFile>>
  /\ UNCHANGED <<service, managed, bounds, overlapping>>

StopWaited(s) ==
  /\ save[s].st \in {"waiting", "killed"} /\ ~Alive(save[s].pid)
  /\ To(s, "settling", FALSE, save[s].pid)
  /\ UNCHANGED <<service, managed, proc, pidFile, bounds, history>>

(* After the deadline: SIGKILL, to the pid as it is now, which it may not reach.    *)
Kills(s) ==
  /\ save[s].st = "waiting" /\ Alive(save[s].pid)
  /\ Vanishes(save[s].pid) \/ UNCHANGED <<proc, pidFile>>
  /\ To(s, "killed", FALSE, save[s].pid)
  /\ UNCHANGED <<service, managed, bounds, history>>

StopFails(s) ==
  /\ save[s].st = "killed" /\ Alive(save[s].pid)
  /\ Answer(s, "failed")
  /\ UNCHANGED <<service, managed, proc, pidFile, bounds, history>>

(* 1.2 seconds later: whether a service manager has brought it back.             *)
Settled(s) ==
  /\ save[s].st = "settling"
  /\ \E ours \in Look(pidFile) : Answer(s, IF ours THEN "restarted" ELSE "stopped")
  /\ UNCHANGED <<service, managed, proc, pidFile, bounds, history>>
-------------------------------------------------------------------------------
(* The supervisor: bootstrap(), once its probe has answered, and every later state  *)
(* write its pid.                                                               *)
Registers(p) ==
  /\ p \in Supervisors
  /\ pidFile' = p
  /\ UNCHANGED <<service, managed, proc, save, bounds, history>>

(* shutdown() writes it too.                                                   *)
Exits(p) ==
  /\ proc[p] = "exiting"
  /\ proc' = [proc EXCEPT ![p] = "free"]
  /\ pidFile' = p
  /\ UNCHANGED <<service, managed, save, bounds, history>>

Crash(p) ==
  /\ p \in Supervisors /\ crashes < MaxCrashes
  /\ Vanishes(p)
  /\ crashes' = crashes + 1
  /\ UNCHANGED <<service, managed, save, strangers, history>>

ManagerStarts(p) ==
  /\ service /\ (managed = None \/ managed \notin Supervisors)
  /\ proc[p] = "free"
  /\ proc' = [proc EXCEPT ![p] = "running"]
  /\ managed' = p
  /\ UNCHANGED <<service, pidFile, save, bounds, history>>

StrangerStarts(p) ==
  /\ proc[p] = "free" /\ strangers < MaxStrangers
  /\ proc' = [proc EXCEPT ![p] = "stranger"]
  /\ strangers' = strangers + 1
  /\ UNCHANGED <<service, managed, pidFile, save, crashes, history>>

StrangerEnds(p) ==
  /\ proc[p] = "stranger"
  /\ proc' = [proc EXCEPT ![p] = "free"]
  /\ UNCHANGED <<service, managed, pidFile, save, bounds, history>>

SaveGoesOn(s) ==
  \/ StartIdentified(s) \/ PollFinds(s) \/ PollGivesUp(s)
  \/ StopIdentified(s) \/ StopWaited(s) \/ Kills(s) \/ StopFails(s) \/ Settled(s)

Next ==
  \/ \E s \in Save : SaveStarts(s) \/ SaveStops(s) \/ SaveGoesOn(s)
  \/ \E p \in Pid :
       \/ Registers(p) \/ Exits(p) \/ Crash(p) \/ ManagerStarts(p)
       \/ StrangerStarts(p) \/ StrangerEnds(p)

Spec == Init /\ [][Next]_vars
-------------------------------------------------------------------------------
SaveRecord ==
  [st : {"idle", "identify", "polling", "waiting", "killed", "settling", "answered"},
   want : BOOLEAN, pid : Pid \cup {None},
   result : {"none", "already-running", "started", "failed", "not-running",
             "refused", "stopped", "restarted"}]

TypeOK ==
  /\ service \in BOOLEAN /\ managed \in Pid \cup {None} /\ pidFile \in Pid \cup {None}
  /\ proc \in [Pid -> {"free", "running", "exiting", "stranger"}]
  /\ save \in [Save -> SaveRecord]
  /\ crashes \in Nat /\ strangers \in Nat
  /\ overlapping \subseteq Save /\ mishaps \in 0..MaxMishaps

(* Where no service manager starts supervisors, each one after the first takes a     *)
(* mishap of its own, of all that died, was stopped or whose pid came back: saves     *)
(* that come one after the other and see what there is never leave two               *)
(* (supervisor-control.js: "Start the supervisor unless one is already running").      *)
OneMorePerMishap == ~service => Cardinality(Supervisors) <= 1 + mishaps

(* What a save answers is so when it answers.  A supervisor said to run does; after    *)
(* a save that says there is none, or that the process is not one, there are no more    *)
(* than there were mishaps: none at all where nothing went wrong.                    *)
AnswerIsSo(s) ==
  /\ save'[s].result = "already-running" => save[s].pid \in Supervisors'
  /\ save'[s].result \in {"started", "restarted"} => pidFile' \in Supervisors'
  /\ save'[s].result \in {"stopped", "not-running", "refused"}
       => Cardinality(Supervisors') <= mishaps'
AnswersAreSo ==
  [][\A s \in Save :
       save[s].st # "answered" /\ save'[s].st = "answered" /\ ~service => AnswerIsSo(s)]_vars

(* supervisor-control.js: "the signal only goes out after the command line proves     *)
(* the process really is our supervisor entry".                                  *)
StrangersAreSpared ==
  [][\A s \in Save, p \in Pid : Kills(s) /\ save[s].pid = p => proc[p] # "stranger"]_vars

(* supervisor-control.js: "A service manager may bring it straight back, so that case *)
(* is reported ... instead of being hidden."                                    *)
RestartsAreReported ==
  [][\A p \in Pid, s \in Save :
       save[s].result = "stopped" /\ InProgress = {} => ~ManagerStarts(p)]_vars

(* supervisor-control.js: "Start the supervisor unless one is already running".  Any   *)
(* mishap is enough for a second one.                                             *)
NeverTwo == ~service => Cardinality(Supervisors) <= 1
===============================================================================
