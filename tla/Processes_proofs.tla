---------------------------- MODULE Processes_proofs ----------------------------
(***************************************************************************)
(* Theorems about the two modules in which processes of the operating       *)
(* system are started, awaited and replaced.                                *)
(*                                                                         *)
(* The settings card's control of the supervisor (SupervisorControl), for   *)
(* any pids and saves: every supervisor after the first is paid for by a     *)
(* mishap.  What a save that overlaps another may still start is owed from    *)
(* its beginning, and the sum of what is there and what is owed stays below   *)
(* the mishaps, by at least one where a save finds nothing to be there.        *)
(*                                                                         *)
(* The gateway's hot update (Updater), for any number of updates and        *)
(* checks: the refs stay in order (the process serves at most HEAD, HEAD is *)
(* at most origin's tip, which is at most the remote's) and only grow, so    *)
(* what a check has read stays a lower bound of them.                       *)
(***************************************************************************)
EXTENDS SupervisorControl, Updater, FiniteSetTheorems, TLAPS

(* Each start adds at most the supervisor it may; what a save in progress that       *)
(* overlaps another may still add is owed, and was paid for when it began.           *)
Owed == {s \in InProgress \cap overlapping : save[s].st # "polling"}
Alone == InProgress \ overlapping

Bounded == Cardinality(Supervisors) + Cardinality(Owed) <= 1 + mishaps
Covered == Cardinality(Supervisors) + Cardinality(Owed) <= mishaps

(* A start that sees nothing amiss finds what there is, or nothing to find.          *)
FileKnows ==
  \/ pidFile \in Supervisors
  \/ Covered
  \/ \E s \in Alone : save[s].st = "polling" /\ save[s].pid \in Supervisors

SaveKnows(s) ==
  /\ save[s].st \in {"identify", "waiting", "killed"} => save[s].pid \in Supervisors \/ Covered
  /\ save[s].st = "settling" => Covered

Known == Bounded /\ FileKnows /\ \A s \in Alone : SaveKnows(s)

AloneIsOne ==
  /\ \A s, t \in Alone : s = t
  /\ \A s \in overlapping : save[s].st # "idle"

Inv == TypeOK /\ AloneIsOne /\ (~service => Known)

LEMMA ToTypes ==
  ASSUME TypeOK, NEW s \in Save, NEW want \in BOOLEAN, NEW p \in Pid \cup {None},
         NEW st \in {"identify", "polling", "waiting", "killed", "settling"}, To(s, st, want, p)
  PROVE  save' \in [Save -> SaveRecord]
  <1>1. [st |-> st, want |-> want, pid |-> p, result |-> "none"] \in SaveRecord
    BY DEF SaveRecord
  <1> QED
    BY <1>1 DEF To, TypeOK

LEMMA AnswerTypes ==
  ASSUME TypeOK, NEW s \in Save,
         NEW result \in {"already-running", "started", "failed", "not-running", "refused",
                         "stopped", "restarted"},
         Answer(s, result)
  PROVE  save' \in [Save -> SaveRecord]
  <1>1. save[s].want \in BOOLEAN /\ save[s].pid \in Pid \cup {None}
    BY DEF TypeOK, SaveRecord
  <1>2. [st |-> "answered", want |-> save[s].want, pid |-> save[s].pid, result |-> result]
          \in SaveRecord
    BY <1>1 DEF SaveRecord
  <1> QED
    BY <1>2 DEF Answer, TypeOK

ProcType == proc \in [Pid -> {"free", "running", "exiting", "stranger"}]

LEMMA LaunchTypes ==
  ASSUME TypeOK, NEW s \in Save, Launch(s)
  PROVE  save' \in [Save -> SaveRecord] /\ ProcType'
  <1>1. CASE Answer(s, "failed") /\ UNCHANGED proc
    BY <1>1, AnswerTypes DEF TypeOK, ProcType
  <1>2. ASSUME NEW p \in Pid, Spawn(s, p)
        PROVE  save' \in [Save -> SaveRecord] /\ ProcType'
    BY <1>2, ToTypes DEF Spawn, TypeOK, ProcType
  <1> QED
    BY <1>1, <1>2 DEF Launch

LEMMA VanishesTypes ==
  ASSUME TypeOK, NEW p \in Pid \cup {None}, Vanishes(p)
  PROVE  ProcType' /\ pidFile' \in Pid \cup {None}
  BY DEF Vanishes, TypeOK, ProcType

LEMMA CostsTypes ==
  ASSUME TypeOK, NEW mishap \in BOOLEAN, Costs(mishap)
  PROVE  mishaps' \in 0..MaxMishaps
  BY BoundsGiven DEF Costs, TypeOK

LEMMA TypeStep ==
  ASSUME TypeOK, [Next]_vars
  PROVE  TypeOK'
  <1>0. CASE UNCHANGED vars
    BY <1>0 DEF vars, TypeOK
  <1>1. ASSUME NEW s \in Save, SaveStarts(s) \/ SaveStops(s)
        PROVE  TypeOK'
    <2>1. PICK p \in Pid \cup {None} :
            /\ Begins(s, p)
            /\ \/ To(s, "identify", TRUE, p) /\ UNCHANGED proc
               \/ To(s, "identify", FALSE, p) /\ UNCHANGED proc
               \/ Launch(s)
               \/ Answer(s, "not-running") /\ UNCHANGED proc
      BY <1>1 DEF SaveStarts, SaveStops
    <2>2. save' \in [Save -> SaveRecord] /\ ProcType'
      BY <2>1, ToTypes, LaunchTypes, AnswerTypes DEF TypeOK, ProcType
    <2>3. mishaps' \in 0..MaxMishaps /\ overlapping' \subseteq Save
      BY <2>1, CostsTypes DEF Begins, TypeOK
    <2>4. UNCHANGED <<service, managed, pidFile, bounds>>
      BY <2>1 DEF Begins
    <2> QED
      BY <2>2, <2>3, <2>4 DEF TypeOK, ProcType, bounds
  <1>2. ASSUME NEW s \in Save, StartIdentified(s) \/ PollGivesUp(s)
        PROVE  TypeOK'
    <2>1. mishaps' \in 0..MaxMishaps
      BY <1>2, CostsTypes DEF StartIdentified, PollGivesUp
    <2>2. save' \in [Save -> SaveRecord] /\ ProcType'
      BY <1>2, AnswerTypes, LaunchTypes DEF StartIdentified, PollGivesUp, TypeOK, ProcType
    <2> QED
      BY <1>2, <2>1, <2>2 DEF StartIdentified, PollGivesUp, TypeOK, ProcType, bounds
  <1>3. ASSUME NEW s \in Save, PollFinds(s) \/ StopWaited(s) \/ StopFails(s) \/ Settled(s)
        PROVE  TypeOK'
    <2>1. save[s].pid \in Pid \cup {None}
      BY DEF TypeOK, SaveRecord
    <2>2. save' \in [Save -> SaveRecord]
      BY <1>3, <2>1, AnswerTypes, ToTypes DEF PollFinds, StopWaited, StopFails, Settled
    <2> QED
      BY <1>3, <2>2 DEF PollFinds, StopWaited, StopFails, Settled, TypeOK, bounds, history
  <1>4. ASSUME NEW s \in Save, StopIdentified(s)
        PROVE  TypeOK'
    <2>1. save[s].pid \in Pid \cup {None}
      BY DEF TypeOK, SaveRecord
    <2>2. mishaps' \in 0..MaxMishaps
      BY <1>4, CostsTypes DEF StopIdentified
    <2>3. save' \in [Save -> SaveRecord]
      BY <1>4, <2>1, ToTypes, AnswerTypes DEF StopIdentified
    <2>4. ProcType' /\ pidFile' \in Pid \cup {None}
      BY <1>4, <2>1, VanishesTypes DEF StopIdentified, TypeOK, ProcType
    <2> QED
      BY <1>4, <2>2, <2>3, <2>4 DEF StopIdentified, TypeOK, ProcType, bounds
  <1>5. ASSUME NEW s \in Save, Kills(s)
        PROVE  TypeOK'
    <2>1. save[s].pid \in Pid \cup {None}
      BY DEF TypeOK, SaveRecord
    <2>3. save' \in [Save -> SaveRecord]
      BY <1>5, <2>1, ToTypes DEF Kills
    <2>4. ProcType' /\ pidFile' \in Pid \cup {None}
      BY <1>5, <2>1, VanishesTypes DEF Kills, TypeOK, ProcType
    <2> QED
      BY <1>5, <2>3, <2>4 DEF Kills, TypeOK, ProcType, bounds, history
  <1>6. ASSUME NEW p \in Pid, Crash(p)
        PROVE  TypeOK'
    BY <1>6, VanishesTypes DEF Crash, TypeOK, ProcType, history
  <1>7. ASSUME NEW p \in Pid,
               Registers(p) \/ Exits(p) \/ ManagerStarts(p) \/ StrangerStarts(p) \/ StrangerEnds(p)
        PROVE  TypeOK'
    BY <1>7 DEF Registers, Exits, ManagerStarts, StrangerStarts, StrangerEnds,
                TypeOK, bounds, history
  <1> QED
    BY <1>0, <1>1, <1>2, <1>3, <1>4, <1>5, <1>6, <1>7 DEF Next, SaveGoesOn

(* What a step of a save, and of a process, leaves alone.                         *)
LEMMA OthersWait ==
  ASSUME TypeOK, NEW s \in Save, SaveStarts(s) \/ SaveStops(s) \/ SaveGoesOn(s)
  PROVE  /\ \A t \in Save \ {s} : save'[t] = save[t]
         /\ save'[s].st # "idle" /\ service' = service
         /\ overlapping' = overlapping \/ overlapping' = overlapping \cup {s}
  <1>1. CASE SaveStarts(s) \/ SaveStops(s)
    <2>1. PICK p \in Pid \cup {None} :
            /\ Begins(s, p)
            /\ \/ To(s, "identify", TRUE, p)
               \/ To(s, "identify", FALSE, p)
               \/ Launch(s)
               \/ Answer(s, "not-running")
      BY <1>1 DEF SaveStarts, SaveStops
    <2> QED
      BY <2>1 DEF Begins, To, Launch, Spawn, Answer, TypeOK
  <1>2. CASE StartIdentified(s) \/ PollFinds(s) \/ PollGivesUp(s)
    BY <1>2 DEF StartIdentified, PollFinds, PollGivesUp, To, Launch, Spawn, Answer, TypeOK, history
  <1>3. CASE StopIdentified(s) \/ StopWaited(s) \/ Kills(s) \/ StopFails(s) \/ Settled(s)
    BY <1>3 DEF StopIdentified, StopWaited, Kills, StopFails, Settled, To, Answer, TypeOK, history
  <1> QED
    BY <1>1, <1>2, <1>3 DEF SaveGoesOn

LEMMA AloneStep ==
  ASSUME TypeOK, AloneIsOne, [Next]_vars
  PROVE  AloneIsOne'
  <1>1. ASSUME NEW s \in Save, SaveStarts(s) \/ SaveStops(s)
        PROVE  AloneIsOne'
    <2>1. IF InProgress = {} THEN overlapping' = overlapping ELSE overlapping' = overlapping \cup {s}
      BY <1>1 DEF SaveStarts, SaveStops, Begins
    <2> QED
      BY <1>1, <2>1, OthersWait DEF AloneIsOne, Alone, InProgress, TypeOK
  <1>2. ASSUME NEW s \in Save, SaveGoesOn(s)
        PROVE  AloneIsOne'
    <2>1. s \in InProgress
      BY <1>2 DEF SaveGoesOn, StartIdentified, PollFinds, PollGivesUp, StopIdentified,
                  StopWaited, Kills, StopFails, Settled, InProgress
    <2>2. overlapping' = overlapping
      BY <1>2 DEF SaveGoesOn, StartIdentified, PollFinds, PollGivesUp, StopIdentified,
                  StopWaited, Kills, StopFails, Settled, history
    <2> QED
      BY <1>2, <2>1, <2>2, OthersWait DEF AloneIsOne, Alone, InProgress, TypeOK
  <1>3. CASE UNCHANGED <<save, overlapping>>
    BY <1>3 DEF AloneIsOne, Alone, InProgress
  <1> QED
    BY <1>1, <1>2, <1>3 DEF Next, vars, history, Registers, Exits, Crash, ManagerStarts,
       StrangerStarts, StrangerEnds

(* The sums: what one save and one process add to them.                          *)
LEMMA Sets ==
  ASSUME TypeOK
  PROVE  /\ IsFiniteSet(Supervisors) /\ IsFiniteSet(Owed)
         /\ Cardinality(Supervisors) \in Nat /\ Cardinality(Owed) \in Nat
  <1>1. Supervisors \in SUBSET Pid /\ Owed \in SUBSET Save
    BY DEF Supervisors, Owed, InProgress
  <1>2. IsFiniteSet(Supervisors) /\ IsFiniteSet(Owed)
    BY <1>1, FS_Subset, PidsGiven
  <1> QED
    BY <1>2, FS_CardinalityType

LEMMA SetsNext ==
  ASSUME TypeOK'
  PROVE  /\ IsFiniteSet(Supervisors') /\ IsFiniteSet(Owed')
         /\ Cardinality(Supervisors') \in Nat /\ Cardinality(Owed') \in Nat
  <1>1. Supervisors' \in SUBSET Pid /\ Owed' \in SUBSET Save
    BY DEF Supervisors, Owed, InProgress
  <1>2. IsFiniteSet(Supervisors') /\ IsFiniteSet(Owed')
    BY <1>1, FS_Subset, PidsGiven
  <1> QED
    BY <1>2, FS_CardinalityType

LEMMA OneElement ==
  ASSUME NEW S, NEW T, NEW x, IsFiniteSet(S), IsFiniteSet(T), S \ {x} = T \ {x}
  PROVE  /\ (x \in S <=> x \in T) => Cardinality(S) = Cardinality(T)
         /\ x \in S /\ x \notin T => Cardinality(S) = Cardinality(T) + 1
         /\ x \notin S /\ x \in T => Cardinality(T) = Cardinality(S) + 1
         /\ x \in T => Cardinality(S) <= Cardinality(T)
         /\ x \notin S => Cardinality(S) <= Cardinality(T)
  <1>0. Cardinality(S) \in Nat /\ Cardinality(T) \in Nat
    BY FS_CardinalityType
  <1>1. ASSUME x \in S <=> x \in T
        PROVE  S = T
    BY <1>1
  <1>2. ASSUME x \in S, x \notin T
        PROVE  Cardinality(S) = Cardinality(T) + 1
    <2>1. S = T \cup {x}
      BY <1>2
    <2> QED
      BY <1>2, <2>1, FS_AddElement
  <1>3. ASSUME x \notin S, x \in T
        PROVE  Cardinality(T) = Cardinality(S) + 1
    <2>1. T = S \cup {x}
      BY <1>3
    <2> QED
      BY <1>3, <2>1, FS_AddElement
  <1> QED
    BY <1>0, <1>1, <1>2, <1>3

LEMMA OwedBySave ==
  ASSUME TypeOK, TypeOK', NEW s \in Save, SaveStarts(s) \/ SaveStops(s) \/ SaveGoesOn(s)
  PROVE  /\ (s \in Owed <=> s \in Owed') => Cardinality(Owed') = Cardinality(Owed)
         /\ s \in Owed /\ s \notin Owed' => Cardinality(Owed) = Cardinality(Owed') + 1
         /\ s \notin Owed /\ s \in Owed' => Cardinality(Owed') = Cardinality(Owed) + 1
         /\ s \in Owed \/ s \notin Owed' => Cardinality(Owed') <= Cardinality(Owed)
         /\ Cardinality(Owed) \in Nat /\ Cardinality(Owed') \in Nat
  <1>1. Owed' \ {s} = Owed \ {s}
    BY OthersWait DEF Owed, InProgress
  <1>2. IsFiniteSet(Owed) /\ Cardinality(Owed) \in Nat
    BY Sets
  <1>3. IsFiniteSet(Owed') /\ Cardinality(Owed') \in Nat
    BY SetsNext
  <1> QED
    BY <1>1, <1>2, <1>3, OneElement

LEMMA SupervisorsByProcess ==
  ASSUME TypeOK, TypeOK', NEW p \in Pid, \A q \in Pid \ {p} : proc'[q] = proc[q]
  PROVE  /\ (p \in Supervisors <=> p \in Supervisors')
              => Cardinality(Supervisors') = Cardinality(Supervisors) /\ Supervisors' = Supervisors
         /\ p \in Supervisors /\ p \notin Supervisors'
              => Cardinality(Supervisors) = Cardinality(Supervisors') + 1
         /\ p \notin Supervisors /\ p \in Supervisors'
              => /\ Cardinality(Supervisors') = Cardinality(Supervisors) + 1
                 /\ Supervisors \subseteq Supervisors'
         /\ Cardinality(Supervisors) \in Nat /\ Cardinality(Supervisors') \in Nat
  <1>1. Supervisors' \ {p} = Supervisors \ {p}
    BY DEF Supervisors
  <1>2. IsFiniteSet(Supervisors) /\ Cardinality(Supervisors) \in Nat
    BY Sets
  <1>3. IsFiniteSet(Supervisors') /\ Cardinality(Supervisors') \in Nat
    BY SetsNext
  <1> QED
    BY <1>1, <1>2, <1>3, OneElement

LEMMA SpawnAdds ==
  ASSUME TypeOK, TypeOK', NEW s \in Save, NEW p \in Pid, Spawn(s, p)
  PROVE  /\ Cardinality(Supervisors') = Cardinality(Supervisors) + 1
         /\ Supervisors \subseteq Supervisors' /\ p \in Supervisors'
         /\ save'[s].st = "polling" /\ save'[s].pid = p
  <1>1. /\ \A q \in Pid \ {p} : proc'[q] = proc[q]
        /\ p \notin Supervisors /\ p \in Supervisors'
        /\ save'[s].st = "polling" /\ save'[s].pid = p
    BY DEF TypeOK, Spawn, To, Supervisors
  <1> QED
    BY <1>1, SupervisorsByProcess

LEMMA SupervisorDies ==
  ASSUME TypeOK, TypeOK', NEW p \in Supervisors, proc' = [proc EXCEPT ![p] = "free"]
  PROVE  Cardinality(Supervisors) = Cardinality(Supervisors') + 1
  <1>1. /\ \A q \in Pid \ {p} : proc'[q] = proc[q]
        /\ p \in Pid /\ p \notin Supervisors'
    BY DEF TypeOK, Supervisors
  <1> QED
    BY <1>1, SupervisorsByProcess

(* Three ways to know what there is to know after a step.  Nothing is unpaid;       *)
LEMMA PaidIsKnown ==
  ASSUME TypeOK', Covered'
  PROVE  Known'
  BY SetsNext DEF TypeOK, Covered, Known, Bounded, FileKnows, SaveKnows

(* a step that has more paid than it spends;                                     *)
LEMMA DebtFalls ==
  ASSUME TypeOK, TypeOK', Bounded, mishaps' \in {mishaps, mishaps + 1},
         \/ /\ Cardinality(Supervisors) = Cardinality(Supervisors') + 1
            /\ Cardinality(Owed') <= Cardinality(Owed)
         \/ /\ Cardinality(Supervisors') = Cardinality(Supervisors)
            /\ Cardinality(Owed') <= Cardinality(Owed) /\ mishaps' = mishaps + 1
  PROVE  Known'
  <1>1. /\ Cardinality(Supervisors) \in Nat /\ Cardinality(Owed) \in Nat
        /\ mishaps \in Nat
    BY Sets DEF TypeOK
  <1>2. Cardinality(Supervisors') \in Nat /\ Cardinality(Owed') \in Nat
    BY SetsNext
  <1>3. Covered'
    BY <1>1, <1>2 DEF Bounded, Covered
  <1> QED
    BY <1>3, PaidIsKnown

(* a step that spends what is paid, and takes no supervisor away.                  *)
LEMMA DebtStays ==
  ASSUME TypeOK, TypeOK', Known, mishaps' \in {mishaps, mishaps + 1},
         NEW s, \A t \in Save \ {s} : save'[t] = save[t],
         overlapping' \ {s} = overlapping \ {s},
         Cardinality(Supervisors') + Cardinality(Owed') + mishaps
           <= Cardinality(Supervisors) + Cardinality(Owed) + mishaps',
         Supervisors \subseteq Supervisors',
         pidFile' = pidFile \/ pidFile' \in Supervisors',
         s \in Alone' => SaveKnows(s)',
         s \in Alone /\ save[s].st = "polling" /\ save[s].pid \in Supervisors => FileKnows'
  PROVE  Known'
  <1>1. /\ Cardinality(Supervisors) \in Nat /\ Cardinality(Owed) \in Nat
        /\ mishaps \in Nat
    BY Sets DEF TypeOK
  <1>2. Cardinality(Supervisors') \in Nat /\ Cardinality(Owed') \in Nat /\ mishaps' \in Nat
    <2>1. mishaps' \in Nat
      BY DEF TypeOK
    <2> QED
      BY <2>1, SetsNext
  <1>3. Bounded' /\ (Covered => Covered')
    BY <1>1, <1>2 DEF Known, Bounded, Covered
  <1>4. \A t \in Save \ {s} : (t \in Alone <=> t \in Alone') /\ save'[t] = save[t]
    BY DEF Alone, InProgress
  <1>5. FileKnows'
    <2>1. CASE pidFile \in Supervisors \/ Covered
      BY <1>3, <2>1 DEF FileKnows
    <2>2. ASSUME NEW t \in Alone, save[t].st = "polling", save[t].pid \in Supervisors
          PROVE  FileKnows'
      <3>1. CASE t = s
        BY <2>2, <3>1
      <3>2. CASE t # s
        <4>1. t \in Alone' /\ save'[t].st = "polling" /\ save'[t].pid \in Supervisors'
          BY <1>4, <2>2, <3>2 DEF Alone, InProgress
        <4> QED
          BY <4>1 DEF FileKnows
      <3> QED
        BY <3>1, <3>2
    <2> QED
      BY <2>1, <2>2 DEF Known, FileKnows
  <1>6. ASSUME NEW t \in Alone'
        PROVE  SaveKnows(t)'
    <2>1. CASE t = s
      BY <1>6, <2>1
    <2>2. CASE t # s
      <3>1. t \in Alone /\ save'[t] = save[t]
        BY <1>4, <1>6, <2>2 DEF Alone, InProgress
      <3>2. SaveKnows(t)
        BY <3>1 DEF Known
      <3> QED
        BY <1>3, <3>1, <3>2 DEF SaveKnows
    <2> QED
      BY <2>1, <2>2
  <1> QED
    BY <1>3, <1>5, <1>6 DEF Known

(* The steps of a save, one by one.                                             *)
SaveStep(s) == SaveStarts(s) \/ SaveStops(s) \/ SaveGoesOn(s)

LEMMA CostsStep ==
  ASSUME TypeOK, NEW mishap \in BOOLEAN, Costs(mishap)
  PROVE  /\ mishaps \in Nat /\ mishaps' \in {mishaps, mishaps + 1}
         /\ mishap => mishaps' = mishaps + 1
         /\ ~mishap => mishaps' = mishaps
  BY DEF Costs, TypeOK

(* A save that starts a supervisor where nothing is unpaid.                       *)
LEMMA CleanSpawn ==
  ASSUME Inv, TypeOK', NEW s \in Save, NEW p \in Pid, Spawn(s, p), SaveStep(s),
         Alone' \subseteq {s}, s \notin Owed', Covered, mishaps' = mishaps, pidFile' = pidFile,
         s \notin overlapping'
  PROVE  Known'
  <1>1. /\ Cardinality(Supervisors') = Cardinality(Supervisors) + 1
        /\ p \in Supervisors' /\ save'[s].st = "polling" /\ save'[s].pid = p
    BY SpawnAdds DEF Inv
  <1>2. Cardinality(Owed') <= Cardinality(Owed) /\ Cardinality(Owed) \in Nat /\ Cardinality(Owed') \in Nat
    BY OwedBySave DEF Inv, SaveStep
  <1>3. Cardinality(Supervisors) \in Nat /\ mishaps \in Nat
    BY Sets DEF Inv, TypeOK
  <1>4. Bounded'
    BY <1>1, <1>2, <1>3 DEF Covered, Bounded
  <1>5. s \in Alone'
    BY <1>1 DEF Alone, InProgress
  <1>6. FileKnows'
    BY <1>1, <1>5 DEF FileKnows
  <1>7. \A t \in Alone' : SaveKnows(t)'
    BY <1>1 DEF SaveKnows
  <1> QED
    BY <1>4, <1>6, <1>7 DEF Known

(* A save that starts one with a credit of its own.                              *)
LEMMA PaidSpawn ==
  ASSUME Inv, Known, TypeOK', NEW s \in Save, NEW p \in Pid, Spawn(s, p), SaveStep(s),
         pidFile' = pidFile, save[s].st # "polling",
         \/ mishaps' = mishaps + 1
         \/ mishaps' = mishaps /\ s \in Owed
  PROVE  Known'
  <1>1. /\ Cardinality(Supervisors') = Cardinality(Supervisors) + 1
        /\ Supervisors \subseteq Supervisors' /\ save'[s].st = "polling"
    BY SpawnAdds DEF Inv
  <1>2. s \notin Owed'
    BY <1>1 DEF Owed
  <1>3. /\ Cardinality(Owed') <= Cardinality(Owed)
        /\ s \in Owed => Cardinality(Owed) = Cardinality(Owed') + 1
        /\ Cardinality(Owed) \in Nat /\ Cardinality(Owed') \in Nat
    BY <1>2, OwedBySave DEF Inv, SaveStep
  <1>4. Cardinality(Supervisors) \in Nat /\ mishaps \in Nat
    BY Sets DEF Inv, TypeOK
  <1>5. Cardinality(Supervisors') + Cardinality(Owed') + mishaps
           <= Cardinality(Supervisors) + Cardinality(Owed) + mishaps'
    BY <1>1, <1>3, <1>4
  <1>6. /\ \A t \in Save \ {s} : save'[t] = save[t]
        /\ overlapping' \ {s} = overlapping \ {s}
    BY OthersWait DEF Inv, SaveStep
  <1>7. SaveKnows(s)'
    BY <1>1 DEF SaveKnows
  <1>8. mishaps' \in {mishaps, mishaps + 1}
    OBVIOUS
  <1>9. TypeOK
    BY DEF Inv
  <1> QED
    BY <1>1, <1>5, <1>6, <1>7, <1>8, <1>9, DebtStays

(* A save that starts none and stops none, with what it knows.                    *)
LEMMA QuietStep ==
  ASSUME Inv, Known, TypeOK', NEW s \in Save, SaveStep(s), Supervisors' = Supervisors,
         pidFile' = pidFile, mishaps' \in {mishaps, mishaps + 1},
         s \in Owed \/ s \notin Owed' \/ mishaps' = mishaps + 1,
         s \in Alone' => SaveKnows(s)',
         s \in Alone /\ save[s].st = "polling" /\ save[s].pid \in Supervisors => FileKnows'
  PROVE  Known'
  <1>1. /\ s \in Owed \/ s \notin Owed' => Cardinality(Owed') <= Cardinality(Owed)
        /\ s \notin Owed /\ s \in Owed' => Cardinality(Owed') = Cardinality(Owed) + 1
        /\ Cardinality(Owed) \in Nat /\ Cardinality(Owed') \in Nat
    BY OwedBySave DEF Inv, SaveStep
  <1>2. Cardinality(Supervisors) \in Nat /\ mishaps \in Nat
    BY Sets DEF Inv, TypeOK
  <1>3. Cardinality(Supervisors') + Cardinality(Owed') + mishaps
           <= Cardinality(Supervisors) + Cardinality(Owed) + mishaps'
    BY <1>1, <1>2
  <1>4. /\ \A t \in Save \ {s} : save'[t] = save[t]
        /\ overlapping' \ {s} = overlapping \ {s}
    BY OthersWait DEF Inv, SaveStep
  <1>5. TypeOK
    BY DEF Inv
  <1> QED
    BY <1>3, <1>4, <1>5, DebtStays

(* A step that stops one.                                                      *)
LEMMA DeathStep ==
  ASSUME Inv, Known, TypeOK', NEW p \in Supervisors, proc' = [proc EXCEPT ![p] = "free"],
         mishaps' = mishaps,
         \/ UNCHANGED <<save, overlapping>>
         \/ \E s \in Save : SaveStep(s) /\ (s \in Owed \/ s \notin Owed')
  PROVE  Known'
  <1>1. Cardinality(Supervisors) = Cardinality(Supervisors') + 1
    BY SupervisorDies DEF Inv
  <1>2. Cardinality(Owed') <= Cardinality(Owed)
    <2>1. CASE UNCHANGED <<save, overlapping>>
      <3>1. Owed' = Owed
        BY <2>1 DEF Owed, InProgress
      <3> QED
        BY <3>1, Sets DEF Inv
    <2>2. CASE \E s \in Save : SaveStep(s) /\ (s \in Owed \/ s \notin Owed')
      BY <2>2, OwedBySave DEF Inv, SaveStep
    <2> QED
      BY <2>1, <2>2
  <1>3. TypeOK /\ Bounded
    BY DEF Inv, Known
  <1> QED
    BY <1>1, <1>2, <1>3, DebtFalls

(* No save that begins alone finds another under way.                            *)
LEMMA BeginsKeep ==
  ASSUME Inv, ~service, TypeOK', AloneIsOne', NEW s \in Save, SaveStarts(s) \/ SaveStops(s)
  PROVE  Known'
  <1>0. TypeOK /\ Known /\ SaveStep(s)
    BY DEF Inv, SaveStep
  <1>1. PICK p \in Pid \cup {None} :
          /\ Begins(s, p)
          /\ \/ Alive(p) /\ To(s, "identify", TRUE, p) /\ UNCHANGED proc
             \/ Alive(p) /\ To(s, "identify", FALSE, p) /\ UNCHANGED proc
             \/ ~Alive(p) /\ Answer(s, "failed") /\ UNCHANGED proc
             \/ ~Alive(p) /\ Answer(s, "not-running") /\ UNCHANGED proc
             \/ ~Alive(p) /\ \E q \in Pid : Spawn(s, q)
    BY DEF SaveStarts, SaveStops, Launch
  <1>2. /\ save[s].st = "idle" /\ s \notin overlapping /\ s \notin Owed /\ s \notin Alone
        /\ p \in {pidFile, None} /\ pidFile' = pidFile
        /\ InProgress = {} => overlapping' = overlapping
        /\ InProgress # {} => s \in overlapping'
    BY <1>1 DEF Begins, Owed, InProgress, Inv, AloneIsOne, Alone
  <1>3. /\ mishaps' \in {mishaps, mishaps + 1}
        /\ InProgress # {} \/ p # pidFile => mishaps' = mishaps + 1
        /\ InProgress = {} /\ p = pidFile => mishaps' = mishaps
    <2>1. Costs(InProgress # {} \/ p # pidFile)
      BY <1>1 DEF Begins
    <2> QED
      BY <2>1, <1>0, CostsStep
  <1>4. InProgress = {} => pidFile \in Supervisors \/ Covered
    BY <1>0 DEF Known, FileKnows, Alone
  <1>5. CASE Alive(p) /\ (To(s, "identify", TRUE, p) \/ To(s, "identify", FALSE, p)) /\ UNCHANGED proc
    <2>1. /\ save'[s].st = "identify" /\ save'[s].pid = p /\ p = pidFile /\ Supervisors' = Supervisors
      BY <1>0, <1>2, <1>5 DEF To, TypeOK, Alive, Supervisors
    <2>2. s \in Owed' => mishaps' = mishaps + 1
      BY <1>2, <1>3 DEF Owed
    <2>3. ASSUME s \in Alone'
          PROVE  SaveKnows(s)'
      <3>1. InProgress = {} /\ mishaps' = mishaps
        BY <1>2, <1>3, <2>1, <2>3 DEF Alone
      <3>2. Owed = {} /\ Owed' = {}
        BY <1>0, <1>2, <3>1, OthersWait DEF Owed, InProgress, SaveStep
      <3>3. Covered => Covered'
        BY <2>1, <3>1, <3>2 DEF Covered
      <3> QED
        BY <1>4, <2>1, <3>1, <3>3 DEF SaveKnows
    <2> QED
      BY <1>0, <1>2, <1>3, <2>1, <2>2, <2>3, QuietStep
  <1>6. CASE ~Alive(p) /\ (Answer(s, "failed") \/ Answer(s, "not-running")) /\ UNCHANGED proc
    <2>1. save'[s].st = "answered" /\ Supervisors' = Supervisors
      BY <1>0, <1>6 DEF Answer, TypeOK, Supervisors
    <2>2. s \notin Owed' /\ s \notin Alone'
      BY <2>1 DEF Owed, Alone, InProgress
    <2> QED
      BY <1>0, <1>2, <1>3, <2>1, <2>2, QuietStep
  <1>7. ASSUME NEW q \in Pid, ~Alive(p), Spawn(s, q)
        PROVE  Known'
    <2>1. CASE mishaps' = mishaps + 1
      BY <1>0, <1>2, <1>7, <2>1, PaidSpawn
    <2>2. CASE mishaps' # mishaps + 1
      <3>1. InProgress = {} /\ p = pidFile /\ mishaps' = mishaps
        BY <1>3, <2>2
      <3>2. pidFile \notin Supervisors
        BY <1>7, <3>1, PidsGiven DEF Alive, Supervisors
      <3>3. Covered
        BY <1>4, <3>1, <3>2
      <3>4. save'[s].st = "polling" /\ s \notin Owed' /\ s \notin overlapping'
        BY <1>0, <1>2, <1>7, <3>1, SpawnAdds DEF Owed
      <3>5. Alone' \subseteq {s}
        BY <1>0, <3>1, OthersWait DEF Alone, InProgress, SaveStep
      <3> QED
        BY <1>0, <1>2, <1>7, <3>1, <3>3, <3>4, <3>5, CleanSpawn
    <2> QED
      BY <2>1, <2>2
  <1> QED
    BY <1>1, <1>5, <1>6, <1>7

(* A start that has looked: it knows what it answers, or spawns.                  *)
LEMMA StartKeeps ==
  ASSUME Inv, ~service, TypeOK', AloneIsOne', NEW s \in Save, StartIdentified(s)
  PROVE  Known'
  <1>0. TypeOK /\ Known /\ SaveStep(s)
    BY DEF Inv, SaveStep, SaveGoesOn
  <1>1. PICK ours \in BOOLEAN :
          /\ ours => IsOurs(save[s].pid)
          /\ Costs(IsOurs(save[s].pid) /\ ~ours)
          /\ \/ ours /\ Answer(s, "already-running") /\ UNCHANGED proc
             \/ ~ours /\ Answer(s, "failed") /\ UNCHANGED proc
             \/ ~ours /\ \E q \in Pid : Spawn(s, q)
    BY DEF StartIdentified, Look, Launch, IsOurs
  <1>2. /\ save[s].st = "identify" /\ s \in InProgress /\ pidFile' = pidFile
        /\ overlapping' = overlapping
    BY DEF StartIdentified, InProgress
  <1>3. /\ mishaps' \in {mishaps, mishaps + 1}
        /\ IsOurs(save[s].pid) /\ ~ours => mishaps' = mishaps + 1
    BY <1>0, <1>1, CostsStep
  <1>4. CASE (Answer(s, "already-running") \/ Answer(s, "failed")) /\ UNCHANGED proc
    <2>1. save'[s].st = "answered" /\ Supervisors' = Supervisors
      BY <1>0, <1>4 DEF Answer, TypeOK, Supervisors
    <2>2. s \notin Owed' /\ s \notin Alone'
      BY <2>1 DEF Owed, Alone, InProgress
    <2> QED
      BY <1>0, <1>2, <1>3, <2>1, <2>2, QuietStep
  <1>5. ASSUME NEW q \in Pid, ~ours, Spawn(s, q)
        PROVE  Known'
    <2>1. CASE mishaps' = mishaps + 1
      BY <1>0, <1>2, <1>5, <2>1, PaidSpawn
    <2>2. CASE s \in overlapping
      <3>1. s \in Owed
        BY <1>2, <2>2 DEF Owed
      <3> QED
        BY <1>0, <1>2, <1>3, <1>5, <3>1, PaidSpawn
    <2>3. CASE mishaps' # mishaps + 1 /\ s \notin overlapping
      <3>1. s \in Alone /\ mishaps' = mishaps /\ ~IsOurs(save[s].pid)
        BY <1>2, <1>3, <1>5, <2>3 DEF Alone
      <3>2. Covered
        BY <1>0, <1>2, <3>1 DEF Known, SaveKnows, IsOurs
      <3>3. save'[s].st = "polling" /\ s \notin Owed' /\ s \notin overlapping'
        BY <1>0, <1>2, <1>5, <2>3, SpawnAdds DEF Owed
      <3>4. Alone' \subseteq {s}
        <4>1. s \in Alone'
          BY <3>3 DEF Alone, InProgress
        <4> QED
          BY <4>1 DEF AloneIsOne
      <3> QED
        BY <1>0, <1>2, <1>5, <3>1, <3>2, <3>3, <3>4, CleanSpawn
    <2> QED
      BY <2>1, <2>2, <2>3
  <1> QED
    BY <1>1, <1>4, <1>5

LEMMA PollKeeps ==
  ASSUME Inv, ~service, TypeOK', NEW s \in Save, PollFinds(s) \/ PollGivesUp(s)
  PROVE  Known'
  <1>0. TypeOK /\ Known /\ SaveStep(s)
    BY DEF Inv, SaveStep, SaveGoesOn
  <1>1. /\ save'[s].st = "answered" /\ Supervisors' = Supervisors /\ pidFile' = pidFile
        /\ save[s].st = "polling"
    BY <1>0 DEF PollFinds, PollGivesUp, Answer, TypeOK, Supervisors
  <1>2. s \notin Owed' /\ s \notin Alone' /\ s \notin Owed
    BY <1>1 DEF Owed, Alone, InProgress
  <1>3. CASE pidFile \in Supervisors
    <2>1. FileKnows'
      BY <1>1, <1>3 DEF FileKnows
    <2>2. mishaps' \in {mishaps, mishaps + 1}
      <3>1. CASE PollFinds(s)
        BY <3>1 DEF PollFinds, history
      <3>2. CASE PollGivesUp(s)
        BY <1>0, <3>2, CostsStep DEF PollGivesUp
      <3> QED
        BY <3>1, <3>2
    <2> QED
      BY <1>0, <1>1, <1>2, <2>1, <2>2, QuietStep
  <1>4. CASE pidFile \notin Supervisors
    <2>1. PollGivesUp(s) /\ ~Registered(s)
      BY <1>4 DEF PollFinds, Registered, IsOurs
    <2>2. Costs(save[s].pid \in Supervisors)
      BY <2>1 DEF PollGivesUp, Costs
    <2>3. /\ mishaps' \in {mishaps, mishaps + 1}
          /\ save[s].pid \in Supervisors => mishaps' = mishaps + 1
      BY <2>2 DEF Costs
    <2>4. CASE save[s].pid \in Supervisors
      <3>1. Cardinality(Owed') <= Cardinality(Owed)
        BY <1>0, <1>2, OwedBySave DEF SaveStep
      <3> QED
        BY <1>0, <1>1, <2>3, <2>4, <3>1, DebtFalls DEF Known
    <2>5. CASE save[s].pid \notin Supervisors
      BY <1>0, <1>1, <1>2, <2>3, <2>5, QuietStep
    <2> QED
      BY <2>4, <2>5
  <1> QED
    BY <1>3, <1>4

(* A stop: what it has asked to end is a supervisor, or was the last one unpaid.    *)
LEMMA StopKeeps ==
  ASSUME Inv, ~service, TypeOK', NEW s \in Save,
         StopIdentified(s) \/ StopWaited(s) \/ Kills(s) \/ StopFails(s) \/ Settled(s)
  PROVE  Known'
  <1>0. TypeOK /\ Known /\ SaveStep(s)
    BY DEF Inv, SaveStep, SaveGoesOn
  <1>1. /\ save[s].st \in {"identify", "waiting", "killed", "settling"} /\ s \in InProgress
        /\ overlapping' = overlapping /\ (s \in overlapping => s \in Owed)
        /\ save[s].pid \in Pid \cup {None}
    BY <1>0 DEF StopIdentified, StopWaited, Kills, StopFails, Settled, history, InProgress, Owed,
       TypeOK, SaveRecord
  <1>2. s \in Owed \/ s \notin Owed'
    BY <1>1 DEF Owed
  <1>3. s \notin overlapping => SaveKnows(s)
    BY <1>0, <1>1 DEF Known, Alone
  <1>4. ASSUME Supervisors' = Supervisors, pidFile' = pidFile,
               mishaps' \in {mishaps, mishaps + 1}, s \notin overlapping => s \notin Alone' \/ SaveKnows(s)'
        PROVE  Known'
    <2>1. s \in Alone' => SaveKnows(s)'
      BY <1>1, <1>4 DEF Alone
    <2>2. save[s].st # "polling"
      BY <1>1
    <2> QED
      BY <1>0, <1>2, <1>4, <2>1, <2>2, QuietStep
  <1>5. ASSUME s \notin overlapping, Supervisors' = Supervisors, mishaps' = mishaps, Covered
        PROVE  Covered'
    <2>1. Cardinality(Owed') <= Cardinality(Owed)
      BY <1>0, <1>2, OwedBySave DEF SaveStep
    <2>2. Cardinality(Owed') \in Nat /\ Cardinality(Owed) \in Nat /\ Cardinality(Supervisors) \in Nat
          /\ mishaps \in Nat
      BY <1>0, Sets, SetsNext DEF TypeOK
    <2> QED
      BY <1>5, <2>1, <2>2 DEF Covered
  <1>6. CASE StopIdentified(s)
    <2>1. PICK ours \in BOOLEAN :
            /\ ours => save[s].pid \in Supervisors
            /\ Costs(IsOurs(save[s].pid) /\ ~ours)
            /\ \/ ours /\ To(s, "waiting", FALSE, save[s].pid) /\ Vanishes(save[s].pid)
               \/ /\ ours /\ To(s, "waiting", FALSE, save[s].pid) /\ UNCHANGED pidFile
                  /\ proc' = [proc EXCEPT ![save[s].pid] = "exiting"]
               \/ /\ Answer(s, "failed") \/ Answer(s, "refused")
                  /\ UNCHANGED <<proc, pidFile>>
      BY <1>6 DEF StopIdentified, Look, IsOurs
    <2>2. mishaps' \in {mishaps, mishaps + 1} /\ (ours => mishaps' = mishaps)
      BY <1>0, <2>1, CostsStep
    <2>3. CASE ours /\ To(s, "waiting", FALSE, save[s].pid) /\ Vanishes(save[s].pid)
      <3>1. save[s].pid \in Supervisors /\ proc' = [proc EXCEPT ![save[s].pid] = "free"]
        BY <2>1, <2>3 DEF Vanishes
      <3> QED
        BY <1>0, <1>2, <2>2, <2>3, <3>1, DeathStep
    <2>4. CASE /\ ours /\ To(s, "waiting", FALSE, save[s].pid) /\ UNCHANGED pidFile
               /\ proc' = [proc EXCEPT ![save[s].pid] = "exiting"]
      <3>1. Supervisors' = Supervisors /\ save[s].pid \in Supervisors
        BY <1>0, <2>1, <2>4 DEF Supervisors, TypeOK
      <3>2. save'[s].st = "waiting" /\ save'[s].pid = save[s].pid
        BY <1>0, <2>4 DEF To, TypeOK
      <3> QED
        BY <1>4, <2>2, <2>4, <3>1, <3>2 DEF SaveKnows
    <2>5. CASE (Answer(s, "failed") \/ Answer(s, "refused")) /\ UNCHANGED <<proc, pidFile>>
      <3>1. save'[s].st = "answered" /\ Supervisors' = Supervisors
        BY <1>0, <2>5 DEF Answer, TypeOK, Supervisors
      <3> QED
        BY <1>4, <2>2, <2>5, <3>1 DEF SaveKnows
    <2> QED
      BY <2>1, <2>3, <2>4, <2>5
  <1>7. CASE StopWaited(s)
    <2>1. /\ save'[s].st = "settling" /\ Supervisors' = Supervisors /\ pidFile' = pidFile
          /\ mishaps' = mishaps /\ save[s].st \in {"waiting", "killed"}
      BY <1>0, <1>7 DEF StopWaited, To, TypeOK, Supervisors, history
    <2>2. save[s].pid \notin Supervisors
      BY <1>7, PidsGiven DEF StopWaited, Alive, Supervisors
    <2>3. s \notin overlapping => Covered'
      BY <1>3, <1>5, <2>1, <2>2 DEF SaveKnows
    <2> QED
      BY <1>4, <2>1, <2>3 DEF SaveKnows
  <1>8. CASE Kills(s)
    <2>1. /\ save'[s].st = "killed" /\ save'[s].pid = save[s].pid /\ mishaps' = mishaps
          /\ save[s].st = "waiting" /\ save[s].pid \in Pid
      BY <1>0, <1>1, <1>8 DEF Kills, To, TypeOK, history, Alive
    <2>2. CASE Vanishes(save[s].pid) /\ save[s].pid \in Supervisors
      <3>1. proc' = [proc EXCEPT ![save[s].pid] = "free"]
        BY <2>2 DEF Vanishes
      <3> QED
        BY <1>0, <1>2, <2>1, <2>2, <3>1, DeathStep
    <2>3. CASE Vanishes(save[s].pid) /\ save[s].pid \notin Supervisors
      <3>1. Supervisors' = Supervisors /\ pidFile' = pidFile
        BY <1>0, <2>1, <2>3 DEF Vanishes, Supervisors, TypeOK
      <3>2. s \notin overlapping => Covered'
        BY <1>3, <1>5, <2>1, <2>3, <3>1 DEF SaveKnows
      <3> QED
        BY <1>4, <2>1, <3>1, <3>2 DEF SaveKnows
    <2>4. CASE UNCHANGED <<proc, pidFile>>
      <3>1. Supervisors' = Supervisors
        BY <2>4 DEF Supervisors
      <3>2. s \notin overlapping => save'[s].pid \in Supervisors' \/ Covered'
        BY <1>3, <1>5, <2>1, <3>1 DEF SaveKnows
      <3> QED
        BY <1>4, <2>1, <2>4, <3>1, <3>2 DEF SaveKnows
    <2> QED
      BY <1>8, <2>2, <2>3, <2>4 DEF Kills
  <1>9. CASE StopFails(s) \/ Settled(s)
    <2>1. /\ save'[s].st = "answered" /\ Supervisors' = Supervisors /\ pidFile' = pidFile
          /\ mishaps' = mishaps
      BY <1>0, <1>9 DEF StopFails, Settled, Answer, TypeOK, Supervisors, history
    <2> QED
      BY <1>4, <2>1 DEF SaveKnows
  <1> QED
    BY <1>6, <1>7, <1>8, <1>9

(* The steps of processes.                                                     *)
LEMMA ProcessesKeep ==
  ASSUME Inv, ~service, TypeOK', NEW p \in Pid,
         Registers(p) \/ Exits(p) \/ Crash(p) \/ StrangerStarts(p) \/ StrangerEnds(p)
  PROVE  Known'
  <1>0. TypeOK /\ Known
    BY DEF Inv
  <1>1. UNCHANGED <<save, overlapping, mishaps>>
    BY DEF Registers, Exits, Crash, StrangerStarts, StrangerEnds, history
  <1>2. CASE Exits(p) \/ Crash(p)
    <2>1. p \in Supervisors /\ proc' = [proc EXCEPT ![p] = "free"]
      BY <1>2 DEF Exits, Crash, Vanishes, Supervisors
    <2> QED
      BY <1>0, <1>1, <2>1, DeathStep
  <1>3. CASE Registers(p) \/ StrangerStarts(p) \/ StrangerEnds(p)
    <2>1. Supervisors' = Supervisors /\ (pidFile' = pidFile \/ pidFile' \in Supervisors')
      BY <1>0, <1>3 DEF Registers, StrangerStarts, StrangerEnds, Supervisors, TypeOK
    <2>2. Owed' = Owed /\ Alone' = Alone
      BY <1>1 DEF Owed, Alone, InProgress
    <2>3. Bounded' /\ (Covered <=> Covered')
      BY <1>0, <1>1, <2>1, <2>2 DEF Known, Bounded, Covered
    <2>4. FileKnows'
      BY <1>0, <1>1, <2>1, <2>2, <2>3 DEF Known, FileKnows
    <2>5. \A s \in Alone' : SaveKnows(s)'
      BY <1>0, <1>1, <2>1, <2>2, <2>3 DEF Known, SaveKnows
    <2> QED
      BY <2>3, <2>4, <2>5 DEF Known
  <1> QED
    BY <1>2, <1>3

LEMMA InvStart == Init => Inv
  <1> SUFFICES ASSUME Init PROVE Inv
    OBVIOUS
  <1>1. TypeOK
    BY BoundsGiven DEF Init, TypeOK, NoSave, SaveRecord
  <1>2. Supervisors = {} /\ Owed = {} /\ Alone = {} /\ InProgress = {}
    BY DEF Init, Supervisors, Owed, Alone, InProgress, NoSave
  <1>3. Cardinality({}) = 0
    BY FS_EmptySet
  <1>4. Known
    BY <1>2, <1>3 DEF Init, Known, Bounded, Covered, FileKnows
  <1> QED
    BY <1>1, <1>2, <1>4 DEF Inv, AloneIsOne, Init

LEMMA InvStep ==
  ASSUME Inv, [Next]_vars
  PROVE  Inv'
  <1>1. TypeOK' /\ AloneIsOne'
    BY TypeStep, AloneStep DEF Inv
  <1>2. service' = service
    <2>1. ASSUME NEW s \in Save, SaveStarts(s) \/ SaveStops(s) \/ SaveGoesOn(s)
          PROVE  service' = service
      BY <2>1, OthersWait DEF Inv
    <2> QED
      BY <2>1 DEF Next, vars, Registers, Exits, Crash, ManagerStarts, StrangerStarts, StrangerEnds
  <1>3. ASSUME ~service
        PROVE  Known'
    <2>1. CASE UNCHANGED vars
      BY <1>3, <2>1 DEF Inv, vars, Known, Bounded, Covered, FileKnows, SaveKnows, Supervisors,
         Owed, Alone, InProgress
    <2>2. ASSUME NEW s \in Save, SaveStarts(s) \/ SaveStops(s) \/ SaveGoesOn(s)
          PROVE  Known'
      BY <1>1, <1>3, <2>2, BeginsKeep, StartKeeps, PollKeeps, StopKeeps DEF SaveGoesOn
    <2>3. ASSUME NEW p \in Pid,
                 Registers(p) \/ Exits(p) \/ Crash(p) \/ StrangerStarts(p) \/ StrangerEnds(p)
          PROVE  Known'
      BY <1>1, <1>3, <2>3, ProcessesKeep
    <2>4. \A p \in Pid : ~ManagerStarts(p)
      BY <1>3 DEF ManagerStarts
    <2> QED
      BY <2>1, <2>2, <2>3, <2>4 DEF Next
  <1> QED
    BY <1>1, <1>2, <1>3 DEF Inv

(* A supervisor after the first takes a mishap, for any number of pids, saves,        *)
(* crashes and strangers.                                                       *)
THEOREM NoUnpaidSupervisor == Spec => []OneMorePerMishap
  <1>1. Inv => OneMorePerMishap
    <2> SUFFICES ASSUME Inv, ~service PROVE Cardinality(Supervisors) <= 1 + mishaps
      BY DEF OneMorePerMishap
    <2>1. Bounded /\ Cardinality(Supervisors) \in Nat /\ Cardinality(Owed) \in Nat /\ mishaps \in Nat
      BY Sets DEF Inv, Known, TypeOK
    <2> QED
      BY <2>1 DEF Bounded
  <1> QED
    BY <1>1, InvStart, InvStep, PTL DEF Spec

(* A save that says there is no supervisor, or none of ours.                       *)
LEMMA NoneUnpaid ==
  ASSUME Inv, ~service, NEW s \in Save, Supervisors' = Supervisors,
         \/ mishaps' = mishaps + 1
         \/ mishaps' = mishaps /\ Covered
         \/ mishaps' = mishaps /\ s \in Owed
  PROVE  Cardinality(Supervisors') <= mishaps'
  <1>1. /\ Bounded /\ Cardinality(Supervisors) \in Nat /\ Cardinality(Owed) \in Nat
        /\ mishaps \in Nat /\ IsFiniteSet(Owed)
    BY Sets DEF Inv, Known, TypeOK
  <1>2. s \in Owed => Cardinality(Owed) # 0
    BY <1>1, FS_EmptySet
  <1> QED
    BY <1>1, <1>2 DEF Bounded, Covered

LEMMA AnswersStep ==
  ASSUME Inv, ~service, [Next]_vars, NEW s \in Save,
         save[s].st # "answered", save'[s].st = "answered"
  PROVE  AnswerIsSo(s)
  <1>0. TypeOK /\ Known
    BY DEF Inv
  <1>1. SaveStep(s)
    <2>1. ASSUME NEW t \in Save, SaveStarts(t) \/ SaveStops(t) \/ SaveGoesOn(t)
          PROVE  t = s
      BY <1>0, <2>1, OthersWait
    <2> QED
      BY <2>1 DEF Next, vars, Registers, Exits, Crash, ManagerStarts, StrangerStarts, StrangerEnds,
         SaveStep
  <1>2. s \in overlapping /\ save[s].st \in {"identify", "settling"} => s \in Owed
    BY DEF Owed, InProgress
  <1>3. s \notin overlapping /\ save[s].st \in {"identify", "settling"} => SaveKnows(s)
    BY <1>0 DEF Known, Alone, InProgress
  <1>4. CASE SaveStarts(s) \/ SaveStops(s)
    <2>1. PICK p \in Pid \cup {None} :
            /\ Begins(s, p)
            /\ \/ ~Alive(p) /\ Answer(s, "failed")
               \/ ~Alive(p) /\ Answer(s, "not-running") /\ UNCHANGED proc
      BY <1>0, <1>4 DEF SaveStarts, SaveStops, Launch, Spawn, To, TypeOK
    <2>2. CASE Answer(s, "failed")
      BY <1>0, <2>2 DEF Answer, TypeOK, AnswerIsSo
    <2>3. CASE Answer(s, "not-running") /\ UNCHANGED proc
      <3>1. save'[s].result = "not-running" /\ Supervisors' = Supervisors
        BY <1>0, <2>3 DEF Answer, TypeOK, Supervisors
      <3>2. /\ p \in {pidFile, None}
            /\ Costs(InProgress # {} \/ p # pidFile)
        BY <2>1 DEF Begins
      <3>3. mishaps' = mishaps + 1 \/ (mishaps' = mishaps /\ InProgress = {} /\ p = pidFile)
        BY <1>0, <3>2, CostsStep
      <3>4. InProgress = {} /\ p = pidFile => Covered
        <4>1. p \notin Supervisors
          BY <2>1, <2>3, <1>0, PidsGiven DEF Alive, Supervisors, Answer, TypeOK
        <4> QED
          BY <1>0, <4>1 DEF Known, FileKnows, Alone
      <3>5. Cardinality(Supervisors') <= mishaps'
        BY <3>1, <3>3, <3>4, NoneUnpaid
      <3> QED
        BY <3>1, <3>5 DEF AnswerIsSo
    <2> QED
      BY <2>1, <2>2, <2>3
  <1>5. CASE StartIdentified(s)
    <2>1. \/ Answer(s, "already-running") /\ UNCHANGED proc /\ IsOurs(save[s].pid)
          \/ Launch(s)
      BY <1>5 DEF StartIdentified, Look
    <2>2. Launch(s) => Answer(s, "failed")
      BY <1>0 DEF Launch, Spawn, To, TypeOK
    <2> QED
      BY <1>0, <2>1, <2>2 DEF Answer, TypeOK, AnswerIsSo, IsOurs, Supervisors
  <1>6. CASE PollFinds(s) \/ PollGivesUp(s)
    <2>1. \/ Answer(s, "started") /\ UNCHANGED <<proc, pidFile>> /\ pidFile \in Supervisors
          \/ Answer(s, "failed")
      BY <1>6 DEF PollFinds, PollGivesUp, Registered, IsOurs
    <2> QED
      BY <1>0, <2>1 DEF Answer, TypeOK, AnswerIsSo, Supervisors
  <1>7. CASE StopIdentified(s)
    <2>1. \/ Answer(s, "failed")
          \/ /\ Answer(s, "refused") /\ UNCHANGED proc
             /\ Costs(IsOurs(save[s].pid))
      BY <1>0, <1>7 DEF StopIdentified, Look, IsOurs, To, TypeOK, Costs
    <2>2. CASE Answer(s, "failed")
      BY <1>0, <2>2 DEF Answer, TypeOK, AnswerIsSo
    <2>3. CASE Answer(s, "refused") /\ UNCHANGED proc /\ Costs(IsOurs(save[s].pid))
      <3>1. save'[s].result = "refused" /\ Supervisors' = Supervisors /\ save[s].st = "identify"
        BY <1>0, <1>7, <2>3 DEF Answer, TypeOK, Supervisors, StopIdentified
      <3>2. mishaps' = mishaps + 1 \/ (mishaps' = mishaps /\ save[s].pid \notin Supervisors)
        BY <2>3 DEF Costs, IsOurs
      <3>3. Cardinality(Supervisors') <= mishaps'
        BY <1>2, <1>3, <3>1, <3>2, NoneUnpaid DEF SaveKnows
      <3> QED
        BY <3>1, <3>3 DEF AnswerIsSo
    <2> QED
      BY <2>1, <2>2, <2>3
  <1>8. CASE StopWaited(s) \/ Kills(s)
    BY <1>0, <1>8 DEF StopWaited, Kills, To, TypeOK
  <1>9. CASE StopFails(s)
    BY <1>0, <1>9 DEF StopFails, Answer, TypeOK, AnswerIsSo
  <1>10. CASE Settled(s)
    <2>0. \/ Answer(s, "restarted") /\ pidFile \in Supervisors
          \/ Answer(s, "stopped")
      BY <1>10 DEF Settled, Look, IsOurs
    <2>1. /\ Supervisors' = Supervisors /\ mishaps' = mishaps /\ pidFile' = pidFile
          /\ save[s].st = "settling"
          /\ save'[s].result \in {"restarted", "stopped"}
          /\ save'[s].result = "restarted" => pidFile \in Supervisors
      BY <1>0, <1>10, <2>0 DEF Settled, Answer, TypeOK, Supervisors, history
    <2>2. Cardinality(Supervisors') <= mishaps'
      BY <1>2, <1>3, <2>1, NoneUnpaid DEF SaveKnows
    <2> QED
      BY <2>1, <2>2 DEF AnswerIsSo
  <1> QED
    BY <1>1, <1>4, <1>5, <1>6, <1>7, <1>8, <1>9, <1>10 DEF SaveStep, SaveGoesOn

(* What a save answers is so when it answers, but for one supervisor per mishap.     *)
THEOREM AnswersAreTrue == Spec => AnswersAreSo
  <1>1. Inv /\ [Next]_vars =>
          [\A s \in Save :
             save[s].st # "answered" /\ save'[s].st = "answered" /\ ~service => AnswerIsSo(s)]_vars
    BY AnswersStep
  <1> QED
    BY <1>1, InvStart, InvStep, PTL DEF Spec, AnswersAreSo
--------------------------------------------------------------------------------
(* The hot update.                                                           *)

Ordered == loaded <= head /\ head <= origin /\ origin <= remote

(* What a check has read, while it runs: every ref only grows.                *)
ReadsHold(c) ==
  check[c].own =>
    /\ check[c].pc \in UnderWay =>
         /\ check[c].asked <= remote
         /\ check[c].head # NoCommit =>
              check[c].head <= head /\ (~check[c].shared => check[c].head = head)
    /\ check[c].pc \in {"fetched", "counted"} => check[c].asked <= origin
    /\ check[c].pc = "counted" /\ check[c].head # NoCommit =>
         /\ check[c].head + check[c].behind <= origin
         /\ ~check[c].shared /\ check[c].counted => check[c].head + check[c].behind = origin

ReportHolds(c) ==
  check[c].pc = "ok" /\ check[c].own /\ check[c].tip # NoCommit =>
    /\ check[c].tip >= check[c].asked
    /\ check[c].head # NoCommit =>
         /\ check[c].head + check[c].behind <= check[c].tip
         /\ ~check[c].shared /\ check[c].counted
              => check[c].head + check[c].behind = check[c].tip

CheckHolds(c) == ReadsHold(c) /\ ReportHolds(c)

UpdateRecord ==
  [pc : {"idle", "asked", "pulling", "pulled", "ok", "failed", "lost"},
   from : Commit, to : Commit]
CheckRecord ==
  [pc : {"idle", "asked", "fetched", "counted", "ok", "failed", "lost"},
   asked : Commit, own : BOOLEAN, head : Commit \cup {NoCommit}, behind : Commit,
   counted : BOOLEAN, tip : Commit \cup {NoCommit}, shared : BOOLEAN]

(* The records a request starts from, and ends in when it fails or is lost.   *)
LEMMA Records ==
  /\ \A pc \in {"idle", "failed", "lost"} : [NoUpdate EXCEPT !.pc = pc] \in UpdateRecord
  /\ \A pc \in {"idle", "failed", "lost"} : [NoCheck EXCEPT !.pc = pc] \in CheckRecord
  /\ NoUpdate \in UpdateRecord /\ NoCheck \in CheckRecord
<1>1. 0 \in Commit
  BY BoundsAreNumbers DEF Commit
<1>2. NoUpdate \in UpdateRecord
  BY <1>1 DEF NoUpdate, UpdateRecord
<1>3. NoCheck \in CheckRecord
  BY <1>1 DEF NoCheck, CheckRecord
<1>4. \A pc \in {"idle", "failed", "lost"} : [NoUpdate EXCEPT !.pc = pc] \in UpdateRecord
  BY <1>2 DEF UpdateRecord
<1>5. \A pc \in {"idle", "failed", "lost"} : [NoCheck EXCEPT !.pc = pc] \in CheckRecord
  BY <1>3 DEF CheckRecord
<1>. QED  BY <1>2, <1>3, <1>4, <1>5

(* A check that is marked as shared is still a check.                         *)
LEMMA SharedType ==
  ASSUME UpdaterTypeOK, NEW others PROVE Shared(others) \in [Check -> CheckRecord]
<1>1. ASSUME NEW c \in Check, NEW b \in BOOLEAN
      PROVE  [check[c] EXCEPT !.shared = b] \in CheckRecord
  BY DEF UpdaterTypeOK, CheckRecord
<1>2. \A c \in Check : check[c].shared \in BOOLEAN
  BY DEF UpdaterTypeOK
<1>. QED  BY <1>1, <1>2 DEF Shared

UpdaterInv == UpdaterTypeOK /\ Ordered /\ \A c \in Check : CheckHolds(c)

(* Initially: nothing has been asked and every ref is at the same commit.     *)
LEMMA UpdaterInvInit == UpdaterInit => UpdaterInv
<1>. SUFFICES ASSUME UpdaterInit PROVE UpdaterInv  OBVIOUS
<1>1. UpdaterTypeOK
  <2>1. 0 \in Commit /\ 0 \in 0..MaxDeaths
    BY BoundsAreNumbers DEF Commit
  <2>2. update \in [Update -> UpdateRecord] /\ check \in [Check -> CheckRecord]
    BY Records DEF UpdaterInit
  <2>3. git \in [Update -> {"none", "running", "moved", "failed"}]
    BY DEF UpdaterInit
  <2>4. up \in BOOLEAN /\ reload \in BOOLEAN
    BY DEF UpdaterInit
  <2>5. deaths = 0 /\ loaded = 0 /\ head = 0 /\ origin = 0 /\ remote = 0
    BY DEF UpdaterInit
  <2>. QED  BY <2>1, <2>2, <2>3, <2>4, <2>5 DEF UpdaterTypeOK, UpdateRecord, CheckRecord
<1>2. Ordered
  BY DEF UpdaterInit, Ordered
<1>3. \A c \in Check : CheckHolds(c)
  BY DEF UpdaterInit, CheckHolds, ReadsHold, ReportHolds, NoCheck, UnderWay
<1>. QED  BY <1>1, <1>2, <1>3 DEF UpdaterInv

(* A check whose record a step leaves alone, but for the mark, while the refs  *)
(* grow; they do not without the mark.                                       *)
LEMMA OthersHold ==
  ASSUME UpdaterTypeOK, UpdaterTypeOK', NEW c \in Check, CheckHolds(c),
         check'[c] = [check[c] EXCEPT !.shared = check'[c].shared],
         check[c].shared => check'[c].shared,
         head <= head', origin <= origin', remote <= remote',
         \/ head' = head /\ origin' = origin
         \/ check[c].pc \in UnderWay => check'[c].shared,
         \/ check'[c].shared = check[c].shared
         \/ check[c].pc \in UnderWay
  PROVE  CheckHolds(c)'
<1>1. /\ check'[c].pc = check[c].pc /\ check'[c].own = check[c].own
      /\ check'[c].head = check[c].head /\ check'[c].asked = check[c].asked
      /\ check'[c].behind = check[c].behind /\ check'[c].counted = check[c].counted
      /\ check'[c].tip = check[c].tip
  BY DEF UpdaterTypeOK
<1>2. /\ check[c].asked \in Nat /\ check[c].behind \in Nat
      /\ check[c].head # NoCommit => check[c].head \in Nat
      /\ head \in Nat /\ origin \in Nat /\ remote \in Nat
  BY BoundsAreNumbers DEF UpdaterTypeOK, Commit
<1>3. head' \in Nat /\ origin' \in Nat /\ remote' \in Nat
  BY BoundsAreNumbers DEF UpdaterTypeOK, Commit
<1>4. ReadsHold(c)'
  BY <1>1, <1>2, <1>3 DEF CheckHolds, ReadsHold, UnderWay
<1>5. ReportHolds(c)'
  BY <1>1 DEF CheckHolds, ReportHolds, UnderWay
<1>. QED  BY <1>4, <1>5 DEF CheckHolds

(* The updates keep types and order, and touch neither refs nor checks.       *)
LEMMA HandlesKeep ==
  ASSUME UpdaterInv, NEW r \in Update, Asks(r) \/ Handles(r)
  PROVE  UpdaterInv'
<1>a. update \in [Update -> UpdateRecord] /\ head \in Commit
  BY DEF UpdaterInv, UpdaterTypeOK, UpdateRecord
<1>b. ASSUME Fails(r) \/ PullTimesOut(r) PROVE update' \in [Update -> UpdateRecord]
  <2>1. update' = [update EXCEPT ![r] = [NoUpdate EXCEPT !.pc = "failed"]]
    BY <1>b DEF Fails, PullTimesOut, Refused
  <2>2. [NoUpdate EXCEPT !.pc = "failed"] \in UpdateRecord
    BY Records
  <2>. QED  BY <1>a, <2>1, <2>2
<1>c. ASSUME Asks(r) PROVE update' \in [Update -> UpdateRecord]
  <2>1. update' = [update EXCEPT ![r] = [update[r] EXCEPT !.pc = "asked", !.from = head]]
    BY <1>a, <1>c DEF Asks
  <2>2. [update[r] EXCEPT !.pc = "asked", !.from = head] \in UpdateRecord
    BY <1>a DEF UpdateRecord
  <2>. QED  BY <1>a, <2>1, <2>2
<1>d. ASSUME Applied(r) PROVE update' \in [Update -> UpdateRecord]
  <2>1. update' = [update EXCEPT ![r] = [update[r] EXCEPT !.pc = "ok", !.to = head]]
    BY <1>a, <1>d DEF Applied
  <2>2. [update[r] EXCEPT !.pc = "ok", !.to = head] \in UpdateRecord
    BY <1>a DEF UpdateRecord
  <2>. QED  BY <1>a, <2>1, <2>2
<1>. USE DEF UpdaterInv
<1>1. UpdaterTypeOK'
  <2>. USE DEF UpdaterTypeOK, UpdateRecord
  <2>1. CASE Fails(r) \/ PullTimesOut(r)
    <3>2. update' \in [Update -> UpdateRecord]
      BY <2>1, <1>b
    <3>3. git' \in [Update -> {"none", "running", "moved", "failed"}]
      BY <2>1 DEF Fails, PullTimesOut
    <3>4. UNCHANGED <<up, loaded, reload, deaths, head, origin, remote, check>>
      BY <2>1 DEF Fails, PullTimesOut, process, checkout
    <3>. QED  BY <3>2, <3>3, <3>4
  <2>2. CASE Asks(r)
    <3>1. update' \in [Update -> UpdateRecord]
      BY <2>2, <1>c
    <3>2. UNCHANGED <<up, loaded, reload, deaths, head, origin, remote, git, check>>
      BY <2>2 DEF Asks, process, checkout
    <3>. QED  BY <3>1, <3>2
  <2>3. CASE Pulls(r) \/ PullEnds(r)
    BY <2>3 DEF Pulls, PullEnds, Goto, process, checkout
  <2>4. CASE Applied(r)
    <3>1. reload' = TRUE
      BY <2>4, Zenon DEF Applied, Reloads
    <3>2. update' \in [Update -> UpdateRecord]
      BY <2>4, <1>d
    <3>3. UNCHANGED <<up, loaded, deaths, head, origin, remote, git, check>>
      BY <2>4 DEF Applied, checkout
    <3>. QED  BY <3>1, <3>2, <3>3
  <2>. QED  BY <2>1, <2>2, <2>3, <2>4 DEF Handles
<1>2. UNCHANGED <<loaded, head, origin, remote, check>>
  BY DEF Asks, Handles, Pulls, PullEnds, Applied, Fails, PullTimesOut, process, checkout
<1>3. Ordered' /\ \A c \in Check : CheckHolds(c)'
  BY <1>2 DEF Ordered, CheckHolds, ReadsHold, ReportHolds
<1>. QED  BY <1>1, <1>3

(* Whatever git does to the refs, it does forward, and the checks under way   *)
(* are shared from then on.                                                  *)
LEMMA GitKeeps ==
  ASSUME UpdaterInv, NEW r \in Update, GitMoves(r) \/ GitFails(r)
  PROVE  UpdaterInv'
<1>. USE DEF UpdaterInv
<1>1. UpdaterTypeOK'
  <2>1. Shared(Check) \in [Check -> CheckRecord]
    BY SharedType
  <2>. QED  BY <2>1 DEF UpdaterTypeOK, CheckRecord, GitMoves, GitFails, process
<1>2. Ordered'
  BY BoundsAreNumbers DEF UpdaterTypeOK, Commit, Ordered, GitMoves, GitFails, process
<1>3. ASSUME NEW c \in Check PROVE CheckHolds(c)'
  <2>1. /\ check'[c] = [check[c] EXCEPT !.shared = check'[c].shared]
        /\ check'[c].shared = (check[c].shared \/ check[c].pc \in UnderWay)
    BY DEF UpdaterTypeOK, GitMoves, GitFails, Shared
  <2>2. head <= head' /\ origin <= origin' /\ remote <= remote'
    BY BoundsAreNumbers DEF UpdaterTypeOK, Commit, Ordered, GitMoves, GitFails
  <2>3. check[c].shared \in BOOLEAN
    BY DEF UpdaterTypeOK
  <2>. QED  BY <1>1, <2>1, <2>2, <2>3, OthersHold
<1>. QED  BY <1>1, <1>2, <1>3

(* A check reads the refs as they are; its fetch only moves origin forward.   *)
LEMMA ChecksKeep ==
  ASSUME UpdaterInv, NEW c \in Check, CheckAsks(c) \/ Checks(c)
  PROVE  UpdaterInv'
<1>0. UpdaterTypeOK /\ Ordered /\ (\A d \in Check : CheckHolds(d)) /\ CheckHolds(c)
      /\ check \in [Check -> CheckRecord] /\ check[c] \in CheckRecord
  BY DEF UpdaterInv, UpdaterTypeOK, CheckRecord
<1>a. /\ head \in Nat /\ origin \in Nat /\ remote \in Nat
      /\ head <= origin /\ origin <= remote
  BY <1>0, BoundsAreNumbers DEF UpdaterTypeOK, Commit, Ordered
(* The refs stay and the other checks do.                                    *)
<1>b. ASSUME NEW r \in CheckRecord, check' = [check EXCEPT ![c] = r],
             UNCHANGED <<process, checkout, remote, update, git>>,
             r.own => (\A d \in {c} : CheckHolds(d)')
      PROVE  UpdaterInv'
  <2>1. check' \in [Check -> CheckRecord]
    BY <1>0, <1>b
  <2>2. UpdaterTypeOK'
    BY <1>0, <1>b, <2>1 DEF UpdaterTypeOK, CheckRecord, process, checkout
  <2>3. Ordered'
    BY <1>0, <1>b DEF Ordered, process, checkout
  <2>4. UNCHANGED <<head, origin, remote>>
    BY <1>b DEF checkout
  <2>5. ASSUME NEW d \in Check PROVE CheckHolds(d)'
    <3>1. CASE d # c
      <4>1. check'[d] = check[d]
        BY <1>0, <1>b, <3>1
      <4>. QED  BY <1>0, <2>4, <4>1 DEF CheckHolds, ReadsHold, ReportHolds
    <3>2. CASE d = c
      <4>1. check'[c] = r
        BY <1>0, <1>b
      <4>2. CASE r.own
        BY <1>b, <3>2, <4>2
      <4>3. CASE ~r.own
        BY <3>2, <4>1, <4>3 DEF CheckHolds, ReadsHold, ReportHolds
      <4>. QED  BY <4>2, <4>3
    <3>. QED  BY <3>1, <3>2
  <2>. QED  BY <2>2, <2>3, <2>5 DEF UpdaterInv
<1>1. CASE CheckFails(c)
  <2>. DEFINE r == [NoCheck EXCEPT !.pc = "failed"]
  <2>1. r \in CheckRecord
    BY Records
  <2>2. check' = [check EXCEPT ![c] = r] /\ UNCHANGED <<process, checkout, remote, update, git>>
    BY <1>1 DEF CheckFails
  <2>3. CheckHolds(c)'
    <3>1. check'[c].pc = "failed"
      BY <1>0, <2>2 DEF NoCheck
    <3>. QED  BY <3>1 DEF CheckHolds, ReadsHold, ReportHolds, UnderWay
  <2>. HIDE DEF r
  <2>. QED  BY <1>b, <2>1, <2>2, <2>3
<1>2. CASE CheckAsks(c)
  <2>1. PICK own \in BOOLEAN, h \in {head, NoCommit} :
          check' = [check EXCEPT ![c] =
            [NoCheck EXCEPT !.pc = "asked", !.asked = remote, !.own = own, !.head = h]]
    BY <1>2 DEF CheckAsks
  <2>. DEFINE r == [NoCheck EXCEPT !.pc = "asked", !.asked = remote, !.own = own, !.head = h]
  <2>2. r \in CheckRecord
    BY <1>0, Records DEF UpdaterTypeOK, CheckRecord
  <2>3. UNCHANGED <<process, checkout, remote, update, git>>
    BY <1>2 DEF CheckAsks
  <2>4. CheckHolds(c)'
    <3>1. /\ check'[c].pc = "asked" /\ check'[c].asked = remote /\ check'[c].head \in {head, NoCommit}
      BY <1>0, <2>1 DEF NoCheck
    <3>. QED  BY <1>a, <2>3, <3>1 DEF CheckHolds, ReadsHold, ReportHolds, UnderWay, checkout
  <2>5. check' = [check EXCEPT ![c] = r]
    BY <2>1
  <2>. HIDE DEF r
  <2>. QED  BY <1>b, <2>2, <2>3, <2>4, <2>5
<1>3. CASE CheckCounts(c)
  <2>1. PICK counted \in BOOLEAN, any \in Commit :
          check' = [check EXCEPT ![c].pc = "counted", ![c].counted = counted,
                      ![c].behind = IF ~counted THEN 0 ELSE IF check[c].own THEN Behind ELSE any]
    BY <1>3 DEF CheckCounts
  <2>. DEFINE n == IF ~counted THEN 0 ELSE IF check[c].own THEN Behind ELSE any
  <2>. DEFINE r == [check[c] EXCEPT !.pc = "counted", !.counted = counted, !.behind = n]
  <2>2. n \in Commit
    BY <1>0, <1>a, BoundsAreNumbers DEF UpdaterTypeOK, Commit, Behind
  <2>. HIDE DEF n
  <2>3. r \in CheckRecord
    BY <1>0, <2>2 DEF CheckRecord
  <2>4. check' = [check EXCEPT ![c] = r]
    BY <1>0, <2>1 DEF n, CheckRecord
  <2>5. UNCHANGED <<process, checkout, remote, update, git>>
    BY <1>3 DEF CheckCounts
  <2>6. ASSUME r.own
        PROVE  CheckHolds(c)'
    <3>1. /\ check'[c].pc = "counted" /\ check'[c].counted = counted /\ check'[c].behind = n
          /\ check'[c].head = check[c].head /\ check'[c].asked = check[c].asked
          /\ check'[c].shared = check[c].shared /\ check[c].own
      BY <1>0, <2>4, <2>6 DEF CheckRecord
    <3>2. n = IF counted THEN origin - head ELSE 0
      BY <3>1 DEF n, Behind
    <3>3. check[c].pc = "fetched" /\ UNCHANGED <<head, origin, remote>>
      BY <1>3 DEF CheckCounts, checkout
    <3>4. check[c].head # NoCommit => check[c].head \in Nat
      BY <1>0, BoundsAreNumbers DEF CheckRecord, Commit
    <3>5. /\ check[c].asked <= remote /\ check[c].asked <= origin
          /\ check[c].head # NoCommit =>
               check[c].head <= head /\ (~check[c].shared => check[c].head = head)
      BY <1>0, <3>1, <3>3 DEF CheckHolds, ReadsHold, UnderWay
    <3>6. check[c].head # NoCommit =>
            /\ check[c].head + n <= origin
            /\ ~check[c].shared /\ counted => check[c].head + n = origin
      BY <1>a, <3>2, <3>4, <3>5
    <3>. QED  BY <3>1, <3>3, <3>5, <3>6 DEF CheckHolds, ReadsHold, ReportHolds, UnderWay
  <2>7. r.own => (\A d \in {c} : CheckHolds(d)')
    BY <2>6
  <2>. HIDE DEF r
  <2>. QED  BY <1>b, <2>3, <2>4, <2>5, <2>7
<1>4. CASE CheckAnswers(c)
  <2>1. PICK tip \in Tip(c) : check' = [check EXCEPT ![c].pc = "ok", ![c].tip = tip]
    BY <1>4 DEF CheckAnswers
  <2>. DEFINE r == [check[c] EXCEPT !.pc = "ok", !.tip = tip]
  <2>2. r \in CheckRecord
    BY <1>0 DEF UpdaterTypeOK, CheckRecord, Tip
  <2>3. check' = [check EXCEPT ![c] = r]
    BY <1>0, <2>1
  <2>4. UNCHANGED <<process, checkout, remote, update, git>>
    BY <1>4 DEF CheckAnswers
  <2>5. ASSUME r.own
        PROVE  CheckHolds(c)'
    <3>1. /\ check'[c].pc = "ok" /\ check'[c].tip = tip /\ check'[c].counted = check[c].counted
          /\ check'[c].head = check[c].head /\ check'[c].asked = check[c].asked
          /\ check'[c].behind = check[c].behind /\ check'[c].shared = check[c].shared
          /\ check[c].own
      BY <1>0, <2>3, <2>5 DEF CheckRecord
    <3>2. check[c].pc = "counted" /\ (tip = origin \/ tip = NoCommit)
      BY <1>4, <3>1 DEF CheckAnswers, Tip
    <3>3. check[c].asked \in Nat
      BY <1>0, BoundsAreNumbers DEF CheckRecord, Commit
    <3>4. /\ check[c].asked <= origin
          /\ check[c].head # NoCommit =>
               /\ check[c].head + check[c].behind <= origin
               /\ ~check[c].shared /\ check[c].counted => check[c].head + check[c].behind = origin
      BY <1>0, <3>1, <3>2 DEF CheckHolds, ReadsHold
    <3>. QED  BY <1>a, <3>1, <3>2, <3>3, <3>4 DEF CheckHolds, ReadsHold, ReportHolds, UnderWay
  <2>6. r.own => (\A d \in {c} : CheckHolds(d)')
    BY <2>5
  <2>. HIDE DEF r
  <2>. QED  BY <1>b, <2>2, <2>3, <2>4, <2>6
<1>5. CASE CheckFetches(c) /\ ~check[c].own
  <2>. DEFINE r == [check[c] EXCEPT !.pc = "fetched"]
  <2>1. r \in CheckRecord
    BY <1>0 DEF CheckRecord
  <2>2. check' = [check EXCEPT ![c] = r] /\ UNCHANGED <<process, checkout, remote, update, git>>
    BY <1>0, <1>5 DEF CheckFetches, Fetched, checkout
  <2>3. ~r.own
    BY <1>0, <1>5 DEF CheckRecord
  <2>. HIDE DEF r
  <2>. QED  BY <1>b, <2>1, <2>2, <2>3
<1>6. CASE CheckFetches(c) /\ check[c].own
  <2>. DEFINE marked == Shared(Check \ {c})
  <2>1. marked \in [Check -> CheckRecord]
    BY <1>0, SharedType
  <2>2. /\ \A d \in Check : marked[d] = [check[d] EXCEPT !.shared =
                                       @ \/ (d \in Check \ {c} /\ check[d].pc \in UnderWay)]
        /\ check' = [marked EXCEPT ![c].pc = "fetched"]
        /\ origin' = remote /\ UNCHANGED <<process, head, remote, update, git>>
    BY <1>6 DEF CheckFetches, Fetched, Shared
  <2>. HIDE DEF marked
  <2>3. UpdaterTypeOK'
    <3>1. [marked[c] EXCEPT !.pc = "fetched"] \in CheckRecord
      BY <2>1 DEF CheckRecord
    <3>2. check' = [marked EXCEPT ![c] = [marked[c] EXCEPT !.pc = "fetched"]]
      BY <2>1, <2>2
    <3>3. check' \in [Check -> CheckRecord]
      BY <2>1, <3>1, <3>2
    <3>. QED  BY <1>0, <2>2, <3>3 DEF UpdaterTypeOK, CheckRecord, process
  <2>4. Ordered'
    BY <1>0, <1>a, <2>2 DEF Ordered, process
  <2>5. head <= head' /\ origin <= origin' /\ remote <= remote'
    BY <1>a, <2>2
  <2>6. ASSUME NEW d \in Check PROVE CheckHolds(d)'
    <3>1. CASE d # c
      <4>1. check'[d] = marked[d]
        BY <2>1, <2>2, <3>1
      <4>a. check[d] \in CheckRecord
        BY <1>0
      <4>b. marked[d] = [check[d] EXCEPT !.shared = check[d].shared \/ check[d].pc \in UnderWay]
        BY <2>2, <3>1, <4>a DEF CheckRecord
      <4>c. marked[d].shared = (check[d].shared \/ check[d].pc \in UnderWay)
        BY <4>a, <4>b DEF CheckRecord
      <4>2. /\ check'[d] = [check[d] EXCEPT !.shared = check'[d].shared]
            /\ check'[d].shared = (check[d].shared \/ check[d].pc \in UnderWay)
        BY <4>1, <4>b, <4>c, Zenon
      <4>3. check[d].shared \in BOOLEAN
        BY <1>0 DEF CheckRecord
      <4>. QED  BY <1>0, <2>3, <2>5, <4>2, <4>3, OthersHold
    <3>2. CASE d = c
      <4>1. /\ check'[c].pc = "fetched" /\ check'[c].head = check[c].head
            /\ check'[c].asked = check[c].asked /\ check'[c].own
            /\ check'[c].shared = check[c].shared
        BY <1>0, <1>6, <2>1, <2>2 DEF CheckRecord
      <4>2. check[c].pc = "asked"
        BY <1>6 DEF CheckFetches
      <4>3. /\ check[c].asked <= remote
            /\ check[c].head # NoCommit =>
                 check[c].head <= head /\ (~check[c].shared => check[c].head = head)
        BY <1>0, <1>6, <4>2 DEF CheckHolds, ReadsHold, UnderWay
      <4>. QED  BY <2>2, <3>2, <4>1, <4>3 DEF CheckHolds, ReadsHold, ReportHolds, UnderWay
    <3>. QED  BY <3>1, <3>2
  <2>. QED  BY <2>3, <2>4, <2>6 DEF UpdaterInv
<1>. QED  BY <1>1, <1>2, <1>3, <1>4, <1>5, <1>6 DEF Checks

(* The end of the process loses what was under way; a restart loads HEAD.     *)
LEMMA ProcessKeeps ==
  ASSUME UpdaterInv, Push \/ ReloadFires \/ Dies \/ Restart
  PROVE  UpdaterInv'
<1>. USE DEF UpdaterInv
<1>1. CASE Push
  <2>1. UpdaterTypeOK' /\ Ordered'
    BY <1>1, BoundsAreNumbers DEF UpdaterTypeOK, Commit, Ordered, Push, process, checkout
  <2>2. ASSUME NEW c \in Check PROVE CheckHolds(c)'
    <3>1. /\ check'[c] = [check[c] EXCEPT !.shared = check'[c].shared]
          /\ check'[c].shared = check[c].shared /\ head' = head /\ origin' = origin
      BY <1>1 DEF UpdaterTypeOK, Push, checkout
    <3>2. head <= head' /\ origin <= origin' /\ remote <= remote'
      BY <1>1, BoundsAreNumbers DEF UpdaterTypeOK, Commit, Push, checkout
    <3>. QED  BY <2>1, <3>1, <3>2, OthersHold
  <2>. QED  BY <2>1, <2>2
<1>2. CASE ReloadFires \/ Dies
  <2>1. Ends /\ deaths' \in 0..MaxDeaths
    BY <1>2, BoundsAreNumbers DEF UpdaterTypeOK, ReloadFires, Dies
  <2>2. UpdaterTypeOK'
    <3>1. \A r \in Update : Lost(update[r], NoUpdate) \in UpdateRecord
      BY Records DEF UpdaterTypeOK, UpdateRecord, Lost
    <3>2. \A c \in Check : Lost(check[c], NoCheck) \in CheckRecord
      BY Records DEF UpdaterTypeOK, CheckRecord, Lost
    <3>. QED  BY <2>1, <3>1, <3>2 DEF UpdaterTypeOK, UpdateRecord, CheckRecord, Ends, checkout
  <2>3. Ordered'
    BY <2>1 DEF Ordered, Ends, checkout
  <2>4. ASSUME NEW c \in Check PROVE CheckHolds(c)'
    BY <2>1 DEF CheckHolds, ReadsHold, ReportHolds, Ends, Lost, UpdateInProgress, UnderWay, NoCheck,
                checkout
  <2>. QED  BY <2>2, <2>3, <2>4
<1>3. CASE Restart
  BY <1>3 DEF UpdaterTypeOK, Commit, Ordered, CheckHolds, ReadsHold, ReportHolds, Restart, checkout
<1>. QED  BY <1>1, <1>2, <1>3

LEMMA UpdaterInvStep == UpdaterInv /\ [UpdaterNext]_updaterVars => UpdaterInv'
<1>. SUFFICES ASSUME UpdaterInv, [UpdaterNext]_updaterVars PROVE UpdaterInv'  OBVIOUS
<1>1. ASSUME NEW r \in Update, Asks(r) \/ Handles(r) \/ GitMoves(r) \/ GitFails(r) PROVE UpdaterInv'
  BY <1>1, HandlesKeep, GitKeeps
<1>2. ASSUME NEW c \in Check, CheckAsks(c) \/ Checks(c) PROVE UpdaterInv'
  BY <1>2, ChecksKeep
<1>3. CASE Push \/ ReloadFires \/ Dies \/ Restart
  BY <1>3, ProcessKeeps
<1>4. CASE UNCHANGED updaterVars
  BY <1>4 DEF UpdaterInv, UpdaterTypeOK, Ordered, CheckHolds, ReadsHold, ReportHolds, updaterVars
<1>. QED  BY <1>1, <1>2, <1>3, <1>4 DEF UpdaterNext

(* Every reachable state is well typed and the refs are in order: the process *)
(* never serves a commit that is not in the checkout's history.              *)
THEOREM RefsInOrder == UpdaterSpec => [](UpdaterTypeOK /\ Ordered)
<1>1. UpdaterInv => UpdaterTypeOK /\ Ordered  BY DEF UpdaterInv
<1>. QED  BY UpdaterInvInit, UpdaterInvStep, <1>1, PTL DEF UpdaterSpec

(* Whoever pulls, fetches or pushes while a check runs and whichever of its    *)
(* reads fail, its report announces no commits that are not there, and exactly  *)
(* those that are when it ran undisturbed (updater.ts:153-191).               *)
THEOREM ReportsAreCoherent == UpdaterSpec => []ReportsAddUp
<1>1. UpdaterInv => ReportsAddUp
  BY DEF UpdaterInv, CheckHolds, ReportHolds, ReportsAddUp
<1>. QED  BY UpdaterInvInit, UpdaterInvStep, <1>1, PTL DEF UpdaterSpec
================================================================================
