-------------------------- MODULE Supervisor_proofs --------------------------
(***************************************************************************)
(* Theorems about Supervisor, for any requests, boots, refreshes in flight, *)
(* probes to a wait and setups of daemon.json.                             *)
(***************************************************************************)
EXTENDS Supervisor, TLAPS

OpRec == [pc : {"idle", "start", "launch", "probing", "probed", "script", "stop",
                "stopping", "killing", "stopscript", "stopped"},
          act : {"bootstrap", "start", "stop", "restart"}, token : Nat, seen : BOOLEAN,
          target : Op \cup {NoProc}]
WaitRec == [pc : {"none", "wait", "probing", "probed"}, token : Nat,
            left : 0..Attempts, seen : BOOLEAN]
RefreshRec == [pc : {"none", "probing", "probed"}, seen : BOOLEAN]
Outcome == {"idle", "pending", "ok", "failed", "lost"}

Busy(o) == op[o].pc # "idle"
InStop == {"stopping", "killing", "stopscript", "stopped"}

(* TypeOK, and what the types leave out: the child is one whose exit is to    *)
(* come, a wait that sleeps has a probe left, a start script runs where there *)
(* is no managed child.                                                     *)
Plain ==
  /\ config \in Setups
  /\ sup \in {"down", "boot", "serving"} /\ boots \subseteq Bootstrap
  /\ state \in DaemonState /\ file \in DaemonState
  /\ child \in kin \cup {NoProc}
  /\ killed \subseteq kin /\ kin \subseteq Op
  /\ stopRequested \in BOOLEAN /\ token \in Nat /\ disturbed \in BOOLEAN
  /\ dsh \in [Proc -> {"dead", "booting", "up"}]
  /\ answer \in [Control -> Outcome]
Typed ==
  /\ Plain
  /\ op \in [Op -> OpRec]
  /\ ready \in [Op -> WaitRec]
  /\ refresh \in [Refresh -> RefreshRec]
  /\ \A o \in Op : ready[o].pc = "wait" => ready[o].left > 0
  /\ \A o \in Op : op[o].pc = "script" => ~config.child

(* Each operation runs once: until it has spawned its dsh, it has no child and *)
(* no wait, and its request is unanswered.                                  *)
Fresh(o) == ready[o].pc = "none" /\ o \notin kin
Once ==
  /\ \A o \in Op : Busy(o) => Fresh(o)
  /\ \A c \in Control : /\ Busy(c) => answer[c] = "pending"
                        /\ answer[c] = "idle" => Fresh(c)
  /\ \A b \in Bootstrap : /\ Busy(b) => b \in boots
                          /\ b \notin boots => Fresh(b)

(* stop() holds the flag; and what "starting" waits for: a stop, the start     *)
(* script of the newest start, or the wait of the newest start on a child     *)
(* that has not gone.                                                       *)
FlagHeld == stopRequested => \E o \in Op : op[o].pc \in InStop
Scripting(o) == op[o].pc = "script" /\ op[o].token = token
Awaited(o) ==
  ready[o].pc # "none" /\ ready[o].token = token /\ (config.child => IsChildRunning)
StartingHas ==
  state = "starting" /\ CanStart =>
    \E o \in Op : op[o].pc \in InStop \/ Scripting(o) \/ Awaited(o)

(* Until it serves, a supervisor has no child and takes no request; only       *)
(* bootstrap() runs, which stops nothing.                                   *)
Booting ==
  /\ sup # "serving" => kin = {} /\ ~disturbed /\ \A c \in Control : ~Busy(c)
  /\ \A b \in Bootstrap : Busy(b) => sup = "boot" /\ op[b].pc \notin InStop \cup {"stop"}
  /\ sup = "down" => \A o \in Op : ~Busy(o)

(* Undisturbed: one operation at a time; its child is the only one; a killed   *)
(* one is waited for; and from its first look at the child on, start() has    *)
(* none.                                                                    *)
Alone == \A o, q \in Op : Busy(o) /\ Busy(q) => o = q
KilledAwaited ==
  \A p \in killed : \E o \in Op : op[o].pc \in {"stopping", "killing"} /\ op[o].target = p
Looked ==
  \A o \in Op : op[o].pc \in {"probing", "probed", "launch"} => child = NoProc
Undisturbed == ~disturbed => Alone /\ kin \subseteq {child} /\ KilledAwaited /\ Looked

IInv == Typed /\ Once /\ FlagHeld /\ StartingHas /\ Booting /\ Undisturbed
-------------------------------------------------------------------------------
LEMMA Names ==
  /\ Bootstrap \cap Control = {} /\ NoProc \notin Op /\ Op = Control \cup Bootstrap
  /\ Attempts \in Nat \ {0} /\ Proc = Op \cup {Hand}
BY BootstrapIsNoControl, NoProcIsNone, AttemptsPositive DEF Op, Proc

LEMMA Put ==
  ASSUME NEW S, NEW R, NEW f \in [S -> R], NEW x \in S, NEW r \in R,
         NEW g, g = [f EXCEPT ![x] = r]
  PROVE  g \in [S -> R] /\ g[x] = r /\ \A y \in S : y # x => g[y] = f[y]
OBVIOUS

(* What the operation o does to op, and no other does.                       *)
Moved(o, pcs) ==
  /\ op' \in [Op -> OpRec]
  /\ op'[o].pc \in pcs
  /\ \A q \in Op : q # o => op'[q] = op[q]

LEMMA FinishDoes ==
  ASSUME Typed, NEW o \in Op, NEW what \in {"ok", "failed"}, Finish(o, what)
  PROVE  /\ Moved(o, {"idle"})
         /\ answer' \in [Control -> Outcome]
         /\ o \in Control => answer'[o] = what
         /\ \A c \in Control : c # o => answer'[c] = answer[c]
         /\ sup' = IF o \in Bootstrap THEN "serving" ELSE sup
<1>1. NoOp \in OpRec /\ NoOp.pc = "idle"
  BY Names DEF NoOp, OpRec
<1>2. op' = [op EXCEPT ![o] = NoOp]
  BY DEF Finish
<1>3. Moved(o, {"idle"})
  BY <1>1, <1>2, Put DEF Typed, Moved
<1> QED
  BY <1>3, Names DEF Typed, Plain, Outcome, Finish

LEMMA GotoDoes ==
  ASSUME Typed, NEW o \in Op,
         NEW pc \in {"probing", "launch", "killing", "stopped"}, Goto(o, pc)
  PROVE  Moved(o, {pc}) /\ op'[o].target = op[o].target /\ answer' = answer /\ sup' = sup
<1> DEFINE s == [op[o] EXCEPT !.pc = pc]
<1>1. s \in OpRec /\ s.pc = pc /\ s.target = op[o].target
  BY DEF Typed, OpRec
<1>2. op' = [op EXCEPT ![o] = s]
  BY DEF Goto
<1> HIDE DEF s
<1>3. Moved(o, {pc}) /\ op'[o] = s
  BY <1>1, <1>2, Put DEF Typed, Moved
<1> QED
  BY <1>1, <1>3 DEF Goto
-------------------------------------------------------------------------------
LEMMA BeginStartKeeps ==
  ASSUME IInv, NEW o \in Op, BeginStart(o)
  PROVE  IInv'
<1> USE Names DEF IInv, Typed
<1>1. \/ \E what \in {"ok", "failed"} : Finish(o, what)
      \/ NeedsLaunch /\ \E pc \in {"probing", "launch"} : Goto(o, pc)
  BY DEF BeginStart, Fail
<1>2. Moved(o, {"idle", "probing", "launch"})
  BY <1>1, FinishDoes, GotoDoes DEF Moved
<1>3. /\ answer' \in [Control -> Outcome]
      /\ \A c \in Control : c # o \/ Busy(c)' => answer'[c] = answer[c]
      /\ o \in Control => answer'[o] # "idle" 
      /\ o \in Bootstrap => sup' = IF Busy(o)' THEN sup ELSE "serving"
      /\ o \notin Bootstrap => sup' = sup
  BY <1>1, FinishDoes, GotoDoes DEF Moved, Busy, Plain, Once, BeginStart
<1>4. /\ op[o].pc = "start" /\ stopRequested' = FALSE /\ state' = state /\ file' \in {file, state}
      /\ UNCHANGED <<config, past, managed, token, dsh, ready, refresh>>
  BY DEF BeginStart, Fail, SetState, Goto
<1>5. Typed'
  <2>1. Plain'
    BY <1>3, <1>4 DEF Plain, past, managed
  <2> QED BY <1>2, <1>4, <2>1 DEF Moved
<1>6. Once'
  BY <1>2, <1>3, <1>4 DEF Plain, Moved, past, managed, Once, Fresh, Busy
<1>7. FlagHeld' /\ StartingHas'
  BY <1>2, <1>4 DEF Moved, past, managed, FlagHeld, StartingHas, CanStart, Awaited,
                    Scripting, IsChildRunning, InStop
<1>8. Booting'
  BY <1>2, <1>3, <1>4 DEF Plain, Moved, past, managed, Booting, Busy, InStop, Undisturbed, Alone
<1>9. Undisturbed'
  <2> SUFFICES ASSUME ~disturbed
               PROVE  Alone' /\ (kin \subseteq {child})' /\ KilledAwaited' /\ Looked'
    BY <1>4 DEF Undisturbed, past
  <2>1. killed = {}
    BY <1>4 DEF Undisturbed, Alone, KilledAwaited, Busy
  <2>2. Busy(o)' => child = NoProc
    BY <1>1, <2>1, FinishDoes DEF Moved, Busy, NeedsLaunch, IsChildRunning
  <2>3. \A q \in Op : q # o => ~Busy(q)
    BY <1>4 DEF Undisturbed, Alone, Busy
  <2>4. Alone'
    BY <1>2, <2>3 DEF Moved, Busy, Alone
  <2>5. (kin \subseteq {child})' /\ KilledAwaited'
    BY <1>4, <2>1 DEF managed, Undisturbed, KilledAwaited
  <2>6. Looked'
    BY <1>2, <1>4, <2>2, <2>3 DEF Moved, managed, Busy, Looked
  <2> QED BY <2>4, <2>5, <2>6
<1> QED BY <1>5, <1>6, <1>7, <1>8, <1>9

LEMMA LaunchKeeps ==
  ASSUME IInv, NEW o \in Op, Launch(o), op[o].pc \in {"launch", "probed"}
  PROVE  IInv'
<1> DEFINE s == [op[o] EXCEPT !.pc = "script", !.token = token + 1]
<1>a. op[o] \in OpRec /\ token + 1 \in Nat
  BY DEF IInv, Typed, Plain
<1>1. s \in OpRec /\ s.pc = "script" /\ s.token = token + 1
  BY <1>a DEF OpRec
<1> USE Names DEF IInv, Typed
<1>2. \/ (\E what \in {"ok", "failed"} : Finish(o, what)) /\ (config.child \/ ~config.startScript)
      \/ /\ ~config.child /\ config.startScript
         /\ op' = [op EXCEPT ![o] = s] /\ UNCHANGED <<answer, sup>>
  BY DEF Launch
<1> HIDE DEF s
<1>3. /\ Moved(o, {"idle", "script"})
      /\ config.child \/ ~config.startScript => ~Busy(o)'
      /\ op'[o].pc = "script" => op'[o].token = token + 1 /\ ~config.child
  <2>1. ASSUME NEW what \in {"ok", "failed"}, Finish(o, what)
        PROVE  Moved(o, {"idle", "script"}) /\ op'[o].pc = "idle"
    BY <2>1, FinishDoes DEF Moved
  <2>2. CASE ~config.child /\ config.startScript /\ op' = [op EXCEPT ![o] = s]
    <3>1. op' \in [Op -> OpRec] /\ op'[o] = s /\ \A q \in Op : q # o => op'[q] = op[q]
      BY <1>1, <2>2, Put
    <3>2. op'[o].pc = "script" /\ op'[o].token = token + 1
      BY <1>1, <3>1
    <3> QED BY <2>2, <3>1, <3>2 DEF Moved
  <2> QED BY <1>2, <2>1, <2>2 DEF Busy
<1>4. /\ answer' \in [Control -> Outcome]
      /\ \A c \in Control : c # o \/ Busy(c)' => answer'[c] = answer[c]
      /\ o \in Control => answer'[o] # "idle"
      /\ o \in Bootstrap => sup' = IF Busy(o)' THEN sup ELSE "serving"
      /\ o \notin Bootstrap => sup' = sup
  BY <1>1, <1>2, FinishDoes, Put DEF Moved, Busy, Plain, Once
<1>5. WaitFor(token + 1) \in WaitRec /\ WaitFor(token + 1).pc = "wait"
      /\ WaitFor(token + 1).token = token + 1 /\ WaitFor(token + 1).left > 0
  BY DEF WaitFor, WaitRec, Plain
<1>6. \/ /\ config.child /\ config.probe
         /\ ready' = [ready EXCEPT ![o] = WaitFor(token + 1)]
         /\ SetState("starting")
      \/ /\ config.child /\ ~config.probe /\ ready' = ready /\ SetState("running")
      \/ /\ ~config.child /\ ready' = ready /\ SetState("starting")
  BY DEF Launch
<1>7. /\ token' = token + 1
      /\ IF config.child THEN child' = o /\ kin' = kin \cup {o}
                         ELSE child' = child /\ kin' = kin
      /\ dsh' \in {dsh, [dsh EXCEPT ![o] = "booting"]}
      /\ UNCHANGED <<config, past, killed, stopRequested, refresh>>
  BY DEF Launch
<1>8. /\ ready' \in [Op -> WaitRec]
      /\ \A q \in Op : q # o => ready'[q] = ready[q]
      /\ ready'[o].pc = "wait" => ready'[o].left > 0
      /\ config.child /\ config.probe => ready'[o] = WaitFor(token + 1)
      /\ ~config.child => ready' = ready
  <2>1. CASE ready' = ready
    BY <1>6, <2>1
  <2>2. CASE ready' = [ready EXCEPT ![o] = WaitFor(token + 1)]
    BY <1>5, <1>6, <2>2, Put
  <2> QED BY <1>6, <2>1, <2>2
<1>9. Typed'
  <2>1. Plain'
    BY <1>4, <1>6, <1>7 DEF Plain, past, SetState, DaemonState
  <2> QED BY <1>3, <1>7, <1>8, <2>1 DEF Moved
<1>10. Once'
  BY <1>3, <1>4, <1>7, <1>8 DEF Moved, past, Once, Fresh, Busy
<1>11. FlagHeld'
  BY <1>3, <1>7 DEF Moved, FlagHeld, InStop
<1>12. StartingHas'
  <2>1. CASE config.child /\ config.probe
    BY <1>5, <1>7, <1>8, <2>1 DEF StartingHas, Awaited, IsChildRunning, Once, Fresh, Busy, Plain
  <2>2. CASE config.child /\ ~config.probe
    BY <1>6, <2>2 DEF StartingHas, SetState
  <2>3. CASE ~config.child
    BY <1>2, <1>3, <1>7, <2>3, <1>1, Put DEF StartingHas, CanStart, Scripting
  <2> QED BY <2>1, <2>2, <2>3
<1>13. op[o].pc \in {"launch", "probed"} /\ Busy(o)
  BY DEF Busy
<1>14. Booting'
  BY <1>3, <1>4, <1>7, <1>13 DEF Plain, Moved, past, Booting, Busy, InStop, Undisturbed, Alone
<1>15. Undisturbed'
  <2> SUFFICES ASSUME ~disturbed
               PROVE  Alone' /\ (kin \subseteq {child})' /\ KilledAwaited' /\ Looked'
    BY <1>7 DEF Undisturbed, past
  <2>1. killed = {} /\ child = NoProc /\ kin = {} /\ \A q \in Op : q # o => ~Busy(q)
    BY <1>13 DEF Undisturbed, Alone, KilledAwaited, Looked, Busy, Plain
  <2> QED
    BY <1>3, <1>7, <2>1 DEF Moved, Busy, Undisturbed, Alone, KilledAwaited, Looked
<1> QED BY <1>9, <1>10, <1>11, <1>12, <1>14, <1>15

LEMMA BeginStopKeeps ==
  ASSUME IInv, NEW o \in Op, BeginStop(o)
  PROVE  IInv'
<1> DEFINE s(q) == [op[o] EXCEPT !.pc = "stopping", !.target = q]
           t(pc) == [op[o] EXCEPT !.pc = pc]
<1>a. op[o] \in OpRec
  BY DEF IInv, Typed
<1>1. \A q \in Op : s(q) \in OpRec /\ s(q).pc = "stopping" /\ s(q).target = q
  BY <1>a DEF OpRec
<1>2. \A pc \in {"stopscript", "stopped"} : t(pc) \in OpRec /\ t(pc).pc = pc
  BY <1>a DEF OpRec
<1> USE Names DEF IInv, Typed
<1>3. \/ /\ IsChildRunning /\ killed' = killed \cup {child}
         /\ op' = [op EXCEPT ![o] = s(child)]
      \/ /\ killed' = killed
         /\ \E pc \in {"stopscript", "stopped"} : op' = [op EXCEPT ![o] = t(pc)]
  BY DEF BeginStop
<1>4. IsChildRunning => child \in kin /\ child \in Op
  BY DEF IsChildRunning, Plain
<1> HIDE DEF s, t
<1>5. /\ Moved(o, {"stopping", "stopscript", "stopped"})
      /\ op'[o].pc \in InStop
      /\ killed' # killed => killed' = killed \cup {child} /\ child \in kin
                             /\ op'[o].pc = "stopping" /\ op'[o].target = child
  <2>1. CASE IsChildRunning /\ killed' = killed \cup {child} /\ op' = [op EXCEPT ![o] = s(child)]
    BY <1>1, <1>4, <2>1, Put DEF Moved, InStop
  <2>2. ASSUME killed' = killed, NEW pc \in {"stopscript", "stopped"},
               op' = [op EXCEPT ![o] = t(pc)]
        PROVE  Moved(o, {"stopping", "stopscript", "stopped"}) /\ op'[o].pc \in InStop
    BY <1>2, <2>2, Put DEF Moved, InStop
  <2> QED BY <1>3, <1>4, <2>1, <2>2
<1>6. /\ op[o].pc = "stop" /\ token' = token + 1 /\ SetState("starting")
      /\ stopRequested' \in BOOLEAN
      /\ UNCHANGED <<config, life, child, kin, dsh, ready, refresh, answer>>
  BY DEF BeginStop, Plain
<1>7. Typed'
  BY <1>5, <1>6 DEF Plain, Moved, life, past, SetState, DaemonState
<1>8. Once'
  BY <1>5, <1>6 DEF Moved, life, past, Once, Fresh, Busy
<1>9. FlagHeld' /\ StartingHas'
  BY <1>5 DEF FlagHeld, StartingHas
<1>10. Booting'
  BY <1>5, <1>6 DEF Moved, life, past, Booting, Busy
<1>11. Undisturbed'
  <2> SUFFICES ASSUME ~disturbed
               PROVE  Alone' /\ (kin \subseteq {child})' /\ KilledAwaited' /\ Looked'
    BY <1>6 DEF Undisturbed, life, past
  <2>1. killed = {} /\ \A q \in Op : q # o => ~Busy(q)
    BY <1>6 DEF Undisturbed, Alone, KilledAwaited, Busy
  <2> QED
    BY <1>5, <1>6, <2>1 DEF Moved, Busy, Undisturbed, Alone, KilledAwaited, Looked, InStop
<1> QED BY <1>7, <1>8, <1>9, <1>10, <1>11

LEMMA StopFinishedKeeps ==
  ASSUME IInv, NEW o \in Op, StopFinished(o)
  PROVE  IInv'
<1> DEFINE s == [op[o] EXCEPT !.pc = "start", !.target = NoProc]
<1>a. op[o] \in OpRec
  BY DEF IInv, Typed
<1>1. s \in OpRec /\ s.pc = "start"
  BY <1>a DEF OpRec
<1>2. \/ op' = [op EXCEPT ![o] = s] /\ UNCHANGED <<answer, sup>>
      \/ Finish(o, "ok")
  BY DEF StopFinished
<1> USE Names DEF IInv, Typed
<1> HIDE DEF s
<1>3. /\ op[o].pc = "stopped" /\ stopRequested' = FALSE /\ SetState("stopped")
      /\ UNCHANGED <<config, past, managed, token, dsh, ready, refresh>>
  BY DEF StopFinished
<1>4. o \in Control
  BY <1>3 DEF Booting, Busy, InStop
<1>5. /\ Moved(o, {"start", "idle"})
      /\ answer' \in [Control -> Outcome] /\ sup' = sup
      /\ \A c \in Control : c # o \/ Busy(c)' => answer'[c] = answer[c]
      /\ answer'[o] # "idle"
  <2>1. CASE Finish(o, "ok")
    BY <1>4, <2>1, FinishDoes DEF Moved, Busy
  <2>2. CASE op' = [op EXCEPT ![o] = s] /\ UNCHANGED <<answer, sup>>
    <3>1. op' \in [Op -> OpRec] /\ op'[o] = s /\ \A q \in Op : q # o => op'[q] = op[q]
      BY <1>1, <2>2, Put
    <3>2. op'[o].pc = "start"
      BY <1>1, <3>1
    <3> QED BY <1>3, <1>4, <2>2, <3>1, <3>2 DEF Moved, Plain, Once, Busy
  <2> QED BY <1>2, <2>1, <2>2
<1>6. Typed'
  <2>1. Plain'
    BY <1>3, <1>5 DEF Plain, past, managed, SetState, DaemonState
  <2> QED BY <1>3, <1>5, <2>1 DEF Moved
<1>7. Once'
  BY <1>3, <1>5 DEF Moved, past, managed, Once, Fresh, Busy
<1>8. FlagHeld' /\ StartingHas'
  BY <1>3 DEF FlagHeld, StartingHas, SetState
<1>9. Booting'
  BY <1>3, <1>4, <1>5 DEF Plain, Moved, past, managed, Booting, Busy, InStop
<1>10. Undisturbed'
  <2> SUFFICES ASSUME ~disturbed
               PROVE  Alone' /\ (kin \subseteq {child})' /\ KilledAwaited' /\ Looked'
    BY <1>3 DEF Undisturbed, past
  <2>1. killed = {} /\ \A q \in Op : q # o => ~Busy(q)
    BY <1>3 DEF Undisturbed, Alone, KilledAwaited, Busy
  <2> QED
    BY <1>3, <1>5, <2>1 DEF Moved, managed, Busy, Undisturbed, Alone, KilledAwaited, Looked
<1> QED BY <1>6, <1>7, <1>8, <1>9, <1>10

LEMMA StopWaitedKeeps ==
  ASSUME IInv, NEW o \in Op, StopWaited(o)
  PROVE  IInv'
<1> USE Names DEF IInv, Typed
<1>1. /\ op[o].pc \in {"stopping", "killing", "stopscript"}
      /\ UNCHANGED <<config, boots, state, file, managed, stopRequested, token, dsh, ready,
                     refresh>>
      /\ \/ disturbed' = TRUE
         \/ disturbed' = disturbed /\ op[o].pc = "stopping" /\ Goto(o, "killing")
         \/ disturbed' = disturbed /\ op[o].pc = "stopscript"
  BY DEF StopWaited, GraceEnds
<1>2. \E pc \in {"killing", "stopped"} : Goto(o, pc)
  BY DEF StopWaited
<1>3. /\ Moved(o, {"killing", "stopped"}) /\ op'[o].target = op[o].target
      /\ answer' = answer /\ sup' = sup
  BY <1>2, GotoDoes DEF Moved
<1>4. Goto(o, "killing") => op'[o].pc = "killing"
  BY GotoDoes DEF Moved
<1>5. Typed'
  <2>1. Plain'
    BY <1>1, <1>3 DEF Plain, managed
  <2> QED BY <1>1, <1>3, <2>1 DEF Moved
<1>6. Once'
  BY <1>1, <1>3 DEF Moved, managed, Once, Fresh, Busy
<1>7. FlagHeld' /\ StartingHas'
  BY <1>3 DEF Moved, FlagHeld, StartingHas, InStop
<1>8. sup = "serving" /\ \A b \in Bootstrap : ~Busy(b)
  BY <1>1 DEF Booting, Busy, InStop, Plain
<1>9. Booting'
  BY <1>1, <1>3, <1>8 DEF Moved, Booting, Busy
<1>10. Undisturbed'
  <2> SUFFICES ASSUME ~disturbed, ~disturbed'
               PROVE  Alone' /\ (kin \subseteq {child})' /\ KilledAwaited' /\ Looked'
    BY <1>1 DEF Undisturbed
  <2>1. \A q \in Op : q # o => ~Busy(q)
    BY <1>1 DEF Undisturbed, Alone, Busy
  <2>2. Alone' /\ (kin \subseteq {child})' /\ Looked'
    BY <1>1, <1>3, <2>1 DEF Moved, managed, Busy, Undisturbed, Alone, Looked
  <2>3. op[o].pc = "stopscript" => killed = {}
    BY <2>1 DEF Undisturbed, KilledAwaited, Busy
  <2>4. op[o].pc = "stopping" => \A p \in killed : op[o].target = p
    BY <2>1 DEF Undisturbed, KilledAwaited, Busy
  <2>5. KilledAwaited'
    BY <1>1, <1>3, <1>4, <2>3, <2>4 DEF managed, KilledAwaited
  <2> QED BY <2>2, <2>5
<1> QED BY <1>5, <1>6, <1>7, <1>9, <1>10

LEMMA StartProbesKeeps ==
  ASSUME IInv, NEW o \in Op, StartProbes(o)
  PROVE  IInv'
<1> DEFINE s == [op[o] EXCEPT !.pc = "probed", !.seen = DshUp]
<1>a. op[o] \in OpRec /\ DshUp \in BOOLEAN
  BY DEF IInv, Typed, DshUp
<1>1. s \in OpRec /\ s.pc = "probed"
  BY <1>a DEF OpRec
<1>2. op' = [op EXCEPT ![o] = s]
  BY DEF StartProbes
<1> USE Names DEF IInv, Typed
<1> HIDE DEF s
<1>3. op' \in [Op -> OpRec] /\ op'[o] = s /\ \A q \in Op : q # o => op'[q] = op[q]
  BY <1>1, <1>2, Put
<1>4. Moved(o, {"probed"})
  BY <1>1, <1>3 DEF Moved
<1>5. /\ op[o].pc = "probing"
      /\ UNCHANGED <<config, life, state, file, managed, stopRequested, token, dsh, ready,
                     refresh, answer>>
  BY DEF StartProbes
<1>6. Typed'
  <2>1. Plain'
    BY <1>5 DEF Plain, life, past, managed
  <2> QED BY <1>4, <1>5, <2>1 DEF Moved
<1>7. Once'
  BY <1>4, <1>5 DEF Moved, life, past, managed, Once, Fresh, Busy
<1>8. FlagHeld' /\ StartingHas'
  BY <1>4, <1>5 DEF Moved, life, past, managed, FlagHeld, StartingHas, CanStart, Awaited,
                    Scripting, IsChildRunning, InStop
<1>9. Booting'
  BY <1>4, <1>5 DEF Moved, life, past, managed, Booting, Busy, InStop
<1>10. Undisturbed'
  BY <1>4, <1>5 DEF Moved, life, past, managed, Busy, Undisturbed, Alone, KilledAwaited, Looked
<1> QED BY <1>6, <1>7, <1>8, <1>9, <1>10

LEMMA StartProbedKeeps ==
  ASSUME IInv, NEW o \in Op, StartProbed(o)
  PROVE  IInv'
<1>1. CASE op[o].pc = "probed" /\ Launch(o)
  BY <1>1, LaunchKeeps
<1>2. CASE /\ op[o].pc = "probed" /\ SetState("running") /\ Finish(o, "ok")
           /\ UNCHANGED <<config, past, managed, stopRequested, token, dsh, ready, refresh>>
  <2> USE Names DEF IInv, Typed
  <2>1. /\ Moved(o, {"idle"})
        /\ answer' \in [Control -> Outcome]
        /\ \A c \in Control : c # o \/ Busy(c)' => answer'[c] = answer[c]
        /\ o \in Control => answer'[o] # "idle"
        /\ sup' = IF o \in Bootstrap THEN "serving" ELSE sup
    BY <1>2, FinishDoes DEF Moved, Busy
  <2>2. Typed'
    <3>1. Plain'
      BY <1>2, <2>1 DEF Plain, past, managed, SetState, DaemonState
    <3> QED BY <1>2, <2>1, <3>1 DEF Moved
  <2>3. Once'
    BY <1>2, <2>1 DEF Moved, past, managed, Once, Fresh, Busy
  <2>4. FlagHeld' /\ StartingHas'
    BY <1>2, <2>1 DEF Moved, FlagHeld, StartingHas, SetState, InStop
  <2>5. Booting'
    BY <1>2, <2>1 DEF Plain, Moved, past, managed, Booting, Busy, Undisturbed, Alone
  <2>6. Undisturbed'
    BY <1>2, <2>1 DEF Moved, past, managed, Busy, Undisturbed, Alone, KilledAwaited, Looked
  <2> QED BY <2>2, <2>3, <2>4, <2>5, <2>6
<1> DEFINE s == [op[o] EXCEPT !.pc = "start", !.act = "start"]
<1>a. op[o] \in OpRec
  BY DEF IInv, Typed
<1>b. s \in OpRec /\ s.pc = "start"
  BY <1>a DEF OpRec
<1>3. CASE /\ op[o].pc = "probed"
           /\ op' = [op EXCEPT ![o] = s]
           /\ UNCHANGED <<config, life, state, file, managed, stopRequested, token, dsh, ready,
                          refresh, answer>>
  <2> USE Names DEF IInv, Typed
  <2> HIDE DEF s
  <2>1. op' \in [Op -> OpRec] /\ op'[o] = s /\ \A q \in Op : q # o => op'[q] = op[q]
    BY <1>3, <1>b, Put
  <2>2. Moved(o, {"start"})
    BY <1>b, <2>1 DEF Moved
  <2>3. Typed'
    <3>1. Plain'
      BY <1>3 DEF Plain, life, past, managed
    <3> QED BY <1>3, <2>2, <3>1 DEF Moved
  <2>4. Once'
    BY <1>3, <2>2 DEF Moved, life, past, managed, Once, Fresh, Busy
  <2>5. FlagHeld' /\ StartingHas'
    BY <1>3, <2>2 DEF Moved, life, past, managed, FlagHeld, StartingHas, CanStart, Awaited,
                      Scripting, IsChildRunning, InStop
  <2>6. Booting'
    BY <1>3, <2>2 DEF Moved, life, past, managed, Booting, Busy, InStop
  <2>7. Undisturbed'
    BY <1>3, <2>2 DEF Moved, life, past, managed, Busy, Undisturbed, Alone, KilledAwaited, Looked
  <2> QED BY <2>3, <2>4, <2>5, <2>6, <2>7
<1> QED BY <1>1, <1>2, <1>3 DEF StartProbed

LEMMA StartScriptDoneKeeps ==
  ASSUME IInv, NEW o \in Op, StartScriptDone(o)
  PROVE  IInv'
<1>a. op[o].token \in Nat /\ op[o] \in OpRec
  BY DEF IInv, Typed, OpRec
<1> USE Names DEF IInv, Typed
<1> DEFINE w == WaitFor(op[o].token)
<1>1. w \in WaitRec /\ w.pc = "wait" /\ w.token = op[o].token /\ w.left > 0
  BY <1>a DEF WaitFor, WaitRec
<1>2. /\ op[o].pc = "script" /\ ~config.child /\ dsh' \in {dsh, [dsh EXCEPT ![o] = "booting"]}
      /\ \E what \in {"ok", "failed"} : Finish(o, what)
      /\ \/ ready' = [ready EXCEPT ![o] = w] /\ SetState(state)
         \/ ready' = ready /\ \E x \in {"running", "exited"} : SetState(x)
      /\ UNCHANGED <<config, past, managed, stopRequested, token, refresh>>
  BY DEF StartScriptDone
<1> HIDE DEF w
<1>3. /\ Moved(o, {"idle"})
      /\ answer' \in [Control -> Outcome]
      /\ \A c \in Control : c # o \/ Busy(c)' => answer'[c] = answer[c]
      /\ o \in Control => answer'[o] # "idle"
      /\ sup' = IF o \in Bootstrap THEN "serving" ELSE sup
  BY <1>2, FinishDoes DEF Moved, Busy
<1>4. /\ ready' \in [Op -> WaitRec]
      /\ \A q \in Op : q # o => ready'[q] = ready[q]
      /\ ready'[o] = w \/ ready' = ready
  BY <1>1, <1>2, Put
<1>5. Typed'
  <2>1. Plain'
    BY <1>2, <1>3 DEF Plain, past, managed, SetState, DaemonState
  <2> QED BY <1>1, <1>2, <1>3, <1>4, <2>1 DEF Moved
<1>6. Once'
  BY <1>2, <1>3, <1>4 DEF Moved, past, managed, Once, Fresh, Busy
<1>7. FlagHeld'
  BY <1>2, <1>3 DEF Moved, FlagHeld, InStop
<1>8. StartingHas'
  <2> SUFFICES ASSUME (state = "starting" /\ CanStart)'
               PROVE  (\E q \in Op : op[q].pc \in InStop \/ Scripting(q) \/ Awaited(q))'
    BY DEF StartingHas
  <2>1. state = "starting" /\ CanStart /\ ready' = [ready EXCEPT ![o] = w]
    BY <1>2 DEF SetState, CanStart
  <2>2. PICK q \in Op : op[q].pc \in InStop \/ Scripting(q) \/ Awaited(q)
    BY <2>1 DEF StartingHas
  <2>3. CASE q = o
    <3>1. op[o].token = token
      BY <1>2, <2>2, <2>3 DEF InStop, Scripting, Awaited, Once, Fresh, Busy
    <3>2. ready'[o] = w
      BY <1>1, <2>1, Put
    <3>3. Awaited(o)'
      BY <1>1, <1>2, <3>1, <3>2 DEF Awaited
    <3> QED BY <3>3
  <2>4. CASE q # o
    BY <1>2, <1>3, <1>4, <2>2, <2>4 DEF Moved, managed, Scripting, Awaited, IsChildRunning
  <2> QED BY <2>3, <2>4
<1>9. Booting'
  BY <1>2, <1>3 DEF Plain, Moved, past, managed, Booting, Busy, Undisturbed, Alone
<1>10. Undisturbed'
  BY <1>2, <1>3 DEF Moved, past, managed, Busy, Undisturbed, Alone, KilledAwaited, Looked
<1> QED BY <1>5, <1>6, <1>7, <1>8, <1>9, <1>10

LEMMA OnChildExitKeeps ==
  ASSUME IInv, NEW p \in Op, OnChildExit(p)
  PROVE  IInv'
<1> DEFINE s(o) == [op[o] EXCEPT !.pc = "stopped"]
<1>a. \A o \in Op : op[o] \in OpRec
  BY DEF IInv, Typed
<1>1. \A o \in Op : s(o) \in OpRec /\ s(o).pc = "stopped"
  BY <1>a DEF OpRec
<1>2. op' = [o \in Op |-> IF op[o].pc \in {"stopping", "killing"} /\ op[o].target = p
                          THEN s(o) ELSE op[o]]
  BY DEF OnChildExit
<1> HIDE DEF s
<1> USE Names DEF IInv, Typed
<1>3. /\ op' \in [Op -> OpRec]
      /\ \A o \in Op : \/ op'[o] = op[o]
                       \/ op[o].pc \in {"stopping", "killing"} /\ op'[o].pc = "stopped"
  BY <1>1, <1>2
<1>4. /\ p \in kin /\ kin' = kin \ {p} /\ killed' = killed \ {p} /\ child' = NoProc
      /\ SetState(IF stopRequested THEN state ELSE "exited")
      /\ UNCHANGED <<config, life, stopRequested, token, dsh, ready, refresh, answer>>
  BY DEF OnChildExit
<1>5. Typed'
  <2>1. Plain'
    BY <1>4 DEF Plain, life, past, SetState, DaemonState
  <2> QED BY <1>3, <1>4, <2>1
<1>6. Once'
  BY <1>3, <1>4 DEF life, past, Once, Fresh, Busy
<1>7. \A o \in Op : op[o].pc \in InStop => op'[o].pc \in InStop
  BY <1>3 DEF InStop
<1>8. FlagHeld' /\ StartingHas'
  BY <1>4, <1>7 DEF FlagHeld, StartingHas, SetState
<1>9. Booting'
  <2>1. sup = "serving" /\ \A b \in Bootstrap : ~Busy(b)
    BY <1>4 DEF Plain, Booting
  <2> QED BY <1>3, <1>4, <2>1 DEF life, Booting, Busy
<1>10. Undisturbed'
  <2> SUFFICES ASSUME ~disturbed
               PROVE  Alone' /\ (kin \subseteq {child})' /\ KilledAwaited' /\ Looked'
    BY <1>4 DEF Undisturbed, life, past
  <2>1. kin' = {} /\ killed' = {}
    BY <1>4 DEF Undisturbed, Plain
  <2> QED
    BY <1>3, <1>4, <2>1 DEF Undisturbed, Alone, Busy, KilledAwaited, Looked
<1> QED BY <1>5, <1>6, <1>8, <1>9, <1>10

(* The steps of a readiness wait change nothing but it and the state, and what *)
(* "starting" waits for goes on.                                            *)
LEMMA WaitKeeps ==
  ASSUME IInv, NEW o \in Op, NEW w \in WaitRec, ready' = [ready EXCEPT ![o] = w],
         ready[o].pc # "none", w.pc = "wait" => w.left > 0,
         state' \in DaemonState, file' \in DaemonState,
         state' = "starting" =>
           state = "starting" /\ (Awaited(o) => w.pc # "none" /\ w.token = token),
         UNCHANGED <<config, life, managed, stopRequested, token, dsh, op, refresh, answer>>
  PROVE  IInv'
<1> USE Names DEF IInv, Typed
<1>1. ready' \in [Op -> WaitRec] /\ ready'[o] = w /\ \A q \in Op : q # o => ready'[q] = ready[q]
  BY Put
<1>2. Typed'
  <2>1. Plain'
    BY DEF Plain, life, past, managed
  <2> QED BY <1>1, <2>1
<1>3. Once'
  BY <1>1 DEF life, past, managed, Once, Fresh, Busy
<1>4. FlagHeld' /\ StartingHas'
  BY <1>1 DEF managed, FlagHeld, StartingHas, CanStart, Awaited, Scripting, IsChildRunning
<1>5. Booting' /\ Undisturbed'
  BY DEF life, past, managed, Busy, Booting, Undisturbed, Alone, KilledAwaited, Looked
<1> QED BY <1>2, <1>3, <1>4, <1>5

LEMMA ReadyKeeps ==
  ASSUME IInv, NEW o \in Op, ReadyWakes(o) \/ ReadyProbes(o) \/ ReadyProbed(o)
  PROVE  IInv'
<1> DEFINE w == ready[o]
           asleep == [w EXCEPT !.pc = "wait"]
           woken == [w EXCEPT !.pc = "probing", !.left = @ - 1]
           told == [w EXCEPT !.pc = "probed", !.seen = DshUp]
<1>1. w \in WaitRec /\ DshUp \in BOOLEAN /\ Attempts \in Nat
  BY Names DEF IInv, Typed, DshUp
<1>2. NoWait \in WaitRec /\ NoWait.pc = "none"
  BY Names DEF NoWait, WaitRec
<1>3. asleep \in WaitRec /\ asleep.pc = "wait" /\ asleep.left = w.left /\ asleep.token = w.token
  BY <1>1 DEF WaitRec
<1>4. w.left > 0 => woken \in WaitRec /\ woken.pc = "probing" /\ woken.token = w.token
  <2>1. w.left \in 0..Attempts
    BY <1>1 DEF WaitRec
  <2>2. ASSUME NEW n \in 0..Attempts
        PROVE  [w EXCEPT !.pc = "probing", !.left = n] \in WaitRec
    BY <1>1 DEF WaitRec
  <2>3. w.left > 0 => w.left - 1 \in 0..Attempts
    BY <1>1, <2>1
  <2> QED BY <1>1, <2>2, <2>3 DEF WaitRec
<1>5. told \in WaitRec /\ told.pc = "probed" /\ told.token = w.token
  BY <1>1 DEF WaitRec
<1>6. w.left \in Nat
  BY <1>1 DEF WaitRec
<1>7. state \in DaemonState /\ file \in DaemonState
  BY DEF IInv, Typed, Plain
<1>8. CASE ReadyWakes(o)
  <2>1. w.pc = "wait" /\ w.left > 0
    BY <1>8 DEF ReadyWakes, IInv, Typed
  <2>2. UNCHANGED <<config, life, state, file, managed, stopRequested, token, dsh, op, refresh,
                    answer>>
    BY <1>8 DEF ReadyWakes
  <2>3. CASE w.token # token \/ (config.child /\ ~IsChildRunning)
    <3>1. ready' = [ready EXCEPT ![o] = NoWait]
      BY <1>8, <2>3 DEF ReadyWakes
    <3>2. ~Awaited(o)
      BY <2>3 DEF Awaited
    <3> HIDE DEF w
    <3> QED BY <1>2, <1>7, <2>1, <2>2, <3>1, <3>2, WaitKeeps DEF w
  <2>4. CASE ~(w.token # token \/ (config.child /\ ~IsChildRunning))
    <3>1. ready' = [ready EXCEPT ![o] = woken]
      BY <1>8, <2>4 DEF ReadyWakes
    <3> HIDE DEF woken
    <3> QED BY <1>4, <1>7, <2>1, <2>2, <2>4, <3>1, WaitKeeps
  <2> QED BY <2>3, <2>4
<1>9. CASE ReadyProbes(o)
  <2>1. w.pc = "probing" /\ ready' = [ready EXCEPT ![o] = told]
    BY <1>9 DEF ReadyProbes
  <2>2. UNCHANGED <<config, life, state, file, managed, stopRequested, token, dsh, op, refresh,
                    answer>>
    BY <1>9 DEF ReadyProbes
  <2> HIDE DEF told
  <2> QED BY <1>5, <1>7, <2>1, <2>2, WaitKeeps DEF Awaited
<1>10. CASE ReadyProbed(o)
  <2>1. /\ w.pc = "probed"
        /\ UNCHANGED <<config, life, managed, stopRequested, token, dsh, op, refresh, answer>>
    BY <1>10 DEF ReadyProbed
  <2>2. CASE w.seen \/ Exhausted(w)
    <3>1. ready' = [ready EXCEPT ![o] = NoWait]
      BY <1>10, <2>2 DEF ReadyProbed
    <3>2. state' \in DaemonState /\ file' \in DaemonState
      BY <1>7, <1>10 DEF ReadyProbed, SetState, DaemonState
    <3>3. state' = "starting" => state = "starting" /\ ~Awaited(o)
      BY <1>10, <2>2 DEF ReadyProbed, SetState, GivesUp, Awaited
    <3> QED BY <1>2, <2>1, <3>1, <3>2, <3>3, WaitKeeps
  <2>3. CASE ~w.seen /\ ~Exhausted(w)
    <3>1. ready' = [ready EXCEPT ![o] = asleep] /\ state' = state /\ file' = file
      BY <1>10, <2>3 DEF ReadyProbed, GivesUp
    <3>2. asleep.left > 0
      BY <1>3, <1>6, <2>3 DEF Exhausted
    <3> HIDE DEF asleep
    <3> QED BY <1>3, <1>7, <2>1, <3>1, <3>2, WaitKeeps DEF Awaited
  <2> QED BY <2>2, <2>3
<1> QED BY <1>8, <1>9, <1>10

(* The steps of the refresh and of dsh change nothing that IInv is about, but  *)
(* the state, which they do not set to "starting".                           *)
LEMMA AsideKeeps ==
  ASSUME IInv,
         state' \in DaemonState, file' \in DaemonState,
         state' = "starting" => state = "starting",
         dsh' \in [Proc -> {"dead", "booting", "up"}], refresh' \in [Refresh -> RefreshRec],
         UNCHANGED <<config, life, managed, stopRequested, token, op, ready, answer>>
  PROVE  IInv'
<1> USE DEF IInv, Typed
<1>1. Typed'
  BY DEF Plain, life, past, managed
<1>2. Once'
  BY DEF life, past, managed, Once, Fresh, Busy
<1>3. FlagHeld' /\ StartingHas'
  BY DEF managed, FlagHeld, StartingHas, CanStart, Awaited, Scripting, IsChildRunning
<1>4. Booting' /\ Undisturbed'
  BY DEF life, past, managed, Busy, Booting, Undisturbed, Alone, KilledAwaited, Looked
<1> QED BY <1>1, <1>2, <1>3, <1>4

LEMMA RefreshKeeps ==
  ASSUME IInv, NEW r \in Refresh, RefreshState(r)
  PROVE  IInv'
<1>1. /\ state \in DaemonState /\ file \in DaemonState /\ refresh \in [Refresh -> RefreshRec]
      /\ dsh \in [Proc -> {"dead", "booting", "up"}]
  BY DEF IInv, Typed, Plain
<1>2. refresh' \in [Refresh -> RefreshRec]
  <2>1. CASE RefreshTick(r)
    <3>1. [refresh[r] EXCEPT !.pc = "probing"] \in RefreshRec
      BY <1>1 DEF RefreshRec
    <3> QED BY <1>1, <2>1, <3>1 DEF RefreshTick
  <2>2. CASE RefreshProbes(r)
    <3>1. [pc |-> "probed", seen |-> DshUp] \in RefreshRec
      BY DEF RefreshRec, DshUp
    <3> QED BY <1>1, <2>2, <3>1 DEF RefreshProbes
  <2>3. CASE RefreshProbed(r)
    <3>1. NoRefresh \in RefreshRec
      BY DEF NoRefresh, RefreshRec
    <3> QED BY <1>1, <2>3, <3>1 DEF RefreshProbed
  <2> QED BY <2>1, <2>2, <2>3 DEF RefreshState
<1>3. state' \in DaemonState /\ file' \in DaemonState /\ (state' = "starting" => state = "starting")
  BY <1>1 DEF RefreshState, RefreshTick, RefreshProbes, RefreshProbed, Refreshed, SetState,
              DaemonState
<1>4. UNCHANGED <<config, life, managed, stopRequested, token, dsh, op, ready, answer>>
  BY DEF RefreshState, RefreshTick, RefreshProbes, RefreshProbed
<1> QED BY <1>1, <1>2, <1>3, <1>4, AsideKeeps

LEMMA DshKeeps ==
  ASSUME IInv, DshByHand \/ UNCHANGED vars \/ \E p \in Proc : DshBoots(p) \/ DshEnds(p)
  PROVE  IInv'
<1>1. /\ state \in DaemonState /\ file \in DaemonState /\ refresh \in [Refresh -> RefreshRec]
      /\ dsh \in [Proc -> {"dead", "booting", "up"}]
  BY DEF IInv, Typed, Plain
<1>2. dsh' \in [Proc -> {"dead", "booting", "up"}]
  BY <1>1, Names DEF DshByHand, vars, DshBoots, DshEnds
<1>3. UNCHANGED <<config, life, state, file, managed, stopRequested, token, op, ready, refresh,
                  answer>>
  BY DEF DshByHand, DshBoots, DshEnds, vars, life, past, managed
<1> QED BY <1>1, <1>2, <1>3, AsideKeeps

LEMMA HandleControlKeeps ==
  ASSUME IInv, NEW c \in Control, NEW act \in {"start", "stop", "restart"},
         HandleControl(c, act)
  PROVE  IInv'
<1> DEFINE s == [NoOp EXCEPT !.act = act, !.pc = IF act = "start" THEN "start" ELSE "stop"]
<1>1. s \in OpRec /\ s.pc \in {"start", "stop"}
  BY Names DEF NoOp, OpRec
<1>2. op' = [op EXCEPT ![c] = s]
  BY DEF HandleControl
<1> USE Names DEF IInv, Typed
<1> HIDE DEF s
<1>3. op' \in [Op -> OpRec] /\ op'[c] = s /\ \A q \in Op : q # c => op'[q] = op[q]
  BY <1>1, <1>2, Put
<1>4. Moved(c, {"start", "stop"})
  BY <1>1, <1>3 DEF Moved
<1>5. /\ sup = "serving" /\ answer[c] = "idle" /\ answer' = [answer EXCEPT ![c] = "pending"]
      /\ disturbed' = (disturbed \/ \E o \in Op : Busy(o))
      /\ UNCHANGED <<config, sup, boots, state, file, managed, stopRequested, token, dsh,
                     ready, refresh>>
  BY DEF HandleControl, Busy
<1>6. Fresh(c) /\ ~Busy(c) /\ \A b \in Bootstrap : ~Busy(b)
  BY <1>5 DEF Once, Booting
<1>7. Typed'
  <2>1. Plain'
    BY <1>5 DEF Plain, managed, Outcome
  <2> QED BY <1>4, <1>5, <2>1 DEF Moved
<1>8. Once'
  BY <1>4, <1>5, <1>6 DEF Plain, Moved, managed, Once, Fresh, Busy
<1>9. FlagHeld' /\ StartingHas'
  <2>1. op[c].pc = "idle" /\ ready[c].pc = "none"
    BY <1>6 DEF Busy, Fresh
  <2> QED BY <1>4, <1>5, <2>1 DEF Moved, managed, FlagHeld, StartingHas, CanStart, Awaited,
                                   Scripting, IsChildRunning, InStop
<1>10. Booting'
  BY <1>4, <1>5, <1>6 DEF Moved, Booting, Busy
<1>11. Undisturbed'
  <2>1. SUFFICES ASSUME ~disturbed'
                 PROVE  Alone' /\ (kin \subseteq {child})' /\ KilledAwaited' /\ Looked'
    BY DEF Undisturbed
  <2>2. ~disturbed /\ \A q \in Op : ~Busy(q)
    BY <1>5, <2>1
  <2>3. \A q \in Op : q # c => ~Busy(q)'
    BY <1>4, <2>2 DEF Moved, Busy
  <2>4. Alone'
    BY <2>3 DEF Alone
  <2>5. KilledAwaited /\ kin \subseteq {child}
    BY <2>2 DEF Undisturbed
  <2>6. killed = {} /\ UNCHANGED <<killed, kin, child>>
    BY <1>5, <2>2, <2>5 DEF KilledAwaited, Busy, managed
  <2>7. KilledAwaited' /\ (kin \subseteq {child})'
    BY <2>5, <2>6 DEF KilledAwaited
  <2>8. Looked'
    BY <1>4, <2>2 DEF Moved, Busy, Looked
  <2> QED BY <2>4, <2>7, <2>8
<1> QED BY <1>7, <1>8, <1>9, <1>10, <1>11

LEMMA BootKeeps ==
  ASSUME IInv, NEW b \in Bootstrap, Boot(b)
  PROVE  IInv'
<1> DEFINE s == [NoOp EXCEPT !.pc = "probing", !.act = "bootstrap"]
           t == [NoOp EXCEPT !.pc = "start"]
<1>1. s \in OpRec /\ s.pc = "probing" /\ t \in OpRec /\ t.pc = "start"
  BY Names DEF NoOp, OpRec
<1>2. /\ sup = "down" /\ b \notin boots /\ boots' = boots \cup {b}
      /\ UNCHANGED <<config, disturbed, managed, stopRequested, token, dsh, ready, refresh, answer>>
      /\ \/ /\ sup' = "serving" /\ op' = op
            /\ \E x \in {"unknown", "exited"} : SetState(x)
         \/ /\ sup' = "boot" /\ state' = state /\ file' = file
            /\ op' = [op EXCEPT ![b] = s] \/ op' = [op EXCEPT ![b] = t]
  BY DEF Boot
<1> HIDE DEF s, t
<1> USE Names DEF IInv, Typed
<1>3. Fresh(b) /\ (\A o \in Op : ~Busy(o)) /\ kin = {} /\ child = NoProc /\ killed = {}
  BY <1>2 DEF Once, Booting, Plain
<1>4. \/ op' = op /\ sup' = "serving"
      \/ Moved(b, {"probing", "start"}) /\ sup' = "boot"
  <2>1. ASSUME NEW r \in {s, t}, op' = [op EXCEPT ![b] = r] PROVE Moved(b, {"probing", "start"})
    <3>1. op' \in [Op -> OpRec] /\ op'[b] = r /\ \A q \in Op : q # b => op'[q] = op[q]
      BY <1>1, <2>1, Put
    <3> QED BY <1>1, <2>1, <3>1 DEF Moved
  <2> QED BY <1>2, <2>1
<1>5. Typed'
  <2>1. Plain'
    BY <1>2 DEF Plain, managed, SetState, DaemonState
  <2> QED BY <1>2, <1>4, <2>1 DEF Moved
<1>6. Once'
  BY <1>2, <1>3, <1>4 DEF Moved, managed, Once, Fresh, Busy
<1>7. op[b].pc = "idle" /\ ready[b].pc = "none"
  BY <1>3 DEF Busy, Fresh
<1>8. FlagHeld'
  BY <1>2, <1>4, <1>7 DEF Moved, FlagHeld, InStop
<1>9. StartingHas'
  BY <1>2, <1>4, <1>7 DEF Moved, managed, StartingHas, CanStart, Awaited, Scripting,
                          IsChildRunning, InStop, SetState
<1>10. Booting'
  BY <1>2, <1>3, <1>4 DEF Moved, managed, Booting, Busy, InStop
<1>11. Undisturbed'
  BY <1>2, <1>3, <1>4 DEF Moved, managed, Busy, Undisturbed, Alone, KilledAwaited, Looked
<1> QED BY <1>5, <1>6, <1>8, <1>9, <1>10, <1>11

LEMMA NothingRuns ==
  ASSUME kin = {}, killed = {}, child = NoProc, stopRequested = FALSE, state = "unknown",
         disturbed = FALSE, sup = "down", op = [o \in Op |-> NoOp], ready = [o \in Op |-> NoWait]
  PROVE  /\ \A o \in Op : Fresh(o) /\ ~Busy(o)
         /\ FlagHeld /\ StartingHas /\ Booting /\ Undisturbed
BY Names DEF NoOp, NoWait, Fresh, Busy, FlagHeld, StartingHas, Booting, Undisturbed, Alone,
             KilledAwaited, Looked

LEMMA NothingIsTyped ==
  /\ [o \in Op |-> NoOp] \in [Op -> OpRec]
  /\ [o \in Op |-> NoWait] \in [Op -> WaitRec]
  /\ [r \in Refresh |-> NoRefresh] \in [Refresh -> RefreshRec]
  /\ NoOp.pc = "idle" /\ NoWait.pc = "none"
BY Names DEF NoOp, NoWait, NoRefresh, OpRec, WaitRec, RefreshRec

LEMMA InitHolds ==
  ASSUME Init
  PROVE  IInv
<1>1. Typed
  BY NothingIsTyped DEF Init, Typed, Plain, DaemonState, Outcome
<1>2. (\A o \in Op : Fresh(o) /\ ~Busy(o)) /\ FlagHeld /\ StartingHas /\ Booting /\ Undisturbed
  BY NothingRuns DEF Init
<1>3. Once
  BY <1>2, Names DEF Once, Init
<1> QED BY <1>1, <1>2, <1>3 DEF IInv

LEMMA ExitKeeps ==
  ASSUME IInv, Exit
  PROVE  IInv'
<1>1. Typed'
  <2>1. Plain'
    BY DEF IInv, Typed, Plain, Exit, DaemonState, Outcome
  <2>2. op' = [o \in Op |-> NoOp] /\ ready' = [o \in Op |-> NoWait]
        /\ refresh' = [r \in Refresh |-> NoRefresh]
    BY DEF Exit
  <2> QED BY <2>1, <2>2, NothingIsTyped DEF Typed
<1>2. ((\A o \in Op : Fresh(o) /\ ~Busy(o)) /\ FlagHeld /\ StartingHas /\ Booting /\ Undisturbed)'
  BY Names, NothingIsTyped DEF Exit, Fresh, Busy, FlagHeld, StartingHas, Booting, Undisturbed,
                               Alone, KilledAwaited, Looked
<1>3. Once'
  BY <1>2, Names DEF Once
<1> QED BY <1>1, <1>2, <1>3 DEF IInv
-------------------------------------------------------------------------------
LEMMA StepKeeps ==
  ASSUME IInv, [Next]_vars
  PROVE  IInv'
<1>1. ASSUME NEW o \in Op, Resume(o) PROVE IInv'
  <2>1. CASE LaunchUnprobed(o)
    BY <2>1, LaunchKeeps DEF LaunchUnprobed
  <2> QED BY <1>1, <2>1, BeginStartKeeps, BeginStopKeeps, StopFinishedKeeps DEF Resume
<1>2. ASSUME NEW o \in Op, Event(o) PROVE IInv'
  BY <1>2, StartProbesKeeps, StartProbedKeeps, StartScriptDoneKeeps, StopWaitedKeeps, ReadyKeeps,
     OnChildExitKeeps DEF Event
<1> QED
  BY <1>1, <1>2, HandleControlKeeps, DshKeeps, RefreshKeeps, BootKeeps, ExitKeeps DEF Next

THEOREM Inductive == Spec => []IInv
<1>1. Init => IInv
  BY InitHolds
<1>2. IInv /\ [Next]_vars => IInv'
  BY StepKeeps
<1> QED BY <1>1, <1>2, PTL DEF Spec

(* Type correctness.                                                        *)
THEOREM SupervisorTypes == Spec => []TypeOK
<1>1. IInv => TypeOK
  BY DEF IInv, Typed, Plain, TypeOK, OpRec, WaitRec, RefreshRec, Outcome
<1> QED BY <1>1, Inductive, PTL

(* "starting" means that something goes on that will end it: an operation, or  *)
(* the readiness wait of a start (daemon.js:348-496).                        *)
THEOREM StartingHasAReason == Spec => []StartingIsInFlight
<1>1. IInv => StartingIsInFlight
  BY DEF IInv, StartingHas, StartingIsInFlight, InFlight, InStop, Scripting, Awaited
<1> QED BY <1>1, Inductive, PTL

(* While operations come one after another and the killed die in time, a       *)
(* supervisor never has a living child out of sight, so start() never spawns   *)
(* a second dsh beside one (daemon.js:355).                                  *)
THEOREM OneChildAtATime == Spec => []OneChild
<1>1. IInv => OneChild
  BY DEF IInv, Undisturbed, OneChild
<1> QED BY <1>1, Inductive, PTL

(* Each request is answered at most once, whatever overlaps it: the abstract   *)
(* request life cycle, but for its liveness (daemon.js:631-654).             *)
THEOREM ControlsAnsweredOnce == Spec => Lifecycle!SafeSpec
<1>1. Init => Lifecycle!Init
  BY DEF Init, Lifecycle!Init
<1>2. ASSUME IInv, IInv', [Next]_vars PROVE [Lifecycle!Next]_answer
  <2> USE Names
  <2>1. answer' \in [Control -> Outcome]
    BY <1>2 DEF IInv, Typed, Plain
  <2>2. ASSUME NEW c \in Control PROVE Lifecycle!Advances(c)
    <3>1. \A o \in Op, what \in {"ok", "failed"} :
            Finish(o, what) /\ Busy(o) => Lifecycle!Advances(c)
      BY <1>2, FinishDoes DEF IInv, Typed, Plain, Once, Lifecycle!Advances
    <3>2. answer' = answer => Lifecycle!Advances(c)
      BY DEF Lifecycle!Advances
    <3>3. ASSUME NEW o \in Op, Launch(o), Busy(o) PROVE Lifecycle!Advances(c)
      BY <3>1, <3>2, <3>3 DEF Launch
    <3>4. ASSUME NEW o \in Op, Resume(o) PROVE Lifecycle!Advances(c)
      BY <3>1, <3>2, <3>3, <3>4 DEF Resume, BeginStart, Fail, Goto, LaunchUnprobed, BeginStop,
                                    StopFinished, Busy
    <3>5. ASSUME NEW o \in Op, Event(o) PROVE Lifecycle!Advances(c)
      BY <3>1, <3>2, <3>3, <3>5 DEF Event, StartProbes, StartProbed, StartScriptDone, StopWaited,
           Goto, ReadyWakes, ReadyProbes, ReadyProbed, OnChildExit, Busy
    <3>6. ASSUME NEW d \in Control, NEW act \in {"start", "stop", "restart"},
                 HandleControl(d, act)
          PROVE  Lifecycle!Advances(c)
      <4>1. answer[d] = "idle" /\ answer' = [answer EXCEPT ![d] = "pending"]
        BY <3>6 DEF HandleControl
      <4> QED BY <1>2, <4>1 DEF IInv, Typed, Plain, Lifecycle!Advances
    <3>7. CASE Exit
      <4>1. answer'[c] = IF answer[c] = "pending" THEN "lost" ELSE answer[c]
        BY <3>7 DEF Exit
      <4> QED BY <4>1 DEF Lifecycle!Advances
    <3>8. CASE DshByHand \/ UNCHANGED vars \/ \E p \in Proc : DshBoots(p) \/ DshEnds(p)
      BY <3>2, <3>8 DEF DshByHand, DshBoots, DshEnds, vars
    <3>9. ASSUME NEW b \in Bootstrap, Boot(b) PROVE Lifecycle!Advances(c)
      BY <3>2, <3>9 DEF Boot
    <3>10. ASSUME NEW r \in Refresh, RefreshState(r) PROVE Lifecycle!Advances(c)
      BY <3>2, <3>10 DEF RefreshState, RefreshTick, RefreshProbes, RefreshProbed
    <3> QED BY <1>2, <3>4, <3>5, <3>6, <3>7, <3>8, <3>9, <3>10 DEF Next
  <2> QED BY <2>1, <2>2 DEF Lifecycle!Next, Outcome
<1> QED BY <1>1, <1>2, Inductive, PTL DEF Spec, Lifecycle!SafeSpec
===============================================================================
