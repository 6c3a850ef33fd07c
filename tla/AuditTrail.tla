------------------------------ MODULE AuditTrail ------------------------------
(***************************************************************************)
(* The audit events of the store (packages/store/src/sqlite.ts), the       *)
(* retention that trims them (apps/gateway/src/audit-retention.ts) and the *)
(* export that pages through them (control.ts).                            *)
(*                                                                         *)
(* An event is its row id; its time is a tick of a clock that is not set    *)
(* back.  Store calls are atomic; between two of them anything else may run.*)
(* The retention is at least a day: below that, nothing is ever purged.     *)
(***************************************************************************)
EXTENDS Naturals, FiniteSets, Sequences

CONSTANTS
  Retention,              \* retentionDays, in ticks
  BatchSize, PageMax,     \* rows of a purge batch, of an export page
  MaxRounds,              \* MAX_PURGE_ROUNDS
  Cooldown,               \* lazyCooldownMs, in ticks
  MaxEvents, MaxTime, MaxFailures, MaxExits   \* bounds

ASSUME RetentionGiven ==
  /\ Retention \in Nat \ {0} /\ BatchSize \in Nat \ {0} /\ PageMax \in Nat \ {0}
  /\ MaxRounds \in Nat \ {0} /\ Cooldown \in Nat
ASSUME TrailBounds ==
  MaxEvents \in Nat /\ MaxTime \in Nat /\ MaxFailures \in Nat /\ MaxExits \in Nat

VARIABLES
  now, up,
  ts,            \* the time of every event that was ever appended
  kept,          \* the rows that are there
  purge,         \* the flag running, the pass under way, its cutoff and its rounds
  lastPurgeAt,
  export,        \* the one export: its offset, what it sent, what was there at first,
                 \* and how many rows were purged since
  failures, exits

vars == <<now, up, ts, kept, purge, lastPurgeAt, export, failures, exits>>

Idle == [running |-> FALSE, pass |-> FALSE, before |-> 0, round |-> 0]
NoExport == [st |-> "none", offset |-> 0, out |-> {}, first |-> {}, purged |-> 0]

(* cutoffBefore(); before the first Retention ticks nothing is that old.         *)
Cutoff == IF now < Retention THEN 0 ELSE now - Retention
Started == [running |-> TRUE, pass |-> TRUE, before |-> Cutoff, round |-> 0]

Init ==
  /\ now = 0 /\ up = TRUE
  /\ ts = <<>> /\ kept = {}
  /\ purge = Started /\ lastPurgeAt = 0
  /\ export = NoExport
  /\ failures = 0 /\ exits = 0
-------------------------------------------------------------------------------
Tick ==
  /\ now < MaxTime
  /\ now' = now + 1
  /\ UNCHANGED <<up, ts, kept, purge, lastPurgeAt, export, failures, exits>>

(* maybeLazyPurge(): one append in lazySample starts a purge.                     *)
MayPurgeLazily == ~purge.running /\ now - lastPurgeAt >= Cooldown

(* appendAudit() as createAuditRetention() wraps it.                             *)
Record ==
  /\ up /\ Len(ts) < MaxEvents
  /\ ts' = Append(ts, now)
  /\ kept' = kept \cup {Len(ts) + 1}
  /\ purge' \in {purge} \cup (IF MayPurgeLazily THEN {Started} ELSE {})
  /\ UNCHANGED <<now, up, lastPurgeAt, export, failures, exits>>

(* The interval of start(); purgeNow() does nothing while it is running.           *)
IntervalFires ==
  /\ up /\ ~purge.running
  /\ purge' = Started
  /\ UNCHANGED <<now, up, ts, kept, lastPurgeAt, export, failures, exits>>

Stale == {i \in kept : ts[i] < purge.before}

(* purgeAudit(before, limit): the oldest rows by id.                              *)
NewestFirst ==   \* defect
  {i \in Stale : Cardinality({j \in Stale : j > i}) < BatchSize}
Batch == {i \in Stale : Cardinality({j \in Stale : j < i}) < BatchSize}

(* The finally of purgeNow().                                                   *)
StillRunning == [Idle EXCEPT !.running = TRUE]   \* defect: reset only after a success
AfterFailure == Idle

PurgeRound ==
  /\ up /\ purge.pass
  /\ kept' = kept \ Batch
  /\ export' = IF export.st = "reading"
               THEN [export EXCEPT !.purged = @ + Cardinality(Batch)] ELSE export
  /\ IF Cardinality(Batch) < BatchSize \/ purge.round + 1 = MaxRounds
     THEN purge' = Idle /\ lastPurgeAt' = now
     ELSE purge' = [purge EXCEPT !.round = @ + 1] /\ UNCHANGED lastPurgeAt
  /\ UNCHANGED <<now, up, ts, failures, exits>>

(* The store throws: the rounds before stay done, the pass is over.                *)
PurgeFails ==
  /\ up /\ purge.pass /\ failures < MaxFailures
  /\ purge' = AfterFailure
  /\ failures' = failures + 1
  /\ UNCHANGED <<now, up, ts, kept, lastPurgeAt, export, exits>>
-------------------------------------------------------------------------------
(* streamAuditLines(): pages of the rows in order of time, which is that of ids.   *)

ExportBegins ==
  /\ up /\ export.st = "none"
  /\ export' = [NoExport EXCEPT !.st = "reading", !.first = kept]
  /\ UNCHANGED <<now, up, ts, kept, purge, lastPurgeAt, failures, exits>>

Rank(i) == Cardinality({j \in kept : j < i})
Ahead == {i \in kept : Rank(i) >= export.offset}
FromItsStart ==   \* defect: an offset one too small
  {i \in kept : Rank(i) + 1 >= export.offset /\ Rank(i) < export.offset + PageMax}
Page == {i \in Ahead : Rank(i) < export.offset + PageMax}

ExportPage ==
  /\ up /\ export.st = "reading"
  /\ export' = [st |-> IF Cardinality(Page) < PageMax THEN "done" ELSE "reading",
                offset |-> export.offset + Cardinality(Page),
                out |-> export.out \cup Page,
                first |-> export.first, purged |-> export.purged]
  /\ UNCHANGED <<now, up, ts, kept, purge, lastPurgeAt, failures, exits>>
-------------------------------------------------------------------------------
(* The gateway's process: an export is cut off, a purge is not resumed.            *)
Exit ==
  /\ up /\ exits < MaxExits
  /\ up' = FALSE /\ exits' = exits + 1
  /\ purge' = Idle
  /\ export' = IF export.st = "reading" THEN [export EXCEPT !.st = "cut"] ELSE export
  /\ UNCHANGED <<now, ts, kept, lastPurgeAt, failures>>

Boot ==
  /\ ~up
  /\ up' = TRUE /\ purge' = Started /\ lastPurgeAt' = 0
  /\ UNCHANGED <<now, ts, kept, export, failures, exits>>

Next ==
  \/ Tick \/ Record \/ IntervalFires \/ PurgeRound \/ PurgeFails
  \/ ExportBegins \/ ExportPage \/ Exit \/ Boot

Spec == Init /\ [][Next]_vars

(* setInterval() fires again and again, and the store answers.                    *)
FairSpec == Spec /\ WF_vars(IntervalFires) /\ WF_vars(PurgeRound)
-------------------------------------------------------------------------------
TypeOK ==
  /\ now \in Nat /\ up \in BOOLEAN /\ lastPurgeAt \in Nat
  /\ ts \in Seq(Nat) /\ kept \in SUBSET (1..Len(ts))
  /\ purge \in [running : BOOLEAN, pass : BOOLEAN, before : Nat, round : Nat]
  /\ export \in [st : {"none", "reading", "done", "cut"}, offset : Nat,
                 out : SUBSET (1..Len(ts)), first : SUBSET (1..Len(ts)), purged : Nat]
  /\ failures \in Nat /\ exits \in Nat

(* What is gone is older than the retention, and what is kept has no holes: no row  *)
(* outlives a younger one, wherever a pass was cut off (purgeNow, purgeAudit).     *)
TrailHasNoHoles ==
  /\ \A i \in DOMAIN ts : i \notin kept => ts[i] + Retention < now
  /\ \A i, j \in DOMAIN ts : i < j /\ i \in kept => j \in kept

(* An export that purges overtake sends no event twice or out of order: what is     *)
(* ahead of its offset is younger than all it sent (streamAuditLines).              *)
SentOnceInOrder ==
  /\ export.offset = Cardinality(export.out)
  /\ export.st = "reading" => \A i \in Ahead, j \in export.out : j < i

(* And what it has missed of the rows that were there from its first page to its     *)
(* last is no more than what was purged meanwhile.                                *)
MissesOnlyByPurge ==
  export.st = "done" => Cardinality((export.first \cap kept) \ export.out) <= export.purged

ExportGoesForward == SentOnceInOrder /\ MissesOnlyByPurge

(* A row past the retention is purged while the process lives, whatever the store   *)
(* made fail before (audit-retention.ts: "the table cannot grow without bound").   *)
StaleRowsGo ==
  \A i \in 1..MaxEvents :
    (up /\ i \in kept /\ ts[i] + Retention < now) ~> (i \notin kept \/ ~up)

(* control.ts: the export "streams every matching event".                        *)
ExportIsComplete == export.st = "done" => export.first \cap kept \subseteq export.out
===============================================================================
