-------------------------- MODULE AuditTrail_proofs --------------------------
(***************************************************************************)
(* Theorems about the audit trail, for any retention, batch and page size, *)
(* any number of events, failures and restarts.                            *)
(***************************************************************************)
EXTENDS AuditTrail, FiniteSetTheorems, WellFoundedInduction, TLAPS

LEMMA PartsAreFinite ==
  ASSUME TypeOK, NEW S \in SUBSET (1..Len(ts))
  PROVE  IsFiniteSet(S) /\ Cardinality(S) \in Nat
  <1>1. Len(ts) \in Nat /\ IsFiniteSet(1..Len(ts))
    BY FS_Interval DEF TypeOK
  <1> QED
    BY <1>1, FS_Subset, FS_CardinalityType

LEMMA StartedTypes ==
  ASSUME TypeOK
  PROVE  /\ Started \in [running : BOOLEAN, pass : BOOLEAN, before : Nat, round : Nat]
         /\ Idle \in [running : BOOLEAN, pass : BOOLEAN, before : Nat, round : Nat]
         /\ Started.before > 0 => Started.before + Retention <= now
         /\ Idle.before = 0
  BY RetentionGiven DEF TypeOK, Started, Idle, Cutoff

LEMMA BatchIsKept ==
  ASSUME TypeOK
  PROVE  /\ Batch \subseteq kept /\ Batch \in SUBSET (1..Len(ts)) /\ Cardinality(Batch) \in Nat
         /\ Page \subseteq Ahead /\ Page \in SUBSET (1..Len(ts)) /\ Cardinality(Page) \in Nat
         /\ Ahead \subseteq kept
  <1>1. /\ Batch \subseteq kept /\ Batch \in SUBSET (1..Len(ts))
        /\ Page \subseteq Ahead /\ Ahead \subseteq kept /\ Page \in SUBSET (1..Len(ts))
    BY DEF TypeOK, Batch, Stale, Page, Ahead
  <1> QED
    BY <1>1, PartsAreFinite

LEMMA TypeStep ==
  ASSUME TypeOK, [Next]_vars
  PROVE  TypeOK'
  <1>0. CASE UNCHANGED vars
    BY <1>0 DEF TypeOK, vars
  <1>1. CASE Tick
    BY <1>1 DEF Tick, TypeOK
  <1>2. CASE Record
    <2>1. ts' \in Seq(Nat) /\ Len(ts') = Len(ts) + 1 /\ Len(ts) \in Nat
      BY <1>2 DEF Record, TypeOK
    <2>2. 1..Len(ts) \subseteq 1..Len(ts') /\ Len(ts) + 1 \in 1..Len(ts')
      BY <2>1
    <2>3. kept' \in SUBSET (1..Len(ts'))
      BY <1>2, <2>2 DEF Record, TypeOK
    <2>4. export' \in [st : {"none", "reading", "done", "cut"}, offset : Nat,
                       out : SUBSET (1..Len(ts')), first : SUBSET (1..Len(ts')), purged : Nat]
      BY <1>2, <2>2 DEF Record, TypeOK
    <2>5. purge' \in [running : BOOLEAN, pass : BOOLEAN, before : Nat, round : Nat]
      BY <1>2, StartedTypes DEF Record, TypeOK
    <2> QED
      BY <1>2, <2>1, <2>3, <2>4, <2>5 DEF Record, TypeOK
  <1>3. CASE IntervalFires
    BY <1>3, StartedTypes DEF IntervalFires, TypeOK
  <1>4. CASE PurgeRound
    <2>1. kept' \in SUBSET (1..Len(ts))
      BY <1>4 DEF PurgeRound, TypeOK
    <2>2. export' \in [st : {"none", "reading", "done", "cut"}, offset : Nat,
                       out : SUBSET (1..Len(ts)), first : SUBSET (1..Len(ts)), purged : Nat]
      <3>1. CASE export.st = "reading"
        <4>1. export' = [export EXCEPT !.purged = export.purged + Cardinality(Batch)]
          BY <1>4, <3>1 DEF PurgeRound
        <4>2. export.purged + Cardinality(Batch) \in Nat
          BY BatchIsKept DEF TypeOK
        <4> QED
          BY <4>1, <4>2 DEF TypeOK
      <3>2. CASE export.st # "reading"
        BY <1>4, <3>2 DEF PurgeRound, TypeOK
      <3> QED
        BY <3>1, <3>2
    <2>3. /\ purge' \in [running : BOOLEAN, pass : BOOLEAN, before : Nat, round : Nat]
          /\ lastPurgeAt' \in Nat
      <3>1. CASE Cardinality(Batch) < BatchSize \/ purge.round + 1 = MaxRounds
        BY <1>4, <3>1, StartedTypes DEF PurgeRound, TypeOK
      <3>2. CASE ~(Cardinality(Batch) < BatchSize \/ purge.round + 1 = MaxRounds)
        <4>1. purge' = [purge EXCEPT !.round = purge.round + 1] /\ lastPurgeAt' = lastPurgeAt
          BY <1>4, <3>2 DEF PurgeRound
        <4> QED
          BY <4>1 DEF TypeOK
      <3> QED
        BY <3>1, <3>2
    <2> QED
      BY <1>4, <2>1, <2>2, <2>3 DEF PurgeRound, TypeOK
  <1>5. CASE PurgeFails
    BY <1>5, StartedTypes DEF PurgeFails, AfterFailure, TypeOK
  <1>6. CASE ExportBegins
    BY <1>6 DEF ExportBegins, NoExport, TypeOK
  <1>7. CASE ExportPage
    <2>1. /\ export.out \cup Page \in SUBSET (1..Len(ts)) /\ export.first \in SUBSET (1..Len(ts))
          /\ export.offset + Cardinality(Page) \in Nat /\ export.purged \in Nat
      <3>1. /\ export.out \in SUBSET (1..Len(ts)) /\ export.first \in SUBSET (1..Len(ts))
            /\ export.offset \in Nat /\ export.purged \in Nat
        BY DEF TypeOK
      <3>2. Page \in SUBSET (1..Len(ts)) /\ Cardinality(Page) \in Nat
        BY BatchIsKept
      <3> QED
        BY <3>1, <3>2
    <2>2. export' \in [st : {"none", "reading", "done", "cut"}, offset : Nat,
                       out : SUBSET (1..Len(ts)), first : SUBSET (1..Len(ts)), purged : Nat]
      BY <1>7, <2>1 DEF ExportPage
    <2> QED
      BY <1>7, <2>2 DEF ExportPage, TypeOK
  <1>8. CASE Exit
    <2>1. export' \in {export, [export EXCEPT !.st = "cut"]}
      BY <1>8 DEF Exit
    <2>2. export' \in [st : {"none", "reading", "done", "cut"}, offset : Nat,
                       out : SUBSET (1..Len(ts)), first : SUBSET (1..Len(ts)), purged : Nat]
      BY <2>1 DEF TypeOK
    <2>3. exits' \in Nat
      BY <1>8 DEF Exit, TypeOK
    <2> QED
      BY <1>8, <2>2, <2>3, StartedTypes DEF Exit, TypeOK
  <1>9. CASE Boot
    BY <1>9, StartedTypes DEF Boot, TypeOK
  <1> QED
    BY <1>0, <1>1, <1>2, <1>3, <1>4, <1>5, <1>6, <1>7, <1>8, <1>9 DEF Next

(***************************************************************************)
(* The trail has no holes: times grow with ids, and no cutoff is later than *)
(* the retention allows.                                                   *)
(***************************************************************************)
TimesGrow ==
  /\ \A i \in DOMAIN ts : ts[i] <= now
  /\ \A i, j \in DOMAIN ts : i < j => ts[i] <= ts[j]

CutoffIsPast == purge.before > 0 => purge.before + Retention <= now

TrailInv == TypeOK /\ TimesGrow /\ CutoffIsPast /\ TrailHasNoHoles

LEMMA TimesStep ==
  ASSUME TypeOK, TimesGrow, [Next]_vars
  PROVE  TimesGrow'
  <1>1. CASE Record
    <2>1. /\ Len(ts) \in Nat /\ DOMAIN ts = 1..Len(ts) /\ DOMAIN ts' = 1..(Len(ts) + 1)
          /\ \A i \in 1..Len(ts) : ts'[i] = ts[i] /\ ts[i] \in Nat
          /\ ts'[Len(ts) + 1] = now /\ now' = now /\ now \in Nat
      BY <1>1 DEF Record, TypeOK
    <2> QED
      BY <2>1 DEF TimesGrow
  <1>2. CASE ~Record
    <2>1. ts' = ts /\ now' \in {now, now + 1}
      BY <1>2 DEF Next, vars, Tick, IntervalFires, PurgeRound, PurgeFails, ExportBegins,
                  ExportPage, Exit, Boot
    <2>2. \A i \in DOMAIN ts : ts[i] \in Nat
      BY DEF TypeOK
    <2> QED
      BY <2>1, <2>2 DEF TimesGrow, TypeOK
  <1> QED
    BY <1>1, <1>2

LEMMA CutoffStep ==
  ASSUME TypeOK, CutoffIsPast, [Next]_vars
  PROVE  CutoffIsPast'
  <1>1. now' \in {now, now + 1} /\ now \in Nat /\ purge.before \in Nat /\ Retention \in Nat
    BY RetentionGiven DEF TypeOK, Next, vars, Tick, Record, IntervalFires, PurgeRound,
       PurgeFails, ExportBegins, ExportPage, Exit, Boot
  <1>2. purge' \in {purge, Started, Idle, [purge EXCEPT !.round = purge.round + 1]}
    BY DEF Next, vars, Tick, Record, IntervalFires, PurgeRound,
       PurgeFails, ExportBegins, ExportPage, Exit, Boot, AfterFailure
  <1>3. purge'.before \in {purge.before, Started.before, Idle.before}
    BY <1>2 DEF TypeOK
  <1> QED
    BY <1>1, <1>3, StartedTypes DEF CutoffIsPast

(* A batch takes the oldest first: who is older than one of it is of it too.       *)
LEMMA BatchTakesTheOldest ==
  ASSUME TypeOK, TimesGrow, NEW i \in kept, NEW j \in Batch, i < j
  PROVE  i \in Batch
  <1>1. i \in 1..Len(ts) /\ j \in 1..Len(ts) /\ DOMAIN ts = 1..Len(ts)
        /\ ts[i] \in Nat /\ ts[j] \in Nat /\ j \in Stale /\ purge.before \in Nat
    BY BatchIsKept DEF TypeOK, Batch
  <1>2. ts[i] <= ts[j] /\ ts[j] < purge.before
    BY <1>1 DEF TimesGrow, Stale
  <1>3. i \in Stale
    BY <1>1, <1>2 DEF Stale
  <1>4. PICK B : B = {k \in Stale : k < j}
    OBVIOUS
  <1>5. PICK A : A = {k \in Stale : k < i}
    OBVIOUS
  <1>6. Stale \in SUBSET (1..Len(ts))
    BY DEF Stale, TypeOK
  <1>7. Len(ts) \in Nat
    BY DEF TypeOK
  <1>8. A \in SUBSET B
    <2>1. ASSUME NEW k \in Stale, k < i
          PROVE  k < j
      BY <1>1, <1>6, <1>7, <2>1
    <2> QED
      BY <2>1, <1>4, <1>5
  <1>9. B \in SUBSET (1..Len(ts)) /\ A \in SUBSET (1..Len(ts))
    BY <1>4, <1>5, <1>6
  <1>10. Cardinality(A) <= Cardinality(B) /\ Cardinality(A) \in Nat /\ Cardinality(B) \in Nat
    BY <1>8, <1>9, PartsAreFinite, FS_Subset
  <1>11. Cardinality(B) < BatchSize
    BY <1>4 DEF Batch
  <1> QED
    BY <1>3, <1>5, <1>10, <1>11, RetentionGiven DEF Batch

LEMMA HolesStep ==
  ASSUME TrailInv, [Next]_vars
  PROVE  TrailHasNoHoles'
  <1> USE DEF TrailInv
  <1>0. /\ DOMAIN ts = 1..Len(ts) /\ Len(ts) \in Nat /\ now \in Nat /\ Retention \in Nat
        /\ \A i \in DOMAIN ts : ts[i] \in Nat
    BY RetentionGiven DEF TypeOK
  <1>1. CASE Record
    <2>1. /\ DOMAIN ts' = 1..(Len(ts) + 1)
          /\ \A i \in 1..Len(ts) : ts'[i] = ts[i]
          /\ kept' = kept \cup {Len(ts) + 1} /\ now' = now
      BY <1>1 DEF Record, TypeOK
    <2>2. \A i \in DOMAIN ts' : i \notin kept' => i \in DOMAIN ts /\ i \notin kept
      BY <1>0, <2>1
    <2>3. \A i \in DOMAIN ts' : i \notin kept' => ts'[i] + Retention < now'
      BY <1>0, <2>1, <2>2 DEF TrailHasNoHoles
    <2>4. ASSUME NEW i \in DOMAIN ts', NEW j \in DOMAIN ts', i < j, i \in kept'
          PROVE  j \in kept'
      <3>1. CASE j = Len(ts) + 1
        BY <2>1, <3>1
      <3>2. CASE j # Len(ts) + 1
        <4>1. i \in DOMAIN ts /\ j \in DOMAIN ts /\ i \in kept
          BY <1>0, <2>1, <2>4, <3>2
        <4> QED
          BY <2>1, <2>4, <4>1 DEF TrailHasNoHoles
      <3> QED
        BY <3>1, <3>2
    <2> QED
      BY <2>3, <2>4 DEF TrailHasNoHoles
  <1>2. CASE PurgeRound
    <2>1. kept' = kept \ Batch /\ ts' = ts /\ now' = now
      BY <1>2 DEF PurgeRound
    <2>2. ASSUME NEW i \in DOMAIN ts, i \notin kept'
          PROVE  ts[i] + Retention < now
      <3>1. CASE i \in Batch
        <4>1. ts[i] < purge.before /\ purge.before \in Nat /\ ts[i] \in Nat
          BY <1>0, <3>1 DEF Batch, Stale, TypeOK
        <4>2. purge.before + Retention <= now
          BY <4>1 DEF CutoffIsPast
        <4> QED
          BY <1>0, <4>1, <4>2
      <3>2. CASE i \notin Batch
        BY <2>1, <2>2, <3>2 DEF TrailHasNoHoles
      <3> QED
        BY <3>1, <3>2
    <2>3. ASSUME NEW i \in DOMAIN ts, NEW j \in DOMAIN ts, i < j, i \in kept'
          PROVE  j \in kept'
      <3>1. j \in kept
        BY <2>1, <2>3 DEF TrailHasNoHoles
      <3>2. j \notin Batch
        BY <2>1, <2>3, BatchTakesTheOldest
      <3> QED
        BY <2>1, <3>1, <3>2
    <2> QED
      BY <2>1, <2>2, <2>3 DEF TrailHasNoHoles
  <1>3. CASE ~Record /\ ~PurgeRound
    <2>1. ts' = ts /\ kept' = kept /\ now' \in {now, now + 1}
      BY <1>3 DEF Next, vars, Tick, IntervalFires, PurgeFails, ExportBegins,
                  ExportPage, Exit, Boot
    <2>2. \A i \in DOMAIN ts : ts[i] + Retention < now => ts[i] + Retention < now'
      BY <1>0, <2>1
    <2> QED
      BY <2>1, <2>2 DEF TrailHasNoHoles
  <1> QED
    BY <1>1, <1>2, <1>3

LEMMA TrailStart ==
  ASSUME Init
  PROVE  TrailInv
  <1>1. Len(ts) = 0 /\ DOMAIN ts = {} /\ ts \in Seq(Nat)
    BY DEF Init
  <1>2. TypeOK
    BY <1>1, RetentionGiven DEF Init, TypeOK, Started, NoExport, Cutoff
  <1>3. TimesGrow /\ TrailHasNoHoles
    BY <1>1 DEF TimesGrow, TrailHasNoHoles
  <1>4. CutoffIsPast
    BY <1>2, StartedTypes DEF Init, CutoffIsPast
  <1> QED
    BY <1>2, <1>3, <1>4 DEF TrailInv

LEMMA TrailStep ==
  ASSUME TrailInv, [Next]_vars
  PROVE  TrailInv'
  BY TypeStep, TimesStep, CutoffStep, HolesStep DEF TrailInv

LEMMA TrailAlways == Spec => []TrailInv
  BY TrailStart, TrailStep, PTL DEF Spec

(* Every state has the types of TypeOK.                                        *)
THEOREM TrailTypes == Spec => []TypeOK
  <1>1. TrailInv => TypeOK
    BY DEF TrailInv
  <1> QED
    BY <1>1, TrailAlways, PTL

(* Only what is past the retention is gone, and no row outlives a younger one       *)
(* (purgeNow, purgeAudit): whatever passes failed or were cut off.                *)
THEOREM NoHoles == Spec => []TrailHasNoHoles
  <1>1. TrailInv => TrailHasNoHoles
    BY DEF TrailInv
  <1> QED
    BY <1>1, TrailAlways, PTL

(***************************************************************************)
(* The export: purging moves rows towards the offset, appending puts rows   *)
(* behind everything, so that what is ahead of the offset stays ahead.      *)
(***************************************************************************)
RankIn(S, i) == Cardinality({j \in S : j < i})

LEMMA RankGrows ==
  ASSUME TypeOK, NEW S \in SUBSET (1..Len(ts)), NEW T \in SUBSET S,
         NEW i \in Nat, NEW k \in Nat, i <= k
  PROVE  RankIn(T, i) <= RankIn(S, k) /\ RankIn(T, i) \in Nat /\ RankIn(S, k) \in Nat
  <1>1. PICK A : A = {j \in T : j < i}
    OBVIOUS
  <1>2. PICK B : B = {j \in S : j < k}
    OBVIOUS
  <1>3. Len(ts) \in Nat
    BY DEF TypeOK
  <1>4. A \in SUBSET B
    <2>1. ASSUME NEW j \in S, j < i
          PROVE  j < k
      BY <1>3, <2>1
    <2> QED
      BY <1>1, <1>2, <2>1
  <1>5. B \in SUBSET (1..Len(ts)) /\ A \in SUBSET (1..Len(ts))
    BY <1>1, <1>2
  <1> QED
    BY <1>1, <1>2, <1>4, <1>5, PartsAreFinite, FS_Subset DEF RankIn

LEMMA RankIsMonotone ==
  ASSUME TypeOK, NEW i \in kept, NEW k \in kept
  PROVE  i \in Nat /\ Rank(i) \in Nat /\ (i <= k => Rank(i) <= Rank(k))
  <1>1. /\ kept \in SUBSET (1..Len(ts)) /\ kept \in SUBSET kept
        /\ i \in Nat /\ k \in Nat /\ i <= i
    BY DEF TypeOK
  <1>2. RankIn(kept, i) \in Nat
    BY <1>1, RankGrows
  <1>3. ASSUME i <= k
        PROVE  RankIn(kept, i) <= RankIn(kept, k)
    BY <1>1, <1>3, RankGrows
  <1> QED
    BY <1>1, <1>2, <1>3 DEF Rank, RankIn

LEMMA SentStart ==
  ASSUME Init
  PROVE  SentOnceInOrder
  BY FS_EmptySet DEF Init, NoExport, SentOnceInOrder

LEMMA SentByPage ==
  ASSUME TypeOK, SentOnceInOrder, ExportPage
  PROVE  SentOnceInOrder'
  <1>1. /\ Len(ts) \in Nat /\ kept \in SUBSET (1..Len(ts)) /\ kept' = kept
        /\ export.out \in SUBSET (1..Len(ts)) /\ export.offset \in Nat
        /\ Page \in SUBSET (1..Len(ts)) /\ Cardinality(Page) \in Nat /\ PageMax \in Nat
        /\ Page \subseteq Ahead /\ Ahead \subseteq kept
    <2>1. /\ Page \in SUBSET (1..Len(ts)) /\ Cardinality(Page) \in Nat
          /\ Page \subseteq Ahead /\ Ahead \subseteq kept
      BY BatchIsKept
    <2>2. Len(ts) \in Nat /\ kept \in SUBSET (1..Len(ts))
      BY DEF TypeOK
    <2>3. export.out \in SUBSET (1..Len(ts)) /\ export.offset \in Nat
      BY DEF TypeOK
    <2>4. kept' = kept
      BY DEF ExportPage
    <2> QED
      BY <2>1, <2>2, <2>3, <2>4, RetentionGiven
  <1>2. /\ export.st = "reading"
        /\ export'.offset = export.offset + Cardinality(Page)
        /\ export'.out = export.out \cup Page
        /\ export'.st = "reading" => Cardinality(Page) >= PageMax
    BY <1>1 DEF ExportPage
  <1>3. \A i \in Ahead, j \in export.out : j < i
    BY <1>2 DEF SentOnceInOrder
  <1>4. export.out \cap Page = {}
    <2>1. ASSUME NEW i \in Page, i \in export.out
          PROVE  FALSE
      BY <1>1, <1>3, <2>1
    <2> QED
      BY <2>1
  <1>5. Cardinality(export'.out) = export'.offset
    <2>1. Cardinality(export.out \cup Page)
            = Cardinality(export.out) + Cardinality(Page) - Cardinality(export.out \cap Page)
      BY <1>1, PartsAreFinite, FS_Union
    <2>2. Cardinality(export.out \cap Page) = 0
      BY <1>4, FS_EmptySet
    <2> QED
      BY <1>1, <1>2, <2>1, <2>2 DEF SentOnceInOrder
  <1>6. ASSUME export'.st = "reading", NEW i \in kept, Rank(i) >= export'.offset,
               NEW j \in export'.out
        PROVE  j < i
    <2>1. Rank(i) \in Nat /\ i \in Nat
      BY RankIsMonotone
    <2>2. Rank(i) >= export.offset /\ Rank(i) >= export.offset + PageMax
      BY <1>1, <1>2, <1>6, <2>1
    <2>3. i \in Ahead
      BY <2>2 DEF Ahead
    <2>4. CASE j \in export.out
      BY <1>3, <2>3, <2>4
    <2>5. CASE j \in Page
      <3>1. Rank(j) < export.offset + PageMax /\ j \in kept /\ j \in Nat
        BY <1>1, <2>5 DEF Page
      <3>2. (i <= j => Rank(i) <= Rank(j)) /\ Rank(j) \in Nat
        BY <1>6, <3>1, RankIsMonotone
      <3> QED
        BY <1>1, <2>1, <2>2, <3>1, <3>2
    <2> QED
      BY <1>2, <1>6, <2>4, <2>5
  <1> QED
    BY <1>1, <1>5, <1>6 DEF SentOnceInOrder, Ahead, Rank

LEMMA SentStep ==
  ASSUME TypeOK, SentOnceInOrder, [Next]_vars
  PROVE  SentOnceInOrder'
  <1>0. /\ Len(ts) \in Nat /\ kept \in SUBSET (1..Len(ts))
        /\ export.out \in SUBSET (1..Len(ts)) /\ export.offset \in Nat
    BY DEF TypeOK
  <1>1. CASE ExportPage
    BY <1>1, SentByPage
  <1>2. CASE ExportBegins
    <2>1. export'.offset = 0 /\ export'.out = {}
      BY <1>2 DEF ExportBegins, NoExport
    <2> QED
      BY <2>1, FS_EmptySet DEF SentOnceInOrder
  <1>3. CASE Record
    <2>1. export' = export /\ kept' = kept \cup {Len(ts) + 1}
      BY <1>3 DEF Record
    <2>2. ASSUME export.st = "reading", NEW i \in kept', Rank(i)' >= export.offset,
                 NEW j \in export.out
          PROVE  j < i
      <3>1. CASE i = Len(ts) + 1
        BY <1>0, <3>1
      <3>2. CASE i \in kept
        <4>1. {k \in kept' : k < i} = {k \in kept : k < i}
          <5>1. ~(Len(ts) + 1 < i)
            BY <1>0, <3>2
          <5> QED
            BY <2>1, <5>1
        <4>2. Rank(i) >= export.offset
          BY <2>2, <4>1 DEF Rank
        <4> QED
          BY <2>2, <3>2, <4>2 DEF SentOnceInOrder, Ahead
      <3> QED
        BY <2>1, <3>1, <3>2
    <2> QED
      BY <2>1, <2>2 DEF SentOnceInOrder, Ahead
  <1>4. CASE PurgeRound
    <2>1. /\ kept' \in SUBSET kept /\ export'.st = export.st
          /\ export'.offset = export.offset /\ export'.out = export.out
      BY <1>4 DEF PurgeRound, TypeOK
    <2>2. ASSUME export.st = "reading", NEW i \in kept', Rank(i)' >= export.offset,
                 NEW j \in export.out
          PROVE  j < i
      <3>1. i \in kept /\ i \in Nat
        BY <1>0, <2>1
      <3>2. RankIn(kept', i) <= RankIn(kept, i) /\ RankIn(kept', i) \in Nat
            /\ RankIn(kept, i) \in Nat
        BY <1>0, <2>1, <3>1, RankGrows
      <3>3. Rank(i) >= export.offset
        BY <1>0, <2>2, <3>2 DEF Rank, RankIn
      <3> QED
        BY <2>2, <3>1, <3>3 DEF SentOnceInOrder, Ahead
    <2> QED
      BY <2>1, <2>2 DEF SentOnceInOrder, Ahead
  <1>5. CASE ~ExportPage /\ ~ExportBegins /\ ~Record /\ ~PurgeRound
    <2>1. /\ kept' = kept /\ export'.offset = export.offset /\ export'.out = export.out
          /\ export'.st = "reading" => export.st = "reading"
      BY <1>5 DEF Next, vars, Tick, IntervalFires, PurgeFails, Exit, Boot, TypeOK
    <2> QED
      BY <2>1 DEF SentOnceInOrder, Ahead, Rank
  <1> QED
    BY <1>1, <1>2, <1>3, <1>4, <1>5

(* An export that purges and new events overtake sends nothing twice, and everything *)
(* in order (streamAuditLines, queryAudit, purgeAudit).                           *)
THEOREM ExportSendsOnce == Spec => []SentOnceInOrder
  <1>1. Init => SentOnceInOrder
    BY SentStart
  <1>2. TypeOK /\ SentOnceInOrder /\ [Next]_vars => SentOnceInOrder'
    BY SentStep
  <1> QED
    BY <1>1, <1>2, TrailTypes, PTL DEF Spec

(***************************************************************************)
(* What an export misses.  Rows ahead of the offset are still to come, and  *)
(* at most as many rows are behind it as were sent: every row that is       *)
(* behind and was not sent took the place of one that was sent and then     *)
(* purged.                                                                  *)
(***************************************************************************)
LEMMA Smallest ==
  ASSUME NEW S \in SUBSET Nat, S # {}
  PROVE  \E m \in S : \A k \in S : m <= k
  <1> DEFINE R == OpToRel(<, Nat)
  <1>1. IsWellFoundedOn(R, Nat)
    BY NatLessThanWellFounded
  <1>2. \A x, y \in Nat : x < y => <<x, y>> \in R
    BY DEF OpToRel
  <1> HIDE DEF R
  <1>3. PICK m \in S : \A k \in S : ~ (<<k, m>> \in R)
    BY <1>1, WFMin
  <1>4. ASSUME NEW k \in S
        PROVE  m <= k
    <2>1. ~(k < m)
      BY <1>2, <1>3
    <2> QED
      BY <2>1
  <1> QED
    BY <1>4

LEMMA Largest ==
  ASSUME NEW n \in Nat, NEW S \in SUBSET (1..n), S # {}
  PROVE  \E m \in S : \A k \in S : k <= m
  <1> DEFINE U == {u \in 0..n : \A k \in S : k <= u}
  <1>1. n \in U /\ U \in SUBSET Nat
    OBVIOUS
  <1>2. PICK m \in U : \A u \in U : m <= u
    BY <1>1, Smallest
  <1>3. m \in S
    <2>1. SUFFICES ASSUME m \notin S
                   PROVE  FALSE
      OBVIOUS
    <2>2. PICK k \in S : TRUE
      OBVIOUS
    <2>3. m \in Nat /\ m >= 1 /\ m <= n
      BY <2>2
    <2>4. \A j \in S : j <= m - 1
      BY <2>1, <2>3
    <2>5. m - 1 \in U
      BY <2>3, <2>4
    <2> QED
      BY <1>2, <2>3, <2>5
  <1> QED
    BY <1>3

(* Of a set of rows, at most n have fewer than n rows before them.               *)
LEMMA FewAreLow ==
  ASSUME TypeOK, NEW S \in SUBSET (1..Len(ts)), NEW n \in Nat,
         NEW B \in SUBSET S, \A i \in B : RankIn(S, i) < n
  PROVE  Cardinality(B) \in Nat /\ Cardinality(B) <= n
  <1>1. Len(ts) \in Nat /\ B \in SUBSET (1..Len(ts))
    BY DEF TypeOK
  <1>2. IsFiniteSet(B) /\ Cardinality(B) \in Nat
    BY <1>1, PartsAreFinite
  <1>3. CASE B = {}
    BY <1>3, FS_EmptySet
  <1>4. CASE B # {}
    <2>1. PICK m \in B : \A k \in B : k <= m
      BY <1>1, <1>4, Largest
    <2>2. PICK A : A = {j \in S : j < m}
      OBVIOUS
    <2>3. A \in SUBSET (1..Len(ts)) /\ B \ {m} \in SUBSET A
      <3>1. ASSUME NEW j \in B, j # m
            PROVE  j < m
        BY <1>1, <2>1, <3>1
      <3> QED
        BY <2>2, <3>1
    <2>4. /\ IsFiniteSet(A) /\ Cardinality(A) \in Nat
          /\ Cardinality(B \ {m}) <= Cardinality(A)
      BY <2>3, PartsAreFinite, FS_Subset
    <2>5. Cardinality(B \ {m}) = Cardinality(B) - 1
      BY <1>2, FS_RemoveElement
    <2>6. Cardinality(A) < n
      BY <2>1, <2>2 DEF RankIn
    <2> QED
      BY <1>2, <2>4, <2>5, <2>6
  <1> QED
    BY <1>2, <1>3, <1>4

BehindIt == {i \in kept : Rank(i) < export.offset}

LEMMA BehindIsSmall ==
  ASSUME TypeOK
  PROVE  /\ BehindIt \in SUBSET (1..Len(ts)) /\ Cardinality(BehindIt) \in Nat
         /\ Cardinality(BehindIt) <= export.offset
         /\ kept = BehindIt \cup Ahead
  <1>1. kept \in SUBSET (1..Len(ts)) /\ export.offset \in Nat
    BY DEF TypeOK
  <1>2. BehindIt \in SUBSET kept /\ \A i \in BehindIt : RankIn(kept, i) < export.offset
    BY DEF BehindIt, Rank, RankIn
  <1>3. Cardinality(BehindIt) \in Nat /\ Cardinality(BehindIt) <= export.offset
    BY <1>1, <1>2, FewAreLow
  <1>4. kept = BehindIt \cup Ahead
    <2>1. ASSUME NEW i \in kept
          PROVE  i \in BehindIt \/ i \in Ahead
      <3>1. Rank(i) \in Nat
        BY RankIsMonotone
      <3> QED
        BY <1>1, <3>1 DEF BehindIt, Ahead
    <2> QED
      BY <2>1 DEF BehindIt, Ahead
  <1> QED
    BY <1>1, <1>2, <1>3, <1>4

(* A page that is not full holds everything that is ahead.                       *)
LEMMA ShortPageIsLast ==
  ASSUME TypeOK, Cardinality(Page) < PageMax
  PROVE  Page = Ahead
  <1>1. /\ Len(ts) \in Nat /\ export.offset \in Nat /\ PageMax \in Nat
        /\ Page \in SUBSET (1..Len(ts)) /\ Page \subseteq Ahead /\ Ahead \subseteq kept
        /\ kept \in SUBSET (1..Len(ts))
    BY BatchIsKept, RetentionGiven DEF TypeOK
  <1>2. SUFFICES ASSUME Ahead \ Page # {}
                 PROVE  FALSE
    BY <1>1
  <1>3. PICK i \in Ahead \ Page : \A k \in Ahead \ Page : i <= k
    <2>1. Ahead \ Page \in SUBSET Nat
      BY <1>1
    <2> QED
      BY <1>2, <2>1, Smallest
  <1>4. i \in kept /\ i \in Nat /\ Rank(i) \in Nat
    BY <1>1, RankIsMonotone
  <1>5. Rank(i) >= export.offset + PageMax
    BY <1>1, <1>3, <1>4 DEF Page
  <1>6. PICK A : A = {j \in kept : j < i}
    OBVIOUS
  <1>7. A \in SUBSET (BehindIt \cup Page)
    <2>1. ASSUME NEW j \in kept, j < i
          PROVE  j \in BehindIt \cup Page
      <3>1. j \in Nat /\ ~(i <= j)
        BY <1>1, <1>4, <2>1
      <3>2. j \in Ahead => j \in Page
        BY <1>3, <3>1
      <3> QED
        BY <3>2, BehindIsSmall
    <2> QED
      BY <1>6, <2>1
  <1>8. /\ IsFiniteSet(BehindIt) /\ IsFiniteSet(Page) /\ IsFiniteSet(BehindIt \cup Page)
        /\ IsFiniteSet(BehindIt \cap Page)
        /\ Cardinality(BehindIt) \in Nat /\ Cardinality(Page) \in Nat
        /\ Cardinality(BehindIt \cup Page) \in Nat /\ Cardinality(BehindIt \cap Page) \in Nat
    <2>1. /\ BehindIt \in SUBSET (1..Len(ts)) /\ BehindIt \cup Page \in SUBSET (1..Len(ts))
          /\ BehindIt \cap Page \in SUBSET (1..Len(ts))
      BY <1>1, BehindIsSmall
    <2> QED
      BY <1>1, <2>1, PartsAreFinite
  <1>9. Cardinality(BehindIt \cup Page) <= Cardinality(BehindIt) + Cardinality(Page)
    <2>1. Cardinality(BehindIt \cup Page)
            = Cardinality(BehindIt) + Cardinality(Page) - Cardinality(BehindIt \cap Page)
      BY <1>8, FS_Union
    <2> QED
      BY <1>8, <2>1
  <1>10. Cardinality(A) \in Nat /\ Cardinality(A) <= Cardinality(BehindIt \cup Page)
    BY <1>7, <1>8, FS_Subset, FS_CardinalityType
  <1>11. Rank(i) = Cardinality(A)
    BY <1>6 DEF Rank
  <1> QED
    BY <1>1, <1>4, <1>5, <1>8, <1>9, <1>10, <1>11, BehindIsSmall

(* While the export reads, the rows it sent and that are gone are among the purged. *)
PurgedCovers == export.st = "reading" => Cardinality(export.out \ kept) <= export.purged

MissInv == TypeOK /\ SentOnceInOrder /\ PurgedCovers /\ MissesOnlyByPurge

LEMMA MissByPage ==
  ASSUME MissInv, ExportPage
  PROVE  PurgedCovers' /\ MissesOnlyByPurge'
  <1>1. /\ kept \in SUBSET (1..Len(ts)) /\ kept' = kept /\ export.purged \in Nat
        /\ export.out \in SUBSET (1..Len(ts)) /\ export.offset \in Nat
        /\ export.first \in SUBSET (1..Len(ts))
    BY DEF MissInv, TypeOK, ExportPage
  <1>2. Page \subseteq Ahead /\ Ahead \subseteq kept
    BY BatchIsKept DEF MissInv
  <1>3. /\ export.st = "reading"
        /\ export'.out = export.out \cup Page /\ export'.purged = export.purged
        /\ export'.first = export.first
        /\ export'.st = "done" => Cardinality(Page) < PageMax
    BY DEF ExportPage
  <1>4. Cardinality(export.out \ kept) <= export.purged
    BY <1>3 DEF MissInv, PurgedCovers
  <1>5. export'.out \ kept' = export.out \ kept
    BY <1>1, <1>2, <1>3
  <1>6. PurgedCovers'
    BY <1>3, <1>4, <1>5 DEF PurgedCovers
  <1>7. ASSUME export'.st = "done"
        PROVE  Cardinality((export'.first \cap kept') \ export'.out) <= export'.purged
    <2> DEFINE missed == (export'.first \cap kept') \ export'.out
               out == export.out
    <2>1. Page = Ahead
      BY <1>3, <1>7, ShortPageIsLast DEF MissInv
    <2>2. missed \in SUBSET (BehindIt \ out)
      BY <1>1, <1>3, <2>1, BehindIsSmall DEF MissInv
    <2>3. out \cap BehindIt = out \cap kept
      <3>1. ASSUME NEW j \in out, j \in Ahead
            PROVE  FALSE
        <4>1. j < j
          BY <1>3, <3>1 DEF MissInv, SentOnceInOrder
        <4>2. j \in 1..Len(ts)
          BY <1>1
        <4> QED
          BY <4>1, <4>2
      <3> QED
        BY <3>1, BehindIsSmall DEF MissInv
    <2> HIDE DEF missed, out
    <2>4. /\ Cardinality(BehindIt) \in Nat /\ IsFiniteSet(BehindIt)
          /\ Cardinality(BehindIt) <= export.offset
          /\ IsFiniteSet(out) /\ Cardinality(out) = export.offset
      <3>1. IsFiniteSet(out)
        BY <1>1, PartsAreFinite DEF MissInv, out
      <3>2. IsFiniteSet(BehindIt)
        BY BehindIsSmall, PartsAreFinite DEF MissInv
      <3> QED
        BY <3>1, <3>2, BehindIsSmall DEF MissInv, SentOnceInOrder, out
    <2>5. /\ Cardinality(BehindIt \ out) = Cardinality(BehindIt) - Cardinality(BehindIt \cap out)
          /\ IsFiniteSet(BehindIt \ out)
      BY <2>4, FS_Difference
    <2>6. Cardinality(out \ kept) = Cardinality(out) - Cardinality(out \cap kept)
      BY <2>4, FS_Difference
    <2>7. /\ Cardinality(BehindIt \cap out) \in Nat
          /\ BehindIt \cap out = out \cap kept
      BY <2>3, <2>4, FS_Subset, FS_CardinalityType
    <2>8. Cardinality(BehindIt \ out) <= export.purged
      <3> DEFINE behind == Cardinality(BehindIt)
                 sent == Cardinality(out)
                 both == Cardinality(BehindIt \cap out)
                 missing == Cardinality(BehindIt \ out)
                 gone == Cardinality(out \ kept)
      <3>1. gone <= export.purged
        BY <1>4 DEF out
      <3>2. missing = behind - both /\ gone = sent - both
        BY <2>5, <2>6, <2>7
      <3>3. behind \in Nat /\ sent \in Nat /\ both \in Nat /\ behind <= sent /\ export.purged \in Nat
        BY <1>1, <2>4, <2>7, FS_CardinalityType
      <3> HIDE DEF behind, sent, both, missing, gone
      <3>4. missing <= export.purged
        BY <3>1, <3>2, <3>3
      <3> QED
        BY <3>4 DEF missing
    <2>9. /\ Cardinality(missed) \in Nat /\ Cardinality(BehindIt \ out) \in Nat
          /\ Cardinality(missed) <= Cardinality(BehindIt \ out)
      BY <2>2, <2>5, FS_Subset, FS_CardinalityType
    <2> QED
      BY <1>1, <1>3, <2>8, <2>9 DEF missed
  <1> QED
    BY <1>6, <1>7 DEF MissesOnlyByPurge

LEMMA MissStep ==
  ASSUME MissInv, [Next]_vars
  PROVE  PurgedCovers' /\ MissesOnlyByPurge'
  <1>0. /\ Len(ts) \in Nat /\ kept \in SUBSET (1..Len(ts))
        /\ export.out \in SUBSET (1..Len(ts)) /\ export.first \in SUBSET (1..Len(ts))
        /\ export.purged \in Nat
    BY DEF MissInv, TypeOK
  <1>1. /\ IsFiniteSet(export.out \ kept) /\ Cardinality(export.out \ kept) \in Nat
        /\ IsFiniteSet((export.first \cap kept) \ export.out)
        /\ Cardinality((export.first \cap kept) \ export.out) \in Nat
    <2>1. /\ export.out \ kept \in SUBSET (1..Len(ts))
          /\ (export.first \cap kept) \ export.out \in SUBSET (1..Len(ts))
      BY <1>0
    <2> QED
      BY <2>1, PartsAreFinite DEF MissInv
  <1>2. CASE ExportPage
    BY <1>2, MissByPage
  <1>3. CASE ExportBegins
    <2>1. export'.st = "reading" /\ export'.out = {} /\ export'.purged = 0
      BY <1>3 DEF ExportBegins, NoExport
    <2>2. Cardinality({}) = 0
      BY FS_EmptySet
    <2>3. export'.out \ kept' = {}
      BY <2>1
    <2> QED
      BY <2>1, <2>2, <2>3 DEF PurgedCovers, MissesOnlyByPurge
  <1>4. CASE Record
    <2>1. export' = export /\ kept' = kept \cup {Len(ts) + 1}
      BY <1>4 DEF Record
    <2>2. Len(ts) + 1 \notin 1..Len(ts)
      BY <1>0
    <2>3. export.out \ kept' = export.out \ kept
      BY <1>0, <2>1, <2>2
    <2>4. (export.first \cap kept') \ export.out = (export.first \cap kept) \ export.out
      BY <1>0, <2>1, <2>2
    <2> QED
      BY <2>1, <2>3, <2>4 DEF MissInv, PurgedCovers, MissesOnlyByPurge
  <1>5. CASE PurgeRound
    <2>1. /\ kept' = kept \ Batch
          /\ export'.st = export.st /\ export'.out = export.out /\ export'.first = export.first
          /\ export.st = "reading" => export'.purged = export.purged + Cardinality(Batch)
          /\ export.st # "reading" => export'.purged = export.purged
      <3>1. CASE export.st = "reading"
        <4>1. export' = [export EXCEPT !.purged = export.purged + Cardinality(Batch)]
          BY <1>5, <3>1 DEF PurgeRound
        <4>2. export'.purged = export.purged + Cardinality(Batch)
          BY <4>1 DEF MissInv, TypeOK
        <4>3. export'.st = export.st /\ export'.out = export.out /\ export'.first = export.first
          BY <4>1 DEF MissInv, TypeOK
        <4>4. kept' = kept \ Batch
          BY <1>5 DEF PurgeRound
        <4> QED
          BY <3>1, <4>2, <4>3, <4>4
      <3>2. CASE export.st # "reading"
        BY <1>5, <3>2 DEF PurgeRound
      <3> QED
        BY <3>1, <3>2
    <2>2. IsFiniteSet(Batch) /\ Cardinality(Batch) \in Nat
      BY BatchIsKept, PartsAreFinite DEF MissInv
    <2>3. ASSUME export.st = "reading"
          PROVE  Cardinality(export'.out \ kept') <= export'.purged
      <3>1. export'.out \ kept' \in SUBSET ((export.out \ kept) \cup Batch)
        BY <2>1
      <3>2. /\ IsFiniteSet((export.out \ kept) \cup Batch)
            /\ Cardinality((export.out \ kept) \cup Batch)
                 = Cardinality(export.out \ kept) + Cardinality(Batch)
                     - Cardinality((export.out \ kept) \cap Batch)
        BY <1>1, <2>2, FS_Union
      <3>3. Cardinality((export.out \ kept) \cap Batch) \in Nat
        BY <1>1, FS_Intersection, FS_CardinalityType
      <3>4. /\ Cardinality(export'.out \ kept') \in Nat
            /\ Cardinality(export'.out \ kept')
                 <= Cardinality((export.out \ kept) \cup Batch)
        BY <3>1, <3>2, FS_Subset, FS_CardinalityType
      <3>5. Cardinality(export.out \ kept) <= export.purged
        BY <2>3 DEF MissInv, PurgedCovers
      <3> QED
        BY <1>0, <1>1, <2>1, <2>2, <2>3, <3>2, <3>3, <3>4, <3>5
    <2>4. ASSUME export.st = "done"
          PROVE  Cardinality((export'.first \cap kept') \ export'.out) <= export'.purged
      <3>1. (export'.first \cap kept') \ export'.out
              \in SUBSET ((export.first \cap kept) \ export.out)
        BY <2>1
      <3>2. /\ Cardinality((export'.first \cap kept') \ export'.out) \in Nat
            /\ Cardinality((export'.first \cap kept') \ export'.out)
                 <= Cardinality((export.first \cap kept) \ export.out)
        BY <1>1, <3>1, FS_Subset, FS_CardinalityType
      <3>3. Cardinality((export.first \cap kept) \ export.out) <= export.purged
        BY <2>4 DEF MissInv, MissesOnlyByPurge
      <3> QED
        BY <1>0, <1>1, <2>1, <2>4, <3>2, <3>3
    <2> QED
      BY <2>1, <2>3, <2>4 DEF PurgedCovers, MissesOnlyByPurge
  <1>6. CASE ~ExportPage /\ ~ExportBegins /\ ~Record /\ ~PurgeRound
    <2>1. /\ kept' = kept /\ export'.out = export.out /\ export'.first = export.first
          /\ export'.purged = export.purged
          /\ export'.st = "reading" => export.st = "reading"
          /\ export'.st = "done" => export.st = "done"
      BY <1>6 DEF Next, vars, Tick, IntervalFires, PurgeFails, Exit, Boot, MissInv, TypeOK
    <2> QED
      BY <2>1 DEF MissInv, PurgedCovers, MissesOnlyByPurge
  <1> QED
    BY <1>2, <1>3, <1>4, <1>5, <1>6

(* And of the rows that were there at its first page, it misses no more than were   *)
(* purged while it read: a page's offset counts what is left, not what was sent.    *)
THEOREM ExportMissesLittle == Spec => []ExportGoesForward
  <1>1. Init => PurgedCovers /\ MissesOnlyByPurge
    BY DEF Init, NoExport, PurgedCovers, MissesOnlyByPurge
  <1>2. /\ TypeOK /\ SentOnceInOrder /\ PurgedCovers /\ MissesOnlyByPurge /\ [Next]_vars
        => PurgedCovers' /\ MissesOnlyByPurge'
    BY MissStep DEF MissInv
  <1>3. SentOnceInOrder /\ MissesOnlyByPurge => ExportGoesForward
    BY DEF ExportGoesForward
  <1> QED
    BY <1>1, <1>2, <1>3, TrailTypes, ExportSendsOnce, PTL DEF Spec
===============================================================================
