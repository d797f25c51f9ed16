------------------------------ MODULE RawIngest ------------------------------
(***************************************************************************)
(* Stage 1 of docker/lake/ingest.py: Redpanda to raw.messages, with the    *)
(* offsets in the snapshot summary of the commit that writes the rows, the *)
(* write lock of docker/lake/lock.py, and the jobs that share the table    *)
(* (docker/lake/maintenance.py: compaction, snapshot expiry, the           *)
(* offset_continuity audit).                                               *)
(*                                                                         *)
(* A run is one process.  It may be killed between any two steps, and so   *)
(* the order of its steps is the order of its effects: read the summary,   *)
(* list the broker's earliest and then its latest offsets, pin the range,  *)
(* record what was evicted, fetch, commit.  The broker moves meanwhile.    *)
(***************************************************************************)
EXTENDS Integers, Sequences, Offsets, OffsetAudit

CONSTANTS Partition,   \* the partitions of a topic
          Runs,        \* slots for ingest processes
          Cron,        \* the slot the 5-minute schedule dispatches, in Runs
          Maintenance, \* the nightly process, as a holder of the lock
          NoOne,       \* the lock is free
          Maxima,      \* values of --max-offsets-per-partition a person types
          DefaultMax,  \* its default, which the schedule uses
          Instants,    \* offsets --end-timestamp can resolve to
          RetainLast,  \* expire_snapshots(retain_last)
          RetainDays,  \* --retain-days
          MaxOffset,   \* bound: records per partition
          MaxDay,      \* bound: days that pass
          MaxSnapshots,\* bound: no compaction commit beyond this many snapshots
          MaxCompact,  \* bound: compaction commits since the newest ingest commit
          MaxFaults    \* bound: kills and failed writes

Position == 0..MaxOffset
Offset   == 0..(MaxOffset - 1)

ASSUME ConstantsAssumption ==
  /\ Cron \in Runs
  /\ Maintenance \notin Runs /\ NoOne \notin Runs \cup {Maintenance}
  /\ Maxima \subseteq Nat /\ DefaultMax \in Nat \ {0}
  /\ Instants \subseteq Int
  /\ RetainLast \in Nat \ {0} /\ RetainDays \in Nat
  /\ MaxOffset \in Nat /\ MaxDay \in Nat
  /\ MaxSnapshots \in Nat /\ MaxCompact \in Nat /\ MaxFaults \in Nat

VARIABLES
  parts,     \* partitions the broker has
  logStart,  \* broker: the first offset it still holds
  logEnd,    \* broker: the next offset it assigns
  rows,      \* raw.messages: how many rows carry each offset
  snapshots, \* raw.messages: the retained snapshots, oldest first
  gaps,      \* audit.checks: the offset_gap rows
  alarm,     \* partitions that failed the last offset_continuity audit
  today,     \* the day, as snapshot expiry counts it
  lock,      \* who holds the flock
  run,       \* the local state of each ingest process
  nightly,   \* where the maintenance process is
  faults,    \* kills and failed writes so far
  origin     \* history: where the archive of each partition began

broker == <<parts, logStart, logEnd>>
vars == <<parts, logStart, logEnd, rows, snapshots, gaps, alarm, today, lock,
          run, nightly, faults, origin>>

-----------------------------------------------------------------------------
(* Types and helpers *)

Empty  == [p \in {} |-> 0]
PosMap == UNION {[S -> Position] : S \in SUBSET Partition}

GapRow == [part : Partition, committed : Position, logStart : Position]

Snapshot == [job : {"ingest", "none"}, offsets : PosMap, day : 0..MaxDay]

Pc == {"idle", "started", "resumed", "listed", "evicted", "pinned", "fetched", "staged"}

Idle == [pc |-> "idle", accept |-> FALSE, max |-> 0, timed |-> FALSE,
         committed |-> Empty, earliest |-> Empty,
         starts |-> Empty, ends |-> Empty, losses |-> {}]

Run == [pc : Pc, accept : BOOLEAN, max : Maxima \cup {0, DefaultMax}, timed : BOOLEAN,
        committed : PosMap, earliest : PosMap,
        starts : PosMap, ends : PosMap, losses : SUBSET GapRow]

\* The map stage_raw resumes from: the newest ingest summary, or nothing.
Committed ==
  IF WrittenBy(snapshots, "ingest") = {} THEN Empty
  ELSE LatestSummary(snapshots, "ingest").offsets

GapsOf(p)   == {RecordedGap(g) : g \in {h \in gaps : h.part = p}}
Acked(p, o) == \E g \in gaps : g.part = p /\ g.committed <= o /\ o < g.logStart

TypeOK ==
  /\ parts \subseteq Partition
  /\ logStart \in [Partition -> Position]
  /\ logEnd \in [Partition -> Position]
  /\ rows \in [Partition -> [Offset -> Nat]]
  /\ snapshots \in Seq(Snapshot)
  /\ gaps \subseteq GapRow
  /\ alarm \subseteq Partition
  /\ today \in 0..MaxDay
  /\ lock \in Runs \cup {Maintenance, NoOne}
  /\ run \in [Runs -> Run]
  /\ nightly \in {"idle", "compacting", "auditing"}
  /\ faults \in 0..MaxFaults
  /\ origin \in PosMap

Init ==
  /\ parts \in SUBSET Partition
  /\ logStart = [p \in Partition |-> 0]
  /\ logEnd = [p \in Partition |-> 0]
  /\ rows = [p \in Partition |-> [o \in Offset |-> 0]]
  /\ snapshots = <<>>
  /\ gaps = {}
  /\ alarm = {}
  /\ today = 0
  /\ lock = NoOne
  /\ run = [r \in Runs |-> Idle]
  /\ nightly = "idle"
  /\ faults = 0
  /\ origin = Empty

-----------------------------------------------------------------------------
(* The broker (external): producers append, retention evicts from the      *)
(* front, an operator adds partitions to a topic.                          *)

Produce(p) ==
  /\ p \in parts /\ logEnd[p] < MaxOffset
  /\ logEnd' = [logEnd EXCEPT ![p] = @ + 1]
  /\ UNCHANGED <<parts, logStart, rows, snapshots, gaps, alarm, today, lock, run, nightly, faults, origin>>

Evict(p) ==
  /\ logStart[p] < logEnd[p]
  /\ logStart' = [logStart EXCEPT ![p] = @ + 1]
  /\ UNCHANGED <<parts, logEnd, rows, snapshots, gaps, alarm, today, lock, run, nightly, faults, origin>>

AddPartition(p) ==
  /\ p \notin parts
  /\ parts' = parts \cup {p}
  /\ UNCHANGED <<logStart, logEnd, rows, snapshots, gaps, alarm, today, lock, run, nightly, faults, origin>>

NextDay ==
  /\ today < MaxDay
  /\ today' = today + 1
  /\ UNCHANGED <<broker, rows, snapshots, gaps, alarm, lock, run, nightly, faults, origin>>

-----------------------------------------------------------------------------
(* One ingest process.  The second of two dispatches finds the lock held   *)
(* and exits 2 with nothing done, which is no step at all here.            *)

At(r, pc) == run[r].pc = pc

\* Mutant of AcquireLock: nobody checks that the lock is free.
AcquireUnlocked(r) ==
  /\ At(r, "idle")
  /\ \E accept, timed \in BOOLEAN, max \in Maxima \cup {DefaultMax} :
       /\ r = Cron => ~accept /\ ~timed /\ max = DefaultMax
       /\ run' = [run EXCEPT ![r] = [Idle EXCEPT !.pc = "started", !.accept = accept,
                                                 !.max = max, !.timed = timed]]
  /\ lock' = r
  /\ UNCHANGED <<broker, rows, snapshots, gaps, alarm, today, nightly, faults, origin>>

\* The options of a dispatch: the schedule types none.
AcquireLock(r) ==
  /\ At(r, "idle") /\ lock = NoOne
  /\ \E accept, timed \in BOOLEAN, max \in Maxima \cup {DefaultMax} :
       /\ r = Cron => ~accept /\ ~timed /\ max = DefaultMax
       /\ run' = [run EXCEPT ![r] = [Idle EXCEPT !.pc = "started", !.accept = accept,
                                                 !.max = max, !.timed = timed]]
  /\ lock' = r
  /\ UNCHANGED <<broker, rows, snapshots, gaps, alarm, today, nightly, faults, origin>>

ReadSummary(r) ==
  /\ At(r, "started")
  /\ run' = [run EXCEPT ![r].pc = "resumed", ![r].committed = Committed]
  /\ UNCHANGED <<broker, rows, snapshots, gaps, alarm, today, lock, nightly, faults, origin>>

\* The partition count and the earliest offsets are read before the latest ones.
ListEarliest(r) ==
  /\ At(r, "resumed") /\ parts # {}
  /\ run' = [run EXCEPT ![r].pc = "listed",
                        ![r].earliest = [p \in parts |-> logStart[p]]]
  /\ UNCHANGED <<broker, rows, snapshots, gaps, alarm, today, lock, nightly, faults, origin>>

\* What the broker answers for --end-timestamp: no record at or after it, or the first one.
UntilAnswers(r) ==
  LET ps == DOMAIN run[r].earliest
  IN  IF run[r].timed
      THEN {u \in [ps -> Instants \cup {-1}] :
              \A p \in ps : u[p] # -1 => logStart[p] <= u[p] /\ u[p] < logEnd[p]}
      ELSE {[p \in ps |-> -1]}

Latest(r)    == [p \in DOMAIN run[r].earliest |-> logEnd[p]]
Starting(r)  == NextStartingOffsets(run[r].committed, DOMAIN run[r].earliest)
Resolved(r)  == BoundedStarts(Starting(r), run[r].earliest, Latest(r))
LossesOf(r)  == Evicted(Resolved(r), run[r].earliest)
\* Mutant of LossRows: the row says everything up to the end of the log is gone.
LossRowsToEnd(r) ==
  {[part |-> p, committed |-> Resolved(r)[p], logStart |-> logEnd[p]] : p \in LossesOf(r)}

LossRows(r)  ==
  {[part |-> p, committed |-> Resolved(r)[p], logStart |-> run[r].earliest[p]] : p \in LossesOf(r)}

\* Empty on every partition is "no new records": nothing to read or commit.
AfterPin(starts, ends) == IF starts = ends THEN "staged" ELSE "pinned"

\* Mutant of PinRange: the repair needs no flag.
PinUnasked(r) ==
  /\ At(r, "listed")
  /\ \E until \in UntilAnswers(r) :
       LET from   == SkipEvicted(Resolved(r), LossesOf(r), run[r].earliest)
           ends   == BoundedEnds(from, run[r].earliest, Latest(r), run[r].max, until)
       IN  run' = [run EXCEPT ![r].pc = IF LossesOf(r) # {} THEN "evicted"
                                        ELSE AfterPin(from, ends),
                              ![r].starts = from, ![r].ends = ends,
                              ![r].losses = LossRows(r)]
  /\ UNCHANGED <<broker, rows, snapshots, gaps, alarm, today, lock, nightly, faults, origin>>

(***************************************************************************)
(* The range of the run, from one listing: starts are repaired past what   *)
(* was evicted (only ever with --accept-data-loss) and the ends bounded    *)
(* again from the repaired starts.                                         *)
(***************************************************************************)
PinRange(r) ==
  /\ At(r, "listed")
  /\ LossesOf(r) = {} \/ run[r].accept
  /\ \E until \in UntilAnswers(r) :
       LET from   == SkipEvicted(Resolved(r), LossesOf(r), run[r].earliest)
           ends   == BoundedEnds(from, run[r].earliest, Latest(r), run[r].max, until)
       IN  run' = [run EXCEPT ![r].pc = IF LossesOf(r) # {} THEN "evicted"
                                        ELSE AfterPin(from, ends),
                              ![r].starts = from, ![r].ends = ends,
                              ![r].losses = LossRows(r)]
  /\ UNCHANGED <<broker, rows, snapshots, gaps, alarm, today, lock, nightly, faults, origin>>

\* Every way a process ends gives up the lock and its memory with it.
Exits(r) ==
  /\ run' = [run EXCEPT ![r] = Idle]
  /\ lock' = IF lock = r THEN NoOne ELSE lock

\* describeTopics raises: the topic has not been created.
ListFails(r) ==
  /\ At(r, "resumed") /\ parts = {}
  /\ Exits(r)
  /\ UNCHANGED <<broker, rows, snapshots, gaps, alarm, today, nightly, faults, origin>>

\* failOnDataLoss: without --accept-data-loss an evicted range ends the run.
RefuseLoss(r) ==
  /\ At(r, "listed")
  /\ LossesOf(r) # {} /\ ~run[r].accept
  /\ Exits(r)
  /\ UNCHANGED <<broker, rows, snapshots, gaps, alarm, today, nightly, faults, origin>>

\* Mutant of RecordGaps: the skip goes ahead and the row is forgotten.
SkipUnrecorded(r) ==
  /\ At(r, "evicted")
  /\ run' = [run EXCEPT ![r].pc = AfterPin(run[r].starts, run[r].ends)]
  /\ UNCHANGED <<broker, rows, snapshots, gaps, alarm, today, lock, nightly, faults, origin>>

\* _accept_data_loss: one row per evicted partition, in one commit, before any skip.
RecordGaps(r) ==
  /\ At(r, "evicted")
  /\ gaps' = gaps \cup run[r].losses
  /\ run' = [run EXCEPT ![r].pc = AfterPin(run[r].starts, run[r].ends)]
  /\ UNCHANGED <<broker, rows, snapshots, alarm, today, lock, nightly, faults, origin>>

\* write_audit_rows returned False: nothing was skipped.
RecordFails(r) ==
  /\ At(r, "evicted") /\ faults < MaxFaults
  /\ faults' = faults + 1
  /\ Exits(r)
  /\ UNCHANGED <<broker, rows, snapshots, gaps, alarm, today, nightly, origin>>

\* The range is still on the broker, wherever the range is not empty.
Fetchable(r) ==
  \A p \in DOMAIN run[r].starts :
    run[r].starts[p] < run[r].ends[p] => logStart[p] <= run[r].starts[p]

Fetch(r) ==
  /\ At(r, "pinned") /\ Fetchable(r)
  /\ run' = [run EXCEPT ![r].pc = "fetched"]
  /\ UNCHANGED <<broker, rows, snapshots, gaps, alarm, today, lock, nightly, faults, origin>>

\* OffsetOutOfRangeException: retention overtook the range after it was listed.
FetchFails(r) ==
  /\ At(r, "pinned") /\ ~Fetchable(r)
  /\ Exits(r)
  /\ UNCHANGED <<broker, rows, snapshots, gaps, alarm, today, nightly, faults, origin>>

InRange(r, p, o) ==
  /\ p \in DOMAIN run[r].starts
  /\ run[r].starts[p] <= o /\ o < run[r].ends[p]

\* One Iceberg commit: the rows and the offsets that produced them.
Commit(r) ==
  /\ At(r, "fetched")
  /\ rows' = [p \in Partition |-> [o \in Offset |->
                IF InRange(r, p, o) THEN rows[p][o] + 1 ELSE rows[p][o]]]
  /\ snapshots' = Append(snapshots,
                    [job |-> "ingest", day |-> today,
                     offsets |-> MergeCommitted(run[r].committed, run[r].ends)])
  /\ origin' = MergeCommitted(run[r].starts, origin)
  /\ run' = [run EXCEPT ![r].pc = "staged"]
  /\ UNCHANGED <<broker, gaps, alarm, today, lock, nightly, faults>>

\* The later stages run under the same lock (BronzeDecode); then main() returns.
Finish(r) ==
  /\ At(r, "staged")
  /\ Exits(r)
  /\ UNCHANGED <<broker, rows, snapshots, gaps, alarm, today, nightly, faults, origin>>

\* SIGKILL, OOM, a lost catalog: at any point.
Killed(r) ==
  /\ ~At(r, "idle") /\ faults < MaxFaults
  /\ faults' = faults + 1
  /\ Exits(r)
  /\ UNCHANGED <<broker, rows, snapshots, gaps, alarm, today, nightly, origin>>

IngestStep(r) ==
  \/ AcquireLock(r) \/ ReadSummary(r) \/ ListEarliest(r) \/ ListFails(r)
  \/ PinRange(r) \/ RefuseLoss(r) \/ RecordGaps(r)
  \/ Fetch(r) \/ FetchFails(r) \/ Commit(r) \/ Finish(r)

-----------------------------------------------------------------------------
(* The nightly maintenance process.                                        *)

StartMaintenance ==
  /\ nightly = "idle" /\ lock = NoOne
  /\ lock' = Maintenance
  /\ \E auditOnly \in BOOLEAN : nightly' = IF auditOnly THEN "auditing" ELSE "compacting"
  /\ UNCHANGED <<broker, rows, snapshots, gaps, alarm, today, run, faults, origin>>

\* rewrite_data_files with partial progress: any number of commits, no k2.job on them.
Compact ==
  /\ nightly = "compacting"
  /\ snapshots # <<>> /\ Len(snapshots) < MaxSnapshots
  /\ \A i \in DOMAIN snapshots :
       IsLatest(snapshots, "ingest", i) => Len(snapshots) - i < MaxCompact
  /\ snapshots' = Append(snapshots, [job |-> "none", day |-> today, offsets |-> Empty])
  /\ UNCHANGED <<broker, rows, gaps, alarm, today, lock, run, nightly, faults, origin>>

\* expire_snapshots keeps what is recent and, whatever its age, the last few.
Kept(i) ==
  \/ i > Len(snapshots) - RetainLast
  \/ snapshots[i].day + RetainDays >= today

FirstKept(k) ==
  /\ Kept(k)
  /\ \A i \in 1..(k - 1) : ~Kept(i)

Expire ==
  /\ nightly = "compacting"
  /\ nightly' = "auditing"
  /\ IF snapshots = <<>> THEN UNCHANGED snapshots
     ELSE \E k \in 1..Len(snapshots) :
            FirstKept(k) /\ snapshots' = SubSeq(snapshots, k, Len(snapshots))
  /\ UNCHANGED <<broker, rows, gaps, alarm, today, lock, run, faults, origin>>

RunAudits ==
  /\ nightly = "auditing"
  /\ alarm' = {p \in Partition : ~Passes(rows[p], GapsOf(p))}
  /\ nightly' = "idle"
  /\ lock' = IF lock = Maintenance THEN NoOne ELSE lock
  /\ UNCHANGED <<broker, rows, snapshots, gaps, today, run, faults, origin>>

MaintenanceKilled ==
  /\ nightly # "idle" /\ faults < MaxFaults
  /\ faults' = faults + 1
  /\ nightly' = "idle"
  /\ lock' = IF lock = Maintenance THEN NoOne ELSE lock
  /\ UNCHANGED <<broker, rows, snapshots, gaps, alarm, today, run, origin>>

MaintenanceStep == StartMaintenance \/ Compact \/ Expire \/ RunAudits

-----------------------------------------------------------------------------
Next ==
  \/ \E p \in Partition : Produce(p) \/ Evict(p) \/ AddPartition(p)
  \/ \E r \in Runs : IngestStep(r) \/ RecordFails(r) \/ Killed(r)
  \/ NextDay
  \/ MaintenanceStep
  \/ MaintenanceKilled

Spec == Init /\ [][Next]_vars

(***************************************************************************)
(* Fairness.  A process that holds the lock is scheduled by the operating  *)
(* system until it exits.  The cron fires for ever, and infinitely many    *)
(* of its ticks find the lock free.  Nobody has to type a command, and     *)
(* nothing has to be produced, evicted or killed.                          *)
(***************************************************************************)
StepsOn(r) ==
  \/ ReadSummary(r) \/ ListEarliest(r) \/ PinRange(r) \/ RefuseLoss(r)
  \/ RecordGaps(r) \/ Fetch(r) \/ FetchFails(r) \/ Commit(r) \/ Finish(r)

Fairness ==
  /\ \A r \in Runs : WF_vars(StepsOn(r))
  /\ SF_vars(AcquireLock(Cron))
  /\ WF_vars(Expire) /\ WF_vars(RunAudits)

FairSpec == Spec /\ Fairness
-----------------------------------------------------------------------------
(* Properties *)

(***************************************************************************)
(* The contract of offsets.py and ADR-022, over everything a crash, a      *)
(* retry, an eviction or a second dispatch can do: a record is in          *)
(* raw.messages exactly once if its offset lies between where the archive  *)
(* of its partition began and what the newest ingest snapshot says, unless *)
(* an offset_gap row names it; and no other row exists.                    *)
(***************************************************************************)
Archived(p, o) ==
  /\ p \in DOMAIN Committed
  /\ origin[p] <= o /\ o < Committed[p]
  /\ ~Acked(p, o)

ExactlyOnce ==
  \A p \in Partition, o \in Offset : rows[p][o] = IF Archived(p, o) THEN 1 ELSE 0

(***************************************************************************)
(* A position never passes a record Redpanda still holds: not on a cold    *)
(* start, not on a partition added to a topic later, and not by the        *)
(* --accept-data-loss repair.                                              *)
(***************************************************************************)
NoSurvivorPassed ==
  \A p \in DOMAIN Committed : \A o \in Offset :
    logStart[p] <= o /\ o < Committed[p] => rows[p][o] = 1

(***************************************************************************)
(* An offset_gap row states a fact about the broker: the records it names  *)
(* are gone and were never archived, even when the run that filed the row  *)
(* died before it skipped anything (_accept_data_loss).                    *)
(***************************************************************************)
RecordedLossIsReal ==
  \A p \in Partition, o \in Offset :
    Acked(p, o) => o < logStart[p] /\ rows[p][o] = 0

(***************************************************************************)
(* The offset_continuity audit never fails on a loss a person already      *)
(* acknowledged (audit_offset_continuity: "an alert that can only ever     *)
(* fire"), whatever mixture of evictions, repairs and crashes made it.     *)
(***************************************************************************)
AuditStaysQuiet == alarm = {}

(***************************************************************************)
(* "A committed offset is never dropped" (next_starting_offsets): no step  *)
(* moves the resume point of a partition back, and one alone can forget    *)
(* it, an expiry that finds every ingest snapshot older than retain_days   *)
(* and followed by retain_last others (expire counts snapshots, whoever    *)
(* wrote them).                                                            *)
(***************************************************************************)
PositionsOnlyExpire ==
  [][\/ /\ DOMAIN Committed \subseteq DOMAIN Committed'
        /\ \A p \in DOMAIN Committed : Committed[p] <= Committed'[p]
     \/ /\ nightly = "compacting"
        /\ \A i \in WrittenBy(snapshots, "ingest") : ~Kept(i)]_vars

(***************************************************************************)
(* Only a flag typed by a person skips records: while a scheduled run      *)
(* holds the lock, every offset a position passes is archived by the step  *)
(* that passes it.                                                         *)
(***************************************************************************)
ScheduledRunsNeverSkip ==
  [][lock = Cron =>
       \A p \in DOMAIN Committed : \A o \in Offset :
         Committed[p] <= o /\ o < Committed'[p] => rows'[p][o] > 0]_vars

(***************************************************************************)
(* The archive drains: once nothing more is produced, evicted or killed,   *)
(* the schedule brings every partition level with the broker, or stops at  *)
(* an eviction that waits for a person (RefuseLoss).                       *)
(***************************************************************************)
\* A partition nobody wrote to since it was created is level without a commit.
Level == \A p \in parts : Lookup(Committed, p, logStart[p]) = logEnd[p]
AwaitsPerson == \E p \in DOMAIN Committed : Committed[p] < logStart[p]

Drains == <>[](Level \/ AwaitsPerson)

(***************************************************************************)
(* Stage 1 implements the archive of ExactlyOnceArchive: the position is   *)
(* the newest ingest summary, and what is lost is what offset_gap names.   *)
(***************************************************************************)
Archive == INSTANCE ExactlyOnceArchive WITH
  position <- Committed,
  stored   <- rows,
  lost     <- {po \in Partition \X Offset : Acked(po[1], po[2])}

ImplementsArchive == Archive!Spec
=============================================================================
