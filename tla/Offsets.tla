------------------------------- MODULE Offsets -------------------------------
(***************************************************************************)
(* The offset arithmetic of docker/lake/offsets.py: where a run starts,    *)
(* where it stops, what it has lost, and what it commits.  The file is     *)
(* pure (no clock, no network), so its functions are operators here.       *)
(*                                                                         *)
(* The two-level map {topic: {partition: offset}} is flattened: a          *)
(* "partition" below is one (topic, partition) pair, and a map is a        *)
(* function whose domain is the set of pairs it mentions, because a pair   *)
(* that is absent means something (it has never been committed).           *)
(***************************************************************************)
EXTENDS Integers, Sequences

EARLIEST == -2
LATEST   == -1

Lesser(a, b)  == IF a <= b THEN a ELSE b
Greater(a, b) == IF a >= b THEN a ELSE b

\* m.get(p, default)
Lookup(m, p, default) == IF p \in DOMAIN m THEN m[p] ELSE default

\* Mutant of NextStartingOffsets: a new partition is never asked for.
NextStartsVerbatim(committed, parts) == committed

(***************************************************************************)
(* Where the next run starts: a committed end offset is copied verbatim, a *)
(* partition the broker has and nobody committed starts at EARLIEST, and a *)
(* committed partition outside the broker's count is kept.                 *)
(***************************************************************************)
NextStartingOffsets(committed, parts) ==
  [p \in parts \cup DOMAIN committed |-> Lookup(committed, p, EARLIEST)]

\* The broker's first and end offset of p, with the defaults of the .get calls.
FirstOf(earliest, p)            == Lookup(earliest, p, 0)
EndOfLog(earliest, latest, p)   == Lookup(latest, p, FirstOf(earliest, p))

\* Mutant of ResolveStart: EARLIEST is the last evicted record.
ResolvePastFirst(start, first, endOfLog) ==
  IF start = EARLIEST THEN first + 1 ELSE start

\* Sentinels resolve before any arithmetic.
ResolveStart(start, first, endOfLog) ==
  IF start = EARLIEST THEN first
  ELSE IF start = LATEST THEN endOfLog
  ELSE start

(***************************************************************************)
(* The exclusive end of a range: the end of the log, lowered by --end-     *)
(* timestamp (a negative `until` is no bound) and by the per-partition     *)
(* maximum (<= 0 is no bound), and never below the start.                  *)
(***************************************************************************)
StopAt(start, endOfLog, until, max) ==
  LET timed   == IF until >= 0 THEN Lesser(endOfLog, until) ELSE endOfLog
      bounded == IF max > 0 THEN Lesser(timed, start + max) ELSE timed
  IN  Greater(bounded, start)

(***************************************************************************)
(* bounded_offsets: the starts and the ends of the run (the backlog it     *)
(* also returns is a log line and a gauge).                                *)
(***************************************************************************)
BoundedStarts(starting, earliest, latest) ==
  [p \in DOMAIN starting |->
     ResolveStart(starting[p], FirstOf(earliest, p), EndOfLog(earliest, latest, p))]

BoundedEnds(starting, earliest, latest, max, until) ==
  LET starts == BoundedStarts(starting, earliest, latest)
  IN  [p \in DOMAIN starting |->
         StopAt(starts[p], EndOfLog(earliest, latest, p), Lookup(until, p, -1), max)]

\* Partitions whose start is below what the broker still holds.
Evicted(starts, earliest) ==
  {p \in DOMAIN starts : starts[p] < FirstOf(earliest, p)}

\* The evicted partitions resume at the log start; no other partition moves.
SkipEvicted(starts, losses, earliest) ==
  [p \in DOMAIN starts |-> IF p \in losses THEN FirstOf(earliest, p) ELSE starts[p]]

\* A partition the run read nothing from keeps what was committed before.
MergeCommitted(previous, produced) ==
  [p \in DOMAIN previous \cup DOMAIN produced |-> 
     IF p \in DOMAIN produced THEN produced[p] ELSE previous[p]]

(***************************************************************************)
(* latest_summary: the positions, in commit order, of the snapshots that   *)
(* `job` wrote, and the newest of them.                                    *)
(***************************************************************************)
WrittenBy(snapshots, job) == {i \in DOMAIN snapshots : snapshots[i].job = job}

IsLatest(snapshots, job, i) ==
  /\ i \in WrittenBy(snapshots, job)
  /\ \A j \in WrittenBy(snapshots, job) : j <= i

LatestSummary(snapshots, job) ==
  snapshots[CHOOSE i \in DOMAIN snapshots : IsLatest(snapshots, job, i)]
=============================================================================
