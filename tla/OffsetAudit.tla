----------------------------- MODULE OffsetAudit -----------------------------
(***************************************************************************)
(* The nightly offset_continuity audit: offset_gaps, recorded_gaps and     *)
(* uncovered_holes of docker/lake/offsets.py, and _net_recorded of         *)
(* docker/lake/maintenance.py, for one (topic, partition).                 *)
(*                                                                         *)
(* The rows of a partition are a bag: a function from offsets to how many  *)
(* rows carry that offset.  A recorded gap is what an offset_gap row says: *)
(* the committed offset and the broker's log start at the time.            *)
(***************************************************************************)
EXTENDS Integers, SequencesExt

Present(bag)  == {o \in DOMAIN bag : bag[o] > 0}
NRows(bag)    == MapThenSumSet(LAMBDA o : bag[o], DOMAIN bag)

\* max - min + 1 - n: positive is missing, negative is duplicated.
Observed(bag) == Max(Present(bag)) - Min(Present(bag)) + 1 - NRows(bag)

Span(first, last) == [first |-> first, last |-> last]

\* lag(offset) over the partition: every pair of neighbours more than one apart.
Holes(bag) ==
  {Span(pair[1] + 1, pair[2] - 1) :
     pair \in {ab \in Present(bag) \X Present(bag) :
                 /\ ab[2] > ab[1] + 1
                 /\ \A o \in Present(bag) : o <= ab[1] \/ o >= ab[2]}}

\* An offset_gap row acknowledges everything below the surviving log start.
RecordedGap(row) == Span(row.committed, row.logStart - 1)

\* Gaps sort as the pairs (lo, hi).
Before(g, h) == g.first < h.first \/ (g.first = h.first /\ g.last < h.last)

\* sorted(gaps)
Sorted(gaps) ==
  CHOOSE s \in [1..Cardinality(gaps) -> gaps] :
    \A i, j \in DOMAIN s : i < j => Before(s[i], s[j])

\* Mutant of Advance: the cursor stops on the gap's last offset.
AdvanceShort(cursor, gap) ==
  IF gap.first <= cursor /\ cursor <= gap.last THEN gap.last ELSE cursor

\* A gap that contains the cursor moves it past the gap's end; any other leaves it.
Advance(cursor, gap) ==
  IF gap.first <= cursor /\ cursor <= gap.last THEN gap.last + 1 ELSE cursor

(***************************************************************************)
(* uncovered_holes walks the sorted gaps once with a cursor, from a hole's *)
(* first offset; the hole is covered when the cursor ends beyond it.       *)
(***************************************************************************)
CursorAfter(hole, gaps) == FoldLeft(Advance, hole.first, Sorted(gaps))

UncoveredHoles(holes, gaps) == {h \in holes : CursorAfter(h, gaps) <= h.last}

Accounted(holes) == MapThenSumSet(LAMBDA h : h.last - h.first + 1, holes)

\* Mutant of Nets: every hole is recorded, and nobody adds the holes up.
NetsByHoles(bag, gaps) ==
  /\ Observed(bag) > 0
  /\ UncoveredHoles(Holes(bag), gaps) = {}

(***************************************************************************)
(* The verdict on one partition: the count of offset_gaps first, and only  *)
(* for a partition it flags, the netting of _net_recorded.  An empty       *)
(* partition has no group and so no verdict.                               *)
(***************************************************************************)
Nets(bag, gaps) ==
  /\ Observed(bag) > 0
  /\ UncoveredHoles(Holes(bag), gaps) = {}
  /\ Accounted(Holes(bag)) = Observed(bag)

Passes(bag, gaps) ==
  Present(bag) # {} => (Observed(bag) = 0 \/ Nets(bag, gaps))

-----------------------------------------------------------------------------
(***************************************************************************)
(* What the audit is for, said directly.                                   *)
(***************************************************************************)
Duplicated(bag) == \E o \in DOMAIN bag : bag[o] > 1

\* What offset_gap rows acknowledge: everything that was below the log start.
Acknowledged(gapRows) == UNION {g.committed .. (g.logStart - 1) : g \in gapRows}

Missing(bag) ==
  IF Present(bag) = {} THEN {}
  ELSE (Min(Present(bag)) .. Max(Present(bag))) \ Present(bag)

Intact(bag, gapRows) == ~Duplicated(bag) /\ Missing(bag) \subseteq Acknowledged(gapRows)
=============================================================================
