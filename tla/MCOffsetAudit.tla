---------------------------- MODULE MCOffsetAudit ----------------------------
(***************************************************************************)
(* The offset_continuity audit against its definition, over every bag of   *)
(* rows and every set of recorded gaps within the bounds.  A step adds a   *)
(* row (any offset, any number of times: the audit exists for the day the  *)
(* ingest is wrong) or files a gap.                                        *)
(***************************************************************************)
EXTENDS OffsetAudit

CONSTANTS LastOffset, \* bound: offsets 0..LastOffset
          MaxCopies,  \* bound: rows per offset
          MaxGaps     \* bound: recorded gaps

ASSUME AuditBounds == LastOffset \in Nat /\ MaxCopies \in Nat /\ MaxGaps \in Nat

VARIABLES copies, recorded

AddRow ==
  \E o \in 0..LastOffset :
    /\ copies[o] < MaxCopies
    /\ copies' = [copies EXCEPT ![o] = @ + 1]
    /\ UNCHANGED recorded

FileGap ==
  \E committed, logStart \in 0..(LastOffset + 1) :
    /\ committed < logStart
    /\ Cardinality(recorded) < MaxGaps
    /\ recorded' = recorded \cup {[committed |-> committed, logStart |-> logStart]}
    /\ UNCHANGED copies

AuditInit == copies = [o \in 0..LastOffset |-> 0] /\ recorded = {}
AuditNext == AddRow \/ FileGap
AuditSpec == AuditInit /\ [][AuditNext]_<<copies, recorded>>

Gaps == {RecordedGap(g) : g \in recorded}

(***************************************************************************)
(* uncovered_holes: one pass of a cursor over sorted gaps decides whether  *)
(* the union of the gaps covers a hole, for overlapping, nested, abutting  *)
(* and repeated gaps alike.                                                *)
(***************************************************************************)
WalkDecidesCoverage ==
  \A first \in 0..LastOffset : \A last \in first..LastOffset :
    (UncoveredHoles({Span(first, last)}, Gaps) = {})
      <=> (first..last \subseteq Acknowledged(recorded))

(***************************************************************************)
(* _net_recorded: a partition flagged for missing records passes exactly   *)
(* when nothing is duplicated and every missing offset is acknowledged;    *)
(* "the hole sizes add up" is what excludes a duplicate behind a hole.     *)
(***************************************************************************)
NettingIsExact ==
  Present(copies) # {} /\ Observed(copies) > 0 => (Nets(copies, Gaps) <=> Intact(copies, recorded))
=============================================================================
