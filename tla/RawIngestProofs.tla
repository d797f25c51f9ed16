--------------------------- MODULE RawIngestProofs ---------------------------
(***************************************************************************)
(* Proofs about RawIngest for every set of partitions, every number of     *)
(* processes and every bound: its invariant, the properties that follow    *)
(* from it, and two facts about its steps: they implement                  *)
(* ExactlyOnceArchive, and a scheduled run skips nothing.                  *)
(*                                                                         *)
(* Then the arithmetic of the nightly audit, for every bag of rows and     *)
(* every set of recorded gaps (MCOffsetAudit enumerates some): what the    *)
(* cursor walk, the sum of the holes and the count of the rows decide.     *)
(* The two meet in AuditStaysQuietHolds.                                   *)
(***************************************************************************)
EXTENDS RawIngest, MCOffsetAudit, TLAPS, WellFoundedInduction, FiniteSetTheorems

(***************************************************************************)
(* What the code does not guarantee and the proofs assume: fewer commits   *)
(* of other jobs follow an ingest commit than expire_snapshots retains.    *)
(***************************************************************************)
CompactionWithinRetention == MaxCompact < RetainLast

-----------------------------------------------------------------------------
(* The inductive invariant *)

\* The holder of the lock is the one process that is not idle.
LockInv ==
  /\ \A r \in Runs : run[r].pc # "idle" <=> lock = r
  /\ nightly # "idle" <=> lock = Maintenance

\* The newest ingest snapshot exists and survives the next expiry.
SnapshotInv ==
  \/ WrittenBy(snapshots, "ingest") = {}
  \/ \E i \in DOMAIN snapshots :
       IsLatest(snapshots, "ingest", i) /\ Len(snapshots) - i <= MaxCompact

\* Positions lie between the beginning of the archive and the end of the log.
PositionInv ==
  /\ \A p \in Partition : logStart[p] <= logEnd[p]
  /\ DOMAIN Committed \subseteq parts
  /\ DOMAIN origin = DOMAIN Committed
  /\ \A p \in DOMAIN Committed :
       /\ origin[p] <= Committed[p] /\ Committed[p] <= logEnd[p]
       /\ origin[p] <= logStart[p]

\* A recorded gap is below the log start, and is passed as a whole or not at all.
GapInv ==
  \A g \in gaps :
    /\ g.part \in DOMAIN Committed
    /\ g.committed < g.logStart /\ g.logStart <= logStart[g.part]
    /\ Committed[g.part] = g.committed \/ g.logStart <= Committed[g.part]

\* A run's copy of the summary is current: nobody else commits while it holds the lock.
ResumedInv(r) ==
  run[r].pc \in {"resumed", "listed", "evicted", "pinned", "fetched"}
    => run[r].committed = Committed

\* What a run knows of the broker is old but not wrong.
ListedInv(r) ==
  run[r].pc \in {"listed", "evicted", "pinned", "fetched"} =>
    /\ DOMAIN Committed \subseteq DOMAIN run[r].earliest
    /\ DOMAIN run[r].earliest \subseteq parts
    /\ \A p \in DOMAIN run[r].earliest : run[r].earliest[p] <= logStart[p]
    /\ \A g \in gaps : g.logStart <= run[r].earliest[g.part]

\* The pinned range starts where the archive ends, or past what was recorded as lost.
PinnedInv(r) ==
  run[r].pc \in {"evicted", "pinned", "fetched"} =>
    /\ DOMAIN run[r].starts = DOMAIN run[r].earliest
    /\ DOMAIN run[r].ends = DOMAIN run[r].earliest
    /\ \A p \in DOMAIN run[r].starts :
         /\ run[r].earliest[p] <= run[r].starts[p]
         /\ run[r].starts[p] <= run[r].ends[p]
         /\ run[r].ends[p] <= logEnd[p]
    /\ \A p \in DOMAIN run[r].starts \ DOMAIN Committed : run[r].starts[p] <= logStart[p]
    /\ \A p \in DOMAIN Committed :
         \/ run[r].starts[p] = Committed[p]
         \/ /\ Committed[p] < run[r].starts[p]
            /\ [part |-> p, committed |-> Committed[p], logStart |-> run[r].starts[p]]
                 \in IF run[r].pc = "evicted" THEN run[r].losses ELSE gaps

\* What a run is about to record is true of the broker.
LossInv(r) ==
  run[r].pc = "evicted" =>
    \A g \in run[r].losses :
      /\ g.part \in DOMAIN Committed
      /\ g.committed = Committed[g.part] /\ g.committed < g.logStart
      /\ g.logStart = run[r].earliest[g.part]

RunInv == \A r \in Runs : ResumedInv(r) /\ ListedInv(r) /\ PinnedInv(r) /\ LossInv(r)

IInv == TypeOK /\ LockInv /\ SnapshotInv /\ PositionInv /\ GapInv /\ RunInv /\ ExactlyOnce

-----------------------------------------------------------------------------
(* Position maps *)

LEMMA PosMapIntro ==
  ASSUME NEW S \in SUBSET Partition, NEW f \in [S -> Position]
  PROVE  f \in PosMap
BY DEF PosMap

LEMMA PosMapElim ==
  ASSUME NEW f \in PosMap
  PROVE  /\ DOMAIN f \in SUBSET Partition
         /\ f \in [DOMAIN f -> Position]
         /\ \A p \in DOMAIN f : f[p] \in Position
BY DEF PosMap

LEMMA EmptyIsPosMap == Empty \in PosMap
<1>1. Empty \in [{} -> Position]
  BY DEF Empty
<1>2. QED BY <1>1, PosMapIntro

LEMMA PositionIsNat == MaxOffset \in Nat => Position \subseteq Nat /\ 0 \in Position
BY DEF Position

\* merge_committed keeps every position of both maps, and the new one wins.
LEMMA MergeIsPosMap ==
  ASSUME NEW f \in PosMap, NEW g \in PosMap
  PROVE  /\ MergeCommitted(f, g) \in PosMap
         /\ DOMAIN MergeCommitted(f, g) = DOMAIN f \cup DOMAIN g
         /\ \A p \in DOMAIN g : MergeCommitted(f, g)[p] = g[p]
         /\ \A p \in DOMAIN f \ DOMAIN g : MergeCommitted(f, g)[p] = f[p]
<1>1. MergeCommitted(f, g) \in [DOMAIN f \cup DOMAIN g -> Position]
  BY PosMapElim DEF MergeCommitted
<1>2. DOMAIN f \cup DOMAIN g \in SUBSET Partition
  BY PosMapElim
<1>3. MergeCommitted(f, g) \in PosMap
  BY <1>1, <1>2, PosMapIntro
<1>4. QED BY <1>1, <1>3 DEF MergeCommitted

-----------------------------------------------------------------------------
(* The newest ingest summary *)

LEMMA CommittedFrame ==
  ASSUME snapshots' = snapshots
  PROVE  Committed' = Committed
BY DEF Committed, WrittenBy, LatestSummary, IsLatest

LEMMA LatestIsCommitted ==
  ASSUME NEW i \in DOMAIN snapshots, DOMAIN snapshots \subseteq Int,
         IsLatest(snapshots, "ingest", i)
  PROVE  Committed = snapshots[i].offsets
<1>1. WrittenBy(snapshots, "ingest") # {}
  BY DEF IsLatest
<1>2. ASSUME NEW j \in DOMAIN snapshots, IsLatest(snapshots, "ingest", j)
      PROVE  j = i
  BY <1>2 DEF IsLatest, WrittenBy
<1>3. (CHOOSE j \in DOMAIN snapshots : IsLatest(snapshots, "ingest", j)) = i
  BY <1>2
<1>4. QED BY <1>1, <1>3 DEF Committed, LatestSummary

LEMMA CommittedType ==
  ASSUME snapshots \in Seq(Snapshot), SnapshotInv
  PROVE  Committed \in PosMap
<1>1. CASE WrittenBy(snapshots, "ingest") = {}
  BY <1>1, EmptyIsPosMap DEF Committed
<1>2. CASE \E i \in DOMAIN snapshots : IsLatest(snapshots, "ingest", i)
  <2>1. PICK i \in DOMAIN snapshots : IsLatest(snapshots, "ingest", i)
    BY <1>2
  <2>2. Committed = snapshots[i].offsets
    BY <2>1, LatestIsCommitted
  <2>3. snapshots[i] \in Snapshot
    OBVIOUS
  <2>4. QED BY <2>2, <2>3 DEF Snapshot
<1>3. QED BY <1>1, <1>2 DEF SnapshotInv

\* An ingest commit is the newest summary from then on.
LEMMA AppendIngest ==
  ASSUME snapshots \in Seq(Snapshot),
         NEW s \in Snapshot, s.job = "ingest",
         snapshots' = Append(snapshots, s),
         MaxCompact \in Nat
  PROVE  Committed' = s.offsets /\ SnapshotInv'
<1>1. PICK n \in Nat : n = Len(snapshots) + 1
  OBVIOUS
<1>2. /\ n \in DOMAIN snapshots' /\ DOMAIN snapshots' = 1..n
      /\ snapshots'[n] = s /\ Len(snapshots') = n
  BY <1>1
<1>3. IsLatest(snapshots', "ingest", n)
  BY <1>2 DEF IsLatest, WrittenBy
<1>4. WrittenBy(snapshots', "ingest") # {}
  BY <1>3 DEF IsLatest
<1>5. ASSUME NEW j \in DOMAIN snapshots', IsLatest(snapshots', "ingest", j)
      PROVE  j = n
  BY <1>2, <1>3, <1>5 DEF IsLatest, WrittenBy
<1>6. (CHOOSE j \in DOMAIN snapshots' : IsLatest(snapshots', "ingest", j)) = n
  BY <1>2, <1>3, <1>5
<1>7. Committed' = s.offsets
  BY <1>2, <1>4, <1>6 DEF Committed, LatestSummary
<1>8. SnapshotInv'
  BY <1>2, <1>3 DEF SnapshotInv
<1>9. QED BY <1>7, <1>8

\* A commit of another job leaves the newest summary where it was.
LEMMA AppendOther ==
  ASSUME snapshots \in Seq(Snapshot), SnapshotInv,
         NEW s \in Snapshot, s.job # "ingest",
         snapshots' = Append(snapshots, s),
         MaxCompact \in Nat,
         \A i \in DOMAIN snapshots :
           IsLatest(snapshots, "ingest", i) => Len(snapshots) - i < MaxCompact
  PROVE  Committed' = Committed /\ SnapshotInv'
<1>1. PICK n \in Nat : n = Len(snapshots)
  OBVIOUS
<1>2. /\ DOMAIN snapshots = 1..n /\ DOMAIN snapshots' = 1..(n + 1)
      /\ Len(snapshots') = n + 1
      /\ snapshots'[n + 1] = s
      /\ \A i \in 1..n : snapshots'[i] = snapshots[i]
  BY <1>1
<1>3. WrittenBy(snapshots', "ingest") = WrittenBy(snapshots, "ingest")
  BY <1>2 DEF WrittenBy
<1>4. \A i : IsLatest(snapshots', "ingest", i) <=> IsLatest(snapshots, "ingest", i)
  BY <1>3 DEF IsLatest
<1>5. CASE WrittenBy(snapshots, "ingest") = {}
  BY <1>3, <1>5 DEF SnapshotInv, Committed
<1>6. CASE WrittenBy(snapshots, "ingest") # {}
  <2>1. PICK i \in DOMAIN snapshots :
          IsLatest(snapshots, "ingest", i) /\ Len(snapshots) - i <= MaxCompact
    BY <1>6 DEF SnapshotInv
  <2>2. Committed = snapshots[i].offsets
    BY <2>1, <1>2, LatestIsCommitted
  <2>3. i \in 1..n /\ IsLatest(snapshots', "ingest", i) /\ Len(snapshots') - i <= MaxCompact
    BY <1>1, <1>2, <1>4, <2>1
  <2>4. \A j \in DOMAIN snapshots' : IsLatest(snapshots', "ingest", j) => j = i
    BY <1>2, <2>3 DEF IsLatest, WrittenBy
  <2>5. (CHOOSE j \in DOMAIN snapshots' : IsLatest(snapshots', "ingest", j)) = i
    BY <1>2, <2>3, <2>4
  <2>6. Committed' = snapshots'[i].offsets
    BY <1>3, <1>6, <2>5 DEF Committed, LatestSummary
  <2>7. QED BY <1>2, <2>2, <2>3, <2>6 DEF SnapshotInv
<1>7. QED BY <1>5, <1>6

\* Expiry keeps the newest summary, because fewer commits follow it than are retained.
LEMMA ExpireKeepsSummary ==
  ASSUME snapshots \in Seq(Snapshot), SnapshotInv, CompactionWithinRetention,
         NEW k \in 1..Len(snapshots), FirstKept(k),
         snapshots' = SubSeq(snapshots, k, Len(snapshots))
  PROVE  Committed' = Committed /\ SnapshotInv'
<1> USE ConstantsAssumption DEF ConstantsAssumption
<1>1. PICK n \in Nat : n = Len(snapshots)
  OBVIOUS
<1>2. /\ DOMAIN snapshots = 1..n /\ k \in 1..n
      /\ DOMAIN snapshots' = 1..(n - k + 1) /\ Len(snapshots') = n - k + 1
      /\ \A i \in 1..(n - k + 1) : snapshots'[i] = snapshots[i + k - 1]
  BY <1>1
<1>3. \A i \in 1..(n - k + 1) :
        i \in WrittenBy(snapshots', "ingest") <=> i + k - 1 \in WrittenBy(snapshots, "ingest")
  BY <1>2 DEF WrittenBy
<1>4. CASE WrittenBy(snapshots, "ingest") = {}
  <2>1. WrittenBy(snapshots', "ingest") = {}
    BY <1>2, <1>3, <1>4 DEF WrittenBy
  <2>2. QED BY <1>4, <2>1 DEF SnapshotInv, Committed
<1>5. CASE WrittenBy(snapshots, "ingest") # {}
  <2>1. PICK i \in DOMAIN snapshots :
          IsLatest(snapshots, "ingest", i) /\ Len(snapshots) - i <= MaxCompact
    BY <1>5 DEF SnapshotInv
  <2>2. Committed = snapshots[i].offsets
    BY <2>1, <1>2, LatestIsCommitted
  <2>3. i > n - RetainLast
    BY <1>1, <1>2, <2>1 DEF CompactionWithinRetention
  <2>4. k <= i
    BY <1>1, <1>2, <2>3 DEF FirstKept, Kept
  <2>5. PICK j \in 1..(n - k + 1) : j = i - k + 1
    BY <1>2, <2>4
  <2>6. j + k - 1 = i
    BY <1>2, <2>5
  <2>7. IsLatest(snapshots', "ingest", j)
    <3>1. j \in WrittenBy(snapshots', "ingest")
      BY <1>3, <2>1, <2>5, <2>6 DEF IsLatest
    <3>2. ASSUME NEW m \in WrittenBy(snapshots', "ingest") PROVE m <= j
      <4>1. m \in 1..(n - k + 1)
        BY <1>2 DEF WrittenBy
      <4>2. m + k - 1 \in WrittenBy(snapshots, "ingest")
        BY <1>3, <4>1
      <4>3. m + k - 1 <= i
        BY <2>1, <4>2 DEF IsLatest
      <4>4. QED BY <1>2, <2>5, <4>1, <4>3
    <3>3. QED BY <3>1, <3>2 DEF IsLatest
  <2>8. \A m \in DOMAIN snapshots' : IsLatest(snapshots', "ingest", m) => m = j
    BY <1>2, <2>5, <2>7 DEF IsLatest, WrittenBy
  <2>9. (CHOOSE m \in DOMAIN snapshots' : IsLatest(snapshots', "ingest", m)) = j
    BY <1>2, <2>5, <2>7, <2>8
  <2>10. WrittenBy(snapshots', "ingest") # {}
    BY <2>7 DEF IsLatest
  <2>11. Committed' = snapshots'[j].offsets
    BY <2>9, <2>10 DEF Committed, LatestSummary
  <2>12. Len(snapshots') - j = Len(snapshots) - i
    BY <1>1, <1>2, <2>5
  <2>13. QED BY <1>2, <2>1, <2>2, <2>5, <2>6, <2>7, <2>11, <2>12 DEF SnapshotInv
<1>6. QED BY <1>4, <1>5
-----------------------------------------------------------------------------
(* What an action that archives nothing leaves alone *)

\* The broker only moves forward, and evicts nothing it does not hold.
BrokerGrows ==
  /\ parts \subseteq parts'
  /\ \A p \in Partition :
       /\ logStart[p] <= logStart'[p] /\ logEnd[p] <= logEnd'[p]
       /\ logStart'[p] <= logEnd'[p]

LEMMA BrokerStill ==
  ASSUME PositionInv, TypeOK, UNCHANGED broker
  PROVE  BrokerGrows
<1>1. \A p \in Partition : logStart[p] \in Int /\ logEnd[p] \in Int
  BY ConstantsAssumption DEF TypeOK, Position, ConstantsAssumption
<1>2. QED BY <1>1 DEF BrokerGrows, broker, PositionInv

\* The numbers the invariants compare are integers.
LEMMA Integral ==
  ASSUME TypeOK, SnapshotInv
  PROVE  /\ Committed \in PosMap
         /\ Position \subseteq Int /\ Offset \subseteq Int
         /\ \A p \in DOMAIN Committed : p \in Partition /\ Committed[p] \in Int
         /\ \A p \in DOMAIN origin : p \in Partition /\ origin[p] \in Int
         /\ \A p \in Partition : logStart[p] \in Int /\ logEnd[p] \in Int
         /\ \A g \in gaps : g.part \in Partition /\ g.committed \in Int /\ g.logStart \in Int
<1>1. Committed \in PosMap
  BY CommittedType DEF TypeOK
<1>2. Position \subseteq Int /\ Offset \subseteq Int
  BY ConstantsAssumption DEF ConstantsAssumption, Position, Offset
<1>3. \A p \in DOMAIN Committed : p \in Partition /\ Committed[p] \in Int
  BY <1>1, <1>2, PosMapElim
<1>4. \A p \in DOMAIN origin : p \in Partition /\ origin[p] \in Int
  BY <1>2, PosMapElim DEF TypeOK
<1>5. \A p \in Partition : logStart[p] \in Int /\ logEnd[p] \in Int
  BY <1>2 DEF TypeOK
<1>6. \A g \in gaps : g.part \in Partition /\ g.committed \in Int /\ g.logStart \in Int
  BY <1>2 DEF TypeOK, GapRow
<1>7. QED BY <1>1, <1>2, <1>3, <1>4, <1>5, <1>6

LEMMA Undisturbed ==
  ASSUME IInv, BrokerGrows, UNCHANGED <<rows, gaps, origin>>, Committed' = Committed,
         logStart' \in [Partition -> Position], logEnd' \in [Partition -> Position]
  PROVE  PositionInv' /\ GapInv' /\ ExactlyOnce'
<1> USE DEF IInv
<1>1. \A p \in Partition : logStart'[p] \in Int /\ logEnd'[p] \in Int
  BY Integral
<1>2. PositionInv'
  <2>1. \A p \in DOMAIN Committed :
          /\ origin[p] <= Committed[p] /\ Committed[p] <= logEnd'[p]
          /\ origin[p] <= logStart'[p]
    BY <1>1, Integral DEF PositionInv, BrokerGrows
  <2>2. QED BY <2>1 DEF PositionInv, BrokerGrows
<1>3. GapInv'
  BY <1>1, Integral DEF GapInv, BrokerGrows
<1>4. ExactlyOnce'
  BY DEF ExactlyOnce, Archived, Acked
<1>5. QED BY <1>2, <1>3, <1>4

\* A run's knowledge stays old but not wrong.
LEMMA RunsUndisturbed ==
  ASSUME IInv, BrokerGrows, UNCHANGED <<gaps, run>>, Committed' = Committed,
         logStart' \in [Partition -> Position], logEnd' \in [Partition -> Position]
  PROVE  RunInv'
<1> USE DEF IInv
<1> SUFFICES ASSUME NEW r \in Runs
             PROVE  ResumedInv(r)' /\ ListedInv(r)' /\ PinnedInv(r)' /\ LossInv(r)'
  BY DEF RunInv
<1>1. /\ run[r].earliest \in PosMap /\ run[r].ends \in PosMap
      /\ \A p \in DOMAIN run[r].earliest : p \in Partition /\ run[r].earliest[p] \in Int
      /\ \A p \in DOMAIN run[r].ends : p \in Partition /\ run[r].ends[p] \in Int
  <2>1. run[r] \in Run
    BY DEF TypeOK
  <2>2. run[r].earliest \in PosMap /\ run[r].ends \in PosMap
    BY <2>1 DEF Run
  <2>3. QED BY <2>2, PosMapElim, Integral
<1>2. ResumedInv(r) /\ ListedInv(r) /\ PinnedInv(r) /\ LossInv(r)
  BY DEF RunInv
<1>3. \A p \in Partition : logStart'[p] \in Int /\ logEnd'[p] \in Int
  BY Integral
<1>4. ResumedInv(r)'
  BY <1>2 DEF ResumedInv
<1>5. ListedInv(r)'
  BY <1>1, <1>2, <1>3, Integral DEF ListedInv, BrokerGrows
<1>6. PinnedInv(r)'
  <2> SUFFICES ASSUME run[r].pc \in {"evicted", "pinned", "fetched"}
               PROVE  PinnedInv(r)'
    BY DEF PinnedInv
  <2>1. \A p \in DOMAIN run[r].starts : p \in Partition /\ run[r].ends[p] <= logEnd'[p]
    BY <1>1, <1>2, <1>3, Integral DEF PinnedInv, BrokerGrows
  <2>2. \A p \in DOMAIN run[r].starts \ DOMAIN Committed : run[r].starts[p] <= logStart'[p]
    <3>1. \A p \in DOMAIN run[r].starts : run[r].starts[p] \in Int
      <4>1. run[r].starts \in PosMap
        BY DEF TypeOK, Run
      <4>2. QED BY <4>1, PosMapElim, Integral
    <3>2. QED BY <1>2, <1>3, <2>1, <3>1, Integral DEF PinnedInv, BrokerGrows
  <2>3. QED BY <1>2, <2>1, <2>2 DEF PinnedInv
<1>7. LossInv(r)'
  BY <1>2 DEF LossInv
<1>8. QED BY <1>4, <1>5, <1>6, <1>7

\* The other processes are idle while one holds the lock.
LEMMA OnlyHolder ==
  ASSUME LockInv, NEW r \in Runs, run[r].pc # "idle"
  PROVE  lock = r /\ nightly = "idle" /\ \A q \in Runs \ {r} : run[q].pc = "idle"
BY ConstantsAssumption DEF LockInv, ConstantsAssumption

\* A run that is not between reading the summary and committing promises nothing.
LEMMA IdleRuns ==
  ASSUME \A q \in Runs : run'[q].pc \in {"idle", "started", "staged"}
  PROVE  RunInv'
BY DEF RunInv, ResumedInv, ListedInv, PinnedInv, LossInv
LEMMA SnapshotFrame ==
  ASSUME SnapshotInv, UNCHANGED snapshots
  PROVE  SnapshotInv' /\ Committed' = Committed
BY CommittedFrame DEF SnapshotInv, IsLatest, WrittenBy

-----------------------------------------------------------------------------
(* One lemma per kind of step: the broker, the ways out, the steps of a run, *)
(* the commit, the nightly process                                           *)

LEMMA InitInv ==
  ASSUME Init
  PROVE  IInv
<1> USE ConstantsAssumption DEF ConstantsAssumption, Init
<1>1. Committed = Empty
  BY DEF Committed, WrittenBy
<1>2. DOMAIN Empty = {}
  BY DEF Empty
<1>3. 0 \in Position /\ 0 \in 0..MaxDay /\ 0 \in 0..MaxFaults
  BY DEF Position
<1>4. Idle \in Run
  BY EmptyIsPosMap DEF Idle, Run, Pc
<1>5. TypeOK
  BY <1>3, <1>4, EmptyIsPosMap DEF TypeOK
<1>6. LockInv
  BY DEF LockInv, Idle
<1>7. SnapshotInv
  BY DEF SnapshotInv, WrittenBy
<1>8. PositionInv
  BY <1>1, <1>2, <1>3 DEF PositionInv, Position
<1>9. GapInv
  BY DEF GapInv
<1>10. RunInv
  BY DEF RunInv, ResumedInv, ListedInv, PinnedInv, LossInv, Idle
<1>11. ExactlyOnce
  BY <1>1, <1>2 DEF ExactlyOnce, Archived
<1>12. QED BY <1>5, <1>6, <1>7, <1>8, <1>9, <1>10, <1>11 DEF IInv

\* Everything but the broker, the clock and the audit's alarm stands still.
LEMMA OutsideStep ==
  ASSUME IInv, BrokerGrows, TypeOK',
         UNCHANGED <<rows, snapshots, gaps, origin, run>>,
         LockInv'
  PROVE  IInv'
<1>1. SnapshotInv' /\ Committed' = Committed
  BY SnapshotFrame DEF IInv
<1>2. PositionInv' /\ GapInv' /\ ExactlyOnce' /\ RunInv'
  BY <1>1, Undisturbed, RunsUndisturbed DEF TypeOK
<1>3. QED BY <1>1, <1>2 DEF IInv

LEMMA ProduceInv ==
  ASSUME IInv, NEW p \in Partition, Produce(p)
  PROVE  IInv'
<1> USE ConstantsAssumption DEF ConstantsAssumption, Produce, IInv
<1>1. logEnd'[p] \in Position /\ logEnd' \in [Partition -> Position]
  BY DEF TypeOK, Position
<1>2. TypeOK'
  BY <1>1 DEF TypeOK
<1>3. BrokerGrows
  BY <1>1, Integral DEF BrokerGrows, PositionInv, TypeOK
<1>4. LockInv'
  BY DEF LockInv
<1>5. QED BY <1>2, <1>3, <1>4, OutsideStep

LEMMA EvictInv ==
  ASSUME IInv, NEW p \in Partition, Evict(p)
  PROVE  IInv'
<1> USE ConstantsAssumption DEF ConstantsAssumption, Evict, IInv
<1>1. logStart'[p] \in Position /\ logStart' \in [Partition -> Position]
  BY DEF TypeOK, Position
<1>2. TypeOK'
  BY <1>1 DEF TypeOK
<1>3. BrokerGrows
  BY <1>1, Integral DEF BrokerGrows, PositionInv, TypeOK
<1>4. LockInv'
  BY DEF LockInv
<1>5. QED BY <1>2, <1>3, <1>4, OutsideStep

LEMMA AddPartitionInv ==
  ASSUME IInv, NEW p \in Partition, AddPartition(p)
  PROVE  IInv'
<1> USE DEF AddPartition, IInv
<1>1. TypeOK'
  BY DEF TypeOK
<1>2. BrokerGrows
  BY Integral DEF BrokerGrows, PositionInv
<1>3. LockInv'
  BY DEF LockInv
<1>4. QED BY <1>1, <1>2, <1>3, OutsideStep

LEMMA NextDayInv ==
  ASSUME IInv, NextDay
  PROVE  IInv'
<1> USE ConstantsAssumption DEF ConstantsAssumption, NextDay, IInv
<1>1. TypeOK'
  BY DEF TypeOK, broker
<1>2. BrokerGrows
  BY BrokerStill
<1>3. LockInv'
  BY DEF LockInv
<1>4. QED BY <1>1, <1>2, <1>3, OutsideStep

\* A step of the process that holds the lock, which archives and records nothing.
LEMMA HolderStep ==
  ASSUME IInv, NEW r \in Runs, run[r].pc # "idle",
         TypeOK', UNCHANGED <<broker, rows, snapshots, gaps, origin, nightly>>,
         \A q \in Runs \ {r} : run'[q] = run[q],
         \/ lock' = lock /\ run'[r].pc # "idle"
         \/ lock' = NoOne /\ run'[r].pc = "idle",
         (ResumedInv(r) /\ ListedInv(r) /\ PinnedInv(r) /\ LossInv(r))'
  PROVE  IInv'
<1> USE DEF IInv
<1>1. SnapshotInv' /\ Committed' = Committed
  BY SnapshotFrame
<1>2. PositionInv' /\ GapInv' /\ ExactlyOnce'
  BY <1>1, BrokerStill, Undisturbed DEF TypeOK
<1>3. \A q \in Runs \ {r} : run'[q].pc = "idle"
  BY OnlyHolder
<1>4. LockInv'
  BY <1>3, OnlyHolder, ConstantsAssumption DEF LockInv, ConstantsAssumption
<1>5. RunInv'
  <2> SUFFICES ASSUME NEW q \in Runs
               PROVE  ResumedInv(q)' /\ ListedInv(q)' /\ PinnedInv(q)' /\ LossInv(q)'
    BY DEF RunInv
  <2>1. CASE q = r
    BY <2>1
  <2>2. CASE q # r
    BY <1>3, <2>2 DEF ResumedInv, ListedInv, PinnedInv, LossInv
  <2>3. QED BY <2>1, <2>2
<1>6. QED BY <1>1, <1>2, <1>4, <1>5

\* A process that exits takes its memory with it and leaves the tables as they are.
LEMMA ExitInv ==
  ASSUME IInv, NEW r \in Runs, run[r].pc # "idle", Exits(r),
         UNCHANGED <<broker, rows, snapshots, gaps, alarm, today, nightly, origin>>,
         faults' \in 0..MaxFaults
  PROVE  IInv'
<1> USE DEF IInv, Exits
<1>1. Idle \in Run
  BY EmptyIsPosMap DEF Idle, Run, Pc
<1>2. lock' = NoOne /\ run'[r] = Idle /\ \A q \in Runs \ {r} : run'[q] = run[q]
  BY OnlyHolder DEF TypeOK
<1>3. run' \in [Runs -> Run]
  BY <1>1 DEF TypeOK
<1>4. TypeOK'
  BY <1>2, <1>3 DEF TypeOK, broker
<1>5. run'[r].pc = "idle"
  BY <1>2 DEF Idle
<1>6. (ResumedInv(r) /\ ListedInv(r) /\ PinnedInv(r) /\ LossInv(r))'
  BY <1>5 DEF ResumedInv, ListedInv, PinnedInv, LossInv
<1>7. QED BY <1>2, <1>4, <1>5, <1>6, HolderStep

LEMMA WaysOutInv ==
  ASSUME IInv, NEW r \in Runs,
         ListFails(r) \/ RefuseLoss(r) \/ FetchFails(r) \/ Finish(r) \/ RecordFails(r) \/ Killed(r)
  PROVE  IInv'
<1>1. run[r].pc # "idle"
  BY DEF ListFails, RefuseLoss, FetchFails, Finish, RecordFails, Killed, At
<1>2. faults' \in 0..MaxFaults
  BY ConstantsAssumption
     DEF ListFails, RefuseLoss, FetchFails, Finish, RecordFails, Killed, IInv, TypeOK, ConstantsAssumption
<1>3. Exits(r) /\ UNCHANGED <<broker, rows, snapshots, gaps, alarm, today, nightly, origin>>
  BY DEF ListFails, RefuseLoss, FetchFails, Finish, RecordFails, Killed
<1>4. QED BY <1>1, <1>2, <1>3, ExitInv
LEMMA AcquireLockInv ==
  ASSUME IInv, NEW r \in Runs, AcquireLock(r)
  PROVE  IInv'
<1> USE DEF IInv
<1>1. PICK accept \in BOOLEAN, timed \in BOOLEAN, max \in Maxima \cup {DefaultMax} :
        run' = [run EXCEPT ![r] = [Idle EXCEPT !.pc = "started", !.accept = accept,
                                               !.max = max, !.timed = timed]]
  BY DEF AcquireLock
<1>2. [Idle EXCEPT !.pc = "started", !.accept = accept, !.max = max, !.timed = timed] \in Run
  BY EmptyIsPosMap DEF Idle, Run, Pc
<1>3. run' \in [Runs -> Run] /\ \A q \in Runs \ {r} : run'[q] = run[q]
  BY <1>1, <1>2 DEF TypeOK
<1>4. run'[r].pc = "started"
  BY <1>1 DEF Idle, TypeOK
<1>5. TypeOK'
  BY <1>3 DEF TypeOK, AcquireLock, broker
<1>6. \A q \in Runs \ {r} : run'[q].pc = "idle"
  BY <1>3, ConstantsAssumption DEF LockInv, AcquireLock, ConstantsAssumption
<1>7. LockInv'
  BY <1>4, <1>6, ConstantsAssumption DEF LockInv, AcquireLock, ConstantsAssumption
<1>8. SnapshotInv' /\ Committed' = Committed
  BY SnapshotFrame DEF AcquireLock
<1>9. PositionInv' /\ GapInv' /\ ExactlyOnce'
  BY <1>5, <1>8, BrokerStill, Undisturbed DEF TypeOK, AcquireLock
<1>10. RunInv'
  BY <1>4, <1>6, IdleRuns
<1>11. QED BY <1>5, <1>7, <1>8, <1>9, <1>10

LEMMA ReadSummaryInv ==
  ASSUME IInv, NEW r \in Runs, ReadSummary(r)
  PROVE  IInv'
<1> USE DEF IInv
<1>1. run[r] \in Run /\ Committed \in PosMap
  BY Integral DEF TypeOK
<1>2. /\ run'[r] = [run[r] EXCEPT !.pc = "resumed", !.committed = Committed]
      /\ \A q \in Runs \ {r} : run'[q] = run[q]
  BY DEF ReadSummary, TypeOK
<1>3. run'[r] \in Run /\ run'[r].pc = "resumed" /\ run'[r].committed = Committed
  BY <1>1, <1>2 DEF Run, Pc
<1>4. run' \in [Runs -> Run]
  BY <1>3 DEF ReadSummary, TypeOK
<1>5. TypeOK'
  BY <1>4 DEF TypeOK, ReadSummary, broker
<1>6. Committed' = Committed
  BY CommittedFrame DEF ReadSummary
<1>7. (ResumedInv(r) /\ ListedInv(r) /\ PinnedInv(r) /\ LossInv(r))'
  BY <1>3, <1>6 DEF ResumedInv, ListedInv, PinnedInv, LossInv
<1>8. QED BY <1>2, <1>3, <1>5, <1>7, HolderStep DEF ReadSummary, At

LEMMA ListEarliestInv ==
  ASSUME IInv, NEW r \in Runs, ListEarliest(r)
  PROVE  IInv'
<1> USE DEF IInv
<1>1. run[r] \in Run /\ run[r].pc = "resumed" /\ run[r].committed = Committed
  BY DEF TypeOK, RunInv, ResumedInv, ListEarliest, At
<1> DEFINE earliest == [p \in parts |-> logStart[p]]
<1>2. earliest \in PosMap
  <2>1. earliest \in [parts -> Position]
    BY DEF TypeOK
  <2>2. QED BY <2>1, PosMapIntro DEF TypeOK
<1>3. /\ run'[r] = [run[r] EXCEPT !.pc = "listed", !.earliest = earliest]
      /\ \A q \in Runs \ {r} : run'[q] = run[q]
  BY DEF ListEarliest, TypeOK
<1>4. /\ run'[r] \in Run /\ run'[r].pc = "listed"
      /\ run'[r].committed = Committed /\ run'[r].earliest = earliest
  <2> HIDE DEF earliest
  <2>1. QED BY <1>1, <1>2, <1>3 DEF Run, Pc
<1>5. run' \in [Runs -> Run]
  BY <1>4 DEF ListEarliest, TypeOK
<1>6. TypeOK'
  BY <1>5 DEF TypeOK, ListEarliest, broker
<1>7. Committed' = Committed
  BY CommittedFrame DEF ListEarliest
<1>8. ListedInv(r)'
  <2>1. DOMAIN earliest = parts /\ \A p \in parts : earliest[p] = logStart[p]
    OBVIOUS
  <2>2. \A p \in parts : earliest[p] <= logStart[p]
    BY <2>1, Integral DEF TypeOK
  <2>3. \A g \in gaps : g.logStart <= earliest[g.part]
    BY <2>1 DEF GapInv, PositionInv
  <2> HIDE DEF earliest
  <2>4. QED BY <1>4, <1>7, <2>1, <2>2, <2>3 DEF ListedInv, ListEarliest, broker, PositionInv
<1>9. (ResumedInv(r) /\ PinnedInv(r) /\ LossInv(r))'
  BY <1>4, <1>7 DEF ResumedInv, PinnedInv, LossInv
<1>10. QED BY <1>3, <1>4, <1>6, <1>8, <1>9, HolderStep DEF ListEarliest, At

LEMMA FetchInv ==
  ASSUME IInv, NEW r \in Runs, Fetch(r)
  PROVE  IInv'
<1> USE DEF IInv
<1>1. run[r] \in Run /\ run[r].pc = "pinned"
  BY DEF TypeOK, Fetch, At
<1>2. /\ run'[r] = [run[r] EXCEPT !.pc = "fetched"]
      /\ \A q \in Runs \ {r} : run'[q] = run[q]
  BY DEF Fetch, TypeOK
<1>3. /\ run'[r] \in Run /\ run'[r].pc = "fetched"
      /\ run'[r].committed = run[r].committed /\ run'[r].earliest = run[r].earliest
      /\ run'[r].starts = run[r].starts /\ run'[r].ends = run[r].ends
  BY <1>1, <1>2 DEF Run, Pc
<1>4. run' \in [Runs -> Run]
  BY <1>3 DEF Fetch, TypeOK
<1>5. TypeOK'
  BY <1>4 DEF TypeOK, Fetch, broker
<1>6. Committed' = Committed
  BY CommittedFrame DEF Fetch
<1>7. ResumedInv(r) /\ ListedInv(r) /\ PinnedInv(r)
  BY DEF RunInv
<1>8. (ResumedInv(r) /\ ListedInv(r) /\ PinnedInv(r) /\ LossInv(r))'
  BY <1>1, <1>3, <1>6, <1>7 DEF ResumedInv, ListedInv, PinnedInv, LossInv, Fetch, broker
<1>9. QED BY <1>2, <1>3, <1>5, <1>8, HolderStep DEF Fetch, At

-----------------------------------------------------------------------------
(* The nightly process *)

LEMMA StartMaintenanceInv ==
  ASSUME IInv, StartMaintenance
  PROVE  IInv'
<1> USE DEF IInv, StartMaintenance
<1>1. TypeOK'
  BY DEF TypeOK, broker
<1>2. LockInv'
  BY ConstantsAssumption DEF LockInv, ConstantsAssumption
<1>3. QED BY <1>1, <1>2, BrokerStill, OutsideStep

LEMMA RunAuditsInv ==
  ASSUME IInv, RunAudits
  PROVE  IInv'
<1> USE DEF IInv, RunAudits
<1>1. TypeOK'
  BY DEF TypeOK, broker
<1>2. LockInv'
  BY ConstantsAssumption DEF LockInv, ConstantsAssumption
<1>3. QED BY <1>1, <1>2, BrokerStill, OutsideStep

LEMMA MaintenanceKilledInv ==
  ASSUME IInv, MaintenanceKilled
  PROVE  IInv'
<1> USE DEF IInv, MaintenanceKilled
<1>1. TypeOK'
  BY ConstantsAssumption DEF TypeOK, broker, ConstantsAssumption
<1>2. LockInv'
  BY ConstantsAssumption DEF LockInv, ConstantsAssumption
<1>3. QED BY <1>1, <1>2, BrokerStill, OutsideStep

LEMMA CompactInv ==
  ASSUME IInv, Compact
  PROVE  IInv'
<1> USE DEF IInv, Compact
<1> DEFINE s == [job |-> "none", day |-> today, offsets |-> Empty]
<1>1. s \in Snapshot /\ s.job # "ingest"
  BY EmptyIsPosMap DEF TypeOK, Snapshot
<1>2. snapshots' \in Seq(Snapshot) /\ snapshots' = Append(snapshots, s)
  BY <1>1 DEF TypeOK
<1>3. MaxCompact \in Nat
  BY ConstantsAssumption DEF ConstantsAssumption
<1>4. SnapshotInv' /\ Committed' = Committed
  BY <1>1, <1>2, <1>3, AppendOther DEF TypeOK
<1>5. TypeOK'
  BY <1>2 DEF TypeOK, broker
<1>6. LockInv'
  BY DEF LockInv
<1>7. PositionInv' /\ GapInv' /\ ExactlyOnce' /\ RunInv'
  BY <1>4, <1>5, BrokerStill, Undisturbed, RunsUndisturbed DEF TypeOK
<1>8. QED BY <1>4, <1>5, <1>6, <1>7

LEMMA ExpireInv ==
  ASSUME IInv, CompactionWithinRetention, Expire
  PROVE  IInv'
<1> USE DEF IInv, Expire
<1>1. snapshots' \in Seq(Snapshot) /\ SnapshotInv' /\ Committed' = Committed
  <2>1. CASE snapshots = <<>>
    BY <2>1, SnapshotFrame DEF TypeOK
  <2>2. CASE snapshots # <<>>
    <3>1. PICK k \in 1..Len(snapshots) :
            FirstKept(k) /\ snapshots' = SubSeq(snapshots, k, Len(snapshots))
      BY <2>2
    <3>2. snapshots' \in Seq(Snapshot)
      BY <3>1 DEF TypeOK
    <3>3. QED BY <3>1, <3>2, ExpireKeepsSummary DEF TypeOK
  <2>3. QED BY <2>1, <2>2
<1>2. TypeOK'
  BY <1>1 DEF TypeOK, broker
<1>3. LockInv'
  BY DEF LockInv
<1>4. PositionInv' /\ GapInv' /\ ExactlyOnce' /\ RunInv'
  BY <1>1, <1>2, BrokerStill, Undisturbed, RunsUndisturbed DEF TypeOK
<1>5. QED BY <1>1, <1>2, <1>3, <1>4
-----------------------------------------------------------------------------
(* The pinned range *)

\* bounded_offsets: an end is never below its start and never past the log.
LEMMA StopAtBounds ==
  ASSUME NEW start \in Nat, NEW endOfLog \in Nat, start <= endOfLog,
         NEW until \in Int, NEW max \in Int
  PROVE  /\ StopAt(start, endOfLog, until, max) \in Nat
         /\ start <= StopAt(start, endOfLog, until, max)
         /\ StopAt(start, endOfLog, until, max) <= endOfLog
BY DEF StopAt, Lesser, Greater

\* A listed run starts at the committed position, or at the first offset it was told of.
LEMMA ResolvedStarts ==
  ASSUME IInv, NEW r \in Runs, run[r].pc = "listed"
  PROVE  /\ DOMAIN Resolved(r) = DOMAIN run[r].earliest
         /\ \A p \in DOMAIN run[r].earliest :
              /\ p \in Partition /\ run[r].earliest[p] \in Position
              /\ Resolved(r)[p] \in Position /\ Resolved(r)[p] <= logEnd[p]
              /\ run[r].earliest[p] <= logEnd[p]
              /\ p \in DOMAIN Committed => Resolved(r)[p] = Committed[p]
              /\ p \notin DOMAIN Committed => Resolved(r)[p] = run[r].earliest[p]
<1> USE DEF IInv
<1>1. run[r].committed = Committed /\ ListedInv(r)
  BY DEF RunInv, ResumedInv
<1>2. Committed \in PosMap /\ run[r].earliest \in PosMap
  BY Integral DEF TypeOK, Run
<1>3. DOMAIN Committed \subseteq DOMAIN run[r].earliest
  BY <1>1 DEF ListedInv
<1>4. /\ DOMAIN Starting(r) = DOMAIN run[r].earliest
      /\ \A p \in DOMAIN run[r].earliest :
           Starting(r)[p] = IF p \in DOMAIN Committed THEN Committed[p] ELSE EARLIEST
  BY <1>1, <1>3 DEF Starting, NextStartingOffsets, Lookup
<1>5. DOMAIN Resolved(r) = DOMAIN run[r].earliest
  BY <1>4 DEF Resolved, BoundedStarts
<1>6. ASSUME NEW p \in DOMAIN run[r].earliest
      PROVE  /\ p \in Partition /\ run[r].earliest[p] \in Position
             /\ Resolved(r)[p] \in Position /\ Resolved(r)[p] <= logEnd[p]
             /\ run[r].earliest[p] <= logEnd[p]
             /\ p \in DOMAIN Committed => Resolved(r)[p] = Committed[p]
             /\ p \notin DOMAIN Committed => Resolved(r)[p] = run[r].earliest[p]
  <2>1. p \in Partition /\ run[r].earliest[p] \in Position
    BY <1>2, PosMapElim
  <2>2. run[r].earliest[p] <= logEnd[p]
    BY <1>1, <2>1, Integral DEF ListedInv, PositionInv
  <2>3. Resolved(r)[p] = ResolveStart(Starting(r)[p], run[r].earliest[p],
                                      EndOfLog(run[r].earliest, Latest(r), p))
    BY <1>4 DEF Resolved, BoundedStarts, FirstOf, Lookup
  <2>4. CASE p \in DOMAIN Committed
    <3>1. Starting(r)[p] = Committed[p] /\ Committed[p] \in Position
      BY <1>2, <1>4, <2>4, PosMapElim
    <3>2. Committed[p] # EARLIEST /\ Committed[p] # LATEST
      BY <3>1, ConstantsAssumption DEF EARLIEST, LATEST, Position, ConstantsAssumption
    <3>3. Resolved(r)[p] = Committed[p]
      BY <2>3, <3>1, <3>2 DEF ResolveStart
    <3>4. QED BY <2>1, <2>2, <2>4, <3>1, <3>3 DEF PositionInv
  <2>5. CASE p \notin DOMAIN Committed
    <3>1. Resolved(r)[p] = run[r].earliest[p]
      BY <1>4, <2>3, <2>5 DEF ResolveStart
    <3>2. QED BY <2>1, <2>2, <2>5, <3>1
  <2>6. QED BY <2>4, <2>5
<1>7. QED BY <1>5, <1>6

LEMMA PinRangeInv ==
  ASSUME IInv, NEW r \in Runs, PinRange(r)
  PROVE  IInv'
<1> USE DEF IInv
<1>1. /\ run[r] \in Run /\ run[r].pc = "listed" /\ run[r].committed = Committed
      /\ ListedInv(r) /\ run[r].earliest \in PosMap /\ run[r].max \in Int
  <2>1. run[r] \in Run /\ run[r].pc = "listed"
    BY DEF TypeOK, PinRange, At
  <2>2. run[r].committed = Committed /\ ListedInv(r)
    BY <2>1 DEF RunInv, ResumedInv
  <2>3. run[r].earliest \in PosMap /\ run[r].max \in Maxima \cup {0, DefaultMax}
    BY <2>1 DEF Run
  <2>4. Maxima \cup {0, DefaultMax} \subseteq Int
    BY ConstantsAssumption DEF ConstantsAssumption
  <2>5. QED BY <2>1, <2>2, <2>3, <2>4
<1> DEFINE e == run[r].earliest
           from == SkipEvicted(Resolved(r), LossesOf(r), e)
           endsBy(until) == BoundedEnds(from, e, Latest(r), run[r].max, until)
<1>2. /\ DOMAIN Resolved(r) = DOMAIN e
      /\ \A p \in DOMAIN e :
           /\ p \in Partition /\ e[p] \in Position
           /\ Resolved(r)[p] \in Position /\ Resolved(r)[p] <= logEnd[p]
           /\ e[p] <= logEnd[p]
           /\ p \in DOMAIN Committed => Resolved(r)[p] = Committed[p]
           /\ p \notin DOMAIN Committed => Resolved(r)[p] = e[p]
  BY <1>1, ResolvedStarts
<1>3. PICK until \in UntilAnswers(r) :
        run' = [run EXCEPT ![r].pc = IF LossesOf(r) # {} THEN "evicted"
                                     ELSE AfterPin(from, endsBy(until)),
                           ![r].starts = from, ![r].ends = endsBy(until),
                           ![r].losses = LossRows(r)]
  BY DEF PinRange
<1> DEFINE ends == endsBy(until)
<1>4. Position \subseteq Nat /\ \A p \in Partition : logEnd[p] \in Position
  BY PositionIsNat, ConstantsAssumption DEF TypeOK, ConstantsAssumption
<1>5. \A p \in DOMAIN e : until[p] \in Int /\ p \in DOMAIN until
  <2>1. until \in [DOMAIN e -> Instants \cup {-1}]
    BY DEF UntilAnswers
  <2>2. Instants \cup {-1} \subseteq Int
    BY ConstantsAssumption DEF ConstantsAssumption
  <2>3. QED BY <2>1, <2>2
<1>6. /\ DOMAIN from = DOMAIN e
      /\ \A p \in DOMAIN e : from[p] = IF Resolved(r)[p] < e[p] THEN e[p] ELSE Resolved(r)[p]
  BY <1>2 DEF SkipEvicted, LossesOf, Evicted, FirstOf, Lookup
<1>7. ASSUME NEW p \in DOMAIN e
      PROVE  /\ from[p] \in Position /\ from[p] <= logEnd[p] /\ e[p] <= from[p]
             /\ ends[p] \in Position /\ from[p] <= ends[p] /\ ends[p] <= logEnd[p]
  <2>1. from[p] \in Position /\ from[p] <= logEnd[p] /\ e[p] <= from[p]
    <3> HIDE DEF from
    <3>1. /\ p \in Partition
          /\ e[p] \in Position /\ e[p] <= logEnd[p]
          /\ Resolved(r)[p] \in Position /\ Resolved(r)[p] <= logEnd[p]
      BY <1>2
    <3>2. from[p] = IF Resolved(r)[p] < e[p] THEN e[p] ELSE Resolved(r)[p]
      BY <1>6
    <3>3. e[p] \in Nat /\ Resolved(r)[p] \in Nat
      BY <1>4, <3>1
    <3>4. logEnd[p] \in Nat
      BY <1>4, <3>1
    <3>5. QED BY <3>1, <3>2, <3>3, <3>4
  <2>2. from[p] \in Nat /\ logEnd[p] \in Nat /\ logEnd[p] \in Position
    BY <1>2, <1>4, <2>1
  <2>3. ends[p] = StopAt(from[p], logEnd[p], until[p], run[r].max)
    <3>1. EndOfLog(e, Latest(r), p) = logEnd[p]
      BY DEF EndOfLog, Latest, Lookup
    <3>2. BoundedStarts(from, e, Latest(r))[p] = from[p]
      <4>1. from[p] # EARLIEST /\ from[p] # LATEST
        BY <2>2 DEF EARLIEST, LATEST
      <4>2. QED BY <1>6, <4>1 DEF BoundedStarts, ResolveStart
    <3>3. Lookup(until, p, -1) = until[p]
      BY <1>5 DEF Lookup
    <3> HIDE DEF from
    <3>4. QED BY <1>6, <3>1, <3>2, <3>3 DEF BoundedEnds
  <2>4. ends[p] \in Nat /\ from[p] <= ends[p] /\ ends[p] <= logEnd[p]
    <3> HIDE DEF from, ends
    <3>1. QED BY <1>1, <1>5, <2>1, <2>2, <2>3, StopAtBounds
  <2>5. ends[p] \in Position
    <3> HIDE DEF from, ends
    <3>1. QED BY <2>2, <2>4, ConstantsAssumption DEF Position, ConstantsAssumption
  <2>6. QED BY <2>1, <2>4, <2>5
<1>8. DOMAIN ends = DOMAIN e
  BY <1>6 DEF BoundedEnds
<1>9. from \in PosMap /\ ends \in PosMap
  <2>1. from \in [DOMAIN e -> Position]
    BY <1>6, <1>7 DEF SkipEvicted
  <2>2. ends \in [DOMAIN e -> Position]
    <3> HIDE DEF from
    <3>1. QED BY <1>7, <1>8 DEF BoundedEnds
  <2>3. DOMAIN e \in SUBSET Partition
    BY <1>1, PosMapElim
  <2> HIDE DEF from, ends
  <2>4. QED BY <2>1, <2>2, <2>3, PosMapIntro
<1>10. \A p \in LossesOf(r) : /\ p \in DOMAIN e /\ Resolved(r)[p] < e[p]
                              /\ p \in DOMAIN Committed
  <2>1. \A p \in LossesOf(r) : p \in DOMAIN e /\ Resolved(r)[p] < e[p]
    BY <1>2 DEF LossesOf, Evicted, FirstOf, Lookup
  <2>2. QED BY <1>2, <1>4, <2>1
<1>11. LossRows(r) \in SUBSET GapRow
  BY <1>2, <1>10 DEF LossRows, GapRow
<1> DEFINE pc == IF LossesOf(r) # {} THEN "evicted" ELSE AfterPin(from, ends)
<1>12. pc \in {"evicted", "pinned", "staged"} /\ (pc = "evicted" <=> LossesOf(r) # {})
  BY DEF AfterPin
<1> HIDE DEF from, ends, pc, endsBy
<1>13. /\ run'[r] = [run[r] EXCEPT !.pc = pc, !.starts = from, !.ends = ends,
                                   !.losses = LossRows(r)]
       /\ \A q \in Runs \ {r} : run'[q] = run[q]
  BY <1>3 DEF TypeOK, pc, ends
<1>14. /\ run'[r] \in Run /\ run'[r].pc = pc
       /\ run'[r].committed = Committed /\ run'[r].earliest = e
       /\ run'[r].starts = from /\ run'[r].ends = ends /\ run'[r].losses = LossRows(r)
  BY <1>1, <1>9, <1>11, <1>12, <1>13 DEF Run, Pc
<1>15. run' \in [Runs -> Run]
  BY <1>14, <1>3 DEF TypeOK
<1>16. TypeOK'
  BY <1>15 DEF TypeOK, PinRange, broker
<1>17. Committed' = Committed /\ gaps' = gaps /\ UNCHANGED broker
  BY CommittedFrame DEF PinRange
<1>18. ResumedInv(r)' /\ ListedInv(r)'
  BY <1>1, <1>14, <1>17 DEF ResumedInv, ListedInv, broker
<1>19. LossInv(r)'
  BY <1>2, <1>10, <1>14, <1>17 DEF LossInv, LossRows
<1>20. PinnedInv(r)'
  <2>1. ASSUME NEW p \in DOMAIN Committed
        PROVE  \/ from[p] = Committed[p]
               \/ /\ Committed[p] < from[p] /\ pc = "evicted"
                  /\ [part |-> p, committed |-> Committed[p], logStart |-> from[p]]
                        \in LossRows(r)
    <3>1. p \in DOMAIN e /\ Resolved(r)[p] = Committed[p]
      BY <1>1, <1>2 DEF ListedInv
    <3>2. CASE p \notin LossesOf(r)
      BY <1>2, <1>6, <3>1, <3>2 DEF LossesOf, Evicted, FirstOf, Lookup
    <3>3. CASE p \in LossesOf(r)
      <4>1. from[p] = e[p] /\ Committed[p] < from[p]
        BY <1>6, <1>10, <3>1, <3>3
      <4>2. QED BY <1>12, <3>1, <3>3, <4>1 DEF LossRows
    <3>4. QED BY <3>2, <3>3
  <2>2. \A p \in DOMAIN e \ DOMAIN Committed : from[p] <= logStart[p]
    <3>1. \A p \in DOMAIN e \ DOMAIN Committed : from[p] = e[p]
      BY <1>2, <1>6
    <3>2. QED BY <1>1, <3>1 DEF ListedInv
  <2>3. QED BY <1>6, <1>7, <1>8, <1>14, <1>17, <2>1, <2>2 DEF PinnedInv, broker
<1>21. run'[r].pc # "idle"
  BY <1>12, <1>14
<1>22. QED BY <1>1, <1>13, <1>16, <1>18, <1>19, <1>20, <1>21, HolderStep DEF PinRange
\* The record is written first: what is filed is above every position and below the log start.
LEMMA RecordGapsInv ==
  ASSUME IInv, NEW r \in Runs, RecordGaps(r)
  PROVE  IInv'
<1> USE DEF IInv
<1>1. run[r] \in Run /\ run[r].pc = "evicted" /\ run[r].losses \subseteq GapRow
  BY DEF TypeOK, Run, RecordGaps, At
<1>2. ListedInv(r) /\ PinnedInv(r) /\ LossInv(r) /\ ResumedInv(r)
  BY DEF RunInv
<1> DEFINE pc == AfterPin(run[r].starts, run[r].ends)
<1>3. pc \in {"pinned", "staged"}
  BY DEF AfterPin
<1>4. /\ run'[r] = [run[r] EXCEPT !.pc = pc]
      /\ \A q \in Runs \ {r} : run'[q] = run[q]
  BY DEF RecordGaps, TypeOK
<1> HIDE DEF pc
<1>5. /\ run'[r] \in Run /\ run'[r].pc = pc
      /\ run'[r].committed = run[r].committed /\ run'[r].earliest = run[r].earliest
      /\ run'[r].starts = run[r].starts /\ run'[r].ends = run[r].ends
  BY <1>1, <1>3, <1>4 DEF Run, Pc
<1>6. run' \in [Runs -> Run]
  BY <1>5 DEF RecordGaps, TypeOK
<1>7. TypeOK'
  BY <1>1, <1>6 DEF TypeOK, RecordGaps, broker
<1>8. SnapshotInv' /\ Committed' = Committed
  BY SnapshotFrame DEF RecordGaps
<1>9. LockInv'
  BY <1>1, <1>3, <1>4, <1>5 DEF LockInv, RecordGaps
<1>10. PositionInv'
  BY <1>8 DEF PositionInv, RecordGaps, broker
<1>11. ASSUME NEW g \in run[r].losses
       PROVE  /\ g.part \in DOMAIN Committed /\ g.part \in Partition
              /\ g.committed = Committed[g.part] /\ g.committed < g.logStart
              /\ g.logStart <= logStart[g.part]
              /\ g.logStart <= run[r].earliest[g.part]
              /\ g.committed \in Int /\ g.logStart \in Int
  <2>1. g.part \in Partition /\ g.committed \in Int /\ g.logStart \in Int
    BY <1>1, Integral DEF GapRow
  <2>2. /\ g.part \in DOMAIN Committed /\ g.committed = Committed[g.part]
        /\ g.committed < g.logStart /\ g.logStart = run[r].earliest[g.part]
    BY <1>1, <1>2 DEF LossInv
  <2>3. run[r].earliest[g.part] <= logStart[g.part]
    BY <1>1, <1>2, <2>2 DEF ListedInv
  <2>4. QED BY <2>1, <2>2, <2>3
<1>12. GapInv'
  <2> SUFFICES ASSUME NEW g \in gaps'
               PROVE  /\ g.part \in DOMAIN Committed
                      /\ g.committed < g.logStart /\ g.logStart <= logStart[g.part]
                      /\ Committed[g.part] = g.committed \/ g.logStart <= Committed[g.part]
    BY <1>8 DEF GapInv, RecordGaps, broker
  <2>1. CASE g \in gaps
    BY <2>1 DEF GapInv
  <2>2. CASE g \in run[r].losses
    BY <2>2, <1>11
  <2>3. QED BY <2>1, <2>2 DEF RecordGaps
<1>13. ExactlyOnce'
  <2> SUFFICES ASSUME NEW p \in Partition, NEW o \in Offset
               PROVE  Archived(p, o)' = Archived(p, o)
    BY DEF ExactlyOnce, RecordGaps
  <2>1. CASE p \in DOMAIN Committed /\ o < Committed[p]
    <3>1. ASSUME NEW g \in run[r].losses, g.part = p PROVE ~(g.committed <= o)
      BY <1>11, <2>1, <3>1, Integral
    <3>2. Acked(p, o)' <=> Acked(p, o)
      BY <3>1 DEF Acked, RecordGaps
    <3>3. QED BY <1>8, <3>2 DEF Archived, RecordGaps
  <2>2. CASE ~(p \in DOMAIN Committed /\ o < Committed[p])
    BY <1>8, <2>2 DEF Archived
  <2>3. QED BY <2>1, <2>2
<1>14. RunInv'
  <2> SUFFICES ASSUME NEW q \in Runs
               PROVE  ResumedInv(q)' /\ ListedInv(q)' /\ PinnedInv(q)' /\ LossInv(q)'
    BY DEF RunInv
  <2>1. CASE q # r
    <3>1. run'[q].pc = "idle"
      BY <1>1, <1>4, <2>1, OnlyHolder
    <3>2. QED BY <3>1 DEF ResumedInv, ListedInv, PinnedInv, LossInv
  <2>2. CASE q = r
    <3>1. ResumedInv(r)' /\ LossInv(r)'
      BY <1>1, <1>2, <1>3, <1>5, <1>8 DEF ResumedInv, LossInv
    <3>2. ListedInv(r)'
      BY <1>1, <1>2, <1>3, <1>5, <1>8, <1>11 DEF ListedInv, RecordGaps, broker
    <3>3. PinnedInv(r)'
      BY <1>1, <1>2, <1>3, <1>5, <1>8 DEF PinnedInv, RecordGaps, broker
    <3>4. QED BY <2>2, <3>1, <3>2, <3>3
  <2>3. QED BY <2>1, <2>2
<1>15. QED BY <1>7, <1>8, <1>9, <1>10, <1>12, <1>13, <1>14

-----------------------------------------------------------------------------
(* The commit: rows and offsets are one fact *)

\* What the commit finds: every start lies between the position and the end, and the
\* records between the position and the start are named by a recorded gap.
LEMMA FetchedRange ==
  ASSUME IInv, NEW r \in Runs, run[r].pc = "fetched"
  PROVE  /\ run[r].committed = Committed
         /\ run[r].starts \in PosMap /\ run[r].ends \in PosMap
         /\ DOMAIN run[r].ends = DOMAIN run[r].starts
         /\ DOMAIN Committed \subseteq DOMAIN run[r].starts
         /\ DOMAIN run[r].starts \subseteq parts
         /\ \A p \in DOMAIN run[r].starts :
              /\ p \in Partition
              /\ run[r].starts[p] \in Int /\ run[r].ends[p] \in Int
              /\ run[r].starts[p] <= run[r].ends[p] /\ run[r].ends[p] <= logEnd[p]
              /\ \A g \in gaps : g.part = p => g.logStart <= run[r].starts[p]
         /\ \A p \in DOMAIN run[r].starts \ DOMAIN Committed :
              run[r].starts[p] <= logStart[p]
         /\ \A p \in DOMAIN Committed :
              /\ Committed[p] <= run[r].starts[p]
              /\ Committed[p] < run[r].starts[p] =>
                   \E g \in gaps : /\ g.part = p /\ g.committed = Committed[p]
                                   /\ g.logStart = run[r].starts[p]
<1> USE DEF IInv
<1>1. ResumedInv(r) /\ ListedInv(r) /\ PinnedInv(r)
  BY DEF RunInv
<1>2. run[r].starts \in PosMap /\ run[r].ends \in PosMap /\ run[r].earliest \in PosMap
  BY DEF TypeOK, Run
<1>3. /\ DOMAIN run[r].ends = DOMAIN run[r].starts
      /\ DOMAIN run[r].starts = DOMAIN run[r].earliest
  BY <1>1 DEF PinnedInv
<1>4. \A p \in DOMAIN run[r].starts :
        /\ p \in Partition /\ run[r].earliest[p] \in Int
        /\ run[r].starts[p] \in Int /\ run[r].ends[p] \in Int
  BY <1>2, <1>3, PosMapElim, Integral
<1>5. ASSUME NEW p \in DOMAIN run[r].starts, NEW g \in gaps, g.part = p
      PROVE  g.logStart <= run[r].starts[p]
  <2>1. g.logStart <= run[r].earliest[p] /\ run[r].earliest[p] <= run[r].starts[p]
    BY <1>1, <1>5 DEF ListedInv, PinnedInv
  <2>2. QED BY <1>4, <2>1, Integral
<1>6. ASSUME NEW p \in DOMAIN Committed
      PROVE  /\ Committed[p] <= run[r].starts[p]
             /\ Committed[p] < run[r].starts[p] =>
                  \E g \in gaps : /\ g.part = p /\ g.committed = Committed[p]
                                  /\ g.logStart = run[r].starts[p]
  <2>1. CASE run[r].starts[p] = Committed[p]
    BY <2>1, Integral
  <2>2. CASE /\ Committed[p] < run[r].starts[p]
             /\ [part |-> p, committed |-> Committed[p], logStart |-> run[r].starts[p]] \in gaps
    <3>1. Committed[p] \in Int /\ run[r].starts[p] \in Int
      BY <1>1, <1>3, <1>4, Integral DEF ListedInv
    <3>2. QED BY <2>2, <3>1
  <2>3. QED BY <1>1, <2>1, <2>2 DEF PinnedInv
<1>7. QED BY <1>1, <1>2, <1>3, <1>4, <1>5, <1>6 DEF ResumedInv, ListedInv, PinnedInv

LEMMA CommitInv ==
  ASSUME IInv, NEW r \in Runs, Commit(r)
  PROVE  IInv'
<1> USE DEF IInv
<1> DEFINE starts == run[r].starts
           ends == run[r].ends
           offsets == MergeCommitted(run[r].committed, ends)
           s == [job |-> "ingest", day |-> today, offsets |-> offsets]
<1>1. run[r] \in Run /\ run[r].pc = "fetched"
  BY DEF TypeOK, Commit, At
<1>2. /\ run[r].committed = Committed /\ starts \in PosMap /\ ends \in PosMap
      /\ DOMAIN ends = DOMAIN starts /\ DOMAIN Committed \subseteq DOMAIN starts
      /\ DOMAIN starts \subseteq parts
  BY <1>1, FetchedRange
<1>3. \A p \in DOMAIN starts :
        /\ p \in Partition /\ starts[p] \in Int /\ ends[p] \in Int
        /\ starts[p] <= ends[p] /\ ends[p] <= logEnd[p]
        /\ \A g \in gaps : g.part = p => g.logStart <= starts[p]
  BY <1>1, FetchedRange
<1>4. \A p \in DOMAIN Committed :
        /\ Committed[p] <= starts[p]
        /\ Committed[p] < starts[p] =>
             \E g \in gaps : /\ g.part = p /\ g.committed = Committed[p]
                             /\ g.logStart = starts[p]
  BY <1>1, FetchedRange
<1>5. /\ offsets \in PosMap /\ DOMAIN offsets = DOMAIN starts
      /\ \A p \in DOMAIN starts : offsets[p] = ends[p]
  <2>1. Committed \in PosMap /\ offsets = MergeCommitted(Committed, ends)
    BY <1>2, Integral
  <2> HIDE DEF starts, ends, offsets
  <2>2. /\ MergeCommitted(Committed, ends) \in PosMap
        /\ DOMAIN MergeCommitted(Committed, ends) = DOMAIN Committed \cup DOMAIN ends
        /\ \A p \in DOMAIN ends : MergeCommitted(Committed, ends)[p] = ends[p]
    BY <1>2, <2>1, MergeIsPosMap
  <2>3. QED BY <1>2, <2>1, <2>2
<1>6. s \in Snapshot /\ s.job = "ingest" /\ s.offsets = offsets
  <2> HIDE DEF offsets
  <2>1. QED BY <1>5 DEF TypeOK, Snapshot
<1>7. snapshots' = Append(snapshots, s)
  BY DEF Commit
<1>8. Committed' = offsets /\ SnapshotInv'
  <2> HIDE DEF s
  <2>1. QED BY <1>6, <1>7, AppendIngest, ConstantsAssumption DEF TypeOK, ConstantsAssumption
<1>9. /\ origin' \in PosMap /\ DOMAIN origin' = DOMAIN starts
      /\ \A p \in DOMAIN Committed : origin'[p] = origin[p]
      /\ \A p \in DOMAIN starts \ DOMAIN Committed : origin'[p] = starts[p]
  <2>1. origin \in PosMap /\ DOMAIN origin = DOMAIN Committed
    BY DEF TypeOK, PositionInv
  <2>2. origin' = MergeCommitted(starts, origin)
    BY DEF Commit
  <2> HIDE DEF starts, ends
  <2>3. /\ MergeCommitted(starts, origin) \in PosMap
        /\ DOMAIN MergeCommitted(starts, origin) = DOMAIN starts \cup DOMAIN origin
        /\ \A p \in DOMAIN origin : MergeCommitted(starts, origin)[p] = origin[p]
        /\ \A p \in DOMAIN starts \ DOMAIN origin :
              MergeCommitted(starts, origin)[p] = starts[p]
    BY <1>2, <2>1, MergeIsPosMap
  <2>4. QED BY <1>2, <2>1, <2>2, <2>3
<1>10. /\ run'[r] = [run[r] EXCEPT !.pc = "staged"]
       /\ \A q \in Runs \ {r} : run'[q] = run[q]
  BY DEF Commit, TypeOK
<1>11. run'[r] \in Run /\ run'[r].pc = "staged" /\ run' \in [Runs -> Run]
  BY <1>1, <1>10 DEF Run, Pc, Commit, TypeOK
<1>12. \A p \in Partition, o \in Offset :
         rows'[p][o] = IF InRange(r, p, o) THEN rows[p][o] + 1 ELSE rows[p][o]
  BY DEF Commit
<1>13. TypeOK'
  <2>1. rows' \in [Partition -> [Offset -> Nat]]
    BY DEF Commit, TypeOK
  <2>2. snapshots' \in Seq(Snapshot)
    <3> HIDE DEF s
    <3>1. QED BY <1>6, <1>7 DEF TypeOK
  <2>3. UNCHANGED <<parts, logStart, logEnd, gaps, alarm, today, lock, nightly, faults>>
    BY DEF Commit, broker
  <2>4. QED BY <1>9, <1>11, <2>1, <2>2, <2>3 DEF TypeOK
<1>14. gaps' = gaps /\ lock' = lock /\ nightly' = nightly /\ UNCHANGED broker
  BY DEF Commit
<1> HIDE DEF starts, ends, offsets, s
<1>15. LockInv'
  BY <1>1, <1>10, <1>11, <1>14 DEF LockInv
<1>16. PositionInv'
  <2>1. \A p \in DOMAIN starts : /\ origin'[p] <= offsets[p] /\ offsets[p] <= logEnd[p]
                                 /\ origin'[p] <= logStart[p]
    <3>1. ASSUME NEW p \in DOMAIN Committed
          PROVE  origin'[p] <= offsets[p] /\ origin'[p] <= logStart[p]
      BY <1>2, <1>3, <1>4, <1>5, <1>9, Integral DEF PositionInv
    <3>2. ASSUME NEW p \in DOMAIN starts \ DOMAIN Committed
          PROVE  origin'[p] <= offsets[p] /\ origin'[p] <= logStart[p]
      BY <1>1, <1>3, <1>5, <1>9, FetchedRange DEF starts
    <3>3. QED BY <1>3, <1>5, <3>1, <3>2
  <2>2. QED BY <1>2, <1>5, <1>8, <1>9, <1>14, <2>1 DEF PositionInv, broker
<1>17. GapInv'
  <2> SUFFICES ASSUME NEW g \in gaps
               PROVE  /\ g.part \in DOMAIN offsets
                      /\ g.committed < g.logStart /\ g.logStart <= logStart[g.part]
                      /\ offsets[g.part] = g.committed \/ g.logStart <= offsets[g.part]
    BY <1>8, <1>14 DEF GapInv, broker
  <2>1. g.part \in DOMAIN starts /\ g.part \in DOMAIN offsets
    BY <1>2, <1>5 DEF GapInv
  <2>2. g.logStart <= offsets[g.part]
    BY <1>3, <1>5, <2>1, Integral
  <2>3. QED BY <2>1, <2>2 DEF GapInv
<1>18. RunInv'
  <2>1. \A q \in Runs \ {r} : run'[q].pc = "idle"
    BY <1>1, <1>10, OnlyHolder
  <2>2. QED BY <1>11, <2>1, IdleRuns
<1>19. ExactlyOnce'
  <2> SUFFICES ASSUME NEW p \in Partition, NEW o \in Offset
               PROVE  rows'[p][o] = IF Archived(p, o)' THEN 1 ELSE 0
    BY DEF ExactlyOnce
  <2>1. o \in Int
    BY Integral
  <2>2. Acked(p, o)' <=> Acked(p, o)
    BY <1>14 DEF Acked
  <2>3. Archived(p, o)' <=> /\ p \in DOMAIN starts
                            /\ origin'[p] <= o /\ o < ends[p]
                            /\ ~Acked(p, o)
    BY <1>5, <1>8, <2>2 DEF Archived
  <2>4. rows[p][o] = IF Archived(p, o) THEN 1 ELSE 0
    BY DEF ExactlyOnce
  <2>5. InRange(r, p, o) <=> p \in DOMAIN starts /\ starts[p] <= o /\ o < ends[p]
    BY DEF InRange, starts, ends
  <2>6. rows'[p][o] = IF InRange(r, p, o) THEN rows[p][o] + 1 ELSE rows[p][o]
    BY <1>12
  <2>7. InRange(r, p, o) => ~Acked(p, o)
    BY <1>3, <2>1, <2>5, Integral DEF Acked
  <2>8. CASE p \notin DOMAIN starts
    BY <1>2, <2>3, <2>4, <2>5, <2>6, <2>8 DEF Archived
  <2>9. CASE p \in DOMAIN starts \ DOMAIN Committed
    <3>1. ~Archived(p, o) /\ ~Acked(p, o) /\ origin'[p] = starts[p]
      BY <1>9, <2>9 DEF Archived, Acked, GapInv
    <3>2. Archived(p, o)' <=> InRange(r, p, o)
      BY <2>3, <2>5, <2>9, <3>1
    <3>3. QED BY <2>4, <2>6, <3>1, <3>2
  <2>10. CASE p \in DOMAIN Committed
    <3>1. /\ p \in DOMAIN starts /\ origin'[p] = origin[p]
          /\ Committed[p] \in Int /\ origin[p] \in Int
          /\ starts[p] \in Int /\ ends[p] \in Int
          /\ origin[p] <= Committed[p] /\ Committed[p] <= starts[p] /\ starts[p] <= ends[p]
      BY <1>2, <1>3, <1>4, <1>9, <2>10, Integral DEF PositionInv
    <3>2. CASE o < Committed[p]
      <4>1. ~InRange(r, p, o) /\ o < ends[p]
        BY <2>1, <2>5, <3>1, <3>2
      <4>2. Archived(p, o)' <=> Archived(p, o)
        BY <2>3, <2>10, <3>1, <3>2, <4>1 DEF Archived
      <4>3. QED BY <2>4, <2>6, <4>1, <4>2
    <3>3. CASE Committed[p] <= o /\ o < starts[p]
      <4>1. Acked(p, o)
        <5>1. PICK g \in gaps : /\ g.part = p /\ g.committed = Committed[p]
                                /\ g.logStart = starts[p]
          BY <1>4, <2>1, <2>10, <3>1, <3>3
        <5>2. QED BY <3>3, <5>1 DEF Acked
      <4>2. ~InRange(r, p, o)
        BY <2>1, <2>5, <3>1, <3>3
      <4>3. QED BY <2>3, <2>4, <2>6, <4>1, <4>2 DEF Archived
    <3>4. CASE starts[p] <= o
      <4>1. ~Archived(p, o)
        BY <2>1, <3>1, <3>4 DEF Archived
      <4>2. Archived(p, o)' <=> InRange(r, p, o)
        BY <2>1, <2>3, <2>5, <2>7, <3>1, <3>4
      <4>3. QED BY <2>4, <2>6, <4>1, <4>2
    <3>5. QED BY <2>1, <3>1, <3>2, <3>3, <3>4
  <2>11. QED BY <2>8, <2>9, <2>10
<1>20. QED BY <1>8, <1>13, <1>15, <1>16, <1>17, <1>18, <1>19
-----------------------------------------------------------------------------
(* The theorems *)

\* One step of any process, of the broker or of the clock.
LEMMA NextInv ==
  ASSUME IInv, CompactionWithinRetention, [Next]_vars
  PROVE  IInv'
<1>1. CASE UNCHANGED vars
  <2>1. UNCHANGED broker /\ TypeOK'
    BY <1>1 DEF vars, broker, IInv, TypeOK
  <2>2. BrokerGrows
    BY <2>1, BrokerStill DEF IInv
  <2>3. LockInv'
    BY <1>1 DEF vars, IInv, LockInv
  <2>4. QED BY <1>1, <2>1, <2>2, <2>3, OutsideStep DEF vars
<1>2. ASSUME NEW p \in Partition, Produce(p) \/ Evict(p) \/ AddPartition(p)
      PROVE  IInv'
  BY <1>2, ProduceInv, EvictInv, AddPartitionInv
<1>3. ASSUME NEW r \in Runs, IngestStep(r) \/ RecordFails(r) \/ Killed(r)
      PROVE  IInv'
  BY <1>3, AcquireLockInv, ReadSummaryInv, ListEarliestInv, PinRangeInv, RecordGapsInv,
     FetchInv, CommitInv, WaysOutInv DEF IngestStep
<1>4. CASE NextDay
  BY <1>4, NextDayInv
<1>5. CASE MaintenanceStep \/ MaintenanceKilled
  BY <1>5, StartMaintenanceInv, CompactInv, ExpireInv, RunAuditsInv, MaintenanceKilledInv
     DEF MaintenanceStep
<1>6. QED BY <1>1, <1>2, <1>3, <1>4, <1>5 DEF Next

(***************************************************************************)
(* The invariant of the whole system: the lock has one holder, the newest  *)
(* ingest summary survives, what a run remembers is old but not wrong, and *)
(* the rows are what the positions and the recorded gaps say they are.     *)
(***************************************************************************)
THEOREM InductiveInvariant ==
  ASSUME CompactionWithinRetention
  PROVE  Spec => []IInv
<1>1. Init => IInv
  BY InitInv
<1>2. IInv /\ [Next]_vars => IInv'
  BY NextInv
<1>3. QED BY <1>1, <1>2, PTL DEF Spec

(***************************************************************************)
(* The exactly-once contract of offsets.py and ADR-022, for any number of  *)
(* partitions, processes, kills, evictions and compactions.                *)
(***************************************************************************)
THEOREM ExactlyOnceHolds ==
  ASSUME CompactionWithinRetention
  PROVE  Spec => []ExactlyOnce
<1>1. IInv => ExactlyOnce
  BY DEF IInv
<1>2. QED BY <1>1, InductiveInvariant, PTL

(***************************************************************************)
(* No position passes a record Redpanda still holds                        *)
(* (next_starting_offsets, skip_evicted).                                  *)
(***************************************************************************)
THEOREM NoSurvivorPassedHolds ==
  ASSUME CompactionWithinRetention
  PROVE  Spec => []NoSurvivorPassed
<1>1. ASSUME IInv PROVE NoSurvivorPassed
  <2> USE <1>1 DEF IInv
  <2> SUFFICES ASSUME NEW p \in DOMAIN Committed, NEW o \in Offset,
                      logStart[p] <= o, o < Committed[p]
               PROVE  rows[p][o] = 1
    BY DEF NoSurvivorPassed
  <2>1. p \in Partition /\ o \in Int
    BY Integral
  <2>2. origin[p] <= o
    BY <2>1, Integral DEF PositionInv
  <2>3. ~Acked(p, o)
    BY <2>1, Integral DEF Acked, GapInv
  <2>4. QED BY <2>1, <2>2, <2>3 DEF ExactlyOnce, Archived
<1>2. QED BY <1>1, InductiveInvariant, PTL

(***************************************************************************)
(* What an offset_gap row names is gone from the broker and was never      *)
(* archived, also when the run that filed it died (_accept_data_loss).     *)
(***************************************************************************)
THEOREM RecordedLossIsRealHolds ==
  ASSUME CompactionWithinRetention
  PROVE  Spec => []RecordedLossIsReal
<1>1. ASSUME IInv PROVE RecordedLossIsReal
  <2> USE <1>1 DEF IInv
  <2> SUFFICES ASSUME NEW p \in Partition, NEW o \in Offset, Acked(p, o)
               PROVE  o < logStart[p] /\ rows[p][o] = 0
    BY DEF RecordedLossIsReal
  <2>1. PICK g \in gaps : g.part = p /\ g.committed <= o /\ o < g.logStart
    BY DEF Acked
  <2>2. g.logStart <= logStart[p]
    BY <2>1 DEF GapInv
  <2>3. o < logStart[p]
    BY <2>1, <2>2, Integral
  <2>4. QED BY <2>3 DEF ExactlyOnce, Archived
<1>2. QED BY <1>1, InductiveInvariant, PTL

-----------------------------------------------------------------------------
(* What holds whatever compaction commits: the types, and where the positions *)
(* of a run lie between reading the summary and committing.                   *)

LatestInv ==
  \/ WrittenBy(snapshots, "ingest") = {}
  \/ \E i \in DOMAIN snapshots : IsLatest(snapshots, "ingest", i)

\* A listing names every committed partition, and a pinned range starts at or after the position.
ForwardInv(r) ==
  /\ run[r].pc \in {"listed", "evicted", "pinned", "fetched"} =>
       DOMAIN Committed \subseteq DOMAIN run[r].earliest /\ DOMAIN run[r].earliest \subseteq parts
  /\ run[r].pc \in {"evicted", "pinned", "fetched"} =>
       /\ DOMAIN run[r].starts = DOMAIN run[r].earliest
       /\ DOMAIN run[r].ends = DOMAIN run[r].earliest
       /\ \A p \in DOMAIN run[r].starts : run[r].starts[p] <= run[r].ends[p]
       /\ \A p \in DOMAIN Committed : Committed[p] <= run[r].starts[p]

AnyInv ==
  /\ TypeOK /\ LockInv /\ LatestInv
  /\ DOMAIN Committed \subseteq parts
  /\ \A r \in Runs : ResumedInv(r) /\ ForwardInv(r)

LEMMA LatestCommitted ==
  ASSUME snapshots \in Seq(Snapshot), LatestInv
  PROVE  Committed \in PosMap
<1>1. CASE WrittenBy(snapshots, "ingest") = {}
  BY <1>1, EmptyIsPosMap DEF Committed
<1>2. CASE \E i \in DOMAIN snapshots : IsLatest(snapshots, "ingest", i)
  <2>1. PICK i \in DOMAIN snapshots : IsLatest(snapshots, "ingest", i)
    BY <1>2
  <2>2. Committed = snapshots[i].offsets
    BY <2>1, LatestIsCommitted
  <2>3. snapshots[i] \in Snapshot
    OBVIOUS
  <2>4. QED BY <2>2, <2>3 DEF Snapshot
<1>3. QED BY <1>1, <1>2 DEF LatestInv

LEMMA LatestFrame ==
  ASSUME LatestInv, UNCHANGED snapshots
  PROVE  LatestInv' /\ Committed' = Committed
BY CommittedFrame DEF LatestInv, IsLatest, WrittenBy

LEMMA IntegralCommitted ==
  ASSUME AnyInv
  PROVE  /\ Committed \in PosMap /\ Position \subseteq Nat /\ 0 \in Position
         /\ \A p \in DOMAIN Committed : p \in Partition /\ Committed[p] \in Position
<1>1. Committed \in PosMap
  BY LatestCommitted DEF AnyInv, TypeOK
<1>2. QED BY <1>1, PosMapElim, PositionIsNat, ConstantsAssumption DEF ConstantsAssumption

\* A commit of another job leaves the newest summary where it is.
LEMMA CompactKeepsSummary ==
  ASSUME snapshots \in Seq(Snapshot), LatestInv,
         NEW s \in Snapshot, s.job # "ingest",
         snapshots' = Append(snapshots, s)
  PROVE  LatestInv' /\ Committed' = Committed
<1>1. PICK n \in Nat : n = Len(snapshots)
  OBVIOUS
<1>2. /\ DOMAIN snapshots = 1..n /\ DOMAIN snapshots' = 1..(n + 1)
      /\ snapshots'[n + 1] = s
      /\ \A i \in 1..n : snapshots'[i] = snapshots[i]
  BY <1>1
<1>3. WrittenBy(snapshots', "ingest") = WrittenBy(snapshots, "ingest")
  BY <1>2 DEF WrittenBy
<1>4. \A i : IsLatest(snapshots', "ingest", i) <=> IsLatest(snapshots, "ingest", i)
  BY <1>3 DEF IsLatest
<1>5. CASE WrittenBy(snapshots, "ingest") = {}
  BY <1>3, <1>5 DEF LatestInv, Committed
<1>6. CASE WrittenBy(snapshots, "ingest") # {}
  <2>1. PICK i \in DOMAIN snapshots : IsLatest(snapshots, "ingest", i)
    BY <1>6 DEF LatestInv
  <2>2. Committed = snapshots[i].offsets
    BY <2>1, <1>2, LatestIsCommitted
  <2>3. i \in 1..n /\ IsLatest(snapshots', "ingest", i)
    BY <1>2, <1>4, <2>1
  <2>4. \A j \in DOMAIN snapshots' : IsLatest(snapshots', "ingest", j) => j = i
    BY <1>2, <2>3 DEF IsLatest, WrittenBy
  <2>5. (CHOOSE j \in DOMAIN snapshots' : IsLatest(snapshots', "ingest", j)) = i
    BY <1>2, <2>3, <2>4
  <2>6. Committed' = snapshots'[i].offsets
    BY <1>3, <1>6, <2>5 DEF Committed, LatestSummary
  <2>7. QED BY <1>2, <2>2, <2>3, <2>6 DEF LatestInv
<1>7. QED BY <1>5, <1>6

\* An expiry keeps the newest summary or drops every one there is.
LEMMA ExpiryKeepsOrDrops ==
  ASSUME snapshots \in Seq(Snapshot), LatestInv,
         NEW k \in 1..Len(snapshots), FirstKept(k),
         snapshots' = SubSeq(snapshots, k, Len(snapshots))
  PROVE  /\ LatestInv'
         /\ \/ Committed' = Committed
            \/ /\ Committed' = Empty
               /\ \A i \in WrittenBy(snapshots, "ingest") : ~Kept(i)
<1>1. PICK n \in Nat : n = Len(snapshots)
  OBVIOUS
<1>2. /\ DOMAIN snapshots = 1..n /\ k \in 1..n
      /\ DOMAIN snapshots' = 1..(n - k + 1)
      /\ \A i \in 1..(n - k + 1) : snapshots'[i] = snapshots[i + k - 1]
  BY <1>1
<1>3. \A i \in 1..(n - k + 1) :
        i \in WrittenBy(snapshots', "ingest") <=> i + k - 1 \in WrittenBy(snapshots, "ingest")
  BY <1>2 DEF WrittenBy
<1>4. CASE \A i \in WrittenBy(snapshots, "ingest") : i < k
  <2>1. WrittenBy(snapshots', "ingest") = {}
    <3>1. ASSUME NEW i \in WrittenBy(snapshots', "ingest") PROVE FALSE
      <4>1. i \in 1..(n - k + 1) BY <1>2 DEF WrittenBy
      <4>2. i + k - 1 \in WrittenBy(snapshots, "ingest") BY <1>3, <4>1
      <4>3. QED BY <1>2, <1>4, <4>1, <4>2
    <3>2. QED BY <3>1
  <2>2. \A i \in WrittenBy(snapshots, "ingest") : ~Kept(i)
    <3>1. ASSUME NEW i \in WrittenBy(snapshots, "ingest") PROVE ~Kept(i)
      <4>1. i \in 1..n /\ i < k BY <1>2, <1>4 DEF WrittenBy
      <4>2. i \in 1..(k - 1) BY <1>2, <4>1
      <4>3. QED BY <4>2 DEF FirstKept
    <3>2. QED BY <3>1
  <2>3. Committed' = Empty
    BY <2>1 DEF Committed
  <2>4. LatestInv'
    BY <2>1 DEF LatestInv
  <2>5. QED BY <2>2, <2>3, <2>4
<1>5. CASE \E m \in WrittenBy(snapshots, "ingest") : ~(m < k)
  <2>1. PICK m \in WrittenBy(snapshots, "ingest") : ~(m < k)
    BY <1>5
  <2>2. PICK i \in DOMAIN snapshots : IsLatest(snapshots, "ingest", i)
    BY <2>1 DEF LatestInv
  <2>3. Committed = snapshots[i].offsets
    BY <2>2, <1>2, LatestIsCommitted
  <2>4. i \in 1..n /\ m \in 1..n /\ m <= i /\ k <= i
    BY <1>2, <2>1, <2>2 DEF IsLatest, WrittenBy
  <2>5. PICK j \in 1..(n - k + 1) : j = i - k + 1
    BY <1>2, <2>4
  <2>6. j + k - 1 = i
    BY <1>2, <2>5
  <2>7. IsLatest(snapshots', "ingest", j)
    <3>1. j \in WrittenBy(snapshots', "ingest")
      BY <1>3, <2>2, <2>5, <2>6 DEF IsLatest
    <3>2. ASSUME NEW q \in WrittenBy(snapshots', "ingest") PROVE q <= j
      <4>1. q \in 1..(n - k + 1)
        BY <1>2 DEF WrittenBy
      <4>2. q + k - 1 \in WrittenBy(snapshots, "ingest")
        BY <1>3, <4>1
      <4>3. q + k - 1 <= i
        BY <2>2, <4>2 DEF IsLatest
      <4>4. QED BY <1>2, <2>5, <4>1, <4>3
    <3>3. QED BY <3>1, <3>2 DEF IsLatest
  <2>8. \A q \in DOMAIN snapshots' : IsLatest(snapshots', "ingest", q) => q = j
    BY <1>2, <2>5, <2>7 DEF IsLatest, WrittenBy
  <2>9. (CHOOSE q \in DOMAIN snapshots' : IsLatest(snapshots', "ingest", q)) = j
    BY <1>2, <2>5, <2>7, <2>8
  <2>10. WrittenBy(snapshots', "ingest") # {}
    BY <2>7 DEF IsLatest
  <2>11. Committed' = snapshots'[j].offsets
    BY <2>9, <2>10 DEF Committed, LatestSummary
  <2>12. QED BY <1>2, <2>3, <2>5, <2>6, <2>7, <2>11 DEF LatestInv
<1>6. QED BY <1>4, <1>5

\* A step that neither commits nor touches a run.
LEMMA AnyOutside ==
  ASSUME AnyInv, TypeOK', LockInv', UNCHANGED <<snapshots, run>>, parts \subseteq parts'
  PROVE  AnyInv' /\ Committed' = Committed
<1>1. LatestInv' /\ Committed' = Committed
  BY LatestFrame DEF AnyInv
<1>2. \A r \in Runs : (ResumedInv(r) /\ ForwardInv(r))'
  BY <1>1 DEF AnyInv, ResumedInv, ForwardInv
<1>3. QED BY <1>1, <1>2 DEF AnyInv

LEMMA AnyBroker ==
  ASSUME AnyInv, NEW p \in Partition, Produce(p) \/ Evict(p) \/ AddPartition(p)
  PROVE  AnyInv' /\ Committed' = Committed
<1> USE ConstantsAssumption DEF ConstantsAssumption
<1>1. /\ logStart \in [Partition -> Position] /\ logEnd \in [Partition -> Position]
      /\ \A q \in Position : q \in Nat /\ q <= MaxOffset
  BY DEF AnyInv, TypeOK, Position
<1>2. logStart' \in [Partition -> Position] /\ logEnd' \in [Partition -> Position]
  <2>1. CASE Produce(p)
    <3>1. logEnd[p] + 1 \in Position BY <1>1, <2>1 DEF Produce, Position
    <3>2. QED BY <1>1, <2>1, <3>1 DEF Produce
  <2>2. CASE Evict(p)
    <3>1. logStart[p] + 1 \in Position BY <1>1, <2>2 DEF Evict, Position
    <3>2. QED BY <1>1, <2>2, <3>1 DEF Evict
  <2>3. CASE AddPartition(p)
    BY <1>1, <2>3 DEF AddPartition
  <2>4. QED BY <2>1, <2>2, <2>3
<1>3. /\ UNCHANGED <<rows, snapshots, gaps, alarm, today, lock, run, nightly, faults, origin>>
      /\ parts \subseteq parts' /\ parts' \subseteq Partition
  BY DEF Produce, Evict, AddPartition, AnyInv, TypeOK
<1>4. TypeOK' BY <1>2, <1>3 DEF AnyInv, TypeOK
<1>5. LockInv' BY <1>3 DEF AnyInv, LockInv
<1>6. QED BY <1>3, <1>4, <1>5, AnyOutside

LEMMA AnyNightly ==
  ASSUME AnyInv, NextDay \/ StartMaintenance \/ RunAudits \/ MaintenanceKilled
  PROVE  AnyInv' /\ Committed' = Committed
<1> USE ConstantsAssumption DEF ConstantsAssumption
<1>1. /\ UNCHANGED <<broker, rows, snapshots, gaps, run, origin>>
      /\ today' \in 0..MaxDay /\ faults' \in 0..MaxFaults /\ alarm' \subseteq Partition
      /\ lock' \in Runs \cup {Maintenance, NoOne} /\ nightly' \in {"idle", "compacting", "auditing"}
  BY DEF NextDay, StartMaintenance, RunAudits, MaintenanceKilled, AnyInv, TypeOK
<1>2. TypeOK' BY <1>1 DEF AnyInv, TypeOK, broker
<1>3. LockInv'
  BY <1>1 DEF AnyInv, LockInv, NextDay, StartMaintenance, RunAudits, MaintenanceKilled
<1>4. QED BY <1>1, <1>2, <1>3, AnyOutside DEF broker

LEMMA AnyCompact ==
  ASSUME AnyInv, Compact
  PROVE  AnyInv' /\ Committed' = Committed
<1> DEFINE s == [job |-> "none", day |-> today, offsets |-> Empty]
<1>1. s \in Snapshot /\ s.job # "ingest"
  BY EmptyIsPosMap DEF AnyInv, TypeOK, Snapshot
<1>2. snapshots' \in Seq(Snapshot) /\ snapshots' = Append(snapshots, s)
  BY <1>1 DEF AnyInv, TypeOK, Compact
<1>3. LatestInv' /\ Committed' = Committed
  BY <1>1, <1>2, CompactKeepsSummary DEF AnyInv, TypeOK
<1>4. UNCHANGED <<broker, rows, gaps, alarm, today, lock, run, nightly, faults, origin>>
  BY DEF Compact
<1>5. TypeOK' /\ LockInv'
  BY <1>2, <1>4 DEF AnyInv, TypeOK, LockInv, broker
<1>6. \A r \in Runs : (ResumedInv(r) /\ ForwardInv(r))'
  BY <1>3, <1>4 DEF AnyInv, ResumedInv, ForwardInv, broker
<1>7. QED BY <1>3, <1>4, <1>5, <1>6 DEF AnyInv, broker

\* No run is under way, so that no copy of the summary outlives what it was read from.
LEMMA AnyExpire ==
  ASSUME AnyInv, Expire
  PROVE  /\ AnyInv'
         /\ \/ Committed' = Committed
            \/ \A i \in WrittenBy(snapshots, "ingest") : ~Kept(i)
<1>1. /\ snapshots' \in Seq(Snapshot) /\ LatestInv'
      /\ \/ Committed' = Committed
         \/ Committed' = Empty /\ \A i \in WrittenBy(snapshots, "ingest") : ~Kept(i)
  <2>1. CASE snapshots = <<>>
    <3>1. snapshots' = snapshots BY <2>1 DEF Expire
    <3>2. QED BY <3>1, LatestFrame DEF AnyInv, TypeOK
  <2>2. CASE snapshots # <<>>
    <3>1. PICK k \in 1..Len(snapshots) :
            FirstKept(k) /\ snapshots' = SubSeq(snapshots, k, Len(snapshots))
      BY <2>2 DEF Expire
    <3>2. snapshots' \in Seq(Snapshot)
      BY <3>1 DEF AnyInv, TypeOK
    <3>3. QED BY <3>1, <3>2, ExpiryKeepsOrDrops DEF AnyInv, TypeOK
  <2>3. QED BY <2>1, <2>2
<1>2. UNCHANGED <<broker, rows, gaps, alarm, today, lock, run, faults, origin>>
      /\ nightly = "compacting" /\ nightly' = "auditing"
  BY DEF Expire
<1>3. TypeOK' /\ LockInv'
  BY <1>1, <1>2 DEF AnyInv, TypeOK, LockInv, broker
<1>4. \A r \in Runs : run'[r].pc = "idle"
  BY <1>2, ConstantsAssumption DEF AnyInv, LockInv, ConstantsAssumption
<1>5. \A r \in Runs : (ResumedInv(r) /\ ForwardInv(r))'
  BY <1>4 DEF ResumedInv, ForwardInv
<1>6. DOMAIN Committed' \subseteq parts'
  BY <1>1, <1>2 DEF AnyInv, Empty, broker
<1>7. QED BY <1>1, <1>3, <1>5, <1>6 DEF AnyInv

\* A step of the process that holds the lock, which commits nothing.
LEMMA AnyHolder ==
  ASSUME AnyInv, NEW r \in Runs, NEW new \in Run,
         run' = [run EXCEPT ![r] = new],
         UNCHANGED <<broker, rows, snapshots, alarm, today, nightly, origin>>,
         gaps' \subseteq GapRow, faults' \in 0..MaxFaults,
         \/ run[r].pc # "idle" /\ lock' = lock /\ new.pc # "idle"
         \/ run[r].pc # "idle" /\ lock' = (IF lock = r THEN NoOne ELSE lock) /\ new.pc = "idle"
         \/ lock = NoOne /\ lock' = r /\ new.pc # "idle",
         (ResumedInv(r) /\ ForwardInv(r))'
  PROVE  AnyInv' /\ Committed' = Committed
<1> USE ConstantsAssumption DEF ConstantsAssumption
<1>1. LatestInv' /\ Committed' = Committed
  BY LatestFrame DEF AnyInv
<1>2. run' \in [Runs -> Run] /\ run'[r] = new /\ \A q \in Runs \ {r} : run'[q] = run[q]
  BY DEF AnyInv, TypeOK
<1>3. lock' \in Runs \cup {Maintenance, NoOne}
  BY DEF AnyInv, TypeOK
<1>4. TypeOK'
  BY <1>2, <1>3 DEF AnyInv, TypeOK, broker
<1>5. \A q \in Runs \ {r} : run[q].pc = "idle"
  BY DEF AnyInv, LockInv
<1>6. LockInv'
  BY <1>2, <1>5 DEF AnyInv, LockInv
<1>7. \A q \in Runs : (ResumedInv(q) /\ ForwardInv(q))'
  <2>1. ASSUME NEW q \in Runs, q # r PROVE (ResumedInv(q) /\ ForwardInv(q))'
    <3>1. run'[q].pc = "idle" BY <1>2, <1>5, <2>1
    <3>2. QED BY <3>1 DEF ResumedInv, ForwardInv
  <2>2. QED BY <2>1
<1>8. QED BY <1>1, <1>4, <1>6, <1>7 DEF AnyInv, broker

LEMMA AnyWaysOut ==
  ASSUME AnyInv, NEW r \in Runs,
         ListFails(r) \/ RefuseLoss(r) \/ FetchFails(r) \/ Finish(r) \/ RecordFails(r) \/ Killed(r)
  PROVE  AnyInv' /\ Committed' = Committed
<1>1. run[r].pc # "idle"
  BY DEF ListFails, RefuseLoss, FetchFails, Finish, RecordFails, Killed, At
<1>2. /\ faults' \in 0..MaxFaults /\ gaps' \subseteq GapRow
      /\ UNCHANGED <<broker, rows, snapshots, alarm, today, nightly, origin>>
      /\ lock' = (IF lock = r THEN NoOne ELSE lock) /\ run' = [run EXCEPT ![r] = Idle]
  BY ConstantsAssumption
     DEF ListFails, RefuseLoss, FetchFails, Finish, RecordFails, Killed, Exits, AnyInv, TypeOK, ConstantsAssumption
<1>3. Idle \in Run /\ Idle.pc = "idle"
  BY EmptyIsPosMap DEF Idle, Run, Pc
<1>4. run'[r].pc = "idle"
  BY <1>2, <1>3 DEF AnyInv, TypeOK
<1>5. (ResumedInv(r) /\ ForwardInv(r))'
  BY <1>4 DEF ResumedInv, ForwardInv
<1>6. QED BY <1>1, <1>2, <1>3, <1>5, AnyHolder

LEMMA AnyAcquire ==
  ASSUME AnyInv, NEW r \in Runs, AcquireLock(r)
  PROVE  AnyInv' /\ Committed' = Committed
<1>1. PICK accept \in BOOLEAN, timed \in BOOLEAN, max \in Maxima \cup {DefaultMax} :
        run' = [run EXCEPT ![r] = [Idle EXCEPT !.pc = "started", !.accept = accept,
                                               !.max = max, !.timed = timed]]
  BY DEF AcquireLock
<1> DEFINE new == [Idle EXCEPT !.pc = "started", !.accept = accept, !.max = max, !.timed = timed]
<1>2. new \in Run /\ new.pc = "started"
  BY EmptyIsPosMap DEF Idle, Run, Pc
<1> HIDE DEF new
<1>3. run' = [run EXCEPT ![r] = new]
  BY <1>1 DEF new
<1>4. run'[r].pc = "started"
  BY <1>2, <1>3 DEF AnyInv, TypeOK
<1>5. (ResumedInv(r) /\ ForwardInv(r))'
  BY <1>4 DEF ResumedInv, ForwardInv
<1>6. /\ UNCHANGED <<broker, rows, snapshots, alarm, today, nightly, origin>>
      /\ gaps' \subseteq GapRow /\ faults' \in 0..MaxFaults /\ lock = NoOne /\ lock' = r
  BY DEF AcquireLock, AnyInv, TypeOK
<1>7. QED BY <1>2, <1>3, <1>5, <1>6, AnyHolder

LEMMA AnyReads ==
  ASSUME AnyInv, NEW r \in Runs, ReadSummary(r) \/ ListEarliest(r) \/ Fetch(r)
  PROVE  AnyInv' /\ Committed' = Committed
<1>1. run[r] \in Run /\ Committed \in PosMap /\ ResumedInv(r) /\ ForwardInv(r)
  BY IntegralCommitted DEF AnyInv, TypeOK
<1>2. /\ UNCHANGED <<broker, rows, snapshots, gaps, alarm, today, lock, nightly, faults, origin>>
      /\ run[r].pc # "idle" /\ Committed' = Committed
  BY CommittedFrame DEF ReadSummary, ListEarliest, Fetch, At
<1>3. gaps' \subseteq GapRow /\ faults' \in 0..MaxFaults
  BY <1>2 DEF AnyInv, TypeOK
<1>4. CASE ReadSummary(r)
  <2> DEFINE new == [run[r] EXCEPT !.pc = "resumed", !.committed = Committed]
  <2>1. new \in Run /\ new.pc = "resumed" /\ new.committed = Committed
    BY <1>1 DEF Run, Pc
  <2> HIDE DEF new
  <2>2. run' = [run EXCEPT ![r] = new]
    BY <1>4 DEF ReadSummary, new
  <2>3. run'[r] = new BY <2>2 DEF AnyInv, TypeOK
  <2>4. (ResumedInv(r) /\ ForwardInv(r))'
    BY <1>2, <2>1, <2>3 DEF ResumedInv, ForwardInv
  <2>5. QED BY <1>2, <1>3, <2>1, <2>2, <2>4, AnyHolder
<1>5. CASE ListEarliest(r)
  <2> DEFINE earliest == [p \in parts |-> logStart[p]]
             new == [run[r] EXCEPT !.pc = "listed", !.earliest = earliest]
  <2>1. earliest \in PosMap /\ DOMAIN earliest = parts
    <3>1. earliest \in [parts -> Position] BY DEF AnyInv, TypeOK
    <3>2. QED BY <3>1, PosMapIntro DEF AnyInv, TypeOK
  <2> HIDE DEF earliest
  <2>2. new \in Run /\ new.pc = "listed" /\ new.committed = run[r].committed /\ new.earliest = earliest
    BY <1>1, <2>1 DEF Run, Pc
  <2> HIDE DEF new
  <2>3. run' = [run EXCEPT ![r] = new] /\ run[r].pc = "resumed"
    BY <1>5 DEF ListEarliest, At, new, earliest
  <2>4. run'[r] = new BY <2>3 DEF AnyInv, TypeOK
  <2>5. (ResumedInv(r) /\ ForwardInv(r))'
    BY <1>1, <1>2, <2>1, <2>2, <2>3, <2>4 DEF ResumedInv, ForwardInv, AnyInv, broker
  <2>6. QED BY <1>2, <1>3, <2>2, <2>3, <2>5, AnyHolder
<1>6. CASE Fetch(r)
  <2> DEFINE new == [run[r] EXCEPT !.pc = "fetched"]
  <2>1. /\ new \in Run /\ new.pc = "fetched" /\ new.committed = run[r].committed
        /\ new.earliest = run[r].earliest /\ new.starts = run[r].starts /\ new.ends = run[r].ends
    BY <1>1 DEF Run, Pc
  <2> HIDE DEF new
  <2>2. run' = [run EXCEPT ![r] = new] /\ run[r].pc = "pinned"
    BY <1>6 DEF Fetch, At, new
  <2>3. run'[r] = new BY <2>2 DEF AnyInv, TypeOK
  <2>4. (ResumedInv(r) /\ ForwardInv(r))'
    BY <1>1, <1>2, <2>1, <2>2, <2>3 DEF ResumedInv, ForwardInv, broker
  <2>5. QED BY <1>2, <1>3, <2>1, <2>2, <2>4, AnyHolder
<1>7. QED BY <1>4, <1>5, <1>6

LEMMA AnyRecords ==
  ASSUME AnyInv, NEW r \in Runs, RecordGaps(r)
  PROVE  AnyInv' /\ Committed' = Committed
<1>1. run[r] \in Run /\ run[r].pc = "evicted" /\ ResumedInv(r) /\ ForwardInv(r)
  BY DEF AnyInv, TypeOK, RecordGaps, At
<1> DEFINE pc == AfterPin(run[r].starts, run[r].ends)
           new == [run[r] EXCEPT !.pc = pc]
<1>2. pc \in {"pinned", "staged"} BY DEF AfterPin
<1> HIDE DEF pc
<1>3. /\ new \in Run /\ new.pc = pc /\ new.committed = run[r].committed
      /\ new.earliest = run[r].earliest /\ new.starts = run[r].starts /\ new.ends = run[r].ends
  BY <1>1, <1>2 DEF Run, Pc
<1> HIDE DEF new
<1>4. run' = [run EXCEPT ![r] = new] /\ Committed' = Committed
  BY CommittedFrame DEF RecordGaps, new, pc
<1>5. run'[r] = new BY <1>4 DEF AnyInv, TypeOK
<1>6. /\ UNCHANGED <<broker, rows, snapshots, alarm, today, lock, nightly, faults, origin>>
      /\ gaps' \subseteq GapRow /\ faults' \in 0..MaxFaults
  BY <1>1 DEF RecordGaps, AnyInv, TypeOK, Run
<1>7. (ResumedInv(r) /\ ForwardInv(r))'
  BY <1>1, <1>2, <1>3, <1>4, <1>5, <1>6 DEF ResumedInv, ForwardInv, broker
<1>8. QED BY <1>1, <1>2, <1>3, <1>4, <1>6, <1>7, AnyHolder

LEMMA StopAtForward ==
  ASSUME NEW start \in Position, NEW endOfLog \in Position, NEW until \in Int, NEW max \in Int,
         Position \subseteq Nat
  PROVE  /\ StopAt(start, endOfLog, until, max) \in Position
         /\ start <= StopAt(start, endOfLog, until, max)
<1>1. MaxOffset \in Nat /\ \A n \in Nat : n \in Position <=> n <= MaxOffset
  BY ConstantsAssumption DEF ConstantsAssumption, Position
<1>2. start \in Nat /\ endOfLog \in Nat /\ start <= MaxOffset /\ endOfLog <= MaxOffset
  BY <1>1
<1>3. /\ StopAt(start, endOfLog, until, max) \in Nat
      /\ StopAt(start, endOfLog, until, max) <= MaxOffset
      /\ start <= StopAt(start, endOfLog, until, max)
  BY <1>1, <1>2 DEF StopAt, Lesser, Greater
<1>4. QED BY <1>1, <1>3

LEMMA AnyPins ==
  ASSUME AnyInv, NEW r \in Runs, PinRange(r)
  PROVE  AnyInv' /\ Committed' = Committed
<1>1. /\ run[r] \in Run /\ run[r].pc = "listed" /\ run[r].committed = Committed
      /\ DOMAIN Committed \subseteq DOMAIN run[r].earliest /\ DOMAIN run[r].earliest \subseteq parts
      /\ run[r].earliest \in PosMap /\ run[r].max \in Int
  <2>1. run[r] \in Run /\ run[r].pc = "listed"
    BY DEF AnyInv, TypeOK, PinRange, At
  <2>2. run[r].max \in Maxima \cup {0, DefaultMax} /\ run[r].earliest \in PosMap
    BY <2>1 DEF Run
  <2>3. Maxima \cup {0, DefaultMax} \subseteq Int
    BY ConstantsAssumption DEF ConstantsAssumption
  <2>4. QED BY <2>1, <2>2, <2>3 DEF AnyInv, ResumedInv, ForwardInv
<1>2. /\ Committed \in PosMap /\ Position \subseteq Nat
      /\ \A p \in DOMAIN Committed : Committed[p] \in Position
  BY IntegralCommitted
<1> DEFINE e == run[r].earliest
           from == SkipEvicted(Resolved(r), LossesOf(r), e)
           endsBy(until) == BoundedEnds(from, e, Latest(r), run[r].max, until)
<1>3. \A p \in DOMAIN e : p \in Partition /\ e[p] \in Position /\ logEnd[p] \in Position
  BY <1>1, PosMapElim DEF AnyInv, TypeOK
<1>4. /\ DOMAIN Resolved(r) = DOMAIN e
      /\ \A p \in DOMAIN e : Resolved(r)[p] = IF p \in DOMAIN Committed THEN Committed[p] ELSE e[p]
  <2>1. /\ DOMAIN Starting(r) = DOMAIN e
        /\ \A p \in DOMAIN e : Starting(r)[p] = IF p \in DOMAIN Committed THEN Committed[p] ELSE EARLIEST
    BY <1>1 DEF Starting, NextStartingOffsets, Lookup
  <2>2. DOMAIN Resolved(r) = DOMAIN e
    BY <2>1 DEF Resolved, BoundedStarts
  <2>3. ASSUME NEW p \in DOMAIN e
        PROVE  Resolved(r)[p] = IF p \in DOMAIN Committed THEN Committed[p] ELSE e[p]
    <3>1. Resolved(r)[p] = ResolveStart(Starting(r)[p], e[p], EndOfLog(e, Latest(r), p))
      BY <2>1 DEF Resolved, BoundedStarts, FirstOf, Lookup
    <3>2. p \in DOMAIN Committed => Committed[p] # EARLIEST /\ Committed[p] # LATEST
      BY <1>2 DEF EARLIEST, LATEST
    <3> HIDE DEF e
    <3>3. QED BY <2>1, <3>1, <3>2 DEF ResolveStart
  <2>4. QED BY <2>2, <2>3
<1>5. /\ DOMAIN from = DOMAIN e
      /\ \A p \in DOMAIN e : from[p] = IF Resolved(r)[p] < e[p] THEN e[p] ELSE Resolved(r)[p]
  BY <1>4 DEF SkipEvicted, LossesOf, Evicted, FirstOf, Lookup
<1>6. ASSUME NEW p \in DOMAIN e
      PROVE  /\ from[p] \in Position
             /\ p \in DOMAIN Committed => Committed[p] <= from[p]
  <2> HIDE DEF from
  <2>1. e[p] \in Position /\ e[p] \in Nat BY <1>2, <1>3
  <2>2. p \in DOMAIN Committed => Committed[p] \in Position /\ Committed[p] \in Nat BY <1>2
  <2> HIDE DEF e
  <2>3. QED BY <1>4, <1>5, <2>1, <2>2
<1>7. PICK until \in UntilAnswers(r) :
        run' = [run EXCEPT ![r].pc = IF LossesOf(r) # {} THEN "evicted"
                                     ELSE AfterPin(from, endsBy(until)),
                           ![r].starts = from, ![r].ends = endsBy(until),
                           ![r].losses = LossRows(r)]
  BY DEF PinRange
<1> DEFINE ends == endsBy(until)
<1>8. \A p \in DOMAIN e : until[p] \in Int /\ p \in DOMAIN until
  <2>1. until \in [DOMAIN e -> Instants \cup {-1}]
    BY DEF UntilAnswers
  <2>2. Instants \cup {-1} \subseteq Int
    BY ConstantsAssumption DEF ConstantsAssumption
  <2>3. QED BY <2>1, <2>2
<1>9. DOMAIN ends = DOMAIN e
  BY <1>5 DEF BoundedEnds
<1>10. ASSUME NEW p \in DOMAIN e
       PROVE  ends[p] \in Position /\ from[p] <= ends[p]
  <2>1. ends[p] = StopAt(from[p], logEnd[p], until[p], run[r].max)
    <3>1. EndOfLog(e, Latest(r), p) = logEnd[p]
      BY DEF EndOfLog, Latest, Lookup
    <3>2. BoundedStarts(from, e, Latest(r))[p] = from[p]
      <4>1. from[p] # EARLIEST /\ from[p] # LATEST
        BY <1>2, <1>6 DEF EARLIEST, LATEST
      <4>2. QED BY <1>5, <4>1 DEF BoundedStarts, ResolveStart
    <3>3. Lookup(until, p, -1) = until[p]
      BY <1>8 DEF Lookup
    <3> HIDE DEF from
    <3>4. QED BY <1>5, <3>1, <3>2, <3>3 DEF BoundedEnds
  <2>2. /\ from[p] \in Position /\ logEnd[p] \in Position
        /\ until[p] \in Int /\ run[r].max \in Int /\ Position \subseteq Nat
    BY <1>1, <1>2, <1>3, <1>6, <1>8
  <2> HIDE DEF from, ends
  <2>3. QED BY <2>1, <2>2, StopAtForward
<1>11. from \in PosMap /\ ends \in PosMap
  <2>1. from \in [DOMAIN e -> Position]
    BY <1>5, <1>6 DEF SkipEvicted
  <2>2. ends \in [DOMAIN e -> Position]
    <3> HIDE DEF from
    <3>1. QED BY <1>9, <1>10 DEF BoundedEnds
  <2>3. DOMAIN e \in SUBSET Partition
    BY <1>1, PosMapElim
  <2> HIDE DEF from, ends
  <2>4. QED BY <2>1, <2>2, <2>3, PosMapIntro
<1>12. LossRows(r) \in SUBSET GapRow
  <2>1. ASSUME NEW p \in LossesOf(r)
        PROVE  p \in Partition /\ Resolved(r)[p] \in Position /\ e[p] \in Position
    <3>1. p \in DOMAIN e BY <1>4 DEF LossesOf, Evicted
    <3>2. QED BY <1>2, <1>3, <1>4, <3>1
  <2>2. QED BY <2>1 DEF LossRows, GapRow
<1> DEFINE pc == IF LossesOf(r) # {} THEN "evicted" ELSE AfterPin(from, ends)
           new == [run[r] EXCEPT !.pc = pc, !.starts = from, !.ends = ends, !.losses = LossRows(r)]
<1>13. pc \in {"evicted", "pinned", "staged"}
  BY DEF AfterPin
<1> HIDE DEF from, ends, pc, endsBy
<1>14. /\ new \in Run /\ new.pc = pc /\ new.committed = Committed /\ new.earliest = e
       /\ new.starts = from /\ new.ends = ends
  BY <1>1, <1>11, <1>12, <1>13 DEF Run, Pc
<1> HIDE DEF new
<1>15. run' = [run EXCEPT ![r] = new]
  BY <1>7 DEF new, pc, ends
<1>16. run'[r] = new BY <1>15 DEF AnyInv, TypeOK
<1>17. /\ UNCHANGED <<broker, rows, snapshots, gaps, alarm, today, lock, nightly, faults, origin>>
       /\ Committed' = Committed
  BY CommittedFrame DEF PinRange
<1>18. gaps' \subseteq GapRow /\ faults' \in 0..MaxFaults
  BY <1>17 DEF AnyInv, TypeOK
<1>19. (ResumedInv(r) /\ ForwardInv(r))'
  <2>1. \A p \in DOMAIN from : from[p] <= ends[p] BY <1>5, <1>10
  <2>2. \A p \in DOMAIN Committed : Committed[p] <= from[p] BY <1>1, <1>6
  <2>3. DOMAIN from = DOMAIN e /\ DOMAIN ends = DOMAIN e BY <1>5, <1>9
  <2>4. QED BY <1>1, <1>14, <1>16, <1>17, <2>1, <2>2, <2>3 DEF ResumedInv, ForwardInv, broker
<1>20. QED BY <1>1, <1>13, <1>14, <1>15, <1>17, <1>18, <1>19, AnyHolder

\* A commit moves every position it touches forward and keeps the others.
LEMMA CommitAdvances ==
  ASSUME AnyInv, NEW r \in Runs, Commit(r)
  PROVE  /\ AnyInv'
         /\ DOMAIN Committed \subseteq DOMAIN Committed'
         /\ \A p \in DOMAIN Committed : Committed[p] <= Committed'[p]
<1> DEFINE offsets == MergeCommitted(Committed, run[r].ends)
           s == [job |-> "ingest", day |-> today, offsets |-> offsets]
<1>1. run[r] \in Run /\ run[r].pc = "fetched" /\ ResumedInv(r) /\ ForwardInv(r)
  BY DEF Commit, At, AnyInv, TypeOK
<1>2. /\ run[r].committed = Committed
      /\ run[r].starts \in PosMap /\ run[r].ends \in PosMap
      /\ DOMAIN run[r].ends = DOMAIN run[r].starts
      /\ DOMAIN Committed \subseteq DOMAIN run[r].starts /\ DOMAIN run[r].starts \subseteq parts
      /\ \A p \in DOMAIN run[r].starts : run[r].starts[p] <= run[r].ends[p]
      /\ \A p \in DOMAIN Committed : Committed[p] <= run[r].starts[p]
  BY <1>1 DEF ResumedInv, ForwardInv, Run
<1>3. /\ Committed \in PosMap /\ Position \subseteq Nat
      /\ \A p \in DOMAIN Committed : Committed[p] \in Position
  BY IntegralCommitted
<1>4. /\ offsets \in PosMap
      /\ DOMAIN offsets = DOMAIN Committed \cup DOMAIN run[r].ends
      /\ \A p \in DOMAIN run[r].ends : offsets[p] = run[r].ends[p]
  BY <1>2, <1>3, MergeIsPosMap
<1> HIDE DEF offsets
<1>5. s \in Snapshot /\ s.job = "ingest" /\ s.offsets = offsets
  BY <1>4 DEF Snapshot, AnyInv, TypeOK
<1>6. snapshots' = Append(snapshots, s)
  BY <1>2 DEF Commit, offsets
<1> HIDE DEF s
<1>7. Committed' = offsets /\ LatestInv'
  <2>1. Committed' = s.offsets /\ SnapshotInv'
    BY <1>5, <1>6, AppendIngest, ConstantsAssumption DEF AnyInv, TypeOK, ConstantsAssumption
  <2>2. QED BY <1>5, <2>1 DEF SnapshotInv, LatestInv
<1>8. ASSUME NEW p \in DOMAIN Committed PROVE Committed[p] <= offsets[p]
  <2>1. p \in DOMAIN run[r].starts /\ p \in DOMAIN run[r].ends BY <1>2
  <2>2. Committed[p] \in Nat /\ run[r].starts[p] \in Nat /\ run[r].ends[p] \in Nat
    BY <1>2, <1>3, <2>1, PosMapElim
  <2>3. QED BY <1>2, <1>4, <2>1, <2>2
<1>9. origin' \in PosMap
  <2>1. origin \in PosMap BY DEF AnyInv, TypeOK
  <2>2. QED BY <1>2, <2>1, MergeIsPosMap DEF Commit
<1>10. /\ run'[r] = [run[r] EXCEPT !.pc = "staged"]
       /\ \A q \in Runs \ {r} : run'[q] = run[q]
  BY DEF Commit, AnyInv, TypeOK
<1>11. run'[r] \in Run /\ run'[r].pc = "staged" /\ run' \in [Runs -> Run]
  BY <1>1, <1>10 DEF Run, Pc, Commit, AnyInv, TypeOK
<1>12. TypeOK'
  <2>1. rows' \in [Partition -> [Offset -> Nat]]
    BY DEF Commit, AnyInv, TypeOK
  <2>2. snapshots' \in Seq(Snapshot)
    BY <1>5, <1>6 DEF AnyInv, TypeOK
  <2>3. UNCHANGED <<parts, logStart, logEnd, gaps, alarm, today, lock, nightly, faults>>
    BY DEF Commit, broker
  <2>4. QED BY <1>9, <1>11, <2>1, <2>2, <2>3 DEF AnyInv, TypeOK
<1>13. lock' = lock /\ nightly' = nightly /\ UNCHANGED broker
  BY DEF Commit
<1>14. LockInv'
  BY <1>1, <1>10, <1>11, <1>13 DEF AnyInv, LockInv
<1>15. \A q \in Runs : (ResumedInv(q) /\ ForwardInv(q))'
  <2>1. \A q \in Runs \ {r} : run'[q].pc = "idle"
    BY <1>1, <1>10, OnlyHolder DEF AnyInv
  <2>2. \A q \in Runs : run'[q].pc \in {"idle", "staged"} BY <1>11, <2>1
  <2>3. QED BY <2>2 DEF ResumedInv, ForwardInv
<1>16. DOMAIN Committed' \subseteq parts'
  BY <1>2, <1>4, <1>7, <1>13 DEF AnyInv, broker
<1>17. QED BY <1>4, <1>7, <1>8, <1>12, <1>14, <1>15, <1>16 DEF AnyInv

LEMMA AnyStep ==
  ASSUME AnyInv, [Next]_vars
  PROVE  /\ AnyInv'
         /\ \/ DOMAIN Committed \subseteq DOMAIN Committed'
               /\ \A p \in DOMAIN Committed : Committed[p] <= Committed'[p]
            \/ nightly = "compacting" /\ \A i \in WrittenBy(snapshots, "ingest") : ~Kept(i)
<1>1. \A p \in DOMAIN Committed : Committed[p] \in Nat
  BY IntegralCommitted
<1>2. CASE AnyInv' /\ Committed' = Committed
  BY <1>1, <1>2
<1>3. CASE UNCHANGED vars
  <2>1. TypeOK' /\ LockInv' BY <1>3 DEF vars, AnyInv, TypeOK, LockInv
  <2>2. QED BY <1>2, <1>3, <2>1, AnyOutside DEF vars
<1>4. ASSUME NEW p \in Partition, Produce(p) \/ Evict(p) \/ AddPartition(p)
      PROVE  AnyInv' /\ Committed' = Committed
  BY <1>4, AnyBroker
<1>5. ASSUME NEW r \in Runs, IngestStep(r) \/ RecordFails(r) \/ Killed(r)
      PROVE  Commit(r) \/ (AnyInv' /\ Committed' = Committed)
  BY <1>5, AnyAcquire, AnyReads, AnyPins, AnyRecords, AnyWaysOut DEF IngestStep
<1>6. ASSUME NEW r \in Runs, Commit(r)
      PROVE  /\ AnyInv' /\ DOMAIN Committed \subseteq DOMAIN Committed'
             /\ \A p \in DOMAIN Committed : Committed[p] <= Committed'[p]
  BY <1>6, CommitAdvances
<1>7. CASE NextDay \/ StartMaintenance \/ RunAudits \/ MaintenanceKilled
  BY <1>2, <1>7, AnyNightly
<1>8. CASE Compact
  BY <1>2, <1>8, AnyCompact
<1>9. CASE Expire
  BY <1>1, <1>9, AnyExpire DEF Expire
<1>10. QED BY <1>2, <1>3, <1>4, <1>5, <1>6, <1>7, <1>8, <1>9 DEF Next, MaintenanceStep

\* What holds of the ingest whatever compaction and expiry do.
LEMMA AnyInvariance == Spec => []AnyInv
<1>1. Init => AnyInv
  <2> SUFFICES ASSUME Init PROVE AnyInv
    OBVIOUS
  <2>1. IInv BY InitInv
  <2>2. LatestInv /\ DOMAIN Committed = {}
    BY DEF Init, LatestInv, WrittenBy, Committed, Empty
  <2>3. \A r \in Runs : ResumedInv(r) /\ ForwardInv(r)
    BY DEF Init, Idle, ResumedInv, ForwardInv
  <2>4. QED BY <2>1, <2>2, <2>3 DEF IInv, AnyInv
<1>2. AnyInv /\ [Next]_vars => AnyInv'
  BY AnyStep
<1>3. QED BY <1>1, <1>2, PTL DEF Spec

\* Every variable keeps its type: in particular no sentinel of offsets.py is ever a position.
THEOREM TypeCorrect == Spec => []TypeOK
<1>1. AnyInv => TypeOK
  BY DEF AnyInv
<1>2. QED BY <1>1, AnyInvariance, PTL

(***************************************************************************)
(* No step of any job moves a resume point back, and only an expiry that   *)
(* finds every ingest snapshot old enough and outnumbered forgets one      *)
(* (next_starting_offsets, merge_committed, latest_summary, expire): here  *)
(* nothing is assumed of how often compaction commits.                     *)
(***************************************************************************)
THEOREM PositionsOnlyExpireHolds == Spec => PositionsOnlyExpire
<1> DEFINE Step == \/ /\ DOMAIN Committed \subseteq DOMAIN Committed'
                      /\ \A p \in DOMAIN Committed : Committed[p] <= Committed'[p]
                   \/ /\ nightly = "compacting"
                      /\ \A i \in WrittenBy(snapshots, "ingest") : ~Kept(i)
<1>1. ASSUME AnyInv, [Next]_vars PROVE [Step]_vars
  BY <1>1, AnyStep
<1>2. QED BY <1>1, AnyInvariance, PTL DEF Spec, PositionsOnlyExpire

-----------------------------------------------------------------------------
(* Which steps move what *)

\* Only a commit moves the positions or writes rows: neither compaction nor expiry does.
LEMMA OnlyCommitsMove ==
  ASSUME IInv, CompactionWithinRetention, [Next]_vars
  PROVE  (\E r \in Runs : Commit(r)) \/ (Committed' = Committed /\ rows' = rows)
<1>1. CASE UNCHANGED <<snapshots, rows>>
  BY <1>1, CommittedFrame
<1>2. CASE Compact
  <2> DEFINE s == [job |-> "none", day |-> today, offsets |-> Empty]
  <2>1. s \in Snapshot /\ s.job # "ingest"
    BY EmptyIsPosMap DEF IInv, TypeOK, Snapshot
  <2>2. Committed' = Committed
    BY <1>2, <2>1, AppendOther, ConstantsAssumption
       DEF IInv, TypeOK, Compact, ConstantsAssumption
  <2>3. QED BY <1>2, <2>2 DEF Compact
<1>3. CASE Expire
  <2>1. CASE snapshots = <<>>
    BY <1>3, <2>1, CommittedFrame DEF Expire
  <2>2. CASE snapshots # <<>>
    BY <1>3, <2>2, ExpireKeepsSummary DEF Expire, IInv, TypeOK
  <2>3. QED BY <2>1, <2>2
<1>4. CASE UNCHANGED vars
  BY <1>1, <1>4 DEF vars
<1>5. ASSUME NEW p \in Partition, Produce(p) \/ Evict(p) \/ AddPartition(p)
      PROVE  UNCHANGED <<snapshots, rows>>
  BY <1>5 DEF Produce, Evict, AddPartition
<1>6. ASSUME NEW r \in Runs, IngestStep(r) \/ RecordFails(r) \/ Killed(r)
      PROVE  Commit(r) \/ UNCHANGED <<snapshots, rows>>
  BY <1>6 DEF IngestStep, AcquireLock, ReadSummary, ListEarliest, ListFails, PinRange, RefuseLoss,
     RecordGaps, RecordFails, Fetch, FetchFails, Finish, Killed
<1>7. ASSUME NextDay \/ MaintenanceStep \/ MaintenanceKilled
      PROVE  Compact \/ Expire \/ UNCHANGED <<snapshots, rows>>
  BY <1>7 DEF NextDay, MaintenanceStep, StartMaintenance, RunAudits, MaintenanceKilled
<1>8. QED BY <1>1, <1>2, <1>3, <1>4, <1>5, <1>6, <1>7 DEF Next

\* Only RecordGaps files a loss.
LEMMA OnlyRecordsFile ==
  ASSUME [Next]_vars
  PROVE  (\E r \in Runs : RecordGaps(r)) \/ gaps' = gaps
<1>1. CASE UNCHANGED vars
  BY <1>1 DEF vars
<1>2. ASSUME NEW p \in Partition, Produce(p) \/ Evict(p) \/ AddPartition(p)
      PROVE  gaps' = gaps
  BY <1>2 DEF Produce, Evict, AddPartition
<1>3. ASSUME NEW r \in Runs, IngestStep(r) \/ RecordFails(r) \/ Killed(r)
      PROVE  RecordGaps(r) \/ gaps' = gaps
  BY <1>3 DEF IngestStep, AcquireLock, ReadSummary, ListEarliest, ListFails, PinRange, RefuseLoss,
     RecordFails, Fetch, FetchFails, Commit, Finish, Killed
<1>4. ASSUME NextDay \/ MaintenanceStep \/ MaintenanceKilled
      PROVE  gaps' = gaps
  BY <1>4 DEF NextDay, MaintenanceStep, StartMaintenance, Compact, Expire, RunAudits, MaintenanceKilled
<1>5. QED BY <1>1, <1>2, <1>3, <1>4 DEF Next

\* A commit keeps the beginnings of the partitions archived before.
LEMMA CommitKeepsOrigin ==
  ASSUME IInv, NEW r \in Runs, Commit(r)
  PROVE  \A p \in DOMAIN Committed : origin'[p] = origin[p]
<1>1. run[r].pc = "fetched"
  BY DEF Commit, At
<1>2. run[r].starts \in PosMap
  BY <1>1, FetchedRange
<1>3. origin \in PosMap /\ DOMAIN origin = DOMAIN Committed
  BY DEF IInv, TypeOK, PositionInv
<1>4. origin' = MergeCommitted(run[r].starts, origin)
  BY DEF Commit
<1>5. QED BY <1>2, <1>3, <1>4, MergeIsPosMap

-----------------------------------------------------------------------------
(* RawIngest implements ExactlyOnceArchive *)

Lost == {po \in Partition \X Offset : Acked(po[1], po[2])}

\* Lost, record by record.
LEMMA LostIsAcked ==
  ASSUME NEW p \in Partition, NEW o \in Offset
  PROVE  <<p, o>> \in Lost <=> Acked(p, o)
BY DEF Lost

\* Both begin with an empty archive and no loss.
LEMMA InitImplements == Init => Archive!Init
<1> SUFFICES ASSUME Init PROVE Archive!Init
  OBVIOUS
<1>1. Committed = [p \in {} |-> 0]
  BY DEF Init, Committed, WrittenBy, Empty
<1>2. rows = [p \in Partition |-> [o \in Offset |-> 0]]
  BY DEF Init
<1>3. {po \in Partition \X Offset : Acked(po[1], po[2])} = {}
  BY DEF Init, Acked
<1>4. QED BY <1>1, <1>2, <1>3 DEF Archive!Init

\* CommitAdvances from the exactly-once invariant, for the refinement below.
LEMMA CommitForward ==
  ASSUME IInv, NEW r \in Runs, Commit(r)
  PROVE  /\ DOMAIN Committed \subseteq DOMAIN Committed'
         /\ \A p \in DOMAIN Committed : Committed[p] <= Committed'[p]
<1> DEFINE offsets == MergeCommitted(Committed, run[r].ends)
           s == [job |-> "ingest", day |-> today, offsets |-> offsets]
<1>1. run[r].pc = "fetched"
  BY DEF Commit, At
<1>2. /\ run[r].committed = Committed /\ run[r].ends \in PosMap
      /\ DOMAIN run[r].ends = DOMAIN run[r].starts
      /\ DOMAIN Committed \subseteq DOMAIN run[r].starts
      /\ \A p \in DOMAIN run[r].starts :
           /\ run[r].starts[p] \in Int /\ run[r].ends[p] \in Int
           /\ run[r].starts[p] <= run[r].ends[p]
      /\ \A p \in DOMAIN Committed : Committed[p] <= run[r].starts[p]
  BY <1>1, FetchedRange
<1>3. Committed \in PosMap
  BY Integral DEF IInv
<1>4. /\ offsets \in PosMap
      /\ DOMAIN offsets = DOMAIN Committed \cup DOMAIN run[r].ends
      /\ \A p \in DOMAIN run[r].ends : offsets[p] = run[r].ends[p]
  BY <1>2, <1>3, MergeIsPosMap
<1> HIDE DEF offsets
<1>5. s \in Snapshot /\ s.job = "ingest" /\ s.offsets = offsets
  BY <1>4 DEF Snapshot, IInv, TypeOK
<1>6. snapshots' = Append(snapshots, s)
  BY <1>2 DEF Commit, offsets
<1> HIDE DEF s
<1>7. Committed' = offsets
  BY <1>5, <1>6, AppendIngest, ConstantsAssumption DEF IInv, TypeOK, ConstantsAssumption
<1>8. ASSUME NEW p \in DOMAIN Committed PROVE Committed[p] <= offsets[p]
  BY <1>2, <1>4, Integral DEF IInv
<1>9. QED BY <1>4, <1>7, <1>8

\* A commit is one step of the archive: what the positions pass is stored once.
LEMMA CommitAdvancesArchive ==
  ASSUME IInv, IInv', NEW r \in Runs, Commit(r)
  PROVE  Archive!Advance
<1>1. gaps' = gaps
  BY DEF Commit
<1>2. \A p, o : Acked(p, o)' <=> Acked(p, o)
  BY <1>1 DEF Acked
<1>3. /\ DOMAIN Committed \subseteq DOMAIN Committed'
      /\ \A p \in DOMAIN Committed : Committed[p] <= Committed'[p]
  BY CommitForward
<1>4. \A p \in DOMAIN Committed : origin'[p] = origin[p]
  BY CommitKeepsOrigin
<1>5. /\ Position \subseteq Int /\ Offset \subseteq Int
      /\ \A p \in DOMAIN Committed : p \in Partition /\ Committed[p] \in Int /\ origin[p] \in Int
      /\ \A p \in DOMAIN Committed : origin[p] <= Committed[p]
  BY Integral DEF IInv, PositionInv
<1>6. /\ \A p \in DOMAIN Committed' : /\ p \in Partition
                                      /\ Committed'[p] \in Position /\ origin'[p] \in Position
      /\ \A p \in DOMAIN Committed' : origin'[p] <= Committed'[p]
  <2>1. Committed' \in PosMap /\ origin' \in PosMap /\ DOMAIN origin' = DOMAIN Committed'
    <3>1. snapshots' \in Seq(Snapshot) /\ SnapshotInv'
      BY DEF IInv, TypeOK
    <3>2. (snapshots \in Seq(Snapshot) /\ SnapshotInv => Committed \in PosMap)'
      BY CommittedType, PTL
    <3>3. QED BY <3>1, <3>2 DEF IInv, TypeOK, PositionInv
  <2>2. \A p \in DOMAIN Committed' : p \in Partition /\ Committed'[p] \in Position
    BY <2>1 DEF PosMap
  <2>3. \A p \in DOMAIN origin' : origin'[p] \in Position
    BY <2>1 DEF PosMap
  <2>4. QED BY <2>1, <2>2, <2>3 DEF IInv, PositionInv
<1>7. \A p \in Partition, o \in Offset :
        /\ rows[p][o] = IF Archived(p, o) THEN 1 ELSE 0
        /\ rows'[p][o] = IF Archived(p, o)' THEN 1 ELSE 0
  BY DEF IInv, ExactlyOnce
<1>8. \A p \in Partition : /\ rows[p] \in [Offset -> Nat] /\ rows'[p] \in [Offset -> Nat]
  BY DEF IInv, TypeOK
<1>9. ASSUME NEW p \in DOMAIN Committed
      PROVE  Archive!StoresOnce(p, Committed[p])
  <2>1. ASSUME NEW o \in Offset
        PROVE  rows'[p][o] = IF o \in Archive!Passed(p, Committed[p]) /\ <<p, o>> \notin Lost
                             THEN rows[p][o] + 1 ELSE rows[p][o]
    <3>1. /\ p \in Partition /\ o \in Int /\ Committed[p] \in Int /\ Committed'[p] \in Int
          /\ origin[p] \in Int /\ origin'[p] = origin[p]
          /\ origin[p] <= Committed[p] /\ Committed[p] <= Committed'[p]
          /\ p \in DOMAIN Committed'
      BY <1>3, <1>4, <1>5, <1>6
    <3>2. Archived(p, o) <=> origin[p] <= o /\ o < Committed[p] /\ ~Acked(p, o)
      BY DEF Archived
    <3>3. Archived(p, o)' <=> origin[p] <= o /\ o < Committed'[p] /\ ~Acked(p, o)
      BY <1>2, <3>1 DEF Archived
    <3>4. o \in Archive!Passed(p, Committed[p]) <=> Committed[p] <= o /\ o < Committed'[p]
      BY DEF Archive!Passed
    <3>5. <<p, o>> \in Lost <=> Acked(p, o)
      BY <3>1, LostIsAcked
    <3>6. /\ rows[p][o] = IF Archived(p, o) THEN 1 ELSE 0
          /\ rows'[p][o] = IF Archived(p, o)' THEN 1 ELSE 0
      BY <1>7, <3>1
    <3>7. CASE Acked(p, o)
      BY <3>2, <3>3, <3>5, <3>6, <3>7
    <3>8. CASE ~Acked(p, o)
      BY <3>1, <3>2, <3>3, <3>4, <3>5, <3>6, <3>8
    <3>9. QED BY <3>7, <3>8
  <2>2. rows'[p] \in [Offset -> Nat]
    BY <1>5, <1>8
  <2>3. QED BY <2>1, <2>2 DEF Archive!StoresOnce, Lost
<1>10. ASSUME NEW p \in (DOMAIN Committed' \cap Partition) \ DOMAIN Committed
       PROVE  \E from \in 0..Committed'[p] : Archive!StoresOnce(p, from)
  <2>1. ASSUME NEW o \in Offset
        PROVE  rows'[p][o] = IF o \in Archive!Passed(p, origin'[p]) /\ <<p, o>> \notin Lost
                             THEN rows[p][o] + 1 ELSE rows[p][o]
    <3>1. ~Archived(p, o)
      BY DEF Archived
    <3>2. Archived(p, o)' <=> origin'[p] <= o /\ o < Committed'[p] /\ ~Acked(p, o)
      BY <1>2 DEF Archived
    <3>3. o \in Archive!Passed(p, origin'[p]) <=> origin'[p] <= o /\ o < Committed'[p]
      BY DEF Archive!Passed
    <3>4. QED BY <1>7, <3>1, <3>2, <3>3, LostIsAcked
  <2>2. rows'[p] \in [Offset -> Nat]
    BY <1>8
  <2>3. Archive!StoresOnce(p, origin'[p])
    BY <2>1, <2>2 DEF Archive!StoresOnce, Lost
  <2>4. origin'[p] \in 0..Committed'[p]
    BY <1>6, ConstantsAssumption DEF Position, ConstantsAssumption
  <2>5. QED BY <2>3, <2>4
<1>11. ASSUME NEW p \in Partition \ DOMAIN Committed'
       PROVE  rows'[p] = rows[p]
  <2>1. \A o \in Offset : ~Archived(p, o) /\ ~Archived(p, o)'
    BY <1>3 DEF Archived
  <2>2. \A o \in Offset : rows'[p][o] = rows[p][o]
    BY <1>7, <2>1
  <2>3. QED BY <1>8, <2>2
<1>12. Lost' = Lost
  BY <1>2 DEF Lost
<1>13. QED BY <1>3, <1>9, <1>10, <1>11, <1>12 DEF Archive!Advance, Lost

\* Filing an accepted loss declares records lost that no position has passed.
LEMMA RecordGapsDeclares ==
  ASSUME IInv, CompactionWithinRetention, NEW r \in Runs, RecordGaps(r)
  PROVE  Archive!DeclareLost
<1>1. /\ run[r] \in Run /\ run[r].pc = "evicted" /\ run[r].losses \subseteq GapRow
      /\ gaps' = gaps \cup run[r].losses
  BY DEF IInv, TypeOK, Run, RecordGaps, At
<1>2. Committed' = Committed /\ rows' = rows
  BY CommittedFrame DEF RecordGaps
<1>3. Lost \subseteq Lost'
  BY <1>1 DEF Lost, Acked
<1>4. ASSUME NEW po \in Lost' \ Lost
      PROVE  po[1] \in DOMAIN Committed /\ Committed[po[1]] <= po[2]
  <2>1. po \in Partition \X Offset /\ Acked(po[1], po[2])' /\ ~Acked(po[1], po[2])
    BY <1>4 DEF Lost
  <2>2. PICK g \in gaps' : g.part = po[1] /\ g.committed <= po[2] /\ po[2] < g.logStart
    BY <2>1 DEF Acked
  <2>3. g \in run[r].losses
    BY <1>1, <2>1, <2>2 DEF Acked
  <2>4. g.part \in DOMAIN Committed /\ g.committed = Committed[g.part]
    BY <1>1, <2>3 DEF IInv, RunInv, LossInv
  <2>5. QED BY <2>2, <2>4
<1>5. QED BY <1>2, <1>3, <1>4 DEF Archive!DeclareLost, Lost

\* Each step is a step of the archive or changes nothing of it.
LEMMA StepImplements ==
  ASSUME IInv, IInv', CompactionWithinRetention, [Next]_vars
  PROVE  [Archive!Next]_(Archive!archiveVars)
<1>1. CASE \E r \in Runs : Commit(r)
  BY <1>1, CommitAdvancesArchive DEF Archive!Next
<1>2. CASE \E r \in Runs : RecordGaps(r)
  BY <1>2, RecordGapsDeclares DEF Archive!Next
<1>3. CASE Committed' = Committed /\ rows' = rows /\ gaps' = gaps
  <2>1. Lost' = Lost
    BY <1>3 DEF Lost, Acked
  <2>2. QED BY <1>3, <2>1 DEF Archive!archiveVars, Lost
<1>4. QED BY <1>1, <1>2, <1>3, OnlyCommitsMove, OnlyRecordsFile

(***************************************************************************)
(* Stage 1 implements the exactly-once archive of ADR-022, for any number  *)
(* of partitions, processes, kills, evictions and compactions: a commit is *)
(* one step of the archive, an accepted loss declares records lost that no *)
(* position has passed, and every other step changes nothing of it.        *)
(***************************************************************************)
THEOREM ImplementsArchiveHolds ==
  ASSUME CompactionWithinRetention
  PROVE  Spec => ImplementsArchive
<1>1. Init => Archive!Init
  BY InitImplements
<1>2. IInv /\ IInv' /\ [Next]_vars => [Archive!Next]_(Archive!archiveVars)
  BY StepImplements
<1>3. QED BY <1>1, <1>2, InductiveInvariant, PTL DEF Spec, ImplementsArchive, Archive!Spec

-----------------------------------------------------------------------------
(* Scheduled runs skip nothing *)

\* The schedule types no flag, and so its pinned range starts where the archive ends.
CronInv ==
  /\ ~run[Cron].accept /\ run[Cron].pc # "evicted"
  /\ run[Cron].pc \in {"pinned", "fetched"} =>
       \A p \in DOMAIN Committed : run[Cron].starts[p] = Committed[p]

\* No process has pinned a range yet.
LEMMA CronInit == Init => CronInv
BY ConstantsAssumption DEF Init, Idle, CronInv, ConstantsAssumption

\* Without a loss the range starts at the committed positions.
LEMMA PinnedWithoutLoss ==
  ASSUME IInv, CronInv, PinRange(Cron)
  PROVE  CronInv'
<1>1. Cron \in Runs /\ run[Cron] \in Run /\ run[Cron].pc = "listed"
  BY ConstantsAssumption DEF IInv, TypeOK, PinRange, At, ConstantsAssumption
<1>2. LossesOf(Cron) = {}
  BY DEF CronInv, PinRange
<1>3. /\ DOMAIN Resolved(Cron) = DOMAIN run[Cron].earliest
      /\ DOMAIN Committed \subseteq DOMAIN run[Cron].earliest
      /\ \A p \in DOMAIN Committed : Resolved(Cron)[p] = Committed[p]
  BY <1>1, ResolvedStarts DEF IInv, RunInv, ListedInv
<1> DEFINE from == SkipEvicted(Resolved(Cron), LossesOf(Cron), run[Cron].earliest)
<1>4. \A p \in DOMAIN Committed : from[p] = Committed[p]
  BY <1>2, <1>3 DEF SkipEvicted
<1>5. PICK ends :
        run' = [run EXCEPT ![Cron].pc = IF LossesOf(Cron) # {} THEN "evicted" ELSE AfterPin(from, ends),
                           ![Cron].starts = from, ![Cron].ends = ends,
                           ![Cron].losses = LossRows(Cron)]
  BY DEF PinRange
<1> HIDE DEF from
<1>6. /\ run'[Cron].accept = run[Cron].accept /\ run'[Cron].starts = from
      /\ run'[Cron].pc = AfterPin(from, ends)
  BY <1>1, <1>2, <1>5 DEF IInv, TypeOK, Run
<1>7. AfterPin(from, ends) # "evicted"
  BY DEF AfterPin
<1>8. Committed' = Committed
  BY CommittedFrame DEF PinRange
<1>9. QED BY <1>4, <1>6, <1>7, <1>8 DEF CronInv

\* Every step preserves CronInv.
LEMMA CronSteps ==
  ASSUME IInv, CronInv, CompactionWithinRetention, [Next]_vars
  PROVE  CronInv'
<1>1. Cron \in Runs /\ run[Cron] \in Run /\ run \in [Runs -> Run]
  BY ConstantsAssumption DEF IInv, TypeOK, ConstantsAssumption
<1>2. CASE run'[Cron] = run[Cron] /\ Committed' = Committed
  BY <1>2 DEF CronInv
<1>3. ASSUME NEW r \in Runs, Commit(r)
      PROVE  CronInv'
  <2>1. CASE r = Cron
    BY <1>1, <1>3, <2>1 DEF Commit, CronInv, Run
  <2>2. CASE r # Cron
    <3>1. run[Cron].pc = "idle" /\ run'[Cron] = run[Cron]
      BY <1>1, <1>3, <2>2, OnlyHolder DEF Commit, At, IInv
    <3>2. QED BY <3>1 DEF CronInv
  <2>3. QED BY <2>1, <2>2
<1>4. ASSUME AcquireLock(Cron)
      PROVE  CronInv'
  <2>1. PICK accept \in BOOLEAN, timed \in BOOLEAN, max \in Maxima \cup {DefaultMax} :
          /\ ~accept
          /\ run' = [run EXCEPT ![Cron] = [Idle EXCEPT !.pc = "started", !.accept = accept,
                                                       !.max = max, !.timed = timed]]
    BY <1>4 DEF AcquireLock
  <2>2. run'[Cron].pc = "started" /\ run'[Cron].accept = accept
    BY <1>1, <2>1 DEF Idle
  <2>3. QED BY <2>1, <2>2 DEF CronInv
<1>5. ASSUME ReadSummary(Cron) \/ ListEarliest(Cron)
      PROVE  CronInv'
  <2>1. run'[Cron].accept = run[Cron].accept /\ run'[Cron].pc \in {"resumed", "listed"}
    BY <1>1, <1>5 DEF ReadSummary, ListEarliest, Run
  <2>2. QED BY <2>1 DEF CronInv
<1>6. ASSUME Fetch(Cron)
      PROVE  CronInv'
  <2>1. /\ run[Cron].pc = "pinned" /\ run'[Cron].accept = run[Cron].accept
        /\ run'[Cron].starts = run[Cron].starts /\ run'[Cron].pc = "fetched"
    BY <1>1, <1>6 DEF Fetch, At, Run
  <2>2. Committed' = Committed
    BY <1>6, CommittedFrame DEF Fetch
  <2>3. QED BY <2>1, <2>2 DEF CronInv
<1>7. ASSUME Exits(Cron)
      PROVE  CronInv'
  <2>1. run'[Cron] = Idle
    BY <1>1, <1>7 DEF Exits
  <2>2. QED BY <2>1 DEF CronInv, Idle
<1>8. ~RecordGaps(Cron)
  BY DEF CronInv, RecordGaps, At
<1>9. ASSUME NEW r \in Runs, IngestStep(r) \/ RecordFails(r) \/ Killed(r), r # Cron
      PROVE  run'[Cron] = run[Cron]
  BY <1>1, <1>9 DEF IngestStep, AcquireLock, ReadSummary, ListEarliest, ListFails, PinRange, RefuseLoss,
     RecordGaps, RecordFails, Fetch, FetchFails, Commit, Finish, Killed, Exits
<1>10. ASSUME IngestStep(Cron) \/ RecordFails(Cron) \/ Killed(Cron)
       PROVE  CronInv'
  BY <1>1, <1>3, <1>4, <1>5, <1>6, <1>7, <1>8, <1>10, PinnedWithoutLoss
     DEF IngestStep, ListFails, RefuseLoss, RecordFails, FetchFails, Finish, Killed
<1>11. ASSUME NEW p \in Partition, Produce(p) \/ Evict(p) \/ AddPartition(p)
       PROVE  run' = run
  BY <1>11 DEF Produce, Evict, AddPartition
<1>12. ASSUME NextDay \/ MaintenanceStep \/ MaintenanceKilled \/ UNCHANGED vars
       PROVE  run' = run
  BY <1>12 DEF NextDay, MaintenanceStep, StartMaintenance, Compact, Expire, RunAudits,
     MaintenanceKilled, vars
<1>13. CASE \E r \in Runs : Commit(r)
  BY <1>3, <1>13
<1>14. CASE Committed' = Committed
  BY <1>2, <1>9, <1>10, <1>11, <1>12, <1>14 DEF Next
<1>15. QED BY <1>13, <1>14, OnlyCommitsMove

\* What a commit of the schedule passes it has archived.
LEMMA CronCommits ==
  ASSUME IInv, CronInv, Commit(Cron)
  PROVE  \A p \in DOMAIN Committed : \A o \in Offset :
           Committed[p] <= o /\ o < Committed'[p] => rows'[p][o] > 0
<1> DEFINE offsets == MergeCommitted(Committed, run[Cron].ends)
           s == [job |-> "ingest", day |-> today, offsets |-> offsets]
<1>1. Cron \in Runs /\ run[Cron].pc = "fetched"
  BY ConstantsAssumption DEF Commit, At, ConstantsAssumption
<1>2. /\ run[Cron].committed = Committed /\ run[Cron].ends \in PosMap
      /\ DOMAIN run[Cron].ends = DOMAIN run[Cron].starts
      /\ DOMAIN Committed \subseteq DOMAIN run[Cron].starts
  BY <1>1, FetchedRange
<1>3. Committed \in PosMap
  BY Integral DEF IInv
<1>4. offsets \in PosMap /\ \A p \in DOMAIN run[Cron].ends : offsets[p] = run[Cron].ends[p]
  BY <1>2, <1>3, MergeIsPosMap
<1> HIDE DEF offsets
<1>5. s \in Snapshot /\ s.job = "ingest" /\ s.offsets = offsets
  BY <1>4 DEF Snapshot, IInv, TypeOK
<1>6. snapshots' = Append(snapshots, s)
  BY <1>2 DEF Commit, offsets
<1> HIDE DEF s
<1>7. Committed' = offsets
  BY <1>5, <1>6, AppendIngest, ConstantsAssumption DEF IInv, TypeOK, ConstantsAssumption
<1>8. ASSUME NEW p \in DOMAIN Committed, NEW o \in Offset, Committed[p] <= o, o < Committed'[p]
      PROVE  rows'[p][o] > 0
  <2>1. p \in Partition /\ InRange(Cron, p, o)
    BY <1>1, <1>2, <1>4, <1>7, <1>8, Integral DEF CronInv, InRange, IInv
  <2>2. rows[p][o] \in Nat /\ rows'[p][o] = rows[p][o] + 1
    BY <2>1 DEF Commit, IInv, TypeOK
  <2>3. QED BY <2>2
<1>9. QED BY <1>8

(***************************************************************************)
(* Only a flag typed by a person skips records (stage_raw,                 *)
(* --accept-data-loss): what a position passes while the schedule's        *)
(* process runs is archived by the step that passes it.                    *)
(***************************************************************************)
THEOREM ScheduledRunsNeverSkipHolds ==
  ASSUME CompactionWithinRetention
  PROVE  Spec => ScheduledRunsNeverSkip
<1> DEFINE Skipless == lock = Cron =>
             \A p \in DOMAIN Committed : \A o \in Offset :
               Committed[p] <= o /\ o < Committed'[p] => rows'[p][o] > 0
<1>1. Init => CronInv
  BY CronInit
<1>2. IInv /\ CronInv /\ [Next]_vars => CronInv'
  BY CronSteps
<1>3. ASSUME IInv, CronInv, [Next]_vars PROVE [Skipless]_vars
  <2>1. CASE \E r \in Runs : Commit(r)
    <3>1. PICK r \in Runs : Commit(r)
      BY <2>1
    <3>2. lock = r
      BY <1>3, <3>1, OnlyHolder DEF Commit, At, IInv
    <3>3. CASE r = Cron
      BY <1>3, <3>1, <3>3, CronCommits
    <3>4. QED BY <3>2, <3>3
  <2>2. CASE Committed' = Committed
    <3>1. \A p \in DOMAIN Committed, o \in Offset : ~(Committed[p] <= o /\ o < Committed[p])
      BY <1>3, Integral DEF IInv
    <3>2. QED BY <2>2, <3>1
  <2>3. QED BY <1>3, <2>1, <2>2, OnlyCommitsMove
<1>4. QED BY <1>1, <1>2, <1>3, InductiveInvariant, PTL DEF Spec, ScheduledRunsNeverSkip

-----------------------------------------------------------------------------
(* Induction, and what a fold computes *)

\* Induction over the naturals, as a fact about sets of them.
LEMMA NatMin ==
  ASSUME NEW T \in SUBSET Nat, T # {}
  PROVE  \E x \in T : \A y \in T : x <= y
<1> DEFINE R == {p \in Nat \X Nat : p[1] < p[2]}
<1>1. IsWellFoundedOn(R, Nat)
  BY NatLessThanWellFounded DEF OpToRel
<1>2. \A x, y \in Nat : <<y, x>> \in R <=> y < x
  OBVIOUS
<1> HIDE DEF R
<1>3. PICK x \in T : \A y \in T : <<y, x>> \notin R
  BY <1>1, WFMin
<1>4. \A y \in T : ~(y < x)
  BY <1>2, <1>3
<1>5. QED BY <1>4

LEMMA Minimum ==
  ASSUME NEW T \in SUBSET Nat, T # {}
  PROVE  Min(T) \in T /\ \A y \in T : Min(T) <= y
<1>1. \E x \in T : \A y \in T : x <= y
  BY NatMin
<1>2. QED BY <1>1 DEF Min

LEMMA SetInduction ==
  ASSUME NEW P, 0 \in P, \A n \in Nat : n \in P => n + 1 \in P
  PROVE  Nat \subseteq P
<1> SUFFICES ASSUME Nat \ P # {} PROVE FALSE
  OBVIOUS
<1>1. PICK x \in Nat \ P : \A y \in Nat \ P : x <= y
  BY NatMin, Nat \ P \in SUBSET Nat
<1>2. x # 0 /\ x - 1 \in Nat
  BY <1>1
<1>3. x - 1 \in P
  BY <1>1, <1>2
<1>4. (x - 1) + 1 = x
  BY <1>1
<1>5. QED BY <1>1, <1>2, <1>3, <1>4

LEMMA Maximum ==
  ASSUME NEW n \in Nat, NEW S \in SUBSET (1..n), S # {}
  PROVE  Max(S) \in S /\ \A y \in S : y <= Max(S)
<1> DEFINE T == {n - x : x \in S}
<1>1. T \in SUBSET Nat
  <2>1. \A x \in S : x \in Nat /\ x <= n
    OBVIOUS
  <2>2. \A x \in S : n - x \in Nat
    BY <2>1
  <2>3. QED BY <2>2
<1>2. T # {}
  <2>1. PICK x \in S : TRUE
    OBVIOUS
  <2>2. n - x \in T
    OBVIOUS
  <2>3. QED BY <2>2
<1>3. PICK t \in T : \A u \in T : t <= u
  <2> HIDE DEF T
  <2>1. QED BY <1>1, <1>2, NatMin
<1>4. PICK x \in S : t = n - x
  BY <1>3
<1>5. \A y \in S : x >= y
  <2> TAKE y \in S
  <2>1. n - x <= n - y
    BY <1>3, <1>4
  <2>2. x \in Nat /\ y \in Nat
    OBVIOUS
  <2>3. QED BY <2>1, <2>2
<1>6. \E z \in S : \A y \in S : z >= y
  BY <1>5
<1>7. Max(S) \in S /\ \A y \in S : Max(S) >= y
  BY <1>6 DEF Max
<1>8. \A y \in S : y \in Nat
  OBVIOUS
<1>9. Max(S) \in Nat
  BY <1>7, <1>8
<1>10. QED BY <1>7, <1>8, <1>9

LEMMA MaximumOfRange ==
  ASSUME NEW n \in Nat \ {0}
  PROVE  Max(1..n) = n /\ (1..n) \ {n} = 1..(n - 1)
<1>1. n \in 1..n
  OBVIOUS
<1>2. Max(1..n) \in 1..n /\ \A y \in 1..n : y <= Max(1..n)
  <2>1. 1..n # {} /\ n \in Nat
    BY <1>1
  <2>2. QED BY <2>1, Maximum
<1>3. Max(1..n) = n
  <2>1. Max(1..n) \in Nat /\ Max(1..n) <= n
    BY <1>2
  <2>2. n <= Max(1..n)
    BY <1>1, <1>2
  <2>3. QED BY <2>1, <2>2
<1>4. (1..n) \ {n} = 1..(n - 1)
  OBVIOUS
<1>5. QED BY <1>3, <1>4

(***************************************************************************)
(* The function by which a fold is defined exists: on the sets of the      *)
(* first n indices, it takes the greatest of a set last.                   *)
(***************************************************************************)
Steps(n, b, step, G) ==
  \A S \in SUBSET (1..n) : G[S] = IF S = {} THEN b ELSE step[<<Max(S), G[S \ {Max(S)}]>>]

HasFold(n, A, b, step) == \E G \in [SUBSET (1..n) -> A] : Steps(n, b, step, G)

LEMMA FoldExtends ==
  ASSUME NEW n \in Nat, NEW A, NEW b \in A, NEW step,
         \A a \in A : step[<<n + 1, a>>] \in A, HasFold(n, A, b, step)
  PROVE  HasFold(n + 1, A, b, step)
<1>1. PICK G \in [SUBSET (1..n) -> A] : Steps(n, b, step, G)
  BY DEF HasFold
<1> DEFINE H == [S \in SUBSET (1..(n + 1)) |->
                   IF n + 1 \in S THEN step[<<n + 1, G[S \ {n + 1}]>>] ELSE G[S]]
<1>2. \A S \in SUBSET (1..(n + 1)) : /\ n + 1 \notin S => S \in SUBSET (1..n)
                                    /\ S \ {n + 1} \in SUBSET (1..n)
  OBVIOUS
<1>3. H \in [SUBSET (1..(n + 1)) -> A]
  <2> SUFFICES ASSUME NEW S \in SUBSET (1..(n + 1)) PROVE H[S] \in A
    OBVIOUS
  <2>1. CASE n + 1 \in S
    BY <1>2, <2>1
  <2>2. CASE n + 1 \notin S
    BY <1>2, <2>2
  <2>3. QED BY <2>1, <2>2
<1>4. ASSUME NEW S \in SUBSET (1..(n + 1))
      PROVE  H[S] = IF S = {} THEN b ELSE step[<<Max(S), H[S \ {Max(S)}]>>]
  <2>0. S # {} => Max(S) \in S /\ \A y \in S : y <= Max(S)
    BY Maximum, n + 1 \in Nat
  <2>1. CASE n + 1 \in S
    <3>1. Max(S) = n + 1
      <4>1. Max(S) \in S /\ n + 1 <= Max(S)
        BY <2>0, <2>1
      <4>2. \A x \in S : x \in Nat /\ x <= n + 1
        OBVIOUS
      <4>3. Max(S) \in Nat /\ Max(S) <= n + 1
        BY <4>1, <4>2
      <4>4. QED BY <4>1, <4>3
    <3>2. S \ {n + 1} \in SUBSET (1..(n + 1)) /\ n + 1 \notin S \ {n + 1}
      OBVIOUS
    <3>3. H[S \ {n + 1}] = G[S \ {n + 1}]
      BY <3>2
    <3>4. H[S] = step[<<n + 1, G[S \ {n + 1}]>>]
      BY <2>1
    <3>5. QED BY <2>1, <3>1, <3>3, <3>4
  <2>2. CASE n + 1 \notin S
    <3>1. S \in SUBSET (1..n) /\ H[S] = G[S]
      BY <1>2, <2>2
    <3>2. S \ {Max(S)} \in SUBSET (1..(n + 1)) /\ n + 1 \notin S \ {Max(S)}
      BY <2>2
    <3>3. H[S \ {Max(S)}] = G[S \ {Max(S)}]
      BY <3>2
    <3>4. QED BY <1>1, <3>1, <3>3 DEF Steps
  <2>3. QED BY <2>1, <2>2
<1> HIDE DEF H
<1>5. Steps(n + 1, b, step, H)
  BY <1>4 DEF Steps
<1>6. QED BY <1>3, <1>5 DEF HasFold

LEMMA FoldExists ==
  ASSUME NEW N \in Nat, NEW A, NEW b \in A, NEW step,
         \A i \in 1..N, a \in A : step[<<i, a>>] \in A
  PROVE  HasFold(N, A, b, step)
<1> DEFINE P == {n \in Nat : n <= N => HasFold(n, A, b, step)}
<1>1. 0 \in P
  <2> DEFINE G == [S \in SUBSET (1..0) |-> b]
  <2>1. \A S \in SUBSET (1..0) : S = {}
    OBVIOUS
  <2>2. G \in [SUBSET (1..0) -> A] /\ Steps(0, b, step, G)
    BY <2>1 DEF Steps
  <2>3. HasFold(0, A, b, step)
    BY <2>2 DEF HasFold
  <2>4. QED BY <2>3
<1>2. ASSUME NEW n \in Nat, n \in P PROVE n + 1 \in P
  <2>1. CASE n + 1 <= N
    <3>1. n + 1 \in 1..N /\ n <= N
      BY <2>1
    <3>2. HasFold(n, A, b, step)
      BY <1>2, <3>1
    <3>3. HasFold(n + 1, A, b, step)
      BY <3>1, <3>2, FoldExtends
    <3>4. QED BY <3>3
  <2>2. CASE ~(n + 1 <= N)
    BY <2>2
  <2>3. QED BY <2>1, <2>2
<1>3. Nat \subseteq P
  <2> HIDE DEF P
  <2>1. QED BY <1>1, <1>2, SetInduction
<1>4. N \in P /\ N <= N
  BY <1>3
<1>5. QED BY <1>4

-----------------------------------------------------------------------------
(* Sums *)

\* A sum over a set of numbers, as the community modules fold it.
Rest(s) == s \ {CHOOSE x \in s : TRUE}
IsSum(D, A, G) ==
  \A s \in SUBSET D : G[s] = IF s = {} THEN 0 ELSE Cardinality(A[CHOOSE x \in s : TRUE]) + G[Rest(s)]

Apart(D, A) ==
  /\ IsFiniteSet(D) /\ \A i \in D : IsFiniteSet(A[i])
  /\ \A i, j \in D : i # j => A[i] \cap A[j] = {}

All(A, s) == UNION {A[i] : i \in s}

LEMMA RestFacts ==
  ASSUME NEW D, NEW s \in SUBSET D, s # {}, IsFiniteSet(D)
  PROVE  /\ (CHOOSE x \in s : TRUE) \in s /\ Rest(s) \in SUBSET D
         /\ IsFiniteSet(s) /\ IsFiniteSet(Rest(s))
         /\ Cardinality(s) \in Nat /\ Cardinality(Rest(s)) \in Nat
         /\ Cardinality(Rest(s)) < Cardinality(s)
<1> DEFINE c == CHOOSE x \in s : TRUE
<1>1. c \in s
  OBVIOUS
<1> HIDE DEF c
<1>2. Rest(s) = s \ {c}
  BY DEF Rest, c
<1>3. IsFiniteSet(s)
  BY FS_Subset
<1>4. IsFiniteSet(s \ {c}) /\ Cardinality(s \ {c}) = Cardinality(s) - 1
  BY <1>1, <1>3, FS_RemoveElement
<1>5. Cardinality(s) \in Nat /\ Cardinality(s \ {c}) \in Nat
  BY <1>3, <1>4, FS_CardinalityType
<1>6. Cardinality(s \ {c}) < Cardinality(s)
  BY <1>4, <1>5
<1>7. QED BY <1>1, <1>2, <1>3, <1>4, <1>5, <1>6 DEF c

\* The union of a finite number of finite sets, as Rest takes it apart.
LEMMA AllFinite ==
  ASSUME NEW D, NEW A, Apart(D, A), NEW s \in SUBSET D
  PROVE  IsFiniteSet(All(A, s))
<1>1. IsFiniteSet(s) /\ \A i \in s : IsFiniteSet(A[i])
  BY FS_Subset DEF Apart
<1>2. IsFiniteSet({A[i] : i \in s})
  <2> DEFINE f == [i \in s |-> A[i]]
             T == {A[i] : i \in s}
  <2>1. f \in Surjection(s, T)
    BY DEF Surjection
  <2>2. QED BY <1>1, <2>1, FS_Surjection
<1>3. QED BY <1>1, <1>2, FS_UNION DEF All

LEMMA AllIsSum ==
  ASSUME NEW D, NEW A, Apart(D, A), NEW s \in SUBSET D
  PROVE  Cardinality(All(A, s)) =
           IF s = {} THEN 0 ELSE Cardinality(A[CHOOSE x \in s : TRUE]) + Cardinality(All(A, Rest(s)))
<1>1. CASE s = {}
  <2>1. All(A, s) = {}
    BY <1>1 DEF All
  <2>2. QED BY <1>1, <2>1, FS_EmptySet
<1>2. CASE s # {}
  <2> DEFINE c == CHOOSE x \in s : TRUE
  <2>1. c \in s /\ Rest(s) \in SUBSET D
    BY <1>2, RestFacts DEF Apart
  <2> HIDE DEF c
  <2>2. Rest(s) = s \ {c}
    BY DEF Rest, c
  <2>3. All(A, s) = A[c] \cup All(A, Rest(s))
    BY <2>1, <2>2 DEF All
  <2>4. A[c] \cap All(A, Rest(s)) = {}
    BY <2>1, <2>2 DEF All, Apart
  <2>5. IsFiniteSet(A[c]) /\ IsFiniteSet(All(A, Rest(s)))
    BY <2>1, AllFinite DEF Apart
  <2>6. Cardinality(A[c]) \in Nat /\ Cardinality(All(A, Rest(s))) \in Nat /\ Cardinality({}) = 0
    BY <2>5, FS_CardinalityType, FS_EmptySet
  <2>7. Cardinality(All(A, s)) = Cardinality(A[c]) + Cardinality(All(A, Rest(s))) - Cardinality({})
    BY <2>3, <2>4, <2>5, FS_Union
  <2>8. Cardinality(All(A, s)) = Cardinality(A[c]) + Cardinality(All(A, Rest(s)))
    BY <2>6, <2>7
  <2>9. QED BY <1>2, <2>8 DEF c
<1>3. QED BY <1>1, <1>2

\* There is one such sum: a least subset on which two of them differ has a smaller one.
LEMMA SumIsCardinality ==
  ASSUME NEW D, NEW A, Apart(D, A), NEW G, IsSum(D, A, G)
  PROVE  G[D] = Cardinality(All(A, D))
<1> DEFINE Bad == {s \in SUBSET D : G[s] # Cardinality(All(A, s))}
           Sizes == {Cardinality(s) : s \in Bad}
<1>1. \A s \in SUBSET D : Cardinality(s) \in Nat
  BY FS_Subset, FS_CardinalityType DEF Apart
<1>2. Sizes \in SUBSET Nat
  BY <1>1
<1>3. ASSUME Bad # {} PROVE FALSE
  <2>1. Sizes # {}
    BY <1>3
  <2>2. Min(Sizes) \in Sizes /\ \A y \in Sizes : Min(Sizes) <= y
    <3> HIDE DEF Sizes
    <3>1. QED BY <1>2, <2>1, Minimum
  <2>3. PICK s \in Bad : Cardinality(s) = Min(Sizes)
    BY <2>2
  <2>4. \A u \in Bad : Cardinality(s) <= Cardinality(u)
    BY <2>2, <2>3
  <2>5. s \in SUBSET D /\ G[s] # Cardinality(All(A, s))
    BY <2>3
  <2> HIDE DEF Sizes
  <2>6. CASE s = {}
    BY <2>5, <2>6, AllIsSum DEF IsSum
  <2>7. CASE s # {}
    <3>1. Rest(s) \in SUBSET D /\ Cardinality(Rest(s)) < Cardinality(s)
          /\ Cardinality(s) \in Nat /\ Cardinality(Rest(s)) \in Nat
      BY <2>5, <2>7, RestFacts DEF Apart
    <3>2. ~(Cardinality(s) <= Cardinality(Rest(s)))
      BY <3>1
    <3>3. Rest(s) \notin Bad
      BY <2>4, <3>2
    <3>4. G[Rest(s)] = Cardinality(All(A, Rest(s)))
      BY <3>1, <3>3
    <3>5. G[s] = Cardinality(A[CHOOSE x \in s : TRUE]) + G[Rest(s)]
      BY <2>5, <2>7 DEF IsSum
    <3>6. Cardinality(All(A, s)) = Cardinality(A[CHOOSE x \in s : TRUE]) + Cardinality(All(A, Rest(s)))
      BY <2>5, <2>7, AllIsSum
    <3>7. QED BY <2>5, <3>4, <3>5, <3>6
  <2>8. QED BY <2>6, <2>7
<1>4. QED BY <1>3

\* A set is as large as another that its members name, each another one.
LEMMA SameSize ==
  ASSUME NEW S, NEW T, IsFiniteSet(S), NEW f \in [S -> T],
         \A x, y \in S : f[x] = f[y] => x = y, \A z \in T : \E x \in S : f[x] = z
  PROVE  IsFiniteSet(T) /\ Cardinality(T) = Cardinality(S)
<1>1. f \in Surjection(S, T)
  BY DEF Surjection
<1>2. f \in Injection(S, T)
  BY DEF Injection, IsInjective
<1>3. QED BY <1>1, <1>2, FS_Surjection

-----------------------------------------------------------------------------
(* Recorded gaps in their order *)

SpanType == [first : Int, last : Int]
Holds(g, o) == g.first <= o /\ o <= g.last

LEMMA BeforeFacts ==
  ASSUME NEW g \in SpanType, NEW h \in SpanType
  PROVE  /\ ~Before(g, g)
         /\ g # h => Before(g, h) \/ Before(h, g)
         /\ \A k \in SpanType : Before(g, h) /\ Before(h, k) => Before(g, k)
         /\ Before(g, h) => g.first <= h.first
<1>1. /\ g = [first |-> g.first, last |-> g.last] /\ h = [first |-> h.first, last |-> h.last]
      /\ g.first \in Int /\ g.last \in Int /\ h.first \in Int /\ h.last \in Int
  BY DEF SpanType
<1>2. g # h => g.first # h.first \/ g.last # h.last
  BY <1>1
<1>3. g # h => Before(g, h) \/ Before(h, g)
  BY <1>1, <1>2 DEF Before
<1>4. \A k \in SpanType : Before(g, h) /\ Before(h, k) => Before(g, k)
  <2> TAKE k \in SpanType
  <2>1. k.first \in Int /\ k.last \in Int
    BY DEF SpanType
  <2>2. QED BY <1>1, <2>1 DEF Before
<1>5. QED BY <1>1, <1>3, <1>4 DEF Before

\* A set of spans has one order, which a gap's number of predecessors gives.
IsOrder(s, spans) ==
  /\ s \in [1..Cardinality(spans) -> spans]
  /\ \A i, j \in DOMAIN s : i < j => Before(s[i], s[j])

LEMMA SortedExists ==
  ASSUME NEW spans \in SUBSET SpanType, IsFiniteSet(spans)
  PROVE  \E s : IsOrder(s, spans)
<1> DEFINE below(g) == {h \in spans : Before(h, g)}
           n == Cardinality(spans)
           rank == [g \in spans |-> Cardinality(below(g)) + 1]
<1>1. n \in Nat
  BY FS_CardinalityType
<1>2. ASSUME NEW g \in spans
      PROVE  /\ IsFiniteSet(below(g)) /\ Cardinality(below(g)) \in Nat
             /\ Cardinality(below(g)) < n
  <2>1. below(g) \in SUBSET spans /\ below(g) # spans
    BY BeforeFacts
  <2> HIDE DEF below
  <2>2. QED BY <2>1, FS_Subset, FS_CardinalityType
<1>3. ASSUME NEW g \in spans, NEW h \in spans, Before(g, h) PROVE rank[g] < rank[h]
  <2>1. below(g) \in SUBSET below(h) /\ g \in below(h) /\ g \notin below(g)
    BY <1>3, BeforeFacts
  <2> HIDE DEF below
  <2>2. below(g) # below(h)
    BY <2>1
  <2>3. Cardinality(below(g)) < Cardinality(below(h))
    BY <1>2, <2>1, <2>2, FS_Subset
  <2>4. Cardinality(below(g)) \in Nat /\ Cardinality(below(h)) \in Nat
    BY <1>2
  <2>5. QED BY <2>3, <2>4
<1>4. rank \in [spans -> 1..n]
  <2> HIDE DEF below, n
  <2>1. QED BY <1>1, <1>2
<1>5. \A g, h \in spans : rank[g] = rank[h] => g = h
  <2> HIDE DEF rank
  <2> SUFFICES ASSUME NEW g \in spans, NEW h \in spans, rank[g] = rank[h], g # h PROVE FALSE
    OBVIOUS
  <2>1. rank[g] \in 1..n /\ rank[h] \in 1..n
    BY <1>4
  <2>2. ~(rank[g] < rank[h]) /\ ~(rank[h] < rank[g])
    BY <1>1, <2>1
  <2>3. Before(g, h) \/ Before(h, g)
    BY BeforeFacts
  <2>4. QED BY <1>3, <2>2, <2>3
<1> HIDE DEF rank
<1>6. rank \in Injection(spans, 1..n)
  BY <1>4, <1>5 DEF Injection, IsInjective
<1>7. IsFiniteSet(1..n) /\ Cardinality(1..n) = n
  BY <1>1, FS_Interval
<1>8. rank \in Surjection(spans, 1..n)
  <2> HIDE DEF n
  <2>1. Cardinality(spans) = Cardinality(1..n)
    BY <1>7 DEF n
  <2>2. QED BY <1>6, <1>7, <2>1, FS_Injection
<1> DEFINE s == [i \in 1..n |-> CHOOSE g \in spans : rank[g] = i]
<1>9. \A i \in 1..n : s[i] \in spans /\ rank[s[i]] = i
  <2> TAKE i \in 1..n
  <2>1. \E g \in spans : rank[g] = i
    BY <1>8 DEF Surjection
  <2>2. QED BY <2>1
<1>10. s \in [1..n -> spans]
  BY <1>9
<1>11. ASSUME NEW i \in 1..n, NEW j \in 1..n, i < j PROVE Before(s[i], s[j])
  <2> HIDE DEF s
  <2>1. s[i] \in spans /\ s[j] \in spans /\ rank[s[i]] = i /\ rank[s[j]] = j
    BY <1>9
  <2>2. i \in Nat /\ j \in Nat /\ ~(j < i) /\ s[i] # s[j]
    BY <1>1, <1>11, <2>1
  <2>3. Before(s[i], s[j]) \/ Before(s[j], s[i])
    BY <2>1, <2>2, BeforeFacts
  <2>4. QED BY <1>3, <2>1, <2>2, <2>3
<1>12. IsOrder(s, spans)
  BY <1>10, <1>11 DEF IsOrder
<1>13. QED BY <1>12

LEMMA SortedFacts ==
  ASSUME NEW spans \in SUBSET SpanType, IsFiniteSet(spans)
  PROVE  /\ Sorted(spans) \in Seq(spans)
         /\ \A i, j \in 1..Len(Sorted(spans)) : i < j => Sorted(spans)[i].first <= Sorted(spans)[j].first
         /\ \A g \in spans : \E i \in 1..Len(Sorted(spans)) : Sorted(spans)[i] = g
<1> DEFINE s == Sorted(spans)
           n == Cardinality(spans)
<1>1. IsOrder(s, spans)
  <2>1. PICK t : IsOrder(t, spans)
    BY SortedExists
  <2>2. QED BY <2>1 DEF IsOrder, Sorted
<1> HIDE DEF s
<1>2. n \in Nat
  BY FS_CardinalityType
<1>3. s \in [1..n -> spans]
  BY <1>1 DEF IsOrder
<1>4. \A i, j \in 1..n : i < j => Before(s[i], s[j])
  BY <1>1, <1>3 DEF IsOrder
<1> HIDE DEF n
<1>5. s \in Seq(spans) /\ Len(s) = n
  BY <1>2, <1>3
<1>6. \A i, j \in 1..n : s[i] = s[j] => i = j
  <2> SUFFICES ASSUME NEW i \in 1..n, NEW j \in 1..n, s[i] = s[j], i # j PROVE FALSE
    OBVIOUS
  <2>1. s[i] \in spans
    BY <1>3
  <2>2. i < j \/ j < i
    BY <1>2
  <2>3. QED BY <1>4, <2>1, <2>2, BeforeFacts
<1>7. IsFiniteSet(1..n) /\ Cardinality(1..n) = n
  BY <1>2, FS_Interval
<1>8. s \in Injection(1..n, spans)
  BY <1>3, <1>6 DEF Injection, IsInjective
<1>9. s \in Surjection(1..n, spans)
  <2>1. Cardinality(1..n) = Cardinality(spans)
    BY <1>7 DEF n
  <2>2. QED BY <1>7, <1>8, <2>1, FS_Injection
<1>10. \A i, j \in 1..n : i < j => s[i].first <= s[j].first
  <2> TAKE i, j \in 1..n
  <2>1. s[i] \in SpanType /\ s[j] \in SpanType
    BY <1>3
  <2>2. QED BY <1>4, <2>1, BeforeFacts
<1>11. QED BY <1>5, <1>9, <1>10 DEF Surjection, s

-----------------------------------------------------------------------------
(* uncovered_holes: the walk of the cursor *)

IsFold(first, s, G) ==
  G = [S \in SUBSET DOMAIN s |-> IF S = {} THEN first ELSE Advance(G[S \ {Max(S)}], s[Max(S)])]

LEMMA AdvanceType ==
  ASSUME NEW c \in Int, NEW g \in SpanType
  PROVE  Advance(c, g) \in Int
BY DEF Advance, SpanType

IsWalk(first, s, F) ==
  /\ F[0] = first
  /\ \A i \in 1..Len(s) : F[i] = Advance(F[i - 1], s[i])
  /\ FoldLeft(Advance, first, s) = F[Len(s)]

LEMMA Walks ==
  ASSUME NEW first \in Int, NEW s \in Seq(SpanType)
  PROVE  \E F : IsWalk(first, s, F)
<1> DEFINE N == Len(s)
           step == [p \in (1..N) \X Int |-> Advance(p[2], s[p[1]])]
<1>1. N \in Nat /\ DOMAIN s = 1..N
  OBVIOUS
<1>2. \A i \in 1..N : s[i] \in SpanType
  OBVIOUS
<1> HIDE DEF N
<1>3. \A i \in 1..N, a \in Int : step[<<i, a>>] = Advance(a, s[i]) /\ step[<<i, a>>] \in Int
  BY <1>2, AdvanceType
<1> HIDE DEF step
<1>4. PICK G \in [SUBSET (1..N) -> Int] : Steps(N, first, step, G)
  <2>1. HasFold(N, Int, first, step)
    BY <1>1, <1>3, FoldExists
  <2>2. QED BY <2>1 DEF HasFold
<1>5. IsFold(first, s, G)
  <2>1. ASSUME NEW S \in SUBSET (1..N)
        PROVE  G[S] = IF S = {} THEN first ELSE Advance(G[S \ {Max(S)}], s[Max(S)])
    <3>1. CASE S = {}
      BY <1>4, <3>1 DEF Steps
    <3>2. CASE S # {}
      <4>1. Max(S) \in 1..N
        BY <1>1, <3>2, Maximum
      <4>2. G[S \ {Max(S)}] \in Int
        BY <1>4
      <4>3. G[S] = step[<<Max(S), G[S \ {Max(S)}]>>]
        BY <1>4, <3>2 DEF Steps
      <4>4. QED BY <1>3, <3>2, <4>1, <4>2, <4>3
    <3>3. QED BY <3>1, <3>2
  <2>2. QED BY <1>1, <1>4, <2>1 DEF IsFold
<1>6. PICK H : H = CHOOSE K : IsFold(first, s, K)
  OBVIOUS
<1>7. IsFold(first, s, H)
  BY <1>5, <1>6
<1>8. FoldLeft(Advance, first, s) = H[DOMAIN s]
  BY <1>6 DEF FoldLeft, MapThenFoldSet, IsFold
<1>9. \A S \in SUBSET (1..N) : H[S] = IF S = {} THEN first ELSE Advance(H[S \ {Max(S)}], s[Max(S)])
  BY <1>1, <1>7 DEF IsFold
<1> DEFINE F == [i \in 0..N |-> H[1..i]]
<1>10. F[0] = first
  <2>1. 1..0 = {} /\ 0 \in 0..N
    BY <1>1
  <2>2. H[{}] = first
    BY <1>9
  <2>3. QED BY <2>1, <2>2
<1>11. ASSUME NEW i \in 1..N PROVE F[i] = Advance(F[i - 1], s[i])
  <2>1. i \in Nat \ {0} /\ i \in 0..N /\ i - 1 \in 0..N
    BY <1>1
  <2>2. Max(1..i) = i /\ (1..i) \ {i} = 1..(i - 1)
    BY <2>1, MaximumOfRange
  <2>3. 1..i \in SUBSET (1..N) /\ 1..i # {}
    <3>1. i \in 1..i /\ \A x \in 1..i : x \in 1..N
      BY <1>1, <2>1
    <3>2. QED BY <3>1
  <2>4. H[1..i] = Advance(H[1..(i - 1)], s[i])
    BY <1>9, <2>2, <2>3
  <2>5. QED BY <2>1, <2>4
<1>12. F[N] = H[DOMAIN s]
  BY <1>1
<1> HIDE DEF F
<1>13. QED BY <1>8, <1>10, <1>11, <1>12 DEF N, IsWalk

\* What the cursor has passed lies in the spans, and it stands in none it has met.
WalkInv(first, s, F, i) ==
  /\ F[i] \in Int /\ first <= F[i]
  /\ \A o \in first..(F[i] - 1) : \E k \in 1..Len(s) : Holds(s[k], o)
  /\ \A k \in 1..i : ~Holds(s[k], F[i])

InOrder(s) == \A i, j \in 1..Len(s) : i < j => s[i].first <= s[j].first

LEMMA WalkInvariant ==
  ASSUME NEW first \in Int, NEW s \in Seq(SpanType), InOrder(s), NEW F, IsWalk(first, s, F)
  PROVE  WalkInv(first, s, F, Len(s))
<1> DEFINE N == Len(s)
           P == {i \in Nat : i <= N => WalkInv(first, s, F, i)}
<1>1. N \in Nat /\ \A i \in 1..N : s[i].first \in Int /\ s[i].last \in Int
  <2>1. \A i \in 1..N : s[i] \in SpanType
    OBVIOUS
  <2>2. QED BY <2>1 DEF SpanType
<1>2. F[0] = first /\ \A i \in 1..N : F[i] = Advance(F[i - 1], s[i])
  BY DEF IsWalk
<1>3. \A i, j \in 1..N : i < j => s[i].first <= s[j].first
  BY DEF InOrder
<1>4. 0 \in P
  BY <1>2 DEF WalkInv
<1>5. ASSUME NEW i \in Nat, i \in P, i + 1 <= N PROVE WalkInv(first, s, F, i + 1)
  <2>1. i + 1 \in 1..N /\ i <= N /\ (i + 1) - 1 = i
    BY <1>1, <1>5
  <2>2. WalkInv(first, s, F, i)
    BY <1>5, <2>1
  <2> DEFINE c == F[i]
             g == s[i + 1]
  <2>3. c \in Int /\ first <= c /\ g.first \in Int /\ g.last \in Int
    BY <1>1, <2>1, <2>2 DEF WalkInv
  <2>4. F[i + 1] = Advance(c, g)
    BY <1>2, <2>1
  <2>5. CASE ~Holds(g, c)
    <3>1. F[i + 1] = c
      BY <2>4, <2>5 DEF Advance, Holds
    <3>2. \A k \in 1..(i + 1) : k \in 1..i \/ k = i + 1
      OBVIOUS
    <3>3. QED BY <2>2, <2>5, <3>1, <3>2 DEF WalkInv
  <2>6. CASE Holds(g, c)
    <3>1. F[i + 1] = g.last + 1 /\ g.first <= c /\ c <= g.last
      BY <2>4, <2>6 DEF Advance, Holds
    <3>2. F[i + 1] \in Int /\ first <= F[i + 1]
      BY <2>3, <3>1
    <3>3. ASSUME NEW o \in first..(F[i + 1] - 1) PROVE \E k \in 1..N : Holds(s[k], o)
      <4>1. CASE o <= c - 1
        <5>1. o \in first..(c - 1)
          BY <2>3, <3>2, <4>1
        <5>2. QED BY <2>2, <5>1 DEF WalkInv
      <4>2. CASE ~(o <= c - 1)
        <5>1. Holds(g, o)
          BY <2>3, <3>1, <3>2, <4>2 DEF Holds
        <5>2. QED BY <2>1, <5>1
      <4>3. QED BY <4>1, <4>2
    <3>4. ASSUME NEW k \in 1..(i + 1) PROVE ~Holds(s[k], F[i + 1])
      <4>1. CASE k = i + 1
        BY <2>3, <3>1, <4>1 DEF Holds
      <4>2. CASE k # i + 1
        <5>1. k \in 1..i /\ k \in 1..N /\ k < i + 1
          BY <1>1, <2>1, <4>2
        <5>2. ~Holds(s[k], c) /\ s[k].first <= g.first
          BY <1>3, <2>1, <2>2, <5>1 DEF WalkInv
        <5>3. s[k].first \in Int /\ s[k].last \in Int
          BY <1>1, <5>1
        <5>4. s[k].last < c
          BY <2>3, <3>1, <5>2, <5>3 DEF Holds
        <5>5. QED BY <2>3, <3>1, <5>3, <5>4 DEF Holds
      <4>3. QED BY <4>1, <4>2
    <3>5. QED BY <3>2, <3>3, <3>4 DEF WalkInv
  <2>7. QED BY <2>5, <2>6
<1>6. ASSUME NEW i \in Nat, i \in P PROVE i + 1 \in P
  BY <1>5, <1>6
<1>7. Nat \subseteq P
  <2> HIDE DEF P
  <2>1. QED BY <1>4, <1>6, SetInduction
<1>8. QED BY <1>1, <1>7

Within(spans) == UNION {g.first..g.last : g \in spans}

LEMMA WalkDecides ==
  ASSUME NEW first \in Int, NEW last \in Int, first <= last,
         NEW spans \in SUBSET SpanType, IsFiniteSet(spans)
  PROVE  ~(CursorAfter(Span(first, last), spans) <= last) <=> first..last \subseteq Within(spans)
<1> DEFINE s == Sorted(spans)
           c == CursorAfter(Span(first, last), spans)
<1>1. s \in Seq(spans) /\ InOrder(s) /\ \A g \in spans : \E i \in 1..Len(s) : s[i] = g
  BY SortedFacts DEF InOrder
<1> HIDE DEF s
<1>2. s \in Seq(SpanType) /\ \A i \in 1..Len(s) : s[i] \in spans
  BY <1>1
<1>3. PICK F : IsWalk(first, s, F)
  BY <1>2, Walks
<1>4. c = F[Len(s)]
  BY <1>3 DEF IsWalk, CursorAfter, Span, s
<1> HIDE DEF c
<1>5. WalkInv(first, s, F, Len(s))
  BY <1>1, <1>2, <1>3, WalkInvariant
<1>6. /\ c \in Int /\ first <= c
      /\ \A o \in first..(c - 1) : \E k \in 1..Len(s) : Holds(s[k], o)
      /\ \A k \in 1..Len(s) : ~Holds(s[k], c)
  BY <1>4, <1>5 DEF WalkInv
<1>7. \A g \in spans : g.first \in Int /\ g.last \in Int
  BY DEF SpanType
<1>8. ASSUME last < c PROVE first..last \subseteq Within(spans)
  <2> SUFFICES ASSUME NEW o \in first..last PROVE o \in Within(spans)
    OBVIOUS
  <2>1. o \in first..(c - 1)
    BY <1>6, <1>8
  <2>2. PICK k \in 1..Len(s) : Holds(s[k], o)
    BY <1>6, <2>1
  <2>3. s[k] \in spans /\ o \in s[k].first..s[k].last
    BY <1>2, <1>7, <2>2 DEF Holds
  <2>4. QED BY <2>3 DEF Within
<1>9. ASSUME c <= last PROVE ~(first..last \subseteq Within(spans))
  <2>1. c \in first..last
    BY <1>6, <1>9
  <2>2. ASSUME c \in Within(spans) PROVE FALSE
    <3>1. PICK g \in spans : c \in g.first..g.last
      BY <2>2 DEF Within
    <3>2. Holds(g, c)
      BY <1>7, <3>1 DEF Holds
    <3>3. QED BY <1>1, <1>6, <3>2
  <2>3. QED BY <2>1, <2>2
<1>10. last < c <=> ~(c <= last)
  BY <1>6
<1>11. QED BY <1>8, <1>9, <1>10 DEF c

-----------------------------------------------------------------------------
(* The sums of the audit, as sizes of sets *)

\* One name for each row of a partition.
Copies(bag) == [o \in DOMAIN bag |-> {o} \X (1..bag[o])]

IsRowSum(bag, G) ==
  G = [s \in SUBSET DOMAIN bag |-> IF s = {} THEN 0
         ELSE bag[CHOOSE x \in s : TRUE] + G[s \ {CHOOSE x \in s : TRUE}]]

LEMMA CopiesApart ==
  ASSUME NEW D, IsFiniteSet(D), NEW bag \in [D -> Nat]
  PROVE  /\ Apart(D, Copies(bag))
         /\ \A o \in D : Cardinality(Copies(bag)[o]) = bag[o]
<1>1. \A o \in D : Copies(bag)[o] = {o} \X (1..bag[o])
  BY DEF Copies
<1>2. ASSUME NEW o \in D
      PROVE  IsFiniteSet(Copies(bag)[o]) /\ Cardinality(Copies(bag)[o]) = bag[o]
  <2>1. bag[o] \in Nat
    OBVIOUS
  <2>2. IsFiniteSet(1..bag[o]) /\ Cardinality(1..bag[o]) = bag[o]
    BY <2>1, FS_Interval
  <2>3. IsFiniteSet({o}) /\ Cardinality({o}) = 1
    BY FS_Singleton
  <2> DEFINE T == 1..bag[o]
  <2> HIDE DEF T
  <2>4. IsFiniteSet({o} \X T) /\ Cardinality({o} \X T) = Cardinality({o}) * Cardinality(T)
    BY <2>2, <2>3, FS_Product DEF T
  <2>5. 1 * bag[o] = bag[o]
    BY <2>1
  <2>6. Cardinality({o} \X T) = bag[o]
    BY <2>2, <2>3, <2>4, <2>5 DEF T
  <2>7. QED BY <1>1, <2>4, <2>6 DEF T
<1>3. \A o, p \in D : o # p => Copies(bag)[o] \cap Copies(bag)[p] = {}
  BY <1>1
<1>4. QED BY <1>2, <1>3 DEF Apart

LEMMA RowsAreCopies ==
  ASSUME NEW D, IsFiniteSet(D), NEW bag \in [D -> Nat]
  PROVE  NRows(bag) = Cardinality(All(Copies(bag), D))
<1> DEFINE A == Copies(bag)
           F == [s \in SUBSET D |-> Cardinality(All(A, s))]
<1>0. DOMAIN bag = D
  OBVIOUS
<1>1. Apart(D, A) /\ \A o \in D : Cardinality(A[o]) = bag[o]
  BY CopiesApart
<1> HIDE DEF A
<1>2. IsRowSum(bag, F)
  <2>1. ASSUME NEW s \in SUBSET D
        PROVE  F[s] = IF s = {} THEN 0
                      ELSE bag[CHOOSE x \in s : TRUE] + F[s \ {CHOOSE x \in s : TRUE}]
    <3>1. F[s] = IF s = {} THEN 0 ELSE Cardinality(A[CHOOSE x \in s : TRUE]) + Cardinality(All(A, Rest(s)))
      BY <1>1, AllIsSum
    <3>2. Rest(s) \in SUBSET D
      BY DEF Rest
    <3>3. F[Rest(s)] = Cardinality(All(A, Rest(s)))
      BY <3>2
    <3>4. s # {} => (CHOOSE x \in s : TRUE) \in D
      OBVIOUS
    <3>5. QED BY <1>1, <3>1, <3>3, <3>4 DEF Rest
  <2>2. QED BY <1>0, <2>1 DEF IsRowSum
<1> HIDE DEF F
<1>3. PICK G : G = CHOOSE K : IsRowSum(bag, K)
  OBVIOUS
<1>4. IsRowSum(bag, G)
  BY <1>2, <1>3
<1>5. NRows(bag) = G[DOMAIN bag]
  BY <1>3 DEF NRows, MapThenSumSet, MapThenFoldSet, IsRowSum
<1>6. IsSum(D, A, G)
  <2>1. ASSUME NEW s \in SUBSET D
        PROVE  G[s] = IF s = {} THEN 0 ELSE Cardinality(A[CHOOSE x \in s : TRUE]) + G[Rest(s)]
    <3>1. s # {} => (CHOOSE x \in s : TRUE) \in D
      OBVIOUS
    <3>2. G[s] = IF s = {} THEN 0
                 ELSE bag[CHOOSE x \in s : TRUE] + G[s \ {CHOOSE x \in s : TRUE}]
      BY <1>0, <1>4 DEF IsRowSum
    <3>3. QED BY <1>1, <3>1, <3>2 DEF Rest
  <2>2. QED BY <2>1 DEF IsSum
<1>7. QED BY <1>0, <1>1, <1>5, <1>6, SumIsCardinality DEF A

\* The offsets of a hole.
Reach(holes) == [h \in holes |-> h.first..h.last]

IsHoleSum(holes, G) ==
  G = [s \in SUBSET holes |-> IF s = {} THEN 0
         ELSE (CHOOSE x \in s : TRUE).last - (CHOOSE x \in s : TRUE).first + 1
              + G[s \ {CHOOSE x \in s : TRUE}]]

LEMMA HolesAreReached ==
  ASSUME NEW holes \in SUBSET SpanType, Apart(holes, Reach(holes)),
         \A h \in holes : h.first <= h.last
  PROVE  Accounted(holes) = Cardinality(All(Reach(holes), holes))
<1> DEFINE A == Reach(holes)
           F == [s \in SUBSET holes |-> Cardinality(All(A, s))]
<1>1. Apart(holes, A)
  OBVIOUS
<1>2. \A h \in holes : Cardinality(A[h]) = h.last - h.first + 1
  <2> TAKE h \in holes
  <2>1. h.first \in Int /\ h.last \in Int /\ h.first <= h.last
    BY DEF SpanType
  <2>2. A[h] = h.first..h.last
    BY DEF Reach
  <2>3. Cardinality(h.first..h.last) = h.last - h.first + 1
    BY <2>1, FS_Interval
  <2>4. QED BY <2>2, <2>3
<1> HIDE DEF A
<1>3. IsHoleSum(holes, F)
  <2>1. ASSUME NEW s \in SUBSET holes
        PROVE  F[s] = IF s = {} THEN 0
                      ELSE (CHOOSE x \in s : TRUE).last - (CHOOSE x \in s : TRUE).first + 1
                           + F[s \ {CHOOSE x \in s : TRUE}]
    <3>1. F[s] = IF s = {} THEN 0 ELSE Cardinality(A[CHOOSE x \in s : TRUE]) + Cardinality(All(A, Rest(s)))
      BY <1>1, AllIsSum
    <3>2. Rest(s) \in SUBSET holes
      BY DEF Rest
    <3>3. F[Rest(s)] = Cardinality(All(A, Rest(s)))
      BY <3>2
    <3>4. s # {} => (CHOOSE x \in s : TRUE) \in holes
      OBVIOUS
    <3>5. QED BY <1>2, <3>1, <3>3, <3>4 DEF Rest
  <2>2. QED BY <2>1 DEF IsHoleSum
<1> HIDE DEF F
<1>4. PICK G : G = CHOOSE K : IsHoleSum(holes, K)
  OBVIOUS
<1>5. IsHoleSum(holes, G)
  BY <1>3, <1>4
<1>6. Accounted(holes) = G[holes]
  BY <1>4 DEF Accounted, MapThenSumSet, MapThenFoldSet, IsHoleSum
<1>7. IsSum(holes, A, G)
  <2>1. ASSUME NEW s \in SUBSET holes
        PROVE  G[s] = IF s = {} THEN 0 ELSE Cardinality(A[CHOOSE x \in s : TRUE]) + G[Rest(s)]
    <3>1. s # {} => (CHOOSE x \in s : TRUE) \in holes
      OBVIOUS
    <3>2. G[s] = IF s = {} THEN 0
                 ELSE (CHOOSE x \in s : TRUE).last - (CHOOSE x \in s : TRUE).first + 1
                      + G[s \ {CHOOSE x \in s : TRUE}]
      BY <1>5 DEF IsHoleSum
    <3>3. QED BY <1>2, <3>1, <3>2 DEF Rest
  <2>2. QED BY <2>1 DEF IsSum
<1>8. QED BY <1>1, <1>6, <1>7, SumIsCardinality DEF A

-----------------------------------------------------------------------------
(* Holes are what is missing between the first and the last offset *)

LEMMA Extremes ==
  ASSUME NEW n \in Nat, NEW S \in SUBSET (0..n), S # {}
  PROVE  /\ Min(S) \in S /\ \A y \in S : Min(S) <= y
         /\ Max(S) \in S /\ \A y \in S : y <= Max(S)
<1>1. S \in SUBSET Nat /\ \A x \in S : x \in Nat /\ x <= n
  OBVIOUS
<1>2. Min(S) \in S /\ \A y \in S : Min(S) <= y
  BY <1>1, Minimum
<1> DEFINE T == {n - x : x \in S}
<1>3. T \in SUBSET Nat /\ T # {}
  BY <1>1
<1>4. PICK t \in T : \A u \in T : t <= u
  <2> HIDE DEF T
  <2>1. QED BY <1>3, NatMin
<1>5. PICK x \in S : t = n - x
  BY <1>4
<1>6. \A y \in S : y <= x
  <2> TAKE y \in S
  <2>1. n - x <= n - y
    BY <1>4, <1>5
  <2>2. QED BY <1>1, <2>1
<1>7. \E z \in S : \A y \in S : z >= y
  BY <1>1, <1>6
<1>8. Max(S) \in S /\ \A y \in S : Max(S) >= y
  BY <1>7 DEF Max
<1>9. Max(S) \in Nat
  BY <1>1, <1>8
<1>10. QED BY <1>1, <1>2, <1>8, <1>9

IsHole(P, h) ==
  /\ h \in SpanType /\ h.first <= h.last
  /\ h.first - 1 \in P /\ h.last + 1 \in P
  /\ \A o \in P : o < h.first \/ h.last < o

LEMMA HolesAre ==
  ASSUME NEW n \in Nat, NEW bag, Present(bag) \in SUBSET (0..n)
  PROVE  \A h : h \in Holes(bag) <=> IsHole(Present(bag), h)
<1> DEFINE P == Present(bag)
<1>1. \A o \in P : o \in Nat
  OBVIOUS
<1> HIDE DEF P
<1>2. ASSUME NEW h \in Holes(bag) PROVE IsHole(P, h)
  <2>1. PICK a \in P, b \in P : /\ h = Span(a + 1, b - 1) /\ b > a + 1
                               /\ \A o \in P : o <= a \/ o >= b
    BY DEF Holes, P
  <2>2. h = [first |-> a + 1, last |-> b - 1] /\ a \in Nat /\ b \in Nat
    BY <1>1, <2>1 DEF Span
  <2>3. h.first = a + 1 /\ h.last = b - 1
    BY <2>2
  <2>4. h \in SpanType
    BY <2>2 DEF SpanType
  <2>5. h.first - 1 = a /\ h.last + 1 = b /\ h.first <= h.last
    BY <2>1, <2>2, <2>3
  <2>6. \A o \in P : o < h.first \/ h.last < o
    <3> TAKE o \in P
    <3>1. o \in Nat /\ (o <= a \/ o >= b)
      BY <1>1, <2>1
    <3>2. QED BY <2>2, <2>3, <3>1
  <2>7. QED BY <2>4, <2>5, <2>6 DEF IsHole
<1>3. ASSUME NEW h, IsHole(P, h) PROVE h \in Holes(bag)
  <2> DEFINE a == h.first - 1
             b == h.last + 1
  <2>1. /\ h = [first |-> h.first, last |-> h.last] /\ h.first \in Int /\ h.last \in Int
        /\ h.first <= h.last
    BY <1>3 DEF IsHole, SpanType
  <2>2. a \in P /\ b \in P /\ \A o \in P : o < h.first \/ h.last < o
    BY <1>3 DEF IsHole
  <2>3. a + 1 = h.first /\ b - 1 = h.last /\ b > a + 1 /\ a \in Int /\ b \in Int
    BY <2>1
  <2>4. \A o \in P : o <= a \/ o >= b
    <3> TAKE o \in P
    <3>1. o \in Nat /\ (o < h.first \/ h.last < o)
      BY <1>1, <2>2
    <3>2. QED BY <2>1, <3>1
  <2>5. h = Span(a + 1, b - 1)
    BY <2>1, <2>3 DEF Span
  <2> HIDE DEF a, b
  <2> DEFINE pair == <<a, b>>
  <2>6. pair \in P \X P /\ pair[1] = a /\ pair[2] = b
    BY <2>2
  <2> HIDE DEF pair
  <2>7. pair \in {ab \in P \X P : /\ ab[2] > ab[1] + 1
                                 /\ \A o \in P : o <= ab[1] \/ o >= ab[2]}
    BY <2>3, <2>4, <2>6
  <2>8. h = Span(pair[1] + 1, pair[2] - 1)
    BY <2>5, <2>6
  <2>9. QED BY <2>7, <2>8 DEF Holes, P
<1>4. QED BY <1>2, <1>3 DEF P

LEMMA HoleFacts ==
  ASSUME NEW n \in Nat, NEW bag, Present(bag) \in SUBSET (0..n), Present(bag) # {}
  PROVE  /\ Holes(bag) \in SUBSET SpanType
         /\ \A h \in Holes(bag) : h.first <= h.last
         /\ Apart(Holes(bag), Reach(Holes(bag)))
         /\ All(Reach(Holes(bag)), Holes(bag)) = Missing(bag)
<1> DEFINE P == Present(bag)
           Hs == Holes(bag)
           A == Reach(Hs)
<1>1. \A h : h \in Hs <=> IsHole(P, h)
  BY HolesAre
<1>2. P \in SUBSET (0..n) /\ P # {} /\ \A o \in P : o \in Nat
  OBVIOUS
<1>3. /\ Min(P) \in P /\ \A y \in P : Min(P) <= y
      /\ Max(P) \in P /\ \A y \in P : y <= Max(P)
  BY <1>2, Extremes
<1>4. Missing(bag) = (Min(P)..Max(P)) \ P
  BY <1>2 DEF Missing
<1> HIDE DEF P, Hs
<1>5. \A h \in Hs : /\ h \in SpanType /\ h.first \in Int /\ h.last \in Int /\ h.first <= h.last
                    /\ A[h] = h.first..h.last
  BY <1>1 DEF IsHole, SpanType, Reach
<1> HIDE DEF A
<1>6. ASSUME NEW h \in Hs, NEW k \in Hs, A[h] \cap A[k] # {} PROVE h = k
  <2>1. PICK o \in Int : /\ h.first <= o /\ o <= h.last
                         /\ k.first <= o /\ o <= k.last
    BY <1>5, <1>6
  <2>2. /\ h.first - 1 \in P /\ h.last + 1 \in P /\ \A p \in P : p < h.first \/ h.last < p
        /\ k.first - 1 \in P /\ k.last + 1 \in P /\ \A p \in P : p < k.first \/ k.last < p
    BY <1>1 DEF IsHole
  <2>3. h.first \in Int /\ h.last \in Int /\ k.first \in Int /\ k.last \in Int
    BY <1>5
  <2>4. h.first - 1 < k.first \/ k.last < h.first - 1
    BY <2>2
  <2>5. k.first - 1 < h.first \/ h.last < k.first - 1
    BY <2>2
  <2>6. h.last + 1 < k.first \/ k.last < h.last + 1
    BY <2>2
  <2>7. k.last + 1 < h.first \/ h.last < k.last + 1
    BY <2>2
  <2>8. h.first = k.first
    BY <2>1, <2>3, <2>4, <2>5
  <2>9. h.last = k.last
    BY <2>1, <2>3, <2>6, <2>7
  <2>10. h = [first |-> h.first, last |-> h.last] /\ k = [first |-> k.first, last |-> k.last]
    BY <1>5 DEF SpanType
  <2>11. QED BY <2>8, <2>9, <2>10
<1>7. IsFiniteSet(Hs)
  <2> DEFINE f == [h \in Hs |-> h.first]
  <2>1. \A h \in Hs : h.first \in 0..(n + 1)
    <3> TAKE h \in Hs
    <3>1. h.first - 1 \in P
      BY <1>1 DEF IsHole
    <3>2. h.first - 1 \in 0..n
      BY <1>2, <3>1
    <3>3. QED BY <1>5, <3>2
  <2>2. \A h, k \in Hs : f[h] = f[k] => h = k
    <3> TAKE h, k \in Hs
    <3> HAVE h.first = k.first
    <3>1. h.first \in A[h] /\ h.first \in A[k]
      BY <1>5
    <3>2. QED BY <1>6, <3>1
  <2>3. f \in [Hs -> 0..(n + 1)]
    BY <2>1
  <2> HIDE DEF f
  <2>4. f \in Injection(Hs, 0..(n + 1))
    BY <2>2, <2>3 DEF Injection, IsInjective
  <2>5. IsFiniteSet(0..(n + 1))
    BY FS_Interval
  <2>6. QED BY <2>4, <2>5, FS_Injection
<1>8. \A h \in Hs : IsFiniteSet(A[h])
  <2> TAKE h \in Hs
  <2>1. h.first \in Int /\ h.last \in Int /\ A[h] = h.first..h.last
    BY <1>5
  <2>2. QED BY <2>1, FS_Interval
<1>9. Apart(Hs, A)
  BY <1>6, <1>7, <1>8 DEF Apart
<1>10. ASSUME NEW h \in Hs, NEW o \in A[h] PROVE o \in (Min(P)..Max(P)) \ P
  <2>1. h.first \in Int /\ h.last \in Int /\ o \in h.first..h.last
    BY <1>5, <1>10
  <2>2. h.first - 1 \in P /\ h.last + 1 \in P /\ \A p \in P : p < h.first \/ h.last < p
    BY <1>1 DEF IsHole
  <2>3. o \notin P
    BY <2>1, <2>2
  <2>4. Min(P) <= h.first - 1 /\ h.last + 1 <= Max(P) /\ Min(P) \in Nat /\ Max(P) \in Nat
    BY <1>2, <1>3, <2>2
  <2>5. o \in Min(P)..Max(P)
    BY <2>1, <2>4
  <2>6. QED BY <2>3, <2>5
<1>11. ASSUME NEW o \in (Min(P)..Max(P)) \ P PROVE \E h \in Hs : o \in A[h]
  <2> DEFINE B == {p \in P : p < o}
             C == {p \in P : o < p}
  <2>0. Min(P) \in Nat /\ Max(P) \in Nat
    BY <1>2, <1>3
  <2>1. Min(P) \in Nat /\ Max(P) \in Nat /\ o \in Nat /\ Min(P) # o /\ Max(P) # o
    BY <1>3, <1>11, <2>0
  <2>2. Min(P) \in B /\ Max(P) \in C
    BY <1>3, <1>11, <2>1
  <2>3. B \in SUBSET (0..n) /\ C \in SUBSET (0..n) /\ B # {} /\ C # {}
    BY <1>2, <2>2
  <2>4. PICK a \in B : \A p \in B : p <= a
    <3> HIDE DEF B
    <3>1. QED BY <2>3, Extremes
  <2>5. PICK b \in C : \A p \in C : b <= p
    <3> HIDE DEF C
    <3>1. QED BY <2>3, Extremes
  <2>6. a \in P /\ b \in P /\ a < o /\ o < b /\ a \in Nat /\ b \in Nat
    BY <1>2, <2>4, <2>5
  <2> DEFINE h == [first |-> a + 1, last |-> b - 1]
  <2>7. h \in SpanType /\ h.first = a + 1 /\ h.last = b - 1
    BY <2>6 DEF SpanType
  <2> HIDE DEF h
  <2>8. h.first <= h.last /\ h.first - 1 = a /\ h.last + 1 = b
    BY <2>6, <2>7, <2>1
  <2>9. \A p \in P : p < h.first \/ h.last < p
    <3> TAKE p \in P
    <3>1. p \in Nat /\ p # o
      BY <1>2, <1>11
    <3>2. CASE p < o
      <4>1. p <= a
        BY <2>4, <3>2
      <4>2. QED BY <2>6, <2>7, <3>1, <4>1
    <3>3. CASE o < p
      <4>1. b <= p
        BY <2>5, <3>3
      <4>2. QED BY <2>6, <2>7, <3>1, <4>1
    <3>4. QED BY <2>1, <3>1, <3>2, <3>3
  <2>10. IsHole(P, h)
    BY <2>6, <2>7, <2>8, <2>9 DEF IsHole
  <2>11. h \in Hs /\ A[h] = h.first..h.last
    BY <1>1, <1>5, <2>10
  <2>12. o \in h.first..h.last
    BY <2>1, <2>6, <2>7
  <2>13. QED BY <2>11, <2>12
<1>12. All(A, Hs) = Missing(bag)
  BY <1>4, <1>10, <1>11 DEF All
<1>13. QED BY <1>5, <1>9, <1>12 DEF Hs, A

-----------------------------------------------------------------------------
(* The verdict *)

\* One row for each offset there is.
LEMMA RowsOfOffsets ==
  ASSUME NEW n \in Nat, NEW D \in SUBSET (0..n), NEW bag \in [D -> Nat]
  PROVE  /\ NRows(bag) \in Nat /\ Cardinality(Present(bag)) \in Nat
         /\ Cardinality(Present(bag)) <= NRows(bag)
         /\ Cardinality(Present(bag)) = NRows(bag) <=> ~Duplicated(bag)
<1> DEFINE P == Present(bag)
           R == All(Copies(bag), D)
           f == [o \in P |-> <<o, 1>>]
           T == {<<o, 1>> : o \in P}
<1>1. IsFiniteSet(D)
  <2>1. IsFiniteSet(0..n)
    BY FS_Interval
  <2>2. QED BY <2>1, FS_Subset
<1>2. P \in SUBSET D /\ \A o \in D : bag[o] \in Nat /\ (o \in P <=> bag[o] > 0)
  BY DEF Present
<1>3. NRows(bag) = Cardinality(R) /\ Apart(D, Copies(bag)) /\ IsFiniteSet(R)
  <2>1. Apart(D, Copies(bag))
    BY <1>1, CopiesApart
  <2>2. D \in SUBSET D
    OBVIOUS
  <2>3. QED BY <1>1, <2>1, <2>2, RowsAreCopies, AllFinite
<1>4. \A z : z \in R <=> \E o \in D : \E k \in 1..bag[o] : z = <<o, k>>
  <2>1. \A o \in D : Copies(bag)[o] = {o} \X (1..bag[o])
    BY DEF Copies
  <2>2. \A z : z \in R <=> \E o \in D : z \in Copies(bag)[o]
    BY DEF All
  <2>3. \A o \in D : \A z : z \in {o} \X (1..bag[o]) <=> \E k \in 1..bag[o] : z = <<o, k>>
    OBVIOUS
  <2>4. QED BY <2>1, <2>2, <2>3
<1> HIDE DEF R, P
<1>5. IsFiniteSet(P)
  BY <1>1, <1>2, FS_Subset
<1>6. IsFiniteSet(T) /\ Cardinality(T) = Cardinality(P)
  <2>1. f \in [P -> T] /\ (\A x, y \in P : f[x] = f[y] => x = y) /\ (\A z \in T : \E x \in P : f[x] = z)
    OBVIOUS
  <2> HIDE DEF f, T
  <2>2. QED BY <1>5, <2>1, SameSize
<1>7. T \in SUBSET R
  <2>1. ASSUME NEW o \in P PROVE <<o, 1>> \in R
    <3>1. o \in D /\ 1 \in 1..bag[o]
      BY <1>2
    <3>2. QED BY <1>4, <3>1
  <2>2. QED BY <2>1
<1>8. Duplicated(bag) => T # R
  <2> SUFFICES ASSUME NEW o \in D, bag[o] > 1 PROVE T # R
    BY DEF Duplicated
  <2>1. 2 \in 1..bag[o]
    BY <1>2
  <2>2. <<o, 2>> \in R
    BY <1>4, <2>1
  <2>3. <<o, 2>> \notin T
    OBVIOUS
  <2>4. QED BY <2>2, <2>3
<1>9. ~Duplicated(bag) => T = R
  <2> SUFFICES ASSUME ~Duplicated(bag), NEW z \in R PROVE z \in T
    BY <1>7
  <2>1. PICK o \in D : \E k \in 1..bag[o] : z = <<o, k>>
    BY <1>4
  <2>2. PICK k \in 1..bag[o] : z = <<o, k>>
    BY <2>1
  <2>3. ~(bag[o] > 1)
    BY DEF Duplicated
  <2>4. k = 1 /\ bag[o] > 0
    BY <1>2, <2>2, <2>3
  <2>5. QED BY <1>2, <2>2, <2>4
<1> HIDE DEF T
<1>10. Cardinality(P) \in Nat /\ Cardinality(R) \in Nat
  BY <1>3, <1>5, FS_CardinalityType
<1>11. /\ Cardinality(T) <= Cardinality(R)
       /\ Cardinality(R) = Cardinality(T) => T = R
  BY <1>3, <1>7, FS_Subset
<1>12. Cardinality(T) = Cardinality(R) <=> ~Duplicated(bag)
  BY <1>8, <1>9, <1>11
<1>13. QED BY <1>3, <1>6, <1>10, <1>11, <1>12 DEF P

LEMMA ObservedCounts ==
  ASSUME NEW n \in Nat, NEW D \in SUBSET (0..n), NEW bag \in [D -> Nat], Present(bag) # {}
  PROVE  /\ IsFiniteSet(Missing(bag)) /\ Cardinality(Missing(bag)) \in Nat
         /\ Accounted(Holes(bag)) = Cardinality(Missing(bag))
         /\ Observed(bag) = Cardinality(Missing(bag)) + Cardinality(Present(bag)) - NRows(bag)
<1> DEFINE P == Present(bag)
           M == Missing(bag)
<1>1. P \in SUBSET (0..n) /\ P # {} /\ \A o \in P : o \in Nat
  <2>1. P \in SUBSET D
    BY DEF Present
  <2>2. \A o \in 0..n : o \in Nat
    OBVIOUS
  <2> HIDE DEF P
  <2>3. P # {}
    BY DEF P
  <2>4. QED BY <2>1, <2>2, <2>3
<1>2. Accounted(Holes(bag)) = Cardinality(M)
  BY <1>1, HoleFacts, HolesAreReached
<1>3. /\ Min(P) \in P /\ \A y \in P : Min(P) <= y
      /\ Max(P) \in P /\ \A y \in P : y <= Max(P)
  BY <1>1, Extremes
<1>4. Min(P) \in Nat /\ Max(P) \in Nat /\ Min(P) <= Max(P)
  BY <1>1, <1>3
<1>5. M = (Min(P)..Max(P)) \ P
  BY DEF Missing
<1>6. Observed(bag) = Max(P) - Min(P) + 1 - NRows(bag)
  BY DEF Observed
<1> HIDE DEF M, P
<1>7. IsFiniteSet(Min(P)..Max(P)) /\ Cardinality(Min(P)..Max(P)) = Max(P) - Min(P) + 1
  BY <1>4, FS_Interval
<1>8. P \in SUBSET (Min(P)..Max(P))
  <2> SUFFICES ASSUME NEW o \in P PROVE o \in Min(P)..Max(P)
    OBVIOUS
  <2>1. o \in Nat /\ Min(P) <= o /\ o <= Max(P)
    BY <1>1, <1>3
  <2>2. QED BY <1>4, <2>1
<1>9. IsFiniteSet(P) /\ IsFiniteSet(M)
  BY <1>5, <1>7, <1>8, FS_Subset
<1>10. P \cup M = Min(P)..Max(P) /\ P \cap M = {}
  BY <1>5, <1>8
<1>11. Cardinality(P \cup M) = Cardinality(P) + Cardinality(M) - Cardinality(P \cap M)
  BY <1>9, FS_Union
<1>12. Cardinality(P) \in Nat /\ Cardinality(M) \in Nat /\ Cardinality({}) = 0
  BY <1>9, FS_CardinalityType, FS_EmptySet
<1>13. Max(P) - Min(P) + 1 = Cardinality(P) + Cardinality(M)
  <2> DEFINE size == Cardinality(Min(P)..Max(P))
  <2>1. size = Cardinality(P) + Cardinality(M) - 0
    BY <1>10, <1>11, <1>12
  <2>2. size = Max(P) - Min(P) + 1
    BY <1>7
  <2> HIDE DEF size
  <2>3. QED BY <1>12, <2>1, <2>2
<1>14. NRows(bag) \in Nat
  BY RowsOfOffsets
<1>15. Observed(bag) = Cardinality(M) + Cardinality(P) - NRows(bag)
  BY <1>4, <1>6, <1>12, <1>13, <1>14
<1>16. QED BY <1>2, <1>9, <1>12, <1>15 DEF M, P

LEMMA WalkCoversHoles ==
  ASSUME NEW n \in Nat, NEW bag, Present(bag) \in SUBSET (0..n), Present(bag) # {},
         NEW gs \in SUBSET SpanType, IsFiniteSet(gs)
  PROVE  UncoveredHoles(Holes(bag), gs) = {} <=> Missing(bag) \subseteq Within(gs)
<1> DEFINE Hs == Holes(bag)
<1>1. \A h \in Hs : /\ h \in SpanType /\ h.first <= h.last
                    /\ Reach(Hs)[h] = h.first..h.last
  BY HoleFacts DEF Reach
<1>2. Missing(bag) = UNION {h.first..h.last : h \in Hs}
  <2>1. All(Reach(Hs), Hs) = Missing(bag)
    BY HoleFacts
  <2> HIDE DEF Hs
  <2>2. QED BY <1>1, <2>1 DEF All
<1> HIDE DEF Hs
<1>3. \A h \in Hs : ~(CursorAfter(h, gs) <= h.last) <=> h.first..h.last \subseteq Within(gs)
  <2> TAKE h \in Hs
  <2>1. h.first \in Int /\ h.last \in Int /\ h.first <= h.last
        /\ h = [first |-> h.first, last |-> h.last]
    BY <1>1 DEF SpanType
  <2>2. h = Span(h.first, h.last)
    BY <2>1 DEF Span
  <2>3. QED BY <2>1, <2>2, WalkDecides
<1>4. UncoveredHoles(Hs, gs) = {} <=> \A h \in Hs : ~(CursorAfter(h, gs) <= h.last)
  BY DEF UncoveredHoles
<1>5. QED BY <1>2, <1>3, <1>4 DEF Hs

LEMMA RecordedGaps ==
  ASSUME NEW R, IsFiniteSet(R),
         \A g \in R : g.committed \in Int /\ g.logStart \in Int
  PROVE  /\ {RecordedGap(g) : g \in R} \in SUBSET SpanType
         /\ IsFiniteSet({RecordedGap(g) : g \in R})
         /\ Within({RecordedGap(g) : g \in R}) = Acknowledged(R)
<1> DEFINE f == [g \in R |-> RecordedGap(g)]
           T == {RecordedGap(g) : g \in R}
<1>1. \A g \in R : /\ RecordedGap(g) \in SpanType
                   /\ RecordedGap(g).first = g.committed
                   /\ RecordedGap(g).last = g.logStart - 1
  <2> TAKE g \in R
  <2>1. g.committed \in Int /\ g.logStart - 1 \in Int
    OBVIOUS
  <2>2. QED BY <2>1 DEF RecordedGap, Span, SpanType
<1>2. f \in Surjection(R, T)
  BY DEF Surjection
<1>3. IsFiniteSet(T)
  BY <1>2, FS_Surjection
<1>4. Within(T) = Acknowledged(R)
  BY <1>1 DEF Within, Acknowledged
<1>5. QED BY <1>1, <1>3, <1>4

IsAudited(bag, R) ==
  /\ IsFiniteSet(R) /\ \A g \in R : g.committed \in Int /\ g.logStart \in Int
  /\ \E n \in Nat : DOMAIN bag \in SUBSET (0..n) /\ bag \in [DOMAIN bag -> Nat]

\* _net_recorded.
LEMMA NettingExact ==
  ASSUME NEW bag, NEW R, IsAudited(bag, R), Present(bag) # {}, Observed(bag) > 0
  PROVE  Nets(bag, {RecordedGap(g) : g \in R}) <=> Intact(bag, R)
<1> DEFINE gs == {RecordedGap(g) : g \in R}
<1>1. PICK n \in Nat : DOMAIN bag \in SUBSET (0..n) /\ bag \in [DOMAIN bag -> Nat]
  BY DEF IsAudited
<1>2. gs \in SUBSET SpanType /\ IsFiniteSet(gs) /\ Within(gs) = Acknowledged(R)
  BY RecordedGaps DEF IsAudited
<1> HIDE DEF gs
<1>3. Present(bag) \in SUBSET (0..n)
  BY <1>1 DEF Present
<1>4. UncoveredHoles(Holes(bag), gs) = {} <=> Missing(bag) \subseteq Acknowledged(R)
  BY <1>2, <1>3, WalkCoversHoles
<1>5. Accounted(Holes(bag)) = Observed(bag) <=> ~Duplicated(bag)
  <2> DEFINE m == Cardinality(Missing(bag))
             p == Cardinality(Present(bag))
             r == NRows(bag)
  <2>1. m \in Nat /\ Accounted(Holes(bag)) = m /\ Observed(bag) = m + p - r
    BY <1>1, ObservedCounts
  <2>2. p \in Nat /\ r \in Nat /\ (p = r <=> ~Duplicated(bag))
    BY <1>1, RowsOfOffsets
  <2> HIDE DEF m, p, r
  <2>3. m = m + p - r <=> p = r
    BY <2>1, <2>2
  <2>4. QED BY <2>1, <2>2, <2>3
<1>6. QED BY <1>4, <1>5 DEF Nets, Intact, gs

LEMMA VerdictExact ==
  ASSUME NEW bag, NEW R, IsAudited(bag, R), ~Duplicated(bag)
  PROVE  Passes(bag, {RecordedGap(g) : g \in R}) <=> Intact(bag, R)
<1>1. CASE Present(bag) = {}
  BY <1>1 DEF Passes, Intact, Missing
<1>2. CASE Present(bag) # {}
  <2>1. PICK n \in Nat : DOMAIN bag \in SUBSET (0..n) /\ bag \in [DOMAIN bag -> Nat]
    BY DEF IsAudited
  <2> DEFINE M == Missing(bag)
             p == Cardinality(Present(bag))
             r == NRows(bag)
             x == Observed(bag)
  <2>2. IsFiniteSet(M) /\ Cardinality(M) \in Nat /\ x = Cardinality(M) + p - r
    BY <1>2, <2>1, ObservedCounts
  <2>3. p \in Nat /\ r \in Nat /\ p = r
    BY <2>1, RowsOfOffsets
  <2>4. x = 0 => Intact(bag, R)
    <3> HIDE DEF M, p, r, x
    <3>1. x = 0 => Cardinality(M) = 0
      BY <2>2, <2>3
    <3>2. x = 0 => M = {}
      BY <2>2, <3>1, FS_EmptySet
    <3>3. QED BY <3>2 DEF Intact, M
  <2>5. x # 0 => x > 0
    <3> HIDE DEF M, p, r, x
    <3>1. QED BY <2>2, <2>3
  <2>6. x > 0 => (Nets(bag, {RecordedGap(g) : g \in R}) <=> Intact(bag, R))
    BY <1>2, NettingExact
  <2>7. QED BY <1>2, <2>4, <2>5, <2>6 DEF Passes, Nets
<1>3. QED BY <1>1, <1>2

-----------------------------------------------------------------------------
(* The audit against its definition *)

AuditTypeOK ==
  /\ copies \in [0..LastOffset -> Nat]
  /\ IsFiniteSet(recorded)
  /\ \A g \in recorded : g.committed \in Int /\ g.logStart \in Int

LEMMA AuditTyped == AuditSpec => []AuditTypeOK
<1>1. AuditInit => AuditTypeOK
  BY FS_EmptySet DEF AuditInit, AuditTypeOK
<1>2. ASSUME AuditTypeOK, [AuditNext]_<<copies, recorded>> PROVE AuditTypeOK'
  <2>1. CASE UNCHANGED <<copies, recorded>>
    BY <1>2, <2>1 DEF AuditTypeOK
  <2>2. CASE AddRow
    BY <1>2, <2>2 DEF AuditTypeOK, AddRow
  <2>3. CASE FileGap
    <3>1. PICK a \in 0..(LastOffset + 1), b \in 0..(LastOffset + 1) :
            recorded' = recorded \cup {[committed |-> a, logStart |-> b]}
      BY <2>3 DEF FileGap
    <3>2. a \in Int /\ b \in Int
      OBVIOUS
    <3>3. IsFiniteSet(recorded')
      BY <1>2, <3>1, FS_AddElement DEF AuditTypeOK
    <3>4. copies' = copies
      BY <2>3 DEF FileGap
    <3>5. \A g \in recorded' : g.committed \in Int /\ g.logStart \in Int
      BY <1>2, <3>1, <3>2 DEF AuditTypeOK
    <3>6. QED BY <1>2, <3>3, <3>4, <3>5 DEF AuditTypeOK
  <2>4. QED BY <1>2, <2>1, <2>2, <2>3 DEF AuditNext
<1>3. QED BY <1>1, <1>2, PTL DEF AuditSpec

LEMMA AuditedCopies ==
  ASSUME AuditTypeOK
  PROVE  IsAudited(copies, recorded)
<1>1. LastOffset \in Nat /\ DOMAIN copies = 0..LastOffset
  BY AuditBounds DEF AuditBounds, AuditTypeOK
<1>2. copies \in [DOMAIN copies -> Nat]
  BY <1>1 DEF AuditTypeOK
<1>3. QED BY <1>1, <1>2 DEF IsAudited, AuditTypeOK

(***************************************************************************)
(* uncovered_holes, for any number of gaps and offsets: one pass of the    *)
(* cursor over the sorted gaps decides whether they cover a hole.          *)
(***************************************************************************)
THEOREM WalkDecidesCoverageHolds == AuditSpec => []WalkDecidesCoverage
<1>1. ASSUME AuditTypeOK PROVE WalkDecidesCoverage
  <2>1. /\ Gaps \in SUBSET SpanType /\ IsFiniteSet(Gaps)
        /\ Within(Gaps) = Acknowledged(recorded)
    BY <1>1, RecordedGaps DEF AuditTypeOK, Gaps
  <2> SUFFICES ASSUME NEW first \in 0..LastOffset, NEW last \in first..LastOffset
               PROVE  (UncoveredHoles({Span(first, last)}, Gaps) = {})
                        <=> (first..last \subseteq Acknowledged(recorded))
    BY DEF WalkDecidesCoverage
  <2>2. first \in Int /\ last \in Int /\ first <= last
    BY AuditBounds DEF AuditBounds
  <2>3. Span(first, last).last = last
    BY DEF Span
  <2>4. UncoveredHoles({Span(first, last)}, Gaps) = {}
          <=> ~(CursorAfter(Span(first, last), Gaps) <= last)
    BY <2>3 DEF UncoveredHoles
  <2>5. QED BY <2>1, <2>2, <2>4, WalkDecides
<1>2. QED BY <1>1, AuditTyped, PTL

(***************************************************************************)
(* _net_recorded, for every archive and every set of recorded gaps: the    *)
(* three sums it compares exclude a duplicate that hides behind a hole.    *)
(***************************************************************************)
THEOREM NettingIsExactHolds == AuditSpec => []NettingIsExact
<1>1. ASSUME AuditTypeOK PROVE NettingIsExact
  BY <1>1, AuditedCopies, NettingExact DEF NettingIsExact, Gaps
<1>2. QED BY <1>1, AuditTyped, PTL

-----------------------------------------------------------------------------
(* The nightly audit of what the ingest has written *)

\* What the ingest leaves of a partition is what the audit accepts.
LEMMA ArchivesPass ==
  ASSUME IInv, NEW p \in Partition
  PROVE  Passes(rows[p], GapsOf(p))
<1> DEFINE bag == rows[p]
           R == {h \in gaps : h.part = p}
<1>1. /\ rows \in [Partition -> [Offset -> Nat]] /\ gaps \subseteq GapRow /\ ExactlyOnce
      /\ MaxOffset \in Nat
  BY ConstantsAssumption DEF IInv, TypeOK, ConstantsAssumption
<1>2. Offset \in SUBSET (0..MaxOffset) /\ \A o \in Offset : o \in Nat /\ Offset = 0..(MaxOffset - 1)
  BY <1>1 DEF Offset
<1>3. bag \in [Offset -> Nat] /\ DOMAIN bag = Offset
  BY <1>1
<1>4. \A g \in R : g.part = p /\ g.committed \in Position /\ g.logStart \in Position
                   /\ g = [part |-> g.part, committed |-> g.committed, logStart |-> g.logStart]
  BY <1>1 DEF GapRow
<1>5. Position \subseteq Int /\ IsFiniteSet(Position)
  <2>1. IsFiniteSet(0..MaxOffset)
    BY <1>1, FS_Interval
  <2>2. QED BY <2>1 DEF Position
<1>6. IsFiniteSet(R)
  <2> DEFINE f == [g \in R |-> <<g.committed, g.logStart>>]
             T == Position \X Position
  <2>1. f \in [R -> T] /\ \A g, h \in R : f[g] = f[h] => g = h
    BY <1>4
  <2> HIDE DEF f, R
  <2>2. f \in Injection(R, T)
    BY <2>1 DEF Injection, IsInjective
  <2>3. IsFiniteSet(T)
    BY <1>5, FS_Product
  <2>4. QED BY <2>2, <2>3, FS_Injection
<1>7. IsAudited(bag, R)
  <2>1. \A g \in R : g.committed \in Int /\ g.logStart \in Int
    BY <1>4, <1>5
  <2> HIDE DEF R, bag
  <2>2. QED BY <1>1, <1>2, <1>3, <1>6, <2>1 DEF IsAudited
<1>8. \A o \in Offset : bag[o] = IF Archived(p, o) THEN 1 ELSE 0
  BY <1>1 DEF ExactlyOnce
<1>9. ~Duplicated(bag)
  BY <1>3, <1>8 DEF Duplicated
<1>10. \A o : o \in Acknowledged(R) <=> \E g \in R : o \in g.committed..(g.logStart - 1)
  BY DEF Acknowledged
<1>11. Missing(bag) \subseteq Acknowledged(R)
  <2> DEFINE P == Present(bag)
  <2> SUFFICES ASSUME NEW o \in Missing(bag) PROVE o \in Acknowledged(R)
    OBVIOUS
  <2>1. P # {} /\ o \in Min(P)..Max(P) /\ o \notin P
    BY DEF Missing
  <2>2. \A x : x \in P <=> x \in Offset /\ bag[x] > 0
    BY <1>3 DEF Present
  <2> HIDE DEF P
  <2>3. Min(P) \in P /\ Max(P) \in P
    <3>1. P \in SUBSET (0..MaxOffset)
      BY <1>2, <2>2
    <3>2. QED BY <1>1, <2>1, <3>1, Extremes
  <2>4. \A x \in P : x \in Offset /\ Archived(p, x)
    BY <1>8, <2>2
  <2>5. Min(P) \in Nat /\ Max(P) \in Nat /\ o \in Nat /\ Min(P) <= o /\ o <= Max(P)
    <3>1. Min(P) \in Nat /\ Max(P) \in Nat
      BY <1>2, <2>3, <2>4
    <3>2. QED BY <2>1, <3>1
  <2>6. o \in Offset
    <3>1. Max(P) \in 0..(MaxOffset - 1)
      BY <2>3, <2>4 DEF Offset
    <3>2. QED BY <1>1, <2>5, <3>1 DEF Offset
  <2>7. p \in DOMAIN Committed /\ origin[p] <= Min(P) /\ Max(P) < Committed[p]
    BY <2>3, <2>4 DEF Archived
  <2>8. origin[p] \in Int /\ Committed[p] \in Int
    BY <2>7, Integral DEF IInv, PositionInv
  <2>9. origin[p] <= o /\ o < Committed[p]
    BY <2>5, <2>7, <2>8
  <2>10. ~Archived(p, o)
    BY <1>8, <2>1, <2>2, <2>6
  <2>11. Acked(p, o)
    BY <2>7, <2>9, <2>10 DEF Archived
  <2>12. PICK g \in gaps : g.part = p /\ g.committed <= o /\ o < g.logStart
    BY <2>11 DEF Acked
  <2>13. g \in R /\ g.committed \in Int /\ g.logStart \in Int
    BY <1>4, <1>5, <2>12
  <2>14. o \in g.committed..(g.logStart - 1)
    BY <2>5, <2>12, <2>13
  <2>15. QED BY <1>10, <2>13, <2>14
<1>12. Intact(bag, R)
  BY <1>9, <1>11 DEF Intact
<1>13. QED BY <1>7, <1>9, <1>12, VerdictExact DEF GapsOf

(***************************************************************************)
(* The offset_continuity audit never fails on what the ingest writes,      *)
(* whatever was evicted, accepted as lost, killed, compacted or expired    *)
(* before it (audit_offset_continuity).                                    *)
(***************************************************************************)
THEOREM AuditStaysQuietHolds ==
  ASSUME CompactionWithinRetention
  PROVE  Spec => []AuditStaysQuiet
<1>1. Init => AuditStaysQuiet
  BY DEF Init, AuditStaysQuiet
<1>2. ASSUME IInv, AuditStaysQuiet, [Next]_vars PROVE AuditStaysQuiet'
  <2>1. CASE RunAudits
    <3>1. \A p \in Partition : Passes(rows[p], GapsOf(p))
      BY <1>2, ArchivesPass
    <3>2. alarm' = {p \in Partition : ~Passes(rows[p], GapsOf(p))}
      BY <2>1 DEF RunAudits
    <3>3. QED BY <3>1, <3>2 DEF AuditStaysQuiet
  <2>2. CASE ~RunAudits
    <3>1. alarm' = alarm
      BY <1>2, <2>2
         DEF Next, vars, IngestStep, MaintenanceStep, Produce, Evict, AddPartition, NextDay,
             AcquireLock, ReadSummary, ListEarliest, ListFails, PinRange, RefuseLoss, RecordGaps,
             Fetch, FetchFails, Commit, Finish, RecordFails, Killed, StartMaintenance, Compact,
             Expire, MaintenanceKilled
    <3>2. QED BY <1>2, <3>1 DEF AuditStaysQuiet
  <2>3. QED BY <2>1, <2>2
<1>3. QED BY <1>1, <1>2, InductiveInvariant, PTL DEF Spec
=============================================================================
