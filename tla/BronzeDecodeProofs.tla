-------------------------- MODULE BronzeDecodeProofs --------------------------
(***************************************************************************)
(* Proofs about BronzeDecode for every set of venues, number of tables,    *)
(* set of schema ids and every bound: any number of runs, kills, rebuilds, *)
(* expiries and answers of the registry.                                   *)
(***************************************************************************)
EXTENDS BronzeDecode, TLAPS, WellFoundedInduction

(***************************************************************************)
(* The parts of the invariant.  DaySpan is what a rebuild's slice reads,   *)
(* Span what is read for a table that has not committed yet.               *)
(***************************************************************************)
Decoding == writer.pc \in {"slicing", "writing", "filing"}
DaySpan  == {i \in 1..writer.pinned : raw[i].day = Next1[2]}
Span(t)  == IF writer.job = "rebuild" THEN DaySpan ELSE (position[t] + 1)..writer.pinned

\* What the writer holds in memory, by pc.
ControlInv ==
  /\ Len(raw) <= MaxSnapshots
  /\ \A t \in Table : position[t] <= Len(raw)
  /\ At("idle") => writer.job = "none"
  /\ At("raw") => writer.job = "ingest"
  /\ At("nightly") => writer.job = "maintenance" /\ raw # <<>>
  /\ Decoding => writer.job \in {"ingest", "rebuild"}
  /\ At("dropping") \/ At("recreating") =>
       /\ writer.job = "rebuild" /\ writer.tables # {}
       /\ writer.tables \subseteq UNION {Tables(v) : v \in VenuesOf(writer.slices)}
  /\ writer.job = "rebuild" => rebuilds > 0
  /\ Decoding \/ At("dropping") \/ At("recreating") => writer.pinned = Len(raw)
  /\ At("writing") \/ At("filing") \/ At("dropping") \/ At("recreating") => writer.slices # {}
  /\ At("writing") => writer.tables # {} /\ writer.tables \subseteq Tables(V)
  /\ ~(At("writing") \/ At("dropping") \/ At("recreating")) => writer.tables = {}
  /\ ~(At("writing") \/ At("filing")) => writer.batch = {} /\ writer.unserved = {}

\* Each row is the only one of its frame, and the table's position has passed the frame.
RowsInv ==
  \A t \in Table : \A f \in Frame :
    rows[t][f] <= 1 /\ (rows[t][f] = 1 => f \in Frames(t[1], 1..position[t]))

\* A rebuild has written nothing of the slices it still has to decode, and drops nothing
\* that these do not name.
RebuildInv ==
  writer.job = "rebuild" =>
    /\ At("dropping") => \A v \in VenuesOf(writer.slices) : \A t \in Tables(v) :
                           t \notin writer.tables => rows[t] = NoRows
    /\ At("recreating") => \A v \in VenuesOf(writer.slices) : \A t \in Tables(v) : rows[t] = NoRows
    /\ At("dropping") \/ At("recreating") =>
         \A v \in VenuesOf(writer.slices) : \A f \in Frames(v, 1..writer.pinned) :
           <<v, raw[f[1]].day>> \in writer.slices
    /\ Decoding => \A s \in writer.slices : \A t \in Tables(s[1]) : \A f \in Frame :
         /\ f[1] \in 1..writer.pinned /\ raw[f[1]].day = s[2]
         /\ s = Next1 /\ ~At("slicing") => t \in writer.tables
         => rows[t][f] = 0

\* A batch is new to the tables that wait for it, and in those that have committed it.
BatchInv ==
  At("writing") \/ At("filing") =>
    /\ \A t \in writer.tables : \A f \in writer.batch : f \in Frames(V, Span(t)) /\ rows[t][f] = 0
    /\ \A t \in Tables(V) : t \notin writer.tables => \A f \in writer.batch : rows[t][f] = 1
    /\ \A t \in writer.tables : \A f \in Frames(V, Span(t)) :
         f \in writer.batch \/ f[2] \in writer.unserved
    /\ writer.job = "rebuild" =>
         \A f \in Frames(V, DaySpan) : f \in writer.batch \/ f[2] \in writer.unserved
    /\ httpErrors = 0 => writer.unserved \cap Registered = {}

(***************************************************************************)
(* A frame that was passed and not written is filed, or the process will   *)
(* see to it.  The first slice that a rebuild writes of a venue moves the  *)
(* position past all of them, so it answers for every frame up to its pin. *)
(***************************************************************************)
Reach(t) ==
  IF writer.job = "rebuild" /\ t[1] \in VenuesOf(writer.slices) THEN writer.pinned ELSE position[t]
Missing(t) == {f \in Frames(t[1], 1..Reach(t)) : rows[t][f] = 0}

LossInv ==
  \A t \in Table : t[1] \notin unfiled => \A f \in Missing(t) :
    \/ <<t[1], f[2]>> \in filed
    \/ writer.job = "rebuild" /\ <<t[1], raw[f[1]].day>> \in writer.slices
    \/ (At("writing") \/ At("filing")) /\ t[1] = V /\ f[2] \in writer.unserved

\* While nobody rebuilds and the registry answers, only unregistered frames are passed over.
ServedInv ==
  rebuilds = 0 /\ httpErrors = 0 =>
    \A t \in Table : \A f \in Skipped(t) : f[2] \notin Registered

IInv == TypeOK /\ ControlInv /\ RowsInv /\ RebuildInv /\ BatchInv /\ LossInv /\ ServedInv

-----------------------------------------------------------------------------
(* Constants and minima *)

LEMMA ConstantTypes ==
  /\ Venue \subseteq Nat
  /\ MaxDay \in Nat /\ MaxSnapshots \in Nat /\ MaxRebuilds \in Nat
  /\ MaxFaults \in Nat /\ MaxHttpErrors \in Nat
  /\ RetainLast \in Nat \ {0} /\ RetainDays \in Nat
BY BronzeConstants DEF BronzeConstants

\* Induction over the naturals, as a fact about sets of them.
LEMMA NatMin ==
  ASSUME NEW T \in SUBSET Nat, T # {}
  PROVE  \E x \in T : \A y \in T : x <= y
<1> DEFINE R == {p \in Nat \X Nat : p[1] < p[2]}
<1>1. IsWellFoundedOn(R, Nat)
  BY NatLessThanWellFounded DEF OpToRel
<1>2. \A x, y \in Nat : <<y, x>> \in R <=> y < x
  OBVIOUS
<1> HIDE DEF R
<1>3. PICK x \in T : \A y \in T : <<y, x>> \notin R
  BY <1>1, WFMin
<1>4. \A y \in T : ~(y < x)
  BY <1>2, <1>3
<1>5. QED BY <1>4

\* First picks one of the pairs it is given.
LEMMA FirstIsMember ==
  ASSUME NEW S, S # {}, \A a \in S : a[1] \in Nat /\ a[2] \in Int /\ a[2] >= -1
  PROVE  First(S) \in S
<1>1. PICK x \in {a[1] : a \in S} : \A y \in {a[1] : a \in S} : x <= y
  BY NatMin, {a[1] : a \in S} # {}, {a[1] : a \in S} \in SUBSET Nat
<1> DEFINE D == {a[2] + 1 : a \in {b \in S : b[1] = x}}
<1>2. D # {} /\ D \in SUBSET Nat
  BY <1>1
<1>3. PICK d \in D : \A e \in D : d <= e
  BY <1>2, NatMin
<1>4. PICK a \in S : a[1] = x /\ a[2] + 1 = d
  BY <1>3
<1>5. \A b \in S : a[1] < b[1] \/ (a[1] = b[1] /\ a[2] <= b[2])
  <2> TAKE b \in S
  <2>1. a[1] <= b[1]
    BY <1>1, <1>4
  <2>2. CASE b[1] = x
    <3>1. b[2] + 1 \in D
      BY <2>2
    <3>2. a[2] + 1 <= b[2] + 1
      BY <1>3, <1>4, <3>1
    <3>3. QED BY <1>4, <2>2, <3>2
  <2>3. CASE b[1] # x
    BY <1>4, <2>1, <2>3
  <2> QED BY <2>2, <2>3
<1>6. QED BY <1>4, <1>5 DEF First

LEMMA TablesOfVenue ==
  /\ Table \subseteq Venue \X Nat
  /\ \A v \in Venue : Tables(v) \subseteq Table /\ \A t \in Tables(v) : t[1] = v
  /\ \A v \in Venue : <<v, 1>> \in Tables(v)
BY BronzeConstants DEF BronzeConstants, Table, Tables

\* The slice in turn and its venue.
LEMMA NextSlice ==
  ASSUME TypeOK, writer.slices # {}
  PROVE  Next1 \in writer.slices /\ V \in Venue /\ V \in VenuesOf(writer.slices)
<1>1. writer.slices \subseteq Venue \X (0..MaxDay \cup {-1})
  BY DEF TypeOK, Writer, Slice, AnyDay
<1>2. \A a \in writer.slices : a[1] \in Nat /\ a[2] \in Int /\ a[2] >= -1
  <2> TAKE a \in writer.slices
  <2>1. a[1] \in Venue /\ a[2] \in 0..MaxDay \cup {-1}
    BY <1>1
  <2>2. a[1] \in Nat
    BY <2>1, ConstantTypes
  <2>3. a[2] \in Int /\ a[2] >= -1
    BY <2>1, ConstantTypes
  <2>4. QED BY <2>2, <2>3
<1>3. Next1 \in writer.slices
  BY <1>2, FirstIsMember DEF Next1
<1>4. QED BY <1>1, <1>3 DEF V, VenuesOf

\* The table in turn.
LEMMA NextTable ==
  ASSUME TypeOK, writer.tables # {}
  PROVE  First(writer.tables) \in writer.tables /\ First(writer.tables) \in Table
<1>1. writer.tables \subseteq Table
  BY DEF TypeOK, Writer
<1>2. \A a \in writer.tables : a[1] \in Nat /\ a[2] \in Int /\ a[2] >= -1
  <2> TAKE a \in writer.tables
  <2>1. a[1] \in Venue /\ a[2] \in Nat
    BY <1>1, TablesOfVenue
  <2>2. a[1] \in Nat
    BY <2>1, ConstantTypes
  <2>3. a[2] \in Int /\ a[2] >= -1
    BY <2>1, ConstantTypes
  <2>4. QED BY <2>2, <2>3
<1>3. QED BY <1>1, <1>2, FirstIsMember

-----------------------------------------------------------------------------
(* The steps *)

LEMMA BronzeInit == Init => IInv
<1> SUFFICES ASSUME Init PROVE IInv
  OBVIOUS
<1> USE DEF Init, Idle, At, Decoding
<1>1. TypeOK
  BY ConstantTypes DEF TypeOK, Writer, NoRows
<1>2. ControlInv
  BY ConstantTypes DEF ControlInv
<1>3. \A t \in Table : Passed(t) = {}
  BY DEF Passed, Frames
<1>4. RowsInv
  BY DEF RowsInv, NoRows
<1>5. RebuildInv /\ BatchInv
  BY DEF RebuildInv, BatchInv
<1>6. LossInv /\ ServedInv
  BY <1>3 DEF LossInv, ServedInv, Skipped, Missing, Reach, Passed
<1>7. QED BY <1>1, <1>2, <1>4, <1>5, <1>6 DEF IInv

\* What was passed is within reach.
LEMMA SkippedIsMissing ==
  ASSUME TypeOK, ControlInv, NEW t \in Table
  PROVE  /\ Skipped(t) \subseteq Missing(t)
         /\ writer.job # "rebuild" \/ writer.slices = {} => Missing(t) = Skipped(t)
<1>1. position[t] \in Nat /\ position[t] <= Len(raw) /\ Len(raw) \in Nat
  BY ConstantTypes DEF TypeOK, ControlInv
<1>2. CASE writer.job = "rebuild" /\ t[1] \in VenuesOf(writer.slices)
  <2>1. writer.pinned = Len(raw) /\ writer.slices # {}
    BY <1>2 DEF ControlInv, TypeOK, Writer, At, Decoding, VenuesOf
  <2>2. 1..position[t] \subseteq 1..Reach(t)
    BY <1>1, <1>2, <2>1 DEF Reach
  <2>3. QED BY <1>2, <2>1, <2>2 DEF Skipped, Passed, Missing, Frames
<1>3. CASE ~(writer.job = "rebuild" /\ t[1] \in VenuesOf(writer.slices))
  BY <1>3 DEF Skipped, Passed, Missing, Reach
<1>4. QED BY <1>2, <1>3 DEF VenuesOf

\* A process may end wherever it owes no finding that unfiled does not name.
LEMMA EndKeeps ==
  ASSUME IInv, Exit, UNCHANGED <<raw, today, bronze, filed, rebuilds, httpErrors>>,
         oldest' \in Nat, faults' \in 0..MaxFaults, unfiled \subseteq unfiled', unfiled' \subseteq Venue,
         \A t \in Table : t[1] \notin unfiled' => \A f \in Skipped(t) : <<t[1], f[2]>> \in filed
  PROVE  IInv'
<1> USE DEF IInv, Idle, At, Decoding, Exit, bronze
<1>1. TypeOK'
  BY ConstantTypes DEF TypeOK, Writer
<1>2. ControlInv'
  BY DEF ControlInv, TypeOK
<1>3. RowsInv'
  BY DEF RowsInv, Frames
<1>4. RebuildInv' /\ BatchInv'
  BY DEF RebuildInv, BatchInv
<1>5. \A t \in Table : Skipped(t)' = Skipped(t)
  BY DEF Skipped, Passed, Frames
<1>6. \A t \in Table : Missing(t)' = Skipped(t)'
  BY DEF Missing, Reach, Skipped, Passed
<1>7. LossInv' /\ ServedInv'
  BY <1>5, <1>6 DEF LossInv, ServedInv
<1>8. QED BY <1>1, <1>2, <1>3, <1>4, <1>7

\* Before a batch is decoded, nothing that was passed is owed, but what a rebuild has yet to do.
LEMMA IngestOwesNothing ==
  ASSUME IInv, ~(At("writing") \/ At("filing")),
         writer.job # "rebuild" \/ writer.slices = {}
  PROVE  \A t \in Table : t[1] \notin unfiled => \A f \in Skipped(t) : <<t[1], f[2]>> \in filed
BY SkippedIsMissing DEF IInv, LossInv

LEMMA EndOfIngest ==
  ASSUME IInv, TableNotFound \/ RefuseUneven \/ ReadFails \/ Return
  PROVE  IInv'
<1>1. At("slicing") /\ (writer.job # "rebuild" \/ writer.slices = {})
  BY DEF TableNotFound, RefuseUneven, ReadFails, Return, Deciding
<1>2. Exit /\ UNCHANGED <<raw, oldest, today, bronze, filed, counters>>
  BY DEF TableNotFound, RefuseUneven, ReadFails, Return
<1>3. \A t \in Table : t[1] \notin unfiled => \A f \in Skipped(t) : <<t[1], f[2]>> \in filed
  BY <1>1, IngestOwesNothing DEF At
<1>4. QED BY <1>2, <1>3, EndKeeps DEF counters, IInv, TypeOK

LEMMA KilledKeeps == IInv /\ Killed => IInv'
<1> SUFFICES ASSUME IInv, Killed PROVE IInv'
  OBVIOUS
<1>1. CutShort \subseteq Venue
  <2>1. CASE writer.job = "rebuild"
    BY <2>1 DEF CutShort, VenuesOf, IInv, TypeOK, Writer, Slice
  <2>2. CASE writer.job # "rebuild" /\ writer.unserved # {}
    <3>1. writer.slices # {}
      BY <2>2 DEF IInv, ControlInv, At
    <3>2. QED BY <2>2, <3>1, NextSlice DEF CutShort, IInv
  <2>3. QED BY <2>1, <2>2 DEF CutShort
<1>2. ASSUME NEW t \in Table, t[1] \notin unfiled \cup CutShort, NEW f \in Skipped(t)
      PROVE  <<t[1], f[2]>> \in filed
  <2>1. CASE writer.job = "rebuild" /\ <<t[1], raw[f[1]].day>> \in writer.slices
    BY <1>2, <2>1 DEF CutShort, VenuesOf
  <2>2. CASE (At("writing") \/ At("filing")) /\ t[1] = V /\ f[2] \in writer.unserved
    <3>1. V \in VenuesOf(writer.slices)
      BY <2>2, NextSlice DEF IInv, ControlInv
    <3>2. QED BY <1>2, <2>2, <3>1 DEF CutShort
  <2>3. QED BY <1>2, <2>1, <2>2, SkippedIsMissing DEF IInv, LossInv
<1>3. Exit /\ UNCHANGED <<raw, today, bronze, filed, rebuilds, httpErrors>> /\ oldest' = oldest
  BY DEF Killed
<1>4. faults' \in 0..MaxFaults /\ unfiled' = unfiled \cup CutShort
  BY ConstantTypes DEF Killed, IInv, TypeOK
<1>5. oldest' \in Nat /\ unfiled' \subseteq Venue
  BY <1>1, <1>3, <1>4 DEF IInv, TypeOK
<1>6. QED BY <1>2, <1>3, <1>4, <1>5, EndKeeps

\* A record of the writer is what its fields are.
LEMMA WriterTyped ==
  ASSUME TypeOK
  PROVE  /\ writer.pinned \in 0..MaxSnapshots /\ writer.slices \subseteq Slice
         /\ writer.tables \subseteq Table /\ writer.batch \subseteq Frame
         /\ writer.unserved \subseteq SchemaIds
BY DEF TypeOK, Writer

\* raw.messages only grows, and what was added stays as it was.
LEMMA AppendKeeps ==
  ASSUME TypeOK, ControlInv, AddRaw
  PROVE  /\ raw' \in Seq([added : [Venue -> SUBSET SchemaIds], day : 0..MaxDay])
         /\ Len(raw') = Len(raw) + 1 /\ Len(raw') <= MaxSnapshots
         /\ \A i \in 1..Len(raw) : raw'[i] = raw[i]
<1>1. PICK batch \in Batches : raw' = Append(raw, [added |-> batch, day |-> today])
  BY DEF AddRaw
<1>2. [added |-> batch, day |-> today] \in [added : [Venue -> SUBSET SchemaIds], day : 0..MaxDay]
  BY BronzeConstants DEF BronzeConstants, TypeOK
<1>3. QED BY <1>1, <1>2, ConstantTypes DEF AddRaw, TypeOK

\* ... which leaves all rows where they were.
LEMMA GrowthKeeps ==
  ASSUME TypeOK, ControlInv, UNCHANGED <<bronze, filed, unfiled, rebuilds, httpErrors>>,
         Len(raw) <= Len(raw'), \A i \in 1..Len(raw) : raw'[i] = raw[i],
         RowsInv, ServedInv
  PROVE  /\ RowsInv' /\ ServedInv'
         /\ \A t \in Table : Skipped(t)' = Skipped(t)
         /\ \A t \in Table : position[t]' <= Len(raw')
<1>1. \A t \in Table : position[t] \in Nat /\ position[t] <= Len(raw)
  BY ConstantTypes DEF TypeOK, ControlInv
<1>2. Len(raw) \in Nat /\ Len(raw') \in Nat
  <2>1. Len(raw) \in Nat
    BY DEF TypeOK
  <2>2. QED BY <2>1
<1>3. \A t \in Table : Frames(t[1], 1..position[t])' = Frames(t[1], 1..position[t])
  BY <1>1, <1>2 DEF Frames, bronze
<1>4. \A t \in Table : Skipped(t)' = Skipped(t)
  BY <1>3 DEF Skipped, Passed, bronze
<1>5. RowsInv'
  BY <1>3 DEF RowsInv, bronze
<1>6. QED BY <1>1, <1>2, <1>4, <1>5 DEF ServedInv, bronze

\* A run begins; the nightly job begins.
LEMMA StartKeeps == IInv /\ (StartIngest \/ StartMaintenance) => IInv'
<1> SUFFICES ASSUME IInv, StartIngest \/ StartMaintenance PROVE IInv'
  OBVIOUS
<1> USE DEF IInv
<1>1. At("idle") /\ UNCHANGED <<raw, oldest, today, bronze, filed, counters>>
  BY DEF StartIngest, StartMaintenance
<1>2. \/ writer' = [Idle EXCEPT !.job = "ingest", !.pc = "raw"]
      \/ writer' = [Idle EXCEPT !.job = "maintenance", !.pc = "nightly"] /\ raw # <<>>
  BY DEF StartIngest, StartMaintenance
<1>3. TypeOK'
  <2>1. \E job \in {"ingest", "maintenance"}, pc \in {"raw", "nightly"} :
          writer' = [job |-> job, pc |-> pc, pinned |-> 0, slices |-> {},
                     tables |-> {}, batch |-> {}, unserved |-> {}]
    BY <1>2 DEF Idle
  <2>2. 0 \in 0..MaxSnapshots
    BY ConstantTypes
  <2>3. writer' \in Writer
    BY <2>1, <2>2 DEF Writer
  <2>4. QED BY <1>1, <2>3 DEF TypeOK, bronze, counters
<1>4. RowsInv' /\ ServedInv' /\ \A t \in Table : Skipped(t)' = Skipped(t)
  BY <1>1 DEF RowsInv, ServedInv, Skipped, Passed, Frames, bronze, counters
<1>5. ControlInv'
  BY <1>1, <1>2 DEF ControlInv, Idle, At, Decoding, bronze
<1>6. RebuildInv' /\ BatchInv'
  BY <1>2 DEF RebuildInv, BatchInv, Idle, At
<1>7. LossInv'
  <2>1. \A t \in Table : Missing(t)' = Skipped(t)'
    BY <1>2 DEF Missing, Reach, Skipped, Passed, Idle
  <2>2. \A t \in Table : Missing(t) = Skipped(t)
    BY <1>1, SkippedIsMissing DEF ControlInv, At
  <2>3. QED BY <1>1, <1>2, <1>4, <2>1, <2>2 DEF LossInv, ControlInv, Idle, At, bronze, counters
<1>8. QED BY <1>3, <1>4, <1>5, <1>6, <1>7

\* A commit to raw.messages outside an ingest: of --stage raw, or a rewrite.
LEMMA QuietGrowthKeeps == IInv /\ (StageRawOnly \/ Compact) => IInv'
<1> SUFFICES ASSUME IInv, StageRawOnly \/ Compact PROVE IInv'
  OBVIOUS
<1> USE DEF IInv
<1>1. (At("idle") \/ At("nightly")) /\ UNCHANGED <<oldest, today, bronze, filed, writer, counters>>
  BY DEF StageRawOnly, Compact
<1>2. /\ raw' \in Seq([added : [Venue -> SUBSET SchemaIds], day : 0..MaxDay])
      /\ Len(raw') = Len(raw) + 1 /\ Len(raw') <= MaxSnapshots
      /\ \A i \in 1..Len(raw) : raw'[i] = raw[i]
  <2>1. CASE StageRawOnly
    BY <2>1, AppendKeeps DEF StageRawOnly
  <2>2. CASE Compact
    <3> DEFINE e == [added |-> [v \in Venue |-> {}], day |-> today]
    <3>1. e \in [added : [Venue -> SUBSET SchemaIds], day : 0..MaxDay]
      BY DEF TypeOK
    <3> HIDE DEF e
    <3>2. raw' = Append(raw, e) /\ Len(raw) < MaxSnapshots
      BY <2>2 DEF Compact, e
    <3>3. QED BY <3>1, <3>2, ConstantTypes DEF TypeOK
  <2>3. QED BY <2>1, <2>2
<1>3. Len(raw) \in Nat
  BY DEF TypeOK
<1>4. TypeOK'
  BY <1>1, <1>2 DEF TypeOK, bronze, counters
<1>5. RowsInv' /\ ServedInv' /\ (\A t \in Table : Skipped(t)' = Skipped(t))
      /\ \A t \in Table : position[t]' <= Len(raw')
  BY <1>1, <1>2, <1>3, GrowthKeeps DEF counters
<1>6. ControlInv'
  BY <1>1, <1>2, <1>3, <1>5 DEF ControlInv, At, Decoding, counters
<1>7. writer.job # "rebuild" /\ ~At("writing") /\ ~At("filing")
  BY <1>1 DEF ControlInv, At
<1>8. RebuildInv' /\ BatchInv'
  BY <1>1, <1>7 DEF RebuildInv, BatchInv, At
<1>9. LossInv'
  <2>1. \A t \in Table : Missing(t)' = Skipped(t)'
    BY <1>1, <1>7 DEF Missing, Reach, Skipped, Passed, bronze
  <2>2. \A t \in Table : Missing(t) = Skipped(t)
    BY <1>7, SkippedIsMissing
  <2>3. QED BY <1>1, <1>5, <1>7, <2>1, <2>2 DEF LossInv, At, bronze, counters
<1>10. QED BY <1>4, <1>5, <1>6, <1>8, <1>9

\* Stage 1 of a run, with a commit or without.
LEMMA StageRawKeeps == IInv /\ (StageRaw \/ NoNewRecords) => IInv'
<1> SUFFICES ASSUME IInv, StageRaw \/ NoNewRecords PROVE IInv'
  OBVIOUS
<1> USE DEF IInv
<1>1. At("raw") /\ UNCHANGED <<oldest, today, bronze, filed, counters>>
  BY DEF StageRaw, NoNewRecords
<1>2. Len(raw) \in Nat
  BY DEF TypeOK
<1>3. /\ raw' \in Seq([added : [Venue -> SUBSET SchemaIds], day : 0..MaxDay])
      /\ Len(raw) <= Len(raw') /\ Len(raw') <= MaxSnapshots
      /\ \A i \in 1..Len(raw) : raw'[i] = raw[i]
  <2>1. CASE StageRaw
    BY <1>2, <2>1, AppendKeeps DEF StageRaw
  <2>2. CASE NoNewRecords
    BY <1>2, <2>2 DEF NoNewRecords, TypeOK, ControlInv
  <2>3. QED BY <2>1, <2>2
<1>4. Len(raw') \in 0..MaxSnapshots
  BY <1>3, ConstantTypes
<1>5. ThenStage(Len(raw'))
  BY DEF StageRaw, NoNewRecords
<1>6. writer' = [job |-> "ingest", pc |-> "slicing", pinned |-> Len(raw'),
                 slices |-> writer'.slices, tables |-> {}, batch |-> {}, unserved |-> {}]
      /\ writer'.slices \subseteq Slice
  <2>1. Venue \X {AnyDay} \subseteq Slice
    BY DEF Slice
  <2>2. writer.job = "ingest" /\ writer.tables = {} /\ writer.batch = {} /\ writer.unserved = {}
    BY <1>1 DEF ControlInv, At, Decoding
  <2>3. QED BY <1>5, <2>1, <2>2 DEF ThenStage, TypeOK, Writer
<1>7. TypeOK'
  BY <1>1, <1>3, <1>4, <1>6 DEF TypeOK, Writer, bronze, counters
<1>8. RowsInv' /\ ServedInv' /\ (\A t \in Table : Skipped(t)' = Skipped(t))
      /\ \A t \in Table : position[t]' <= Len(raw')
  BY <1>1, <1>2, <1>3, GrowthKeeps DEF counters
<1>9. ControlInv'
  BY <1>3, <1>6, <1>8 DEF ControlInv, At, Decoding
<1>10. RebuildInv' /\ BatchInv'
  BY <1>6 DEF RebuildInv, BatchInv, At
<1>11. LossInv'
  <2>1. \A t \in Table : Missing(t)' = Skipped(t)'
    BY <1>6 DEF Missing, Reach, Skipped, Passed, bronze
  <2>2. QED BY <1>1, <1>8, <2>1, IngestOwesNothing DEF LossInv, ControlInv, At, bronze, counters
<1>12. QED BY <1>7, <1>8, <1>9, <1>10, <1>11

LEMMA NextDayKeeps == IInv /\ NextDay => IInv'
<1> SUFFICES ASSUME IInv, NextDay PROVE IInv'
  OBVIOUS
<1> USE DEF IInv, NextDay, bronze, counters
<1>1. TypeOK'
  BY ConstantTypes DEF TypeOK
<1>2. ControlInv' /\ RowsInv'
  BY DEF ControlInv, RowsInv, At, Decoding, Frames, V, Next1, VenuesOf
<1>3. RebuildInv'
  <2>1. Next1' = Next1 /\ VenuesOf(writer.slices)' = VenuesOf(writer.slices)
    BY DEF Next1, VenuesOf
  <2>2. \A v \in VenuesOf(writer.slices) : Frames(v, 1..writer.pinned)' = Frames(v, 1..writer.pinned)
    BY DEF Frames
  <2>3. \A v : Tables(v)' = Tables(v)
    BY DEF Tables
  <2>4. QED BY <2>1, <2>2, <2>3 DEF RebuildInv, At, Decoding
<1>4. BatchInv'
  BY DEF BatchInv, At, Frames, Span, DaySpan, V, Next1
<1>5. LossInv' /\ ServedInv'
  BY DEF LossInv, ServedInv, Missing, Reach, VenuesOf, Skipped, Passed, At, Frames, V, Next1
<1>6. QED BY <1>1, <1>2, <1>3, <1>4, <1>5

\* expire_snapshots keeps the newest.
LEMMA ExpireKeeps == IInv /\ Expire => IInv'
<1> SUFFICES ASSUME IInv, Expire PROVE IInv'
  OBVIOUS
<1> USE DEF IInv
<1>1. At("nightly") /\ raw # <<>> /\ Len(raw) \in Nat
  BY DEF Expire, ControlInv, TypeOK
<1>2. Kept(Len(raw)) /\ Len(raw) \in DOMAIN raw
  BY <1>1, ConstantTypes DEF Kept, TypeOK
<1>3. \E k \in DOMAIN raw : Kept(k) /\ \A i \in 1..(k - 1) : ~Kept(i)
  <2> DEFINE K == {k \in DOMAIN raw : Kept(k)}
  <2>1. K # {} /\ K \in SUBSET Nat
    BY <1>1, <1>2 DEF TypeOK
  <2>2. PICK k \in K : \A i \in K : k <= i
    BY <2>1, NatMin
  <2>3. ASSUME NEW i \in 1..(k - 1) PROVE ~Kept(i)
    <3>1. i \in DOMAIN raw /\ i < k
      BY <1>1, <2>1, <2>2 DEF TypeOK
    <3>2. SUFFICES ASSUME Kept(i) PROVE FALSE
      OBVIOUS
    <3>3. k <= i
      BY <2>2, <3>1, <3>2
    <3>4. QED BY <2>1, <2>2, <3>1, <3>3
  <2>4. QED BY <2>2, <2>3
<1>4. oldest' \in Nat
  BY <1>1, <1>3 DEF Expire, TypeOK
<1>5. \A t \in Table : t[1] \notin unfiled => \A f \in Skipped(t) : <<t[1], f[2]>> \in filed
  BY <1>1, IngestOwesNothing DEF ControlInv, At
<1>6. QED BY <1>4, <1>5, EndKeeps DEF Expire, TypeOK, counters

-----------------------------------------------------------------------------
(* A slice *)

\* What the writer is when it is done with a slice.
LEMMA FinishedWriter ==
  ASSUME TypeOK, Finished
  PROVE  /\ writer' = [job |-> writer.job, pc |-> "slicing", pinned |-> writer.pinned,
                       slices |-> writer.slices \ {Next1}, tables |-> {}, batch |-> {},
                       unserved |-> {}]
         /\ writer' \in Writer
BY DEF Finished, TypeOK, Writer

\* The frames passed and missing, when neither raw.messages nor the tables change.
LEMMA SkippedFrame ==
  ASSUME UNCHANGED <<raw, bronze>>
  PROVE  \A t \in Table : Skipped(t)' = Skipped(t)
BY DEF Skipped, Passed, Frames, bronze

(***************************************************************************)
(* Being done with a slice keeps the invariant, once its frames are in the *)
(* venue's tables, filed, or known not to be.                              *)
(***************************************************************************)
LEMMA FinishedKeeps ==
  ASSUME IInv, Finished, Decoding, writer.slices # {},
         UNCHANGED <<raw, oldest, today, bronze, rebuilds>>,
         filed \subseteq filed', filed' \subseteq Venue \X SchemaIds,
         unfiled \subseteq unfiled', unfiled' \subseteq Venue,
         faults' \in 0..MaxFaults, httpErrors' \in 0..MaxHttpErrors, httpErrors <= httpErrors',
         \A t \in Tables(V) : V \notin unfiled' => \A f \in Missing(t) :
           f[2] \in writer.unserved \/ (writer.job = "rebuild" /\ f[1] \in DaySpan)
             => <<V, f[2]>> \in filed'
  PROVE  IInv'
<1> USE DEF IInv
<1>1. /\ writer' = [job |-> writer.job, pc |-> "slicing", pinned |-> writer.pinned,
                    slices |-> writer.slices \ {Next1}, tables |-> {}, batch |-> {},
                    unserved |-> {}]
      /\ writer' \in Writer
  BY FinishedWriter
<1>2. TypeOK'
  BY <1>1 DEF TypeOK, bronze
<1>3. ControlInv'
  BY <1>1 DEF ControlInv, At, Decoding, bronze
<1>4. RowsInv'
  BY DEF RowsInv, Frames, bronze
<1>5. RebuildInv'
  BY <1>1 DEF RebuildInv, At, Decoding, bronze
<1>6. BatchInv'
  BY <1>1 DEF BatchInv, At
<1>7. \A t \in Table : Skipped(t)' = Skipped(t)
  BY SkippedFrame
<1>8. LossInv'
  <2> SUFFICES ASSUME NEW t \in Table, t[1] \notin unfiled', NEW f \in Missing(t),
                      <<t[1], f[2]>> \notin filed'
               PROVE  writer.job = "rebuild" /\ <<t[1], raw[f[1]].day>> \in writer.slices \ {Next1}
    <3>1. \A t \in Table : Missing(t)' \subseteq Missing(t)
      <4> TAKE t \in Table
      <4>1. CASE t[1] \in VenuesOf(writer.slices \ {Next1})
        BY <1>1, <4>1 DEF Missing, Reach, VenuesOf, Frames, bronze
      <4>2. CASE t[1] \notin VenuesOf(writer.slices \ {Next1})
        <5>1. Missing(t)' = Skipped(t)'
          BY <1>1, <4>2 DEF Missing, Reach, Skipped, Passed
        <5>2. QED BY <1>7, <5>1, SkippedIsMissing
      <4>3. QED BY <4>1, <4>2
    <3>2. QED BY <1>1, <3>1 DEF LossInv
  <2>1. \/ writer.job = "rebuild" /\ <<t[1], raw[f[1]].day>> \in writer.slices
        \/ t[1] = V /\ f[2] \in writer.unserved
    BY DEF LossInv
  <2>2. t[1] # V \/ ~(f[2] \in writer.unserved \/ (writer.job = "rebuild" /\ f[1] \in DaySpan))
    <3>1. CASE t[1] = V
      <4>1. t \in Tables(V)
        BY <3>1, TablesOfVenue DEF Table
      <4>2. QED BY <3>1, <4>1
    <3>2. QED BY <3>1
  <2>3. writer.job = "rebuild" /\ <<t[1], raw[f[1]].day>> \in writer.slices
    BY <2>1, <2>2
  <2>4. <<t[1], raw[f[1]].day>> # Next1
    <3> SUFFICES ASSUME <<t[1], raw[f[1]].day>> = Next1 PROVE FALSE
      OBVIOUS
    <3>1. t[1] = V /\ raw[f[1]].day = Next1[2]
      BY DEF V
    <3>2. f[1] \in 1..writer.pinned
      <4>1. t[1] \in VenuesOf(writer.slices)
        BY <2>3 DEF VenuesOf
      <4>2. QED BY <2>3, <4>1 DEF Missing, Reach, Frames
    <3>3. QED BY <2>2, <2>3, <3>1, <3>2 DEF DaySpan
  <2>5. QED BY <2>3, <2>4
<1>9. ServedInv'
  BY <1>7 DEF ServedInv, TypeOK
<1>10. QED BY <1>2, <1>3, <1>4, <1>5, <1>6, <1>8, <1>9

\* A venue without news is passed by.
LEMMA SkipLevelKeeps == IInv /\ SkipLevel => IInv'
<1> SUFFICES ASSUME IInv, SkipLevel PROVE IInv'
  OBVIOUS
<1>1. At("slicing") /\ writer.job = "ingest" /\ writer.slices # {} /\ writer.unserved = {}
  BY DEF SkipLevel, Deciding, IInv, ControlInv, At
<1>2. Finished /\ UNCHANGED <<raw, oldest, today, bronze, filed, counters>>
  BY DEF SkipLevel
<1>3. QED BY <1>1, <1>2, FinishedKeeps DEF At, Decoding, IInv, TypeOK, counters

\* write_audit_rows, and its failure.
LEMMA FilingKeeps == IInv /\ (FileFindings \/ FilingFails) => IInv'
<1> SUFFICES ASSUME IInv, FileFindings \/ FilingFails PROVE IInv'
  OBVIOUS
<1>1. At("filing") /\ Finished /\ UNCHANGED <<raw, oldest, today, bronze, rebuilds, httpErrors>>
  BY DEF FileFindings, FilingFails, counters
<1>2. writer.slices # {} /\ writer.tables = {}
  BY <1>1 DEF IInv, ControlInv, At
<1>3. V \in Venue /\ writer.unserved \subseteq SchemaIds
  BY <1>2, NextSlice, WriterTyped DEF IInv
<1>4. /\ filed \subseteq filed' /\ filed' \subseteq Venue \X SchemaIds
      /\ unfiled \subseteq unfiled' /\ unfiled' \subseteq Venue
      /\ faults' \in 0..MaxFaults
  <2>1. CASE FileFindings
    BY <1>3, <2>1 DEF FileFindings, IInv, TypeOK, counters
  <2>2. CASE FilingFails
    <3>1. faults + 1 \in 0..MaxFaults
      BY <2>2, ConstantTypes DEF FilingFails, IInv, TypeOK
    <3>2. QED BY <1>3, <2>2, <3>1 DEF FilingFails, IInv, TypeOK
  <2>3. QED BY <2>1, <2>2
<1>5. V \in unfiled' \/ {V} \X writer.unserved \subseteq filed'
  BY DEF FileFindings, FilingFails
<1>6. ASSUME NEW t \in Tables(V), V \notin unfiled', NEW f \in Missing(t),
             f[2] \in writer.unserved \/ (writer.job = "rebuild" /\ f[1] \in DaySpan)
      PROVE  <<V, f[2]>> \in filed'
  <2>1. f[2] \in writer.unserved
    <3> SUFFICES ASSUME writer.job = "rebuild", f[1] \in DaySpan PROVE f[2] \in writer.unserved
      BY <1>6
    <3>1. t[1] = V
      BY <1>3, TablesOfVenue
    <3>2. f \in Frames(V, DaySpan) /\ rows[t][f] = 0
      BY <3>1 DEF Missing, Frames
    <3>3. f \notin writer.batch
      BY <1>1, <1>2, <3>2 DEF IInv, BatchInv
    <3>4. QED BY <1>1, <3>2, <3>3 DEF IInv, BatchInv
  <2>2. QED BY <1>5, <1>6, <2>1
<1>7. httpErrors' \in 0..MaxHttpErrors /\ httpErrors <= httpErrors'
  BY <1>1, ConstantTypes DEF IInv, TypeOK
<1>8. QED BY <1>1, <1>2, <1>4, <1>6, <1>7, FinishedKeeps DEF At, Decoding

-----------------------------------------------------------------------------
(* A batch *)

\* Decoding frames that wait, all of them and no other, keeps the invariant.
LEMMA DecodeKeeps ==
  ASSUME IInv, At("slicing"), writer.slices # {}, NEW frames, Decode(frames),
         UNCHANGED <<raw, oldest, today, bronze, filed, unfiled, rebuilds, faults>>,
         \A t \in Tables(V) : frames = Frames(V, Span(t)) /\ \A f \in frames : rows[t][f] = 0,
         \A t \in Tables(V) : Span(t) \subseteq 1..writer.pinned
  PROVE  IInv'
<1> USE DEF IInv
<1>1. PICK failing \in SUBSET {f[2] : f \in frames} :
         LET serves == Registered \ failing
             batch  == {f \in frames : f[2] \in serves}
             ids    == {f[2] : f \in frames} \ serves
         IN  /\ failing \subseteq Registered
             /\ httpErrors' = httpErrors + (IF failing = {} THEN 0 ELSE 1)
             /\ httpErrors' <= MaxHttpErrors
             /\ IF batch = {} /\ ids = {} THEN Finished
                ELSE writer' = [writer EXCEPT
                       !.pc = IF batch = {} THEN "filing" ELSE "writing",
                       !.tables = IF batch = {} THEN {} ELSE Tables(V),
                       !.batch = batch, !.unserved = ids]
  BY DEF Decode
<1> DEFINE serves == Registered \ failing
           batch  == {f \in frames : f[2] \in serves}
           ids    == {f[2] : f \in frames} \ serves
<1>2. V \in Venue /\ Tables(V) \subseteq Table /\ <<V, 1>> \in Tables(V) /\ \A t \in Tables(V) : t[1] = V
  BY NextSlice, TablesOfVenue
<1>3. httpErrors' \in 0..MaxHttpErrors /\ httpErrors <= httpErrors'
  BY <1>1, ConstantTypes DEF TypeOK
<1>4. frames \subseteq Frame /\ frames = Frames(V, Span(<<V, 1>>))
  BY <1>2 DEF Frames
<1>5. CASE batch = {} /\ ids = {}
  <2>1. Finished /\ frames = {}
    BY <1>1, <1>5
  <2>2. ASSUME NEW t \in Tables(V), NEW f \in Missing(t), writer.job = "rebuild", f[1] \in DaySpan
        PROVE  FALSE
    <3>1. f \in Frames(V, DaySpan)
      BY <1>2, <2>2 DEF Missing, Frames
    <3>2. QED BY <2>1, <2>2, <3>1 DEF Span
  <2>3. writer.unserved = {}
    BY DEF ControlInv, At
  <2>4. QED BY <1>3, <2>1, <2>2, <2>3, FinishedKeeps DEF At, Decoding, TypeOK
<1>6. CASE ~(batch = {} /\ ids = {})
  <2>1. writer' = [writer EXCEPT !.pc = IF batch = {} THEN "filing" ELSE "writing",
                                 !.tables = IF batch = {} THEN {} ELSE Tables(V),
                                 !.batch = batch, !.unserved = ids]
    BY <1>1, <1>6
  <2> HIDE DEF batch, ids
  <2>2. /\ writer'.job = writer.job /\ writer'.pinned = writer.pinned /\ writer'.slices = writer.slices
        /\ writer'.batch = batch /\ writer'.unserved = ids
        /\ writer'.pc = (IF batch = {} THEN "filing" ELSE "writing")
        /\ writer'.tables = (IF batch = {} THEN {} ELSE Tables(V))
    BY <2>1 DEF TypeOK, Writer
  <2>3. batch \subseteq Frame /\ ids \subseteq SchemaIds
    BY <1>4 DEF batch, ids, Frame
  <2>4. TypeOK'
    <3>1. writer' \in Writer
      BY <1>2, <2>1, <2>3 DEF TypeOK, Writer
    <3>2. QED BY <1>3, <3>1 DEF TypeOK, bronze
  <2>5. V' = V /\ Next1' = Next1
    BY <2>2 DEF V, Next1
  <2>6. Tables(V)' = Tables(V) /\ <<V, 1>> \in Tables(V)
    BY <1>2, <2>5 DEF Tables
  <2>7. ControlInv'
    <3>1. \A t \in Table : position'[t] <= Len(raw')
      BY DEF ControlInv, bronze
    <3>2. writer.job \in {"ingest", "rebuild"} /\ writer.pinned = Len(raw)
      BY DEF ControlInv, At, Decoding
    <3>3. QED BY <2>2, <2>6, <3>1, <3>2 DEF ControlInv, At, Decoding
  <2>8. RowsInv'
    BY DEF RowsInv, Frames, bronze
  <2>9. RebuildInv'
    BY <2>2, <2>5 DEF RebuildInv, At, Decoding, bronze
  <2>10. \A t \in Table : Skipped(t)' = Skipped(t)
    BY SkippedFrame
  <2>11. BatchInv'
    <3>1. \A t \in Tables(V) : Frames(V, Span(t))' = Frames(V, Span(t))
      BY <2>2, <2>5 DEF Frames, Span, DaySpan, bronze
    <3>2. writer.job = "rebuild" => Frames(V, DaySpan)' = frames
      BY <1>4, <2>2, <2>5 DEF Frames, Span, DaySpan
    <3>3. batch \subseteq frames /\ \A f \in frames : f \in batch \/ f[2] \in ids
      BY DEF batch, ids
    <3>4. httpErrors' = 0 => ids \cap Registered = {}
      BY <1>1, <1>3 DEF ids, TypeOK
    <3>5. \A t \in Tables(V) : \A f \in frames : rows'[t][f] = 0
      BY DEF bronze
    <3>6. writer'.tables \subseteq Tables(V)
      BY <2>2
    <3>7. \A t \in Tables(V) : t \notin writer'.tables => batch = {}
      BY <2>2
    <3>8. \A t \in Tables(V) : Frames(V, Span(t)) = frames
      OBVIOUS
    <3>9. QED BY <2>2, <2>5, <2>6, <3>1, <3>2, <3>3, <3>4, <3>5, <3>6, <3>7, <3>8 DEF BatchInv
  <2>12. LossInv'
    <3>1. \A t \in Table : Missing(t)' = Missing(t)
      BY <2>2 DEF Missing, Reach, VenuesOf, Frames, bronze
    <3>2. QED BY <2>2, <3>1 DEF LossInv, At, bronze
  <2>13. ServedInv'
    BY <1>3, <2>10 DEF ServedInv, TypeOK
  <2>14. QED BY <2>4, <2>7, <2>8, <2>9, <2>11, <2>12, <2>13
<1>7. QED BY <1>5, <1>6

\* What is after the venue's position is new to all of its tables.
LEMMA DecodeNewKeeps == IInv /\ DecodeNew => IInv'
<1> SUFFICES ASSUME IInv, DecodeNew PROVE IInv'
  OBVIOUS
<1> USE DEF IInv
<1>1. At("slicing") /\ writer.job = "ingest" /\ writer.slices # {} /\ ~Uneven(V)
  BY DEF DecodeNew, Deciding
<1>2. V \in Venue /\ Tables(V) \subseteq Table /\ <<V, 1>> \in Tables(V) /\ \A t \in Tables(V) : t[1] = V
  BY <1>1, NextSlice, TablesOfVenue
<1>3. \A t \in Tables(V) : position[t] = Start(V) /\ position[t] \in Nat
  BY <1>1, <1>2, ConstantTypes DEF Uneven, Start, TypeOK
<1>4. \A t \in Tables(V) : Span(t) = (Start(V) + 1)..writer.pinned
  BY <1>1, <1>3 DEF Span
<1> DEFINE new == Frames(V, (Start(V) + 1)..writer.pinned)
<1>5. ASSUME NEW t \in Tables(V), NEW f \in new PROVE rows[t][f] = 0
  <2>1. f \in Frame /\ f[1] \in (Start(V) + 1)..writer.pinned
    BY DEF Frames
  <2>2. f[1] \notin 1..position[t]
    BY <1>3, <2>1
  <2>3. t \in Table /\ rows[t][f] \in Nat
    BY <1>2, <2>1 DEF TypeOK
  <2>4. QED BY <2>1, <2>2, <2>3 DEF RowsInv, Frames
<1>6. \A t \in Tables(V) : Span(t) \subseteq 1..writer.pinned
  <2>1. Start(V) \in Nat
    BY <1>2, <1>3
  <2>2. (Start(V) + 1)..writer.pinned \subseteq 1..writer.pinned
    BY <2>1
  <2>3. QED BY <1>4, <2>2
<1>7. Decode(new) /\ UNCHANGED <<raw, oldest, today, bronze, filed, unfiled, rebuilds, faults>>
  BY DEF DecodeNew
<1> HIDE DEF new
<1>8. \A t \in Tables(V) : new = Frames(V, Span(t))
  BY <1>4 DEF new
<1>9. QED BY <1>1, <1>5, <1>6, <1>7, <1>8, DecodeKeeps

\* The day in turn is missing in all tables of its venue.
LEMMA DecodeDayKeeps == IInv /\ DecodeDay => IInv'
<1> SUFFICES ASSUME IInv, DecodeDay PROVE IInv'
  OBVIOUS
<1> USE DEF IInv
<1>1. At("slicing") /\ writer.job = "rebuild" /\ writer.slices # {}
  BY DEF DecodeDay, Deciding
<1>2. V \in Venue /\ Next1 \in writer.slices /\ Next1[1] = V
  BY <1>1, NextSlice DEF V
<1>3. Frames(V, DaySpan) = Frames(V, {i \in 1..writer.pinned : raw[i].day = Next1[2]})
  BY DEF DaySpan
<1>4. \A t \in Tables(V) : Span(t) = DaySpan
  BY <1>1 DEF Span
<1>5. ASSUME NEW t \in Tables(V), NEW f \in Frames(V, DaySpan) PROVE rows[t][f] = 0
  <2>1. f \in Frame /\ f[1] \in 1..writer.pinned /\ raw[f[1]].day = Next1[2]
    BY DEF Frames, DaySpan
  <2>2. QED BY <1>1, <1>2, <2>1 DEF RebuildInv, At, Decoding
<1>6. Decode(Frames(V, DaySpan)) /\ UNCHANGED <<raw, oldest, today, bronze, filed, unfiled, rebuilds, faults>>
  BY <1>3 DEF DecodeDay
<1>7. DaySpan \subseteq 1..writer.pinned
  BY DEF DaySpan
<1>8. QED BY <1>1, <1>4, <1>5, <1>6, <1>7, DecodeKeeps

\* One table's commit: the append with its position.
LEMMA WriteTableKeeps == IInv /\ WriteTable => IInv'
<1> SUFFICES ASSUME IInv, WriteTable PROVE IInv'
  OBVIOUS
<1> USE DEF IInv
<1> DEFINE t    == First(writer.tables)
           left == writer.tables \ {t}
<1>1. At("writing") /\ UNCHANGED <<raw, oldest, today, present, filed, counters>>
  BY DEF WriteTable
<1>2. /\ rows' = [rows EXCEPT ![t] = [f \in Frame |->
                    IF f \in writer.batch THEN rows[t][f] + 1 ELSE rows[t][f]]]
      /\ position' = [position EXCEPT ![t] = writer.pinned]
  BY DEF WriteTable
<1>3. \/ left # {} /\ writer' = [writer EXCEPT !.tables = left]
      \/ left = {} /\ writer.unserved # {} /\ writer' = [writer EXCEPT !.tables = {}, !.pc = "filing"]
      \/ left = {} /\ writer.unserved = {} /\ Finished
  BY DEF WriteTable
<1>4. /\ writer.slices # {} /\ writer.tables # {} /\ writer.tables \subseteq Tables(V)
      /\ writer.job \in {"ingest", "rebuild"} /\ writer.pinned = Len(raw)
  BY <1>1 DEF ControlInv, At, Decoding
<1>5. t \in writer.tables /\ t \in Table
  BY <1>4, NextTable
<1> HIDE DEF t
<1>6. V \in Venue /\ Next1 \in writer.slices /\ Next1[1] = V /\ t \in Tables(V) /\ t[1] = V
      /\ Tables(V) \subseteq Table
  BY <1>4, <1>5, NextSlice, TablesOfVenue DEF V
<1>7. /\ writer.pinned \in 0..MaxSnapshots /\ writer.batch \subseteq Frame
      /\ writer.tables \subseteq Table /\ writer.unserved \subseteq SchemaIds
  BY WriterTyped
<1>8. /\ \A u \in Table : u # t => rows'[u] = rows[u] /\ position'[u] = position[u]
      /\ position'[t] = writer.pinned
      /\ \A f \in Frame : rows'[t][f] = IF f \in writer.batch THEN rows[t][f] + 1 ELSE rows[t][f]
  BY <1>2, <1>5 DEF TypeOK
<1>9. \A f \in writer.batch : rows[t][f] = 0 /\ rows'[t][f] = 1 /\ f \in Frames(V, Span(t))
  BY <1>1, <1>5, <1>7, <1>8 DEF BatchInv
<1>10. position[t] \in Nat /\ position[t] <= writer.pinned /\ writer.pinned \in Nat
  BY <1>4, <1>5, <1>7, ConstantTypes DEF ControlInv, TypeOK
<1>11. Span(t) \subseteq 1..writer.pinned
  BY <1>10 DEF Span, DaySpan
<1>12. \/ /\ writer'.job = writer.job /\ writer'.pinned = writer.pinned
          /\ writer'.slices = writer.slices /\ writer'.batch = writer.batch
          /\ writer'.unserved = writer.unserved /\ writer'.tables = left
          /\ \/ left # {} /\ writer'.pc = "writing"
             \/ left = {} /\ writer'.pc = "filing"
       \/ /\ left = {} /\ writer.unserved = {}
          /\ writer' = [job |-> writer.job, pc |-> "slicing", pinned |-> writer.pinned,
                        slices |-> writer.slices \ {Next1}, tables |-> {}, batch |-> {},
                        unserved |-> {}]
  BY <1>1, <1>3, FinishedWriter DEF TypeOK, Writer, At
<1>13. TypeOK'
  <2>1. writer' \in Writer
    BY <1>3, <1>5, <1>7, FinishedWriter DEF TypeOK, Writer
  <2>2. rows' \in [Table -> [Frame -> Nat]]
    BY <1>2, <1>5 DEF TypeOK
  <2>3. position' \in [Table -> 0..MaxSnapshots]
    BY <1>2, <1>7 DEF TypeOK
  <2>4. QED BY <1>1, <2>1, <2>2, <2>3 DEF TypeOK, counters
<1>14. ControlInv'
  <2>1. \A u \in Table : position'[u] <= Len(raw')
    BY <1>1, <1>4, <1>8, <1>10 DEF ControlInv
  <2>2. rebuilds' = rebuilds /\ raw' = raw
    BY <1>1 DEF counters
  <2>3. CASE writer'.pc = "slicing"
    BY <1>4, <1>12, <2>1, <2>2, <2>3 DEF ControlInv, At, Decoding
  <2>4. CASE writer'.pc # "slicing"
    <3>1. V' = V /\ Tables(V)' = Tables(V)
      BY <1>12, <2>4 DEF V, Next1, Tables
    <3>2. QED BY <1>4, <1>12, <2>1, <2>2, <2>4, <3>1 DEF ControlInv, At, Decoding
  <2>5. QED BY <2>3, <2>4
<1>15. RowsInv'
  <2> SUFFICES ASSUME NEW u \in Table, NEW f \in Frame
               PROVE  rows'[u][f] <= 1 /\ (rows'[u][f] = 1 => f \in Frames(u[1], 1..position[u])')
    BY DEF RowsInv
  <2>1. CASE u # t
    BY <1>1, <1>8, <2>1 DEF RowsInv, Frames
  <2>2. CASE u = t /\ f \in writer.batch
    BY <1>1, <1>6, <1>8, <1>9, <1>11, <2>2 DEF Frames
  <2>3. CASE u = t /\ f \notin writer.batch
    <3>1. rows'[t][f] = rows[t][f]
      BY <1>8, <2>3
    <3>2. 1..position[t] \subseteq 1..writer.pinned
      BY <1>10
    <3>3. QED BY <1>1, <1>5, <1>8, <2>3, <3>1, <3>2 DEF RowsInv, Frames
  <2>4. QED BY <2>1, <2>2, <2>3
<1>16. RebuildInv'
  <2> SUFFICES ASSUME writer.job = "rebuild",
                      NEW s \in writer'.slices, NEW u \in Tables(s[1]), NEW f \in Frame,
                      f[1] \in 1..writer.pinned, raw[f[1]].day = s[2],
                      s = Next1 => u \in left /\ writer'.slices = writer.slices
               PROVE  rows'[u][f] = 0
    <3>1. writer'.job = writer.job /\ writer'.pinned = writer.pinned /\ raw' = raw
      BY <1>1, <1>12
    <3>2. writer'.pc \in {"slicing", "writing", "filing"}
      BY <1>12
    <3>3. writer'.pc # "slicing" => Next1' = Next1 /\ writer'.tables = left
                                    /\ writer'.slices = writer.slices
      BY <1>12 DEF Next1
    <3>4. writer'.pc = "slicing" => Next1 \notin writer'.slices
      BY <1>12
    <3>5. QED BY <3>1, <3>2, <3>3, <3>4 DEF RebuildInv, At, Decoding, Tables
  <2>1. s \in writer.slices /\ s[1] \in Venue /\ u \in Table
    <3>1. s \in writer.slices
      BY <1>12
    <3>2. s[1] \in Venue
      BY <3>1, WriterTyped DEF Slice
    <3>3. QED BY <3>1, <3>2, TablesOfVenue
  <2>2. rows[u][f] = 0
    BY <1>1, <2>1 DEF RebuildInv, At, Decoding
  <2>3. CASE u # t
    BY <1>8, <2>1, <2>2, <2>3
  <2>4. CASE u = t
    <3>1. s # Next1 /\ s[1] = V
      BY <1>6, <2>1, <2>4, TablesOfVenue
    <3>2. s = <<s[1], s[2]>> /\ Next1 = <<V, Next1[2]>>
      BY <1>6, <2>1, WriterTyped DEF Slice
    <3>3. raw[f[1]].day # Next1[2]
      BY <3>1, <3>2
    <3>4. f \notin writer.batch
      BY <1>9, <3>3 DEF Frames, Span, DaySpan
    <3>5. QED BY <1>8, <2>2, <2>4, <3>4
  <2>5. QED BY <2>3, <2>4
<1>17. BatchInv'
  <2> SUFFICES ASSUME writer'.pc # "slicing" PROVE BatchInv'
    BY DEF BatchInv, At
  <2>1. /\ writer'.job = writer.job /\ writer'.pinned = writer.pinned
        /\ writer'.batch = writer.batch
        /\ writer'.unserved = writer.unserved /\ writer'.tables = left
        /\ V' = V /\ Next1' = Next1 /\ raw' = raw /\ httpErrors' = httpErrors
    BY <1>1, <1>12 DEF V, Next1, counters
  <2>2. \A u \in left : u # t /\ u \in writer.tables /\ Frames(V, Span(u))' = Frames(V, Span(u))
    <3>1. \A u \in left : u # t /\ u \in writer.tables /\ position'[u] = position[u]
      BY <1>7, <1>8
    <3>2. QED BY <2>1, <3>1 DEF Frames, Span, DaySpan
  <2>3. Frames(V, DaySpan)' = Frames(V, DaySpan)
    BY <2>1 DEF Frames, DaySpan
  <2>4. \A u \in left : rows'[u] = rows[u]
    BY <1>7, <1>8, <2>2
  <2>5. \A u \in Tables(V) : u \notin left => \A f \in writer.batch : rows'[u][f] = 1
    <3> TAKE u \in Tables(V)
    <3>1. CASE u = t
      BY <1>9, <3>1
    <3>2. CASE u # t
      BY <1>1, <1>6, <1>8, <3>2 DEF BatchInv
    <3>3. QED BY <3>1, <3>2
  <2>6. Tables(V)' = Tables(V)
    BY <2>1 DEF Tables
  <2>7. QED BY <1>1, <2>1, <2>2, <2>3, <2>4, <2>5, <2>6 DEF BatchInv
<1>18. LossInv'
  <2> SUFFICES ASSUME NEW u \in Table, u[1] \notin unfiled, NEW f \in Missing(u)',
                      <<u[1], f[2]>> \notin filed
               PROVE  \/ writer.job = "rebuild" /\ <<u[1], raw[f[1]].day>> \in writer'.slices
                      \/ writer'.pc # "slicing" /\ u[1] = V /\ f[2] \in writer.unserved
    <3>1. writer'.pc # "slicing" => V' = V /\ writer'.unserved = writer.unserved
                                    /\ writer'.pc \in {"writing", "filing"}
      BY <1>12 DEF V, Next1
    <3>2. writer'.job = writer.job /\ raw' = raw /\ filed' = filed /\ unfiled' = unfiled
      BY <1>1, <1>12 DEF counters
    <3>3. QED BY <3>1, <3>2 DEF LossInv, At
  <2>1. rows'[u][f] = 0 /\ f \in Frame /\ f \in Frames(u[1], 1..Reach(u)')
    BY <1>1 DEF Missing, Frames
  <2>2. CASE u = t /\ f[1] \in Span(t)
    <3>1. f \in Frames(V, Span(t)) /\ f \notin writer.batch
      BY <1>6, <1>9, <2>1, <2>2 DEF Frames
    <3>2. f[2] \in writer.unserved
      BY <1>1, <1>5, <3>1 DEF BatchInv
    <3>3. QED BY <1>6, <1>12, <2>2, <3>2
  <2>3. ASSUME ~(u = t /\ f[1] \in Span(t))
        PROVE  f \in Missing(u)
    <3>1. rows[u][f] = 0
      <4>1. CASE u # t
        BY <1>8, <2>1, <4>1
      <4>2. CASE u = t
        BY <1>8, <1>9, <2>1, <2>3, <4>2 DEF Frames
      <4>3. QED BY <4>1, <4>2
    <3>2. f[1] \in 1..Reach(u)
      <4>1. CASE writer.job = "rebuild" /\ u[1] \in VenuesOf(writer.slices)
        <5>1. Reach(u) = writer.pinned
          BY <4>1 DEF Reach
        <5>2. Reach(u)' \in {writer.pinned, position[u]}
          BY <1>8, <1>12 DEF Reach
        <5>3. position[u] \in Nat /\ position[u] <= writer.pinned
          BY <1>4, ConstantTypes DEF ControlInv, TypeOK
        <5>4. QED BY <1>10, <2>1, <5>1, <5>2, <5>3 DEF Frames
      <4>2. CASE ~(writer.job = "rebuild" /\ u[1] \in VenuesOf(writer.slices))
        <5>1. Reach(u) = position[u] /\ Reach(u)' = position'[u]
          BY <1>12, <4>2 DEF Reach, VenuesOf
        <5>2. CASE u # t
          BY <1>8, <2>1, <5>1, <5>2 DEF Frames
        <5>3. CASE u = t
          <6>1. writer.job # "rebuild"
            BY <1>4, <1>6, <4>2, <5>3, NextSlice
          <6>2. f[1] \in 1..writer.pinned /\ f[1] \notin (position[t] + 1)..writer.pinned
            BY <1>8, <2>1, <2>3, <5>1, <5>3, <6>1 DEF Frames, Span
          <6>3. QED BY <1>10, <5>1, <5>3, <6>2
        <5>4. QED BY <5>2, <5>3
      <4>3. QED BY <4>1, <4>2
    <3>3. QED BY <1>1, <2>1, <3>1, <3>2 DEF Missing, Frames
  <2>4. CASE ~(u = t /\ f[1] \in Span(t))
    <3>1. \/ writer.job = "rebuild" /\ <<u[1], raw[f[1]].day>> \in writer.slices
          \/ u[1] = V /\ f[2] \in writer.unserved
      BY <2>3, <2>4 DEF LossInv
    <3>2. CASE writer'.pc # "slicing"
      BY <1>12, <3>1, <3>2
    <3>3. CASE writer'.pc = "slicing"
      <4>1. left = {} /\ writer.unserved = {} /\ writer'.slices = writer.slices \ {Next1}
        BY <1>12, <3>3
      <4>2. writer.job = "rebuild" /\ <<u[1], raw[f[1]].day>> \in writer.slices
        BY <3>1, <4>1
      <4>3. ASSUME <<u[1], raw[f[1]].day>> = Next1 PROVE FALSE
        <5>1. u[1] = V /\ u \in Tables(V)
          BY <4>3, TablesOfVenue DEF V, Table
        <5>2. f \in Frames(V, DaySpan)
          <6>1. V \in VenuesOf(writer.slices)
            BY <1>4, NextSlice
          <6>2. f[1] \in 1..writer.pinned
            BY <2>3, <2>4, <4>2, <5>1, <6>1 DEF Missing, Reach, Frames
          <6>3. QED BY <1>1, <2>1, <4>3, <5>1, <6>2 DEF Frames, DaySpan
        <5>3. f \in writer.batch
          BY <1>1, <4>1, <4>2, <5>2 DEF BatchInv
        <5>4. rows'[u][f] = 1
          BY <1>1, <1>8, <1>9, <4>1, <5>1, <5>3 DEF BatchInv
        <5>5. QED BY <2>1, <5>4
      <4>4. QED BY <4>1, <4>2, <4>3
    <3>4. QED BY <3>2, <3>3
  <2>5. QED BY <2>2, <2>4
<1>19. ServedInv'
  <2> SUFFICES ASSUME rebuilds = 0, httpErrors = 0, NEW u \in Table, NEW f \in Skipped(u)'
               PROVE  f[2] \notin Registered
    BY <1>1 DEF ServedInv, counters
  <2>1. rows'[u][f] = 0 /\ f \in Frame /\ f \in Frames(u[1], 1..position'[u])
    BY <1>1 DEF Skipped, Passed, Frames
  <2>2. CASE u # t
    BY <1>1, <1>8, <2>1, <2>2 DEF ServedInv, Skipped, Passed, Frames
  <2>3. CASE u = t /\ f[1] \in Span(t)
    <3>1. f \in Frames(V, Span(t)) /\ f \notin writer.batch
      BY <1>6, <1>9, <2>1, <2>3 DEF Frames
    <3>2. QED BY <1>1, <1>5, <3>1 DEF BatchInv
  <2>4. CASE u = t /\ f[1] \notin Span(t)
    <3>1. rows[t][f] = 0
      BY <1>8, <1>9, <2>1, <2>4 DEF Frames
    <3>2. f[1] \in 1..writer.pinned /\ f[1] \notin (position[t] + 1)..writer.pinned
      <4>1. writer.job # "rebuild"
        BY DEF ControlInv
      <4>2. QED BY <1>8, <2>1, <2>4, <4>1 DEF Frames, Span
    <3>3. f[1] \in 1..position[t]
      BY <1>10, <3>2
    <3>4. QED BY <1>5, <2>1, <2>4, <3>1, <3>3 DEF ServedInv, Skipped, Passed, Frames
  <2>5. QED BY <2>2, <2>3, <2>4
<1>20. QED BY <1>13, <1>14, <1>15, <1>16, <1>17, <1>18, <1>19

-----------------------------------------------------------------------------
(* A rebuild *)

LEMMA StartRebuildKeeps == ASSUME IInv, NEW vs \in SUBSET Venue, StartRebuild(vs) PROVE IInv'
<1> USE DEF IInv
<1>1. /\ At("idle") /\ raw # <<>> /\ ArchiveDays(vs) # {}
      /\ rebuilds < MaxRebuilds /\ rebuilds' = rebuilds + 1 /\ unfiled' = unfiled \ vs
      /\ UNCHANGED <<raw, oldest, today, bronze, filed, faults, httpErrors>>
  BY DEF StartRebuild
<1> DEFINE all == UNION {Tables(v) : v \in vs}
<1>2. writer' = [job |-> "rebuild", pc |-> "dropping", pinned |-> Len(raw),
                 slices |-> vs \X ArchiveDays(vs), tables |-> all, batch |-> {}, unserved |-> {}]
  BY DEF StartRebuild, Idle
<1>3. ArchiveDays(vs) \subseteq 0..MaxDay
  <2> DEFINE Snapshots == [added : [Venue -> SUBSET SchemaIds], day : 0..MaxDay]
  <2>1. \A j \in DOMAIN raw : raw[j].day \in 0..MaxDay
    <3>1. raw \in Seq(Snapshots)
      BY DEF TypeOK
    <3> HIDE DEF Snapshots
    <3>2. \A j \in DOMAIN raw : raw[j] \in Snapshots
      BY <3>1
    <3> USE DEF Snapshots
    <3>3. QED BY <3>2
  <2>2. QED BY <2>1 DEF ArchiveDays
<1>4. Len(raw) \in Nat /\ Len(raw) \in 0..MaxSnapshots
  BY ConstantTypes DEF TypeOK, ControlInv
<1>5. all \subseteq Table /\ VenuesOf(vs \X ArchiveDays(vs)) = vs
  <2>1. all \subseteq Table
    BY DEF Table
  <2>2. VenuesOf(vs \X ArchiveDays(vs)) = vs
    <3>1. PICK d \in ArchiveDays(vs) : TRUE
      BY <1>1
    <3>2. \A v \in vs : <<v, d>> \in vs \X ArchiveDays(vs) /\ <<v, d>>[1] = v
      BY <3>1
    <3>3. vs \subseteq VenuesOf(vs \X ArchiveDays(vs))
      BY <3>2 DEF VenuesOf
    <3>4. VenuesOf(vs \X ArchiveDays(vs)) \subseteq vs
      BY DEF VenuesOf
    <3>5. QED BY <3>3, <3>4
  <2>3. QED BY <2>1, <2>2
<1>6. vs # {}
  BY <1>1 DEF ArchiveDays
<1>7. all # {} /\ vs \X ArchiveDays(vs) # {}
  <2>1. PICK v \in vs : TRUE
    BY <1>6
  <2>2. Tables(v) # {} /\ Tables(v) \subseteq all
    BY <2>1, TablesOfVenue
  <2>3. PICK d \in ArchiveDays(vs) : TRUE
    BY <1>1
  <2>4. <<v, d>> \in vs \X ArchiveDays(vs)
    BY <2>1, <2>3
  <2>5. QED BY <2>2, <2>4
<1> HIDE DEF all
<1>8. vs \X ArchiveDays(vs) \subseteq Slice
  BY <1>3 DEF Slice
<1>9. TypeOK'
  <2>1. writer' \in Writer
    BY <1>2, <1>4, <1>5, <1>8 DEF Writer
  <2>2. rebuilds' \in 0..MaxRebuilds /\ unfiled' \subseteq Venue
    BY <1>1, ConstantTypes DEF TypeOK
  <2>3. QED BY <1>1, <2>1, <2>2 DEF TypeOK, bronze
<1>10. ControlInv'
  <2>1. writer'.tables \subseteq UNION {Tables(v) : v \in VenuesOf(writer'.slices)}
    BY <1>2, <1>5 DEF all
  <2>2. rebuilds' > 0
    BY <1>1, ConstantTypes DEF TypeOK
  <2>3. (UNION {Tables(v) : v \in VenuesOf(writer.slices)})'
          = UNION {Tables(v) : v \in VenuesOf(writer'.slices)}
    BY DEF VenuesOf, Tables
  <2>4. QED BY <1>1, <1>2, <1>7, <2>1, <2>2, <2>3 DEF ControlInv, At, Decoding, bronze
<1>11. RowsInv'
  BY <1>1 DEF RowsInv, Frames, bronze
<1>12. \A v \in vs : \A f \in Frames(v, 1..Len(raw)) : <<v, raw[f[1]].day>> \in vs \X ArchiveDays(vs)
  BY DEF Frames, ArchiveDays, TypeOK
<1>13. RebuildInv'
  <2>1. VenuesOf(writer.slices)' = vs
    BY <1>2, <1>5 DEF VenuesOf
  <2>2. \A v \in vs : \A t \in Tables(v) : t \in writer'.tables
    BY <1>2 DEF all
  <2>3. \A v \in vs : Frames(v, 1..writer.pinned)' = Frames(v, 1..Len(raw))
    BY <1>1, <1>2 DEF Frames
  <2>4. \A v : Tables(v)' = Tables(v)
    BY DEF Tables
  <2>5. writer'.pc = "dropping" /\ writer'.slices = vs \X ArchiveDays(vs) /\ raw' = raw
    BY <1>1, <1>2
  <2>6. QED BY <1>12, <2>1, <2>2, <2>3, <2>4, <2>5 DEF RebuildInv, At, Decoding
<1>14. BatchInv'
  BY <1>2 DEF BatchInv, At
<1>15. LossInv'
  <2> SUFFICES ASSUME NEW t \in Table, t[1] \notin unfiled', NEW f \in Missing(t)',
                      <<t[1], f[2]>> \notin filed
               PROVE  <<t[1], raw[f[1]].day>> \in vs \X ArchiveDays(vs)
    BY <1>1, <1>2 DEF LossInv
  <2>1. CASE t[1] \in vs
    <3>1. f \in Frames(t[1], 1..Len(raw))
      BY <1>1, <1>2, <1>5, <2>1 DEF Missing, Reach, Frames, VenuesOf
    <3>2. QED BY <1>12, <2>1, <3>1
  <2>2. CASE t[1] \notin vs
    <3>1. Missing(t)' = Skipped(t)
      BY <1>1, <1>2, <1>5, <2>2 DEF Missing, Reach, Skipped, Passed, Frames, VenuesOf, bronze
    <3>2. QED BY <1>1, <2>2, <3>1, IngestOwesNothing DEF ControlInv, At
  <2>3. QED BY <2>1, <2>2
<1>16. ServedInv'
  BY <1>1, ConstantTypes DEF ServedInv, TypeOK
<1>17. QED BY <1>9, <1>10, <1>11, <1>13, <1>14, <1>15, <1>16

\* One table after the other is dropped, with its position, and then created.
LEMMA DropKeeps == IInv /\ DropTable => IInv'
<1> SUFFICES ASSUME IInv, DropTable PROVE IInv'
  OBVIOUS
<1> USE DEF IInv
<1> DEFINE t == First(writer.tables)
<1>1. At("dropping") /\ UNCHANGED <<raw, oldest, today, filed, counters>>
  BY DEF DropTable
<1>2. /\ present' = present \ {t}
      /\ position' = [position EXCEPT ![t] = 0]
      /\ rows' = [rows EXCEPT ![t] = NoRows]
  BY DEF DropTable
<1>3. /\ writer.job = "rebuild" /\ rebuilds > 0 /\ writer.pinned = Len(raw)
      /\ writer.tables # {} /\ writer.slices # {}
      /\ writer.tables \subseteq UNION {Tables(v) : v \in VenuesOf(writer.slices)}
      /\ writer.batch = {} /\ writer.unserved = {}
  BY <1>1 DEF ControlInv, At, Decoding
<1>4. t \in writer.tables /\ t \in Table
  BY <1>3, NextTable
<1> DEFINE all == UNION {Tables(v) : v \in VenuesOf(writer.slices)}
<1>5. VenuesOf(writer.slices) \subseteq Venue /\ VenuesOf(writer.slices) # {} /\ all \subseteq Table /\ all # {}
  BY <1>3, WriterTyped, TablesOfVenue DEF VenuesOf, Slice
<1>6. \/ writer.tables \ {t} # {} /\ writer' = [writer EXCEPT !.tables = @ \ {t}]
      \/ writer.tables \ {t} = {} /\ writer' = [writer EXCEPT !.pc = "recreating", !.tables = all]
  BY DEF DropTable
<1> HIDE DEF t, all
<1>7. /\ writer'.job = "rebuild" /\ writer'.pinned = writer.pinned /\ writer'.slices = writer.slices
      /\ writer'.batch = {} /\ writer'.unserved = {}
      /\ \/ writer'.pc = "dropping" /\ writer'.tables = writer.tables \ {t} /\ writer'.tables # {}
         \/ writer'.pc = "recreating" /\ writer'.tables = all /\ writer.tables \ {t} = {}
  BY <1>1, <1>3, <1>6 DEF TypeOK, Writer, At
<1>8. /\ \A u \in Table : u # t => rows'[u] = rows[u] /\ position'[u] = position[u]
      /\ position'[t] = 0 /\ rows'[t] = NoRows
  BY <1>2, <1>4 DEF TypeOK
<1>9. TypeOK'
  <2>1. writer' \in Writer
    BY <1>5, <1>6 DEF TypeOK, Writer
  <2>2. rows' \in [Table -> [Frame -> Nat]] /\ position' \in [Table -> 0..MaxSnapshots]
    <3>1. NoRows \in [Frame -> Nat] /\ 0 \in 0..MaxSnapshots
      BY ConstantTypes DEF NoRows
    <3>2. rows' \in [Table -> [Frame -> Nat]]
      BY <1>2, <3>1 DEF TypeOK
    <3>3. position' \in [Table -> 0..MaxSnapshots]
      BY <1>2, <3>1 DEF TypeOK
    <3>4. QED BY <3>2, <3>3
  <2>3. QED BY <1>1, <1>2, <2>1, <2>2 DEF TypeOK, counters
<1>10. VenuesOf(writer.slices)' = VenuesOf(writer.slices)
       /\ (UNION {Tables(v) : v \in VenuesOf(writer.slices)})' = all
  BY <1>7 DEF VenuesOf, all, Tables
<1>11. ControlInv'
  <2>1. \A u \in Table : position'[u] <= Len(raw')
    BY <1>1, <1>8 DEF ControlInv, TypeOK
  <2>2. writer'.tables # {} /\ writer'.tables \subseteq all
    BY <1>3, <1>5, <1>7 DEF all
  <2>3. QED BY <1>1, <1>3, <1>7, <1>10, <2>1, <2>2 DEF ControlInv, At, Decoding, counters
<1>12. RowsInv'
  BY <1>1, <1>8 DEF RowsInv, Frames, NoRows
<1>13. RebuildInv'
  <2>1. \A v \in VenuesOf(writer.slices) : Frames(v, 1..writer.pinned)' = Frames(v, 1..writer.pinned)
    BY <1>1, <1>7 DEF Frames
  <2>2. \A v \in VenuesOf(writer.slices) : \A f \in Frames(v, 1..writer.pinned) :
          <<v, raw[f[1]].day>> \in writer.slices
    BY <1>1, <1>3 DEF RebuildInv
  <2>3. \A v \in VenuesOf(writer.slices) : \A u \in Tables(v) :
          u \notin writer.tables \ {t} => rows'[u] = NoRows
    BY <1>1, <1>3, <1>5, <1>8, TablesOfVenue DEF RebuildInv
  <2>4. \A v \in VenuesOf(writer.slices) : Tables(v)' = Tables(v)
    BY DEF Tables
  <2>5. QED BY <1>1, <1>7, <1>10, <2>1, <2>2, <2>3, <2>4 DEF RebuildInv, At, Decoding
<1>14. BatchInv'
  BY <1>7 DEF BatchInv, At
<1>15. LossInv'
  <2> SUFFICES ASSUME NEW u \in Table, u[1] \notin unfiled, NEW f \in Missing(u)',
                      <<u[1], f[2]>> \notin filed
               PROVE  <<u[1], raw[f[1]].day>> \in writer.slices
    BY <1>1, <1>7 DEF LossInv, counters
  <2>1. CASE u = t
    <3>1. u[1] \in VenuesOf(writer.slices)
      BY <1>3, <1>4, <1>5, <2>1, TablesOfVenue
    <3>2. f \in Frames(u[1], 1..writer.pinned)
      BY <1>1, <1>7, <1>10, <3>1 DEF Missing, Reach, Frames
    <3>3. QED BY <1>1, <1>3, <3>1, <3>2 DEF RebuildInv
  <2>2. CASE u # t
    <3>1. f \in Missing(u)
      BY <1>1, <1>3, <1>7, <1>8, <1>10, <2>2 DEF Missing, Reach, Frames
    <3>2. QED BY <1>1, <3>1 DEF LossInv, At
  <2>3. QED BY <2>1, <2>2
<1>16. ServedInv'
  BY <1>1, <1>3 DEF ServedInv, counters
<1>17. QED BY <1>9, <1>11, <1>12, <1>13, <1>14, <1>15, <1>16

LEMMA RecreateKeeps == IInv /\ Recreate => IInv'
<1> SUFFICES ASSUME IInv, Recreate PROVE IInv'
  OBVIOUS
<1> USE DEF IInv
<1> DEFINE t == First(writer.tables)
           left == writer.tables \ {t}
<1>1. /\ At("recreating") /\ UNCHANGED <<raw, oldest, today, position, rows, filed, counters>>
      /\ present' = present \cup {t}
      /\ writer' = [writer EXCEPT !.tables = left, !.pc = IF left # {} THEN "recreating" ELSE "slicing"]
  BY DEF Recreate
<1>2. /\ writer.job = "rebuild" /\ rebuilds > 0 /\ writer.pinned = Len(raw)
      /\ writer.tables # {} /\ writer.slices # {}
      /\ writer.tables \subseteq UNION {Tables(v) : v \in VenuesOf(writer.slices)}
      /\ writer.batch = {} /\ writer.unserved = {}
  BY <1>1 DEF ControlInv, At, Decoding
<1>3. t \in Table
  BY <1>2, NextTable
<1> HIDE DEF t
<1>4. /\ writer'.job = "rebuild" /\ writer'.pinned = writer.pinned /\ writer'.slices = writer.slices
      /\ writer'.batch = {} /\ writer'.unserved = {} /\ writer'.tables = left
      /\ writer'.pc = IF left # {} THEN "recreating" ELSE "slicing"
  BY <1>1, <1>2 DEF TypeOK, Writer
<1>5. TypeOK'
  <2>1. writer' \in Writer
    BY <1>1 DEF TypeOK, Writer
  <2>2. QED BY <1>1, <1>3, <2>1 DEF TypeOK, counters
<1>6. VenuesOf(writer.slices)' = VenuesOf(writer.slices)
       /\ (UNION {Tables(v) : v \in VenuesOf(writer.slices)})'
            = UNION {Tables(v) : v \in VenuesOf(writer.slices)}
  BY <1>4 DEF VenuesOf, Tables
<1>7. ControlInv'
  BY <1>1, <1>2, <1>4, <1>6 DEF ControlInv, At, Decoding, counters
<1>8. RowsInv'
  BY <1>1 DEF RowsInv, Frames
<1>9. RebuildInv'
  <2>1. \A v \in VenuesOf(writer.slices) : \A u \in Tables(v) : rows[u] = NoRows
    BY <1>1, <1>2 DEF RebuildInv
  <2>2. \A s \in writer.slices : s[1] \in VenuesOf(writer.slices)
    BY DEF VenuesOf
  <2>3. \A s \in writer.slices : \A u \in Tables(s[1]) : \A f \in Frame : rows[u][f] = 0
    BY <2>1, <2>2 DEF NoRows
  <2>4. \A v \in VenuesOf(writer.slices) : Frames(v, 1..writer.pinned)' = Frames(v, 1..writer.pinned)
    BY <1>1, <1>4 DEF Frames
  <2>5. \A v \in VenuesOf(writer.slices) : \A f \in Frames(v, 1..writer.pinned) :
          <<v, raw[f[1]].day>> \in writer.slices
    BY <1>1, <1>2 DEF RebuildInv
  <2>6. QED BY <1>1, <1>4, <1>6, <2>1, <2>3, <2>4, <2>5 DEF RebuildInv, At, Decoding, Tables
<1>10. BatchInv'
  BY <1>4 DEF BatchInv, At
<1>11. LossInv' /\ ServedInv'
  <2>1. \A u \in Table : Missing(u)' = Missing(u) /\ Skipped(u)' = Skipped(u)
    BY <1>1, <1>2, <1>4, <1>6 DEF Missing, Reach, Skipped, Passed, Frames
  <2>2. QED BY <1>1, <1>2, <1>4, <2>1 DEF LossInv, ServedInv, At, counters
<1>12. QED BY <1>5, <1>7, <1>8, <1>9, <1>10, <1>11

-----------------------------------------------------------------------------
(* The theorems *)

LEMMA BronzeStep == IInv /\ [Next]_vars => IInv'
<1> SUFFICES ASSUME IInv, [Next]_vars PROVE IInv'
  OBVIOUS
<1>1. CASE UNCHANGED vars
  <2>1. /\ V' = V /\ Next1' = Next1 /\ (\A t \in Table : Missing(t)' = Missing(t) /\ Skipped(t)' = Skipped(t))
    BY <1>1 DEF vars, V, Next1, Missing, Reach, VenuesOf, Skipped, Passed, Frames
  <2>2. TypeOK' /\ ControlInv' /\ RowsInv'
    BY <1>1, <2>1 DEF vars, IInv, TypeOK, ControlInv, RowsInv, At, Decoding, Frames, VenuesOf
  <2>3. RebuildInv' /\ BatchInv'
    BY <1>1, <2>1 DEF vars, IInv, RebuildInv, BatchInv, At, Decoding, Frames, Span, DaySpan, VenuesOf
  <2>4. LossInv' /\ ServedInv'
    BY <1>1, <2>1 DEF vars, IInv, LossInv, ServedInv, At
  <2>5. QED BY <2>2, <2>3, <2>4 DEF IInv
<1>2. CASE StartIngest \/ StartMaintenance
  BY <1>2, StartKeeps
<1>3. CASE StageRawOnly \/ Compact
  BY <1>3, QuietGrowthKeeps
<1>4. CASE StageRaw \/ NoNewRecords
  BY <1>4, StageRawKeeps
<1>5. CASE TableNotFound \/ RefuseUneven \/ ReadFails \/ Return
  BY <1>5, EndOfIngest
<1>6. CASE SkipLevel
  BY <1>6, SkipLevelKeeps
<1>7. CASE DecodeNew
  BY <1>7, DecodeNewKeeps
<1>8. CASE WriteTable
  BY <1>8, WriteTableKeeps
<1>9. CASE FileFindings \/ FilingFails
  BY <1>9, FilingKeeps
<1>10. ASSUME NEW vs \in SUBSET Venue, StartRebuild(vs) PROVE IInv'
  BY <1>10, StartRebuildKeeps
<1>11. CASE DropTable \/ Recreate
  BY <1>11, DropKeeps, RecreateKeeps
<1>12. CASE DecodeDay
  BY <1>12, DecodeDayKeeps
<1>13. CASE Expire
  BY <1>13, ExpireKeeps
<1>14. CASE Killed
  BY <1>14, KilledKeeps
<1>15. CASE NextDay
  BY <1>15, NextDayKeeps
<1>16. ASSUME NEW v \in Venue, StartRebuild({v}) PROVE IInv'
  BY <1>10, <1>16
<1>17. CASE StartRebuild(Venue)
  BY <1>10, <1>17
<1>18. QED BY <1>1, <1>2, <1>3, <1>4, <1>5, <1>6, <1>7, <1>8, <1>9, <1>11, <1>12, <1>13, <1>14,
              <1>15, <1>16, <1>17 DEF Next, IngestStep, RebuildStep

(***************************************************************************)
(* The invariant of stage 2b and of rebuild.py, for any number of venues   *)
(* and tables, kills, rebuilds and expiries: each table's rows, position   *)
(* and findings fit together between any two commits.                      *)
(***************************************************************************)
THEOREM BronzeInvariant == Spec => []IInv
BY BronzeInit, BronzeStep, PTL DEF Spec

\* No frame is in a bronze table twice, or before the table's position (the refusal of
\* uneven positions in stage(), the drop in rebuild()).
THEOREM DecodedOnceHolds == Spec => []DecodedOnce
<1>1. IInv => DecodedOnce
  BY DEF IInv, RowsInv, DecodedOnce, TypeOK
<1>2. QED BY <1>1, BronzeInvariant, PTL

\* What a position has passed and a table does not have is filed, in every venue whose last
\* batch or rebuild was not cut short (decode(): every unserved schema id is a finding).
THEOREM LossIsFiledHolds == Spec => []LossIsFiled
<1>1. IInv => LossIsFiled
  <2> SUFFICES ASSUME IInv, At("idle"), NEW t \in present, t[1] \notin unfiled, NEW f \in Skipped(t)
               PROVE  <<t[1], f[2]>> \in filed
    BY DEF LossIsFiled
  <2>1. t \in Table /\ writer.job = "none"
    BY DEF IInv, TypeOK, ControlInv
  <2>2. QED BY <2>1, IngestOwesNothing DEF At
<1>2. QED BY <1>1, BronzeInvariant, PTL

\* A kill costs nothing that the registry serves, as long as nobody has rebuilt the layer
\* and the registry has answered.
THEOREM KillsLoseNothingHolds == Spec => []KillsLoseNothing
<1>1. IInv => KillsLoseNothing
  BY TablesOfVenue DEF IInv, ServedInv, KillsLoseNothing
<1>2. QED BY <1>1, BronzeInvariant, PTL
=============================================================================
