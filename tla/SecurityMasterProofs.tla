------------------------ MODULE SecurityMasterProofs ------------------------
(***************************************************************************)
(* Proofs about SecurityMaster for every set of keys and attributes, and   *)
(* any number of runs and kills.                                           *)
(***************************************************************************)
EXTENDS SecurityMaster, TLAPS, FiniteSetTheorems

\* Between the two commits, a key that waits for a new version has no open one.
AppendInv ==
  /\ run.pc # "appending" => run.insert = [k \in Key |-> {}]
  /\ \A k \in Key : run.insert[k] # {} =>
       /\ OpenVersions(k) = {}
       /\ \A v, w \in run.insert[k] : v = w

MasterInv == TypeOK /\ AtMostOneOpen /\ AppendInv

-----------------------------------------------------------------------------
(* Lemmas about the operators of the diff *)

\* An open version, when there is one, is what Previous picks.
LEMMA PreviousIsOpen ==
  ASSUME NEW k \in Key, HasOpen(k)
  PROVE  Previous(k) \in OpenVersions(k)
BY DEF Previous, HasOpen

\* A version the plan opens is well formed.
LEMMA OpenedIsVersion ==
  ASSUME TypeOK, NEW a \in Attrs, NEW s \in BOOLEAN, NEW from \in {EPOCH, now}
  PROVE  OpenedAt(a, s, from) \in Version
BY MasterConstants DEF TypeOK, OpenedAt, Version, EPOCH, FOREVER

\* Every inserted row is a well-formed version.
LEMMA InsertsAreVersions ==
  ASSUME TypeOK, NEW dim
  PROVE  Inserts(dim) \in [Key -> SUBSET Version]
<1>1. ASSUME NEW k \in Key PROVE Inserts(dim)[k] \subseteq Version
  <2>1. CASE DimOf[k] # dim
    BY <2>1 DEF Inserts
  <2>2. CASE DimOf[k] = dim /\ Listed(k)
    <3>1. run.current[k] \in Attrs
      BY <2>2 DEF Listed, TypeOK, Listing
    <3>2. OpenedAt(run.current[k], TRUE, now) \in Version
      BY <3>1, OpenedIsVersion
    <3>3. OpenedAt(run.current[k], TRUE, EPOCH) \in Version
      BY <3>1, OpenedIsVersion
    <3>4. ~Gone(k)
      BY <2>2 DEF Gone
    <3> QED BY <2>2, <3>2, <3>3, <3>4 DEF Inserts
  <2>3. CASE DimOf[k] = dim /\ ~Listed(k)
    <3>1. ~Changed(k) /\ ~Unseen(k)
      BY <2>3 DEF Changed, Unseen
    <3>2. CASE Gone(k)
      <4>1. Previous(k) \in table[k]
        BY <3>2, PreviousIsOpen DEF Gone, OpenVersions
      <4>2. Previous(k).attrs \in Attrs
        BY <4>1 DEF TypeOK, Version
      <4>3. OpenedAt(Previous(k).attrs, FALSE, now) \in Version
        BY <4>2, OpenedIsVersion
      <4> QED BY <2>3, <3>1, <3>2, <4>3 DEF Inserts
    <3>3. CASE ~Gone(k)
      BY <2>3, <3>1, <3>3 DEF Inserts
    <3> QED BY <3>2, <3>3
  <2> QED BY <2>1, <2>2, <2>3
<1> QED BY <1>1 DEF Inserts

\* The plan opens one version per key at most, and only for one that has none left.
LEMMA InsertsAfterClose ==
  ASSUME NEW dim, NEW k \in Key, Inserts(dim)[k] # {}
  PROVE  /\ k \in ToClose(dim) \/ ~HasOpen(k)
         /\ \A v, w \in Inserts(dim)[k] : v = w
<1>1. DimOf[k] = dim /\ (Changed(k) \/ Unseen(k) \/ Gone(k))
  BY DEF Inserts
<1>2. k \in ToClose(dim) \/ ~HasOpen(k)
  BY <1>1 DEF ToClose, Unseen
<1>3. \A v, w \in Inserts(dim)[k] : v = w
  BY DEF Inserts
<1> QED BY <1>2, <1>3

\* The MERGE leaves well-formed versions, none of them open.
LEMMA CloseCloses ==
  ASSUME TypeOK, NEW k \in Key
  PROVE  /\ Close(table[k]) \subseteq Version
         /\ \A v \in Close(table[k]) : ~v.isCurrent
<1> SUFFICES ASSUME NEW v \in table[k], NEW u,
                    u = IF v.isCurrent THEN [v EXCEPT !.validTo = now, !.isCurrent = FALSE] ELSE v
             PROVE  u \in Version /\ ~u.isCurrent
  BY DEF Close
<1>1. v \in Version
  BY DEF TypeOK
<1>2. now \in 0..FOREVER
  BY MasterConstants DEF TypeOK, FOREVER
<1> QED BY <1>1, <1>2 DEF Version

-----------------------------------------------------------------------------
(* The invariant *)

LEMMA MasterInit == Init => MasterInv
<1> SUFFICES ASSUME Init PROVE MasterInv
  OBVIOUS
<1>1. TypeOK
  BY MasterConstants DEF Init, TypeOK, Idle, Nothing, Listing
<1>2. AtMostOneOpen /\ AppendInv
  BY DEF Init, AtMostOneOpen, AppendInv, OpenVersions, Idle
<1> QED BY <1>1, <1>2 DEF MasterInv

LEMMA MasterStep == MasterInv /\ [Next]_vars => MasterInv'
<1> SUFFICES ASSUME MasterInv, [Next]_vars PROVE MasterInv'
  OBVIOUS
<1> USE DEF MasterInv
<1>1. ASSUME NEW k \in Key, ChangeRegistry(k) PROVE MasterInv'
  <2>1. TypeOK'
    BY <1>1 DEF ChangeRegistry, TypeOK, Listing
  <2> QED BY <1>1, <2>1 DEF ChangeRegistry, AtMostOneOpen, AppendInv, OpenVersions
<1>2. CASE StartRun
  <2>1. TypeOK'
    <3>1. now' \in 0..MaxRuns
      BY <1>2, MasterConstants DEF StartRun, TypeOK
    <3>2. run' = [pc |-> "closing", dim |-> 1, current |-> registry, insert |-> [k \in Key |-> {}]]
      BY <1>2 DEF StartRun, Idle
    <3> QED BY <1>2, <3>1, <3>2 DEF StartRun, TypeOK
  <2>2. run'.insert = [k \in Key |-> {}]
    BY <1>2 DEF StartRun, Idle
  <2> QED BY <1>2, <2>1, <2>2 DEF StartRun, AtMostOneOpen, AppendInv, OpenVersions
<1>3. CASE CloseChanged
  <2> DEFINE T == [k \in Key |-> IF k \in ToClose(run.dim) THEN Close(table[k]) ELSE table[k]]
  <2>1. table' = T /\ run' = [run EXCEPT !.pc = "appending", !.insert = Inserts(run.dim)]
    BY <1>3 DEF CloseChanged
  <2>2. T \in [Key -> SUBSET Version]
    BY CloseCloses DEF TypeOK
  <2>3. Inserts(run.dim) \in [Key -> SUBSET Version]
    BY InsertsAreVersions
  <2>4. TypeOK'
    BY <1>3, <2>1, <2>2, <2>3 DEF CloseChanged, TypeOK
  <2>5. ASSUME NEW k \in Key, k \in ToClose(run.dim) PROVE OpenVersions(k)' = {}
    BY <2>1, <2>5, CloseCloses DEF OpenVersions
  <2>6. ASSUME NEW k \in Key, k \notin ToClose(run.dim) PROVE OpenVersions(k)' = OpenVersions(k)
    BY <2>1, <2>6 DEF OpenVersions
  <2>7. AtMostOneOpen'
    BY <2>5, <2>6 DEF AtMostOneOpen
  <2>8. run'.pc = "appending" /\ run'.insert = Inserts(run.dim)
    BY <2>1 DEF TypeOK
  <2>9. ASSUME NEW k \in Key, run'.insert[k] # {}
        PROVE  OpenVersions(k)' = {} /\ \A v, w \in run'.insert[k] : v = w
    <3>1. k \in ToClose(run.dim) \/ ~HasOpen(k)
      BY <2>8, <2>9, InsertsAfterClose
    <3>2. OpenVersions(k)' = {}
      BY <3>1, <2>5, <2>6 DEF HasOpen
    <3>3. \A v, w \in run'.insert[k] : v = w
      BY <2>8, <2>9, InsertsAfterClose
    <3> QED BY <3>2, <3>3
  <2>10. AppendInv'
    BY <2>8, <2>9 DEF AppendInv
  <2> QED BY <2>4, <2>7, <2>10
<1>4. CASE AppendNew
  <2>1. table' = [k \in Key |-> table[k] \cup run.insert[k]]
    BY <1>4 DEF AppendNew
  <2>2. run' \in {[run EXCEPT !.pc = "closing", !.dim = 2, !.insert = Idle.insert], Idle}
    BY <1>4 DEF AppendNew
  <2>3. \/ run' = [pc |-> "closing", dim |-> 2, current |-> run.current,
                  insert |-> [k \in Key |-> {}]]
        \/ run' = [pc |-> "idle", dim |-> 1, current |-> Nothing,
                  insert |-> [k \in Key |-> {}]]
    BY <2>2 DEF TypeOK, Idle
  <2>4. TypeOK'
    <3>1. table' \in [Key -> SUBSET Version]
      BY <2>1 DEF TypeOK
    <3>2. Nothing \in Listing
      BY DEF Nothing, Listing
    <3>3. told' \subseteq Listing
      BY <1>4 DEF AppendNew, TypeOK
    <3> QED BY <1>4, <2>3, <3>1, <3>2, <3>3 DEF AppendNew, TypeOK
  <2>5. AtMostOneOpen'
    <3> SUFFICES ASSUME NEW k \in Key, NEW v \in OpenVersions(k)', NEW w \in OpenVersions(k)'
                 PROVE  v = w
      BY DEF AtMostOneOpen
    <3>1. v \in OpenVersions(k) \cup run.insert[k] /\ w \in OpenVersions(k) \cup run.insert[k]
      BY <2>1 DEF OpenVersions
    <3>2. CASE run.insert[k] = {}
      BY <3>1, <3>2 DEF AtMostOneOpen
    <3>3. CASE run.insert[k] # {}
      BY <3>1, <3>3 DEF AppendInv
    <3> QED BY <3>2, <3>3
  <2>6. AppendInv'
    <3>1. run'.pc # "appending"
      BY <2>3
    <3>2. run'.insert = [k \in Key |-> {}]
      BY <2>3
    <3> QED BY <3>1, <3>2 DEF AppendInv
  <2> QED BY <2>4, <2>5, <2>6
<1>5. CASE Killed
  <2>1. TypeOK'
    <3>1. run' = [pc |-> "idle", dim |-> 1, current |-> Nothing, insert |-> [k \in Key |-> {}]]
      BY <1>5 DEF Killed, Idle
    <3>2. Nothing \in Listing
      BY DEF Nothing, Listing
    <3>3. kills' \in 0..MaxKills /\ torn' \subseteq Key
      BY <1>5, MasterConstants DEF Killed, TypeOK, InDoubt
    <3> QED BY <1>5, <3>1, <3>2, <3>3 DEF Killed, TypeOK
  <2>2. run'.pc # "appending" /\ run'.insert = [k \in Key |-> {}]
    BY <1>5 DEF Killed, Idle
  <2> QED BY <1>5, <2>1, <2>2 DEF Killed, AtMostOneOpen, AppendInv, OpenVersions
<1>6. CASE UNCHANGED vars
  BY <1>6 DEF vars, TypeOK, AtMostOneOpen, AppendInv, OpenVersions
<1> QED BY <1>1, <1>2, <1>3, <1>4, <1>5, <1>6 DEF Next

(***************************************************************************)
(* The two commits of _merge_dim keep the invariant, whatever is killed    *)
(* between them.                                                           *)
(***************************************************************************)
THEOREM MasterInvariant == Spec => []MasterInv
BY MasterInit, MasterStep, PTL DEF Spec

\* The dimension keeps its type: every version has the shape of a row, with a
\* validity that starts at EPOCH or at a run and ends at a run or is open (scd2.plan).
THEOREM MasterTyped == Spec => []TypeOK
<1>1. MasterInv => TypeOK
  BY DEF MasterInv
<1> QED BY <1>1, MasterInvariant, PTL

\* No key ever has two current versions (_merge_dim: close before insert).
THEOREM AtMostOneOpenHolds == Spec => []AtMostOneOpen
<1>1. MasterInv => AtMostOneOpen
  BY DEF MasterInv
<1> QED BY <1>1, MasterInvariant, PTL

-----------------------------------------------------------------------------
(***************************************************************************)
(* The history.  Until a run has appended to a key it works on rows that   *)
(* are all older than it, so what it closes and what it opens meet at its  *)
(* own run_ts and nowhere else.                                            *)
(***************************************************************************)
Ahead(k) == ~At("idle") /\ run.dim <= DimOf[k]
Differ(v, w) == v.attrs # w.attrs \/ v.subscribed # w.subscribed

\* Versions are intervals that end at a run, or never; a run's own come last.
VersionInv ==
  \A k \in Key : \A v \in table[k] :
    /\ v.validFrom < v.validTo /\ v.validFrom <= now
    /\ IF v.isCurrent THEN v.validTo = FOREVER ELSE v.validTo <= now
    /\ Ahead(k) => v.validFrom < now
    /\ Ahead(k) /\ (At("closing") \/ run.dim # DimOf[k]) => v.validTo # now

\* What waits to be appended is open, starts at EPOCH or where the closed version ends, and
\* says something else than a version that ends there.
InsertInv ==
  \A k \in Key : \A v \in run.insert[k] :
    /\ DimOf[k] = run.dim
    /\ v.isCurrent /\ v.validTo = FOREVER /\ v.validFrom \in {EPOCH, now}
    /\ k \notin torn => v.validFrom = IF table[k] = {} THEN EPOCH ELSE now
    /\ \A u \in table[k] : u.validTo = v.validFrom => Differ(u, v)

\* A key that no kill tore is covered up to the newest run, without overlap, and for ever
\* while it has an open version.
TileInv ==
  \A k \in Key \ torn :
    /\ \A v, w \in table[k] : v # w => v.validTo <= w.validFrom \/ w.validTo <= v.validFrom
    /\ table[k] # {} =>
         /\ HasOpen(k) \/ run.insert[k] # {}
         /\ \A t \in EPOCH..(now - 1) : AsOf(k, t) # {}
    /\ HasOpen(k) => \A t \in EPOCH..MaxRuns : AsOf(k, t) # {}

\* What the slice says of a key is what a listing says, once `versions` are its open ones.
Tells(listing, k, versions) ==
  IF listing[k] # NotListed
  THEN \E v \in versions : v.attrs = listing[k] /\ v.subscribed
  ELSE \A v \in versions : ~v.subscribed

\* Keys a run is done with, or has only to append to.
Handled(k) == ~At("idle") /\ (DimOf[k] < run.dim \/ (At("appending") /\ DimOf[k] = run.dim))

SliceInv ==
  /\ \A k \in Key : Handled(k) => Tells(run.current, k, OpenVersions(k) \cup run.insert[k])
  /\ At("idle") => \A listing \in told : \A k \in Key : Tells(listing, k, OpenVersions(k))

HistoryInv ==
  MasterInv /\ VersionInv /\ InsertInv /\ BoundariesAreChanges /\ TileInv /\ SliceInv

LEMMA VersionFacts ==
  ASSUME TypeOK, NEW k \in Key, NEW v \in table[k]
  PROVE  /\ v \in Version /\ v.isCurrent \in BOOLEAN
         /\ v.validFrom \in Nat /\ v.validFrom <= MaxRuns
         /\ v.validTo \in Nat /\ v.validTo <= FOREVER
<1>1. v \in Version
  BY DEF TypeOK
<1>2. QED BY <1>1, MasterConstants DEF Version, FOREVER

LEMMA Times ==
  ASSUME TypeOK
  PROVE  /\ now \in Nat /\ now <= MaxRuns /\ MaxRuns \in Nat
         /\ FOREVER \in Nat /\ FOREVER > MaxRuns /\ now < FOREVER /\ EPOCH = 0
         /\ DimOf \in [Key -> {1, 2}] /\ run.dim \in {1, 2} /\ torn \subseteq Key
         /\ \A k \in Key : OpenVersions(k) \subseteq table[k]
BY MasterConstants DEF TypeOK, FOREVER, EPOCH, OpenVersions

\* A row that the MERGE left is the row it found, with its end where it was open.
LEMMA ClosedVersion ==
  ASSUME TypeOK, NEW k \in Key
  PROVE  /\ \A u \in Close(table[k]) : \E v \in table[k] :
              /\ u.attrs = v.attrs /\ u.subscribed = v.subscribed /\ u.validFrom = v.validFrom
              /\ ~u.isCurrent /\ u.validTo = IF v.isCurrent THEN now ELSE v.validTo
              /\ ~v.isCurrent => u = v
         /\ \A v \in table[k] : \E u \in Close(table[k]) :
              /\ u.attrs = v.attrs /\ u.subscribed = v.subscribed /\ u.validFrom = v.validFrom
              /\ ~u.isCurrent /\ u.validTo = IF v.isCurrent THEN now ELSE v.validTo
<1> DEFINE C(v) == IF v.isCurrent THEN [v EXCEPT !.validTo = now, !.isCurrent = FALSE] ELSE v
<1>1. Close(table[k]) = {C(v) : v \in table[k]}
  BY DEF Close
<1>2. ASSUME NEW v \in table[k]
      PROVE  /\ C(v).attrs = v.attrs /\ C(v).subscribed = v.subscribed
             /\ C(v).validFrom = v.validFrom /\ ~C(v).isCurrent
             /\ C(v).validTo = IF v.isCurrent THEN now ELSE v.validTo
             /\ ~v.isCurrent => C(v) = v
  <2>1. v \in Version
    BY VersionFacts
  <2>2. QED BY <2>1 DEF Version
<1> HIDE DEF C
<1>3. QED BY <1>1, <1>2

\* What scd2.plan does to each key of the dimension in turn.
LEMMA Plan ==
  ASSUME NEW k \in Key
  PROVE  /\ k \in ToClose(run.dim) <=> DimOf[k] = run.dim /\ (Changed(k) \/ Gone(k))
         /\ Changed(k) \/ Gone(k) => HasOpen(k)
         /\ DimOf[k] = run.dim /\ (Changed(k) \/ Unseen(k) \/ Gone(k)) <=> Inserts(run.dim)[k] # {}
         /\ \A v \in Inserts(run.dim)[k] :
              /\ v.isCurrent /\ v.validTo = FOREVER
              /\ \/ Changed(k) /\ v.attrs = run.current[k] /\ v.subscribed /\ v.validFrom = now
                 \/ Unseen(k) /\ v.attrs = run.current[k] /\ v.subscribed /\ v.validFrom = EPOCH
                 \/ Gone(k) /\ ~v.subscribed /\ v.validFrom = now
<1>1. k \in ToClose(run.dim) <=> DimOf[k] = run.dim /\ (Changed(k) \/ Gone(k))
  BY DEF ToClose
<1>2. Changed(k) \/ Gone(k) => HasOpen(k)
  BY DEF Changed, Gone
<1>3. Inserts(run.dim)[k] =
        IF DimOf[k] # run.dim THEN {}
        ELSE IF Changed(k) THEN {OpenedAt(run.current[k], TRUE, now)}
        ELSE IF Unseen(k)  THEN {OpenedAt(run.current[k], TRUE, EPOCH)}
        ELSE IF Gone(k)    THEN {OpenedAt(Previous(k).attrs, FALSE, now)}
        ELSE {}
  BY DEF Inserts
<1>4. DimOf[k] = run.dim /\ (Changed(k) \/ Unseen(k) \/ Gone(k)) <=> Inserts(run.dim)[k] # {}
  BY <1>3
<1>5. ASSUME NEW v \in Inserts(run.dim)[k]
      PROVE  /\ v.isCurrent /\ v.validTo = FOREVER
             /\ \/ Changed(k) /\ v.attrs = run.current[k] /\ v.subscribed /\ v.validFrom = now
                \/ Unseen(k) /\ v.attrs = run.current[k] /\ v.subscribed /\ v.validFrom = EPOCH
                \/ Gone(k) /\ ~v.subscribed /\ v.validFrom = now
  <2>1. \/ Changed(k) /\ v = OpenedAt(run.current[k], TRUE, now)
        \/ Unseen(k) /\ v = OpenedAt(run.current[k], TRUE, EPOCH)
        \/ Gone(k) /\ v = OpenedAt(Previous(k).attrs, FALSE, now)
    BY <1>3
  <2>2. CASE Changed(k) /\ v = OpenedAt(run.current[k], TRUE, now)
    BY <2>2 DEF OpenedAt
  <2>3. CASE Unseen(k) /\ v = OpenedAt(run.current[k], TRUE, EPOCH)
    BY <2>3 DEF OpenedAt
  <2>4. CASE Gone(k) /\ v = OpenedAt(Previous(k).attrs, FALSE, now)
    BY <2>4 DEF OpenedAt
  <2>5. QED BY <2>1, <2>2, <2>3, <2>4
<1>6. QED BY <1>1, <1>2, <1>4, <1>5

LEMMA HistoryInit == Init => HistoryInv
<1> SUFFICES ASSUME Init PROVE HistoryInv
  OBVIOUS
<1>1. (\A k \in Key : table[k] = {} /\ run.insert[k] = {}) /\ At("idle") /\ told = {}
  BY DEF Init, Idle, At
<1>2. VersionInv /\ InsertInv /\ BoundariesAreChanges /\ TileInv
  BY <1>1 DEF VersionInv, InsertInv, BoundariesAreChanges, TileInv, HasOpen, OpenVersions
<1>3. SliceInv
  BY <1>1 DEF SliceInv, Handled
<1>4. QED BY <1>2, <1>3, MasterInit DEF HistoryInv

LEMMA ChangeKeepsHistory ==
  ASSUME HistoryInv, NEW k \in Key, ChangeRegistry(k)
  PROVE  VersionInv' /\ InsertInv' /\ BoundariesAreChanges' /\ TileInv' /\ SliceInv'
<1>1. UNCHANGED <<table, now, run, kills, told, torn>>
  BY DEF ChangeRegistry
<1>2. \A j \in Key : (OpenVersions(j))' = OpenVersions(j)
  BY <1>1 DEF OpenVersions
<1>3. VersionInv' /\ InsertInv' /\ BoundariesAreChanges'
  BY <1>1 DEF HistoryInv, VersionInv, InsertInv, BoundariesAreChanges, Ahead, At, Differ
<1>4. TileInv'
  BY <1>1, <1>2 DEF HistoryInv, TileInv, HasOpen, AsOf
<1>5. SliceInv'
  BY <1>1, <1>2 DEF HistoryInv, SliceInv, Handled, At, Tells
<1>6. QED BY <1>3, <1>4, <1>5

\* A new run is later than every version.
LEMMA StartKeepsHistory ==
  ASSUME HistoryInv, StartRun
  PROVE  VersionInv' /\ InsertInv' /\ BoundariesAreChanges' /\ TileInv' /\ SliceInv'
<1>1. /\ At("idle") /\ now' = now + 1 /\ UNCHANGED <<registry, table, kills, told, torn>>
      /\ run' = [pc |-> "closing", dim |-> 1, current |-> registry, insert |-> [k \in Key |-> {}]]
  BY DEF StartRun, Idle
<1>2. TypeOK /\ \A k \in Key : run.insert[k] = {} /\ run'.insert[k] = {}
  BY <1>1 DEF HistoryInv, MasterInv, AppendInv, At
<1>3. \A k \in Key : (OpenVersions(k))' = OpenVersions(k)
  BY <1>1 DEF OpenVersions
<1>4. VersionInv'
  <2> SUFFICES ASSUME NEW k \in Key, NEW v \in table[k]
               PROVE  /\ v.validFrom < v.validTo /\ v.validFrom <= now + 1
                      /\ IF v.isCurrent THEN v.validTo = FOREVER ELSE v.validTo <= now + 1
                      /\ v.validFrom < now + 1 /\ v.validTo # now + 1
    BY <1>1 DEF VersionInv
  <2>1. QED BY <1>2, VersionFacts, Times DEF HistoryInv, VersionInv, StartRun
<1>5. InsertInv' /\ BoundariesAreChanges'
  BY <1>1, <1>2 DEF HistoryInv, InsertInv, BoundariesAreChanges
<1>6. TileInv'
  <2> SUFFICES ASSUME NEW k \in Key \ torn
               PROVE  /\ \A v, w \in table[k] : v # w =>
                           v.validTo <= w.validFrom \/ w.validTo <= v.validFrom
                      /\ table[k] # {} => HasOpen(k) /\ \A t \in EPOCH..now : AsOf(k, t) # {}
                      /\ HasOpen(k) => \A t \in EPOCH..MaxRuns : AsOf(k, t) # {}
    <3>1. (now + 1) - 1 = now /\ now' - 1 = now
      BY <1>1, <1>2, Times
    <3>2. QED BY <1>1, <1>3, <3>1 DEF TileInv, HasOpen, AsOf
  <2>1. EPOCH..now \subseteq EPOCH..MaxRuns
    BY <1>2, Times
  <2>2. QED BY <1>2, <2>1 DEF HistoryInv, TileInv
<1>7. SliceInv'
  <2>1. ~At("idle")' /\ ~At("appending")' /\ \A k \in Key : ~(DimOf[k] < run'.dim)
    BY <1>1, MasterConstants DEF At
  <2>2. QED BY <2>1 DEF SliceInv, Handled
<1>8. QED BY <1>4, <1>5, <1>6, <1>7

\* A kill leaves the tables as they are; what it tore no longer counts as history.
LEMMA KillKeepsHistory ==
  ASSUME HistoryInv, Killed
  PROVE  VersionInv' /\ InsertInv' /\ BoundariesAreChanges' /\ TileInv' /\ SliceInv'
<1>1. /\ UNCHANGED <<registry, table, now>> /\ torn' = torn \cup InDoubt /\ told' = {}
      /\ run' = [pc |-> "idle", dim |-> 1, current |-> Nothing, insert |-> [k \in Key |-> {}]]
  BY DEF Killed, Idle
<1>2. \A k \in Key : (OpenVersions(k))' = OpenVersions(k) /\ ~(Ahead(k))' /\ ~(Handled(k))'
  BY <1>1 DEF OpenVersions, Ahead, Handled, At
<1>3. VersionInv' /\ InsertInv' /\ BoundariesAreChanges'
  BY <1>1, <1>2 DEF HistoryInv, VersionInv, InsertInv, BoundariesAreChanges
<1>4. TileInv'
  <2>1. \A k \in Key \ torn' : k \notin torn /\ (table[k] # {} => run.insert[k] = {})
    BY <1>1 DEF InDoubt
  <2>2. QED BY <1>1, <1>2, <2>1 DEF HistoryInv, TileInv, HasOpen, AsOf
<1>5. SliceInv'
  BY <1>1, <1>2 DEF SliceInv
<1>6. QED BY <1>3, <1>4, <1>5

\* The MERGE ends the open version of every key it names at run_ts.
LEMMA CloseKeepsHistory ==
  ASSUME HistoryInv, CloseChanged
  PROVE  VersionInv' /\ InsertInv' /\ BoundariesAreChanges' /\ TileInv' /\ SliceInv'
<1> DEFINE closed == ToClose(run.dim)
<1>1. /\ At("closing") /\ UNCHANGED <<registry, now, kills, told, torn>>
      /\ table' = [k \in Key |-> IF k \in closed THEN Close(table[k]) ELSE table[k]]
      /\ run' = [run EXCEPT !.pc = "appending", !.insert = Inserts(run.dim)]
  BY DEF CloseChanged
<1>2. TypeOK /\ AtMostOneOpen /\ \A k \in Key : run.insert[k] = {}
  BY <1>1 DEF HistoryInv, MasterInv, AppendInv, At
<1>3. /\ run'.pc = "appending" /\ run'.insert = Inserts(run.dim) /\ run'.dim = run.dim
      /\ run'.current = run.current
  BY <1>1, <1>2 DEF TypeOK
<1>4. \A k \in Key : table'[k] = IF k \in closed THEN Close(table[k]) ELSE table[k]
  BY <1>1
<1>5. \A k \in Key : /\ (Ahead(k))' <=> Ahead(k)
                     /\ run.dim <= DimOf[k] => Ahead(k)
                     /\ k \in closed => Ahead(k) /\ DimOf[k] = run.dim /\ HasOpen(k)
  <2>1. ~At("idle") /\ ~At("idle")'
    BY <1>1, <1>3 DEF At
  <2>2. \A k \in Key : k \in closed => DimOf[k] = run.dim /\ HasOpen(k)
    BY Plan
  <2>3. \A k \in Key : DimOf[k] = run.dim => run.dim <= DimOf[k]
    BY <1>2, Times
  <2>4. QED BY <1>2, <1>3, <2>1, <2>2, <2>3 DEF Ahead
<1> HIDE DEF closed
<1>6. \A k \in Key : \A u \in table'[k] : \E v \in table[k] :
        /\ u.attrs = v.attrs /\ u.subscribed = v.subscribed /\ u.validFrom = v.validFrom
        /\ IF k \in closed THEN ~u.isCurrent /\ u.validTo = (IF v.isCurrent THEN now ELSE v.validTo)
                           ELSE u = v
        /\ k \in closed /\ ~v.isCurrent => u = v
  BY <1>2, <1>4, ClosedVersion
<1>7. VersionInv'
  <2> SUFFICES ASSUME NEW k \in Key, NEW u \in table'[k]
               PROVE  /\ u.validFrom < u.validTo /\ u.validFrom <= now
                      /\ IF u.isCurrent THEN u.validTo = FOREVER ELSE u.validTo <= now
                      /\ Ahead(k) => u.validFrom < now
                      /\ Ahead(k) /\ run.dim # DimOf[k] => u.validTo # now
    BY <1>1, <1>3, <1>5 DEF VersionInv, At
  <2>1. PICK v \in table[k] :
          /\ u.attrs = v.attrs /\ u.subscribed = v.subscribed /\ u.validFrom = v.validFrom
          /\ IF k \in closed THEN ~u.isCurrent /\ u.validTo = (IF v.isCurrent THEN now ELSE v.validTo)
                             ELSE u = v
    BY <1>6
  <2>2. /\ v.validFrom < v.validTo /\ v.validFrom <= now
        /\ IF v.isCurrent THEN v.validTo = FOREVER ELSE v.validTo <= now
        /\ Ahead(k) => v.validFrom < now
        /\ Ahead(k) /\ run.dim # DimOf[k] => v.validTo # now
    BY DEF HistoryInv, VersionInv
  <2>3. now <= now
    BY <1>2, Times
  <2>4. QED BY <1>5, <2>1, <2>2, <2>3
<1>8. \A k \in Key : k \in closed => \A v \in OpenVersions(k) : v = Previous(k)
  BY <1>2, <1>5, PreviousIsOpen DEF AtMostOneOpen
<1>9. InsertInv'
  <2> SUFFICES ASSUME NEW k \in Key, NEW v \in Inserts(run.dim)[k]
               PROVE  /\ DimOf[k] = run.dim
                      /\ v.isCurrent /\ v.validTo = FOREVER /\ v.validFrom \in {EPOCH, now}
                      /\ k \notin torn => v.validFrom = IF table'[k] = {} THEN EPOCH ELSE now
                      /\ \A u \in table'[k] : u.validTo = v.validFrom => Differ(u, v)
    BY <1>1, <1>3 DEF InsertInv, Differ
  <2>1. DimOf[k] = run.dim /\ (Changed(k) \/ Unseen(k) \/ Gone(k))
    BY <1>2, Plan
  <2>2. CASE Unseen(k)
    <3>1. v.isCurrent /\ v.validTo = FOREVER /\ v.validFrom = EPOCH
      BY <2>2, Plan DEF Unseen
    <3>2. k \notin closed /\ ~HasOpen(k) /\ table'[k] = table[k]
      BY <1>4, <1>5, <2>2 DEF Unseen
    <3>3. k \notin torn => table'[k] = {}
      BY <1>2, <3>2 DEF HistoryInv, TileInv
    <3>4. \A u \in table'[k] : u.validTo # EPOCH
      BY <1>2, <3>2, VersionFacts, Times DEF HistoryInv, VersionInv
    <3>5. QED BY <2>1, <3>1, <3>3, <3>4
  <2>3. CASE Changed(k) \/ Gone(k)
    <3>1. k \in closed /\ v.isCurrent /\ v.validTo = FOREVER /\ v.validFrom = now
      <4>1. ~Unseen(k)
        BY <2>3, Plan DEF Unseen
      <4>2. QED BY <2>1, <2>3, <4>1, Plan DEF closed
    <3>2. table'[k] # {}
      <4>1. table[k] # {}
        BY <1>5, <3>1 DEF HasOpen, OpenVersions
      <4>2. QED BY <1>2, <1>4, <3>1, <4>1, ClosedVersion
    <3>3. Differ(Previous(k), v)
      <4>1. CASE Changed(k)
        <5>1. v.attrs = run.current[k] /\ v.subscribed
          BY <4>1, Plan DEF Changed, Unseen, Gone
        <5>2. ~SameHash(k)
          BY <4>1 DEF Changed
        <5>3. QED BY <5>1, <5>2 DEF SameHash, Differ
      <4>2. CASE Gone(k)
        <5>1. ~v.subscribed
          BY <4>2, Plan DEF Changed, Unseen, Gone
        <5>2. Previous(k).subscribed
          BY <4>2 DEF Gone
        <5>3. QED BY <5>1, <5>2 DEF Differ
      <4>3. QED BY <2>3, <4>1, <4>2
    <3>4. ASSUME NEW u \in table'[k], u.validTo = now PROVE Differ(u, v)
      <4>1. PICK w \in table[k] :
              /\ u.attrs = w.attrs /\ u.subscribed = w.subscribed
              /\ u.validTo = (IF w.isCurrent THEN now ELSE w.validTo)
        BY <1>6, <3>1
      <4>2. w.validTo # now
        BY <1>1, <1>5, <3>1 DEF HistoryInv, VersionInv
      <4>3. w.isCurrent
        BY <3>4, <4>1, <4>2
      <4>4. w = Previous(k)
        BY <1>8, <3>1, <4>3 DEF OpenVersions
      <4>5. QED BY <3>3, <4>1, <4>4 DEF Differ
    <3>5. QED BY <2>1, <3>1, <3>2, <3>4
  <2>4. QED BY <2>1, <2>2, <2>3
<1>10. BoundariesAreChanges'
  <2> SUFFICES ASSUME NEW k \in Key, NEW x \in table'[k], NEW y \in table'[k],
                      x.validTo = y.validFrom
               PROVE  x.attrs # y.attrs \/ x.subscribed # y.subscribed
    BY DEF BoundariesAreChanges
  <2>1. CASE k \in closed
    <3>1. PICK v \in table[k] :
            /\ x.attrs = v.attrs /\ x.subscribed = v.subscribed
            /\ x.validTo = (IF v.isCurrent THEN now ELSE v.validTo)
      BY <1>6, <2>1
    <3>2. PICK w \in table[k] :
            y.attrs = w.attrs /\ y.subscribed = w.subscribed /\ y.validFrom = w.validFrom
      BY <1>6, <2>1
    <3>3. w.validFrom < now
      BY <1>5, <2>1 DEF HistoryInv, VersionInv
    <3>4. v.validTo = w.validFrom
      <4>1. w.validFrom \in Nat /\ now \in Nat
        BY <1>2, VersionFacts, Times
      <4>2. now # w.validFrom
        BY <3>3, <4>1
      <4>3. ~v.isCurrent
        BY <3>1, <3>2, <4>2
      <4>4. QED BY <3>1, <3>2, <4>3
    <3>5. QED BY <3>1, <3>2, <3>4 DEF HistoryInv, BoundariesAreChanges
  <2>2. CASE k \notin closed
    BY <1>4, <2>2 DEF HistoryInv, BoundariesAreChanges
  <2>3. QED BY <2>1, <2>2
<1>11. TileInv'
  <2> SUFFICES ASSUME NEW k \in Key \ torn
               PROVE  /\ \A x, y \in table'[k] : x # y =>
                           x.validTo <= y.validFrom \/ y.validTo <= x.validFrom
                      /\ table'[k] # {} =>
                           /\ (HasOpen(k))' \/ Inserts(run.dim)[k] # {}
                           /\ \A t \in EPOCH..(now - 1) : (AsOf(k, t))' # {}
                      /\ (HasOpen(k))' => \A t \in EPOCH..MaxRuns : (AsOf(k, t))' # {}
    BY <1>1, <1>3 DEF TileInv, HasOpen, OpenVersions, AsOf
  <2>1. CASE k \in closed
    <3>1. ~(HasOpen(k))' /\ Inserts(run.dim)[k] # {}
      <4>1. Changed(k) \/ Gone(k)
        BY <1>2, <2>1, Plan DEF closed
      <4>2. Inserts(run.dim)[k] # {}
        BY <1>2, <1>5, <2>1, <4>1, Plan
      <4>3. ~(HasOpen(k))'
        BY <1>6, <2>1 DEF HasOpen, OpenVersions
      <4>4. QED BY <4>2, <4>3
    <3>2. ASSUME NEW x \in table'[k], NEW y \in table'[k], x # y
          PROVE  x.validTo <= y.validFrom \/ y.validTo <= x.validFrom
      <4>1. PICK v \in table[k] :
              /\ x.validFrom = v.validFrom /\ x.validTo = (IF v.isCurrent THEN now ELSE v.validTo)
              /\ ~v.isCurrent => x = v
        BY <1>6, <2>1
      <4>2. PICK w \in table[k] :
              /\ y.validFrom = w.validFrom /\ y.validTo = (IF w.isCurrent THEN now ELSE w.validTo)
              /\ ~w.isCurrent => y = w
        BY <1>6, <2>1
      <4>3. CASE v # w
        <5>1. v.validTo <= w.validFrom \/ w.validTo <= v.validFrom
          BY <4>3 DEF HistoryInv, TileInv
        <5>2. /\ v.isCurrent => v.validTo = FOREVER
              /\ w.isCurrent => w.validTo = FOREVER
          BY DEF HistoryInv, VersionInv
        <5>3. /\ v.validFrom < FOREVER /\ w.validFrom < FOREVER
              /\ v.validFrom \in Nat /\ w.validFrom \in Nat
          BY <1>2, VersionFacts, Times
        <5>4. QED BY <1>2, <4>1, <4>2, <5>1, <5>2, <5>3, Times
      <4>4. CASE v = w
        \* One row has one image.
        <5>1. v.isCurrent
          BY <3>2, <4>1, <4>2, <4>4
        <5>2. \A z \in Close(table[k]) : z.validTo = now => z = [v EXCEPT !.validTo = now, !.isCurrent = FALSE]
          <6>1. \A z \in table[k] : z.isCurrent => z = v
            BY <1>2, <5>1 DEF AtMostOneOpen, OpenVersions
          <6>2. \A z \in table[k] : z.validTo # now
            BY <1>1, <1>5, <2>1 DEF HistoryInv, VersionInv
          <6>3. QED BY <6>1, <6>2 DEF Close
        <5>3. QED BY <1>4, <2>1, <3>2, <4>1, <4>2, <4>4, <5>1, <5>2
      <4>5. QED BY <4>3, <4>4
    <3>3. ASSUME NEW t \in EPOCH..(now - 1) PROVE (AsOf(k, t))' # {}
      <4>1. t \in Int /\ t < now /\ t \in EPOCH..MaxRuns
        BY <1>2, Times
      <4>2. PICK v \in table[k] : v.validFrom <= t /\ t < v.validTo
        BY <1>5, <2>1, <4>1 DEF HistoryInv, TileInv, AsOf
      <4>3. PICK u \in table'[k] :
              u.validFrom = v.validFrom /\ u.validTo = (IF v.isCurrent THEN now ELSE v.validTo)
        BY <1>2, <1>4, <2>1, ClosedVersion
      <4>4. QED BY <4>1, <4>2, <4>3 DEF AsOf
    <3>4. QED BY <3>1, <3>2, <3>3
  <2>2. CASE k \notin closed
    <3>1. table'[k] = table[k]
      BY <1>4, <2>2
    <3>2. (OpenVersions(k))' = OpenVersions(k) /\ \A t : (AsOf(k, t))' = AsOf(k, t)
      BY <3>1 DEF OpenVersions, AsOf
    <3>3. QED BY <1>2, <3>1, <3>2 DEF HistoryInv, TileInv, HasOpen
  <2>3. QED BY <2>1, <2>2
<1>12. SliceInv'
  <2> SUFFICES ASSUME NEW k \in Key, DimOf[k] <= run.dim
               PROVE  Tells(run.current, k, (OpenVersions(k))' \cup Inserts(run.dim)[k])
    <3>1. \A k \in Key : (Handled(k))' => DimOf[k] <= run.dim
      BY <1>2, <1>3, Times DEF Handled
    <3>2. QED BY <1>1, <1>3, <3>1 DEF SliceInv, At, Tells
  <2>1. CASE DimOf[k] # run.dim
    <3>1. Handled(k)
      BY <1>1, <1>2, <2>1, Times DEF Handled, At
    <3>2. (OpenVersions(k))' = OpenVersions(k) /\ Inserts(run.dim)[k] = {}
      BY <1>2, <1>4, <1>5, <2>1, Plan DEF OpenVersions
    <3>3. QED BY <1>2, <3>1, <3>2 DEF HistoryInv, SliceInv
  <2>2. CASE DimOf[k] = run.dim /\ k \in closed
    <3>1. (OpenVersions(k))' = {}
      BY <1>6, <2>2 DEF OpenVersions
    <3>2. CASE Changed(k)
      <4>1. Listed(k) /\ ~Unseen(k) /\ ~Gone(k)
        BY <3>2 DEF Changed, Unseen, Gone
      <4>2. PICK v \in Inserts(run.dim)[k] : v.attrs = run.current[k] /\ v.subscribed
        BY <2>2, <3>2, <4>1, Plan
      <4>3. QED BY <4>1, <4>2 DEF Tells, Listed
    <3>3. CASE Gone(k)
      <4>1. ~Listed(k) /\ ~Unseen(k) /\ ~Changed(k)
        BY <3>3 DEF Changed, Unseen, Gone
      <4>2. \A v \in Inserts(run.dim)[k] : ~v.subscribed
        BY <4>1, Plan
      <4>3. QED BY <3>1, <4>1, <4>2 DEF Tells, Listed
    <3>4. QED BY <1>2, <2>2, <3>2, <3>3, Plan DEF closed
  <2>3. CASE DimOf[k] = run.dim /\ k \notin closed
    <3>1. (OpenVersions(k))' = OpenVersions(k) /\ ~Changed(k) /\ ~Gone(k)
      BY <1>2, <1>4, <2>3, Plan DEF OpenVersions, closed
    <3>2. CASE Unseen(k)
      <4>1. Listed(k) /\ ~Changed(k) /\ ~Gone(k)
        BY <3>2 DEF Changed, Unseen, Gone
      <4>2. PICK v \in Inserts(run.dim)[k] : v.attrs = run.current[k] /\ v.subscribed
        BY <2>3, <3>2, <4>1, Plan
      <4>3. QED BY <4>1, <4>2 DEF Tells, Listed
    <3>3. CASE ~Unseen(k) /\ Listed(k)
      <4>1. HasOpen(k) /\ SameHash(k)
        BY <3>1, <3>3 DEF Unseen, Changed
      <4>2. Previous(k) \in OpenVersions(k)
        BY <4>1, PreviousIsOpen
      <4>3. QED BY <3>1, <3>3, <4>1, <4>2 DEF Tells, SameHash, Listed
    <3>4. CASE ~Listed(k)
      <4>1. ~Unseen(k) /\ Inserts(run.dim)[k] = {}
        BY <1>2, <3>1, <3>4, Plan DEF Unseen
      <4>2. \A v \in OpenVersions(k) : v = Previous(k)
        BY <1>2, PreviousIsOpen DEF AtMostOneOpen, HasOpen
      <4>3. \A v \in OpenVersions(k) : ~v.subscribed
        BY <3>1, <3>4, <4>2 DEF Gone, HasOpen
      <4>4. QED BY <3>1, <3>4, <4>1, <4>3 DEF Tells, Listed
    <3>5. QED BY <3>2, <3>3, <3>4
  <2>4. QED BY <2>1, <2>2, <2>3
<1>13. QED BY <1>7, <1>9, <1>10, <1>11, <1>12

\* The append puts each version where the one before it ends.
LEMMA AppendKeepsHistory ==
  ASSUME HistoryInv, AppendNew
  PROVE  VersionInv' /\ InsertInv' /\ BoundariesAreChanges' /\ TileInv' /\ SliceInv'
<1>1. /\ At("appending") /\ UNCHANGED <<registry, now, kills, torn>>
      /\ table' = [k \in Key |-> table[k] \cup run.insert[k]]
      /\ \/ run.dim = 1 /\ run' = [run EXCEPT !.pc = "closing", !.dim = 2, !.insert = Idle.insert]
         \/ run.dim # 1 /\ run' = Idle /\ told' = {run.current}
  BY DEF AppendNew
<1>2. TypeOK /\ AtMostOneOpen /\ AppendInv
  BY DEF HistoryInv, MasterInv
<1>3. /\ \A k \in Key : run'.insert[k] = {}
      /\ \/ run.dim = 1 /\ run'.pc = "closing" /\ run'.dim = 2 /\ run'.current = run.current
         \/ run.dim = 2 /\ run'.pc = "idle" /\ told' = {run.current}
  <2>1. CASE run.dim = 1 /\ run' = [run EXCEPT !.pc = "closing", !.dim = 2, !.insert = Idle.insert]
    <3>1. Idle.insert = [k \in Key |-> {}]
      BY DEF Idle
    <3>2. run'.insert = Idle.insert /\ run'.pc = "closing" /\ run'.dim = 2 /\ run'.current = run.current
      BY <1>2, <2>1 DEF TypeOK
    <3>3. QED BY <2>1, <3>1, <3>2
  <2>2. CASE run.dim # 1 /\ run' = Idle /\ told' = {run.current}
    <3>1. run.dim = 2
      BY <1>2, <2>2, Times
    <3>2. QED BY <2>2, <3>1 DEF Idle
  <2>3. QED BY <1>1, <2>1, <2>2
<1>4. \A k \in Key : table'[k] = table[k] \cup run.insert[k]
  BY <1>1
<1>5. ASSUME NEW k \in Key, NEW v \in run.insert[k]
      PROVE  /\ DimOf[k] = run.dim /\ v.isCurrent /\ v.validTo = FOREVER
             /\ v.validFrom \in {EPOCH, now} /\ v.validFrom < FOREVER /\ v.validFrom <= now
             /\ \A u \in table[k] : ~u.isCurrent
  <2>1. \A u \in table[k] : ~u.isCurrent
    BY <1>2 DEF AppendInv, OpenVersions
  <2>2. /\ DimOf[k] = run.dim /\ v.isCurrent /\ v.validTo = FOREVER
        /\ v.validFrom \in {EPOCH, now}
    BY DEF HistoryInv, InsertInv
  <2>3. EPOCH < FOREVER /\ now < FOREVER /\ EPOCH <= now /\ now <= now
    BY <1>2, Times
  <2>4. QED BY <2>1, <2>2, <2>3
<1>6. \A k \in Key : (OpenVersions(k))' = OpenVersions(k) \cup run.insert[k]
  BY <1>4, <1>5 DEF OpenVersions
<1>7. \A k \in Key : (Ahead(k))' => Ahead(k) /\ run.dim # DimOf[k] /\ run.insert[k] = {}
  <2>1. ASSUME NEW k \in Key, (Ahead(k))' PROVE run.dim = 1 /\ DimOf[k] = 2
    BY <1>2, <1>3, <2>1, Times DEF Ahead, At
  <2>2. QED BY <1>1, <1>5, <2>1 DEF Ahead, At
<1>8. VersionInv'
  <2> SUFFICES ASSUME NEW k \in Key, NEW v \in table'[k]
               PROVE  /\ v.validFrom < v.validTo /\ v.validFrom <= now
                      /\ IF v.isCurrent THEN v.validTo = FOREVER ELSE v.validTo <= now
                      /\ (Ahead(k))' => v.validFrom < now /\ v.validTo # now
    BY <1>1 DEF VersionInv
  <2>1. CASE v \in table[k]
    BY <1>7, <2>1 DEF HistoryInv, VersionInv
  <2>2. CASE v \in run.insert[k]
    BY <1>5, <1>7, <2>2
  <2>3. QED BY <1>4, <2>1, <2>2
<1>9. InsertInv'
  BY <1>3 DEF InsertInv
<1>10. BoundariesAreChanges'
  <2> SUFFICES ASSUME NEW k \in Key, NEW v \in table'[k], NEW w \in table'[k],
                      v.validTo = w.validFrom
               PROVE  v.attrs # w.attrs \/ v.subscribed # w.subscribed
    BY DEF BoundariesAreChanges
  <2>1. CASE v \in run.insert[k]
    <3>1. v.validTo = FOREVER
      BY <1>5, <2>1
    <3>2. w.validFrom < FOREVER
      BY <1>2, <1>4, <1>5, VersionFacts, Times
    <3>3. FOREVER \in Nat
      BY <1>2, Times
    <3>4. QED BY <3>1, <3>2, <3>3
  <2>2. CASE v \in table[k] /\ w \in run.insert[k]
    BY <2>2 DEF HistoryInv, InsertInv, Differ
  <2>3. CASE v \in table[k] /\ w \in table[k]
    BY <2>3 DEF HistoryInv, BoundariesAreChanges
  <2>4. QED BY <1>4, <2>1, <2>2, <2>3
<1>11. TileInv'
  <2> SUFFICES ASSUME NEW k \in Key \ torn
               PROVE  /\ \A v, w \in table'[k] : v # w =>
                           v.validTo <= w.validFrom \/ w.validTo <= v.validFrom
                      /\ table'[k] # {} =>
                           /\ (OpenVersions(k))' # {}
                           /\ \A t \in EPOCH..(now - 1) : (AsOf(k, t))' # {}
                      /\ (OpenVersions(k))' # {} => \A t \in EPOCH..MaxRuns : (AsOf(k, t))' # {}
    BY <1>1 DEF TileInv, HasOpen, AsOf, OpenVersions
  <2>1. CASE run.insert[k] = {}
    <3>1. table'[k] = table[k] /\ (OpenVersions(k))' = OpenVersions(k)
      BY <1>4, <1>6, <2>1
    <3>2. \A t : (AsOf(k, t))' = AsOf(k, t)
      BY <3>1 DEF AsOf
    <3>3. QED BY <2>1, <3>1, <3>2 DEF HistoryInv, TileInv, HasOpen
  <2>2. CASE run.insert[k] # {}
    <3>1. PICK n \in run.insert[k] : run.insert[k] = {n}
      BY <1>2, <2>2 DEF AppendInv
    <3>2. /\ n \in table'[k] /\ n \in (OpenVersions(k))' /\ n.validTo = FOREVER
          /\ n.validFrom = IF table[k] = {} THEN EPOCH ELSE now
      BY <1>4, <1>5, <1>6, <3>1 DEF HistoryInv, InsertInv
    <3>3. ASSUME NEW t \in EPOCH..MaxRuns PROVE (AsOf(k, t))' # {}
      <4>1. t \in Nat /\ t < FOREVER /\ EPOCH <= t
        BY <1>2, Times
      <4>2. CASE n.validFrom <= t
        BY <3>2, <4>1, <4>2 DEF AsOf
      <4>3. CASE ~(n.validFrom <= t)
        <5>1. table[k] # {} /\ n.validFrom = now
          BY <3>2, <4>1, <4>3
        <5>2. t \in EPOCH..(now - 1)
          BY <1>2, <4>1, <4>3, <5>1, Times
        <5>3. AsOf(k, t) # {}
          BY <5>1, <5>2 DEF HistoryInv, TileInv
        <5>4. QED BY <1>4, <5>3 DEF AsOf
      <4>4. QED BY <4>2, <4>3
    <3>4. \A t \in EPOCH..(now - 1) : t \in EPOCH..MaxRuns
      BY <1>2, Times
    <3>5. ASSUME NEW v \in table'[k], NEW w \in table'[k], v # w
          PROVE  v.validTo <= w.validFrom \/ w.validTo <= v.validFrom
      <4>1. \A u \in table[k] : u.validTo <= n.validFrom
        BY <1>5, <3>1, <3>2 DEF HistoryInv, VersionInv
      <4>2. CASE v \in table[k] /\ w \in table[k]
        BY <3>5, <4>2 DEF HistoryInv, TileInv
      <4>3. CASE v \in table[k] /\ w = n
        BY <4>1, <4>3
      <4>4. CASE v = n /\ w \in table[k]
        BY <4>1, <4>4
      <4>5. QED BY <1>4, <3>1, <3>5, <4>2, <4>3, <4>4
    <3>6. QED BY <3>2, <3>3, <3>4, <3>5
  <2>3. QED BY <2>1, <2>2
<1>12. SliceInv'
  <2>1. \A k \in Key : DimOf[k] <= run.dim => Tells(run.current, k, (OpenVersions(k))')
    <3>1. \A k \in Key : DimOf[k] <= run.dim => Handled(k)
      BY <1>1, <1>2, Times DEF Handled, At
    <3>2. QED BY <1>6, <3>1 DEF HistoryInv, SliceInv
  <2>2. CASE run.dim = 1 /\ run'.pc = "closing" /\ run'.dim = 2 /\ run'.current = run.current
    <3>1. \A k \in Key : (Handled(k))' => DimOf[k] <= run.dim
      BY <1>2, <2>2, Times DEF Handled, At
    <3>2. \A k \in Key : (OpenVersions(k))' \cup run'.insert[k] = (OpenVersions(k))'
      BY <1>3
    <3>3. QED BY <2>1, <2>2, <3>1, <3>2 DEF SliceInv, At, Tells
  <2>3. CASE run.dim = 2 /\ run'.pc = "idle" /\ told' = {run.current}
    <3>1. \A k \in Key : DimOf[k] <= run.dim /\ ~(Handled(k))'
      BY <1>2, <2>3, Times DEF Handled, At
    <3>2. QED BY <2>1, <2>3, <3>1 DEF SliceInv, Tells
  <2>4. QED BY <1>3, <2>2, <2>3
<1>13. QED BY <1>8, <1>9, <1>10, <1>11, <1>12

LEMMA HistoryStep == HistoryInv /\ [Next]_vars => HistoryInv'
<1> SUFFICES ASSUME HistoryInv, [Next]_vars PROVE HistoryInv'
  OBVIOUS
<1>1. MasterInv'
  BY MasterStep DEF HistoryInv
<1>2. SUFFICES VersionInv' /\ InsertInv' /\ BoundariesAreChanges' /\ TileInv' /\ SliceInv'
  BY <1>1 DEF HistoryInv
<1>3. ASSUME NEW k \in Key, ChangeRegistry(k)
      PROVE  VersionInv' /\ InsertInv' /\ BoundariesAreChanges' /\ TileInv' /\ SliceInv'
  BY <1>3, ChangeKeepsHistory
<1>4. CASE StartRun
  BY <1>4, StartKeepsHistory
<1>5. CASE CloseChanged
  BY <1>5, CloseKeepsHistory
<1>6. CASE AppendNew
  BY <1>6, AppendKeepsHistory
<1>7. CASE Killed
  BY <1>7, KillKeepsHistory
<1>8. CASE UNCHANGED vars
  <2>1. \A k \in Key : (OpenVersions(k))' = OpenVersions(k)
    BY <1>8 DEF vars, OpenVersions
  <2>2. VersionInv' /\ InsertInv' /\ BoundariesAreChanges'
    BY <1>8 DEF vars, HistoryInv, VersionInv, InsertInv, BoundariesAreChanges, Ahead, At, Differ
  <2>3. TileInv'
    BY <1>8, <2>1 DEF vars, HistoryInv, TileInv, HasOpen, AsOf
  <2>4. SliceInv'
    BY <1>8, <2>1 DEF vars, HistoryInv, SliceInv, Handled, At, Tells
  <2>5. QED BY <2>2, <2>3, <2>4
<1>9. QED BY <1>3, <1>4, <1>5, <1>6, <1>7, <1>8 DEF Next

(***************************************************************************)
(* Every version of a key, in any history of runs and kills: where it      *)
(* begins, where it ends and what the next one says.                       *)
(***************************************************************************)
THEOREM HistoryInvariant == Spec => []HistoryInv
BY HistoryInit, HistoryStep, PTL DEF Spec

\* After a run the open versions are what the run read of the registry, kills or not
\* (scd2.plan compares with the current slice and never with the run before).
THEOREM CurrentSliceIsToldHolds == Spec => []CurrentSliceIsTold
<1>1. HistoryInv => CurrentSliceIsTold
  BY DEF HistoryInv, SliceInv, Tells, CurrentSliceIsTold
<1> QED BY <1>1, HistoryInvariant, PTL

\* One version of a key holds at each instant since EPOCH, and no two (scd2.plan: the close
\* and the insert carry the same run_ts).
THEOREM TilesHolds == Spec => []Tiles
<1>1. HistoryInv => Tiles
  <2> SUFFICES ASSUME HistoryInv, At("idle"), NEW k \in Key \ torn, table[k] # {},
                      NEW t \in EPOCH..MaxRuns
               PROVE  Cardinality(AsOf(k, t)) = 1
    BY DEF Tiles
  <2>1. TypeOK /\ run.insert[k] = {}
    BY DEF HistoryInv, MasterInv, AppendInv, At
  <2>2. PICK v \in AsOf(k, t) : TRUE
    BY <2>1 DEF HistoryInv, TileInv
  <2>3. ASSUME NEW w \in AsOf(k, t) PROVE w = v
    <3>1. v \in table[k] /\ w \in table[k] /\ v.validFrom <= t /\ t < v.validTo
          /\ w.validFrom <= t /\ t < w.validTo
      BY DEF AsOf
    <3>2. /\ v.validFrom \in Nat /\ v.validTo \in Nat /\ w.validFrom \in Nat /\ w.validTo \in Nat
          /\ t \in Nat
      BY <2>1, <3>1, VersionFacts, Times
    <3>3. ~(v.validTo <= w.validFrom) /\ ~(w.validTo <= v.validFrom)
      BY <3>1, <3>2
    <3>4. QED BY <3>1, <3>3 DEF HistoryInv, TileInv
  <2>4. AsOf(k, t) = {v}
    BY <2>3
  <2>5. QED BY <2>4, FS_Singleton
<1> QED BY <1>1, HistoryInvariant, PTL

\* A boundary between two versions is a change of what they say, even where a kill tore the
\* merge (attr_hash; a delisted key is closed once).
THEOREM BoundariesAreChangesHolds == Spec => []BoundariesAreChanges
<1>1. HistoryInv => BoundariesAreChanges
  BY DEF HistoryInv
<1> QED BY <1>1, HistoryInvariant, PTL

\* No run changes what an as-of join answers about an instant before it (the close moves
\* valid_to to run_ts, and a new version of a known key begins there).
THEOREM HistoryIsFixedHolds == Spec => HistoryIsFixed
<1> DEFINE Fixed == \A k \in Key \ torn' : table[k] # {} =>
                      \A t \in EPOCH..(now - 1) : (Said(k, t))' = Said(k, t)
<1>1. HistoryInv /\ [Next]_vars => [Fixed]_vars
  <2> SUFFICES ASSUME HistoryInv, Next, NEW k \in Key \ torn', table[k] # {},
                      NEW t \in EPOCH..(now - 1)
               PROVE  (Said(k, t))' = Said(k, t)
    OBVIOUS
  <2>1. TypeOK /\ t \in Int /\ t < now /\ now < FOREVER /\ now \in Nat /\ FOREVER \in Nat
    BY Times DEF HistoryInv, MasterInv
  <2>2. CASE table' = table
    BY <2>2 DEF Said, AsOf
  <2>3. CASE CloseChanged
    <3>1. table'[k] = IF k \in ToClose(run.dim) THEN Close(table[k]) ELSE table[k]
      BY <2>3 DEF CloseChanged
    <3>2. CASE k \in ToClose(run.dim)
      <4>1. \A v \in table[k] : v.isCurrent => v.validTo = FOREVER
        BY DEF HistoryInv, VersionInv
      <4>2. \A u \in table'[k] : \E v \in table[k] :
              /\ u.attrs = v.attrs /\ u.subscribed = v.subscribed /\ u.validFrom = v.validFrom
              /\ t < u.validTo <=> t < v.validTo
        BY <2>1, <3>1, <3>2, <4>1, ClosedVersion
      <4>3. \A v \in table[k] : \E u \in table'[k] :
              /\ u.attrs = v.attrs /\ u.subscribed = v.subscribed /\ u.validFrom = v.validFrom
              /\ t < u.validTo <=> t < v.validTo
        BY <2>1, <3>1, <3>2, <4>1, ClosedVersion
      <4>4. ASSUME NEW p \in (Said(k, t))' PROVE p \in Said(k, t)
        BY <4>2, <4>4 DEF Said, AsOf
      <4>5. ASSUME NEW p \in Said(k, t) PROVE p \in (Said(k, t))'
        BY <4>3, <4>5 DEF Said, AsOf
      <4>6. QED BY <4>4, <4>5
    <3>3. CASE k \notin ToClose(run.dim)
      BY <3>1, <3>3 DEF Said, AsOf
    <3>4. QED BY <3>2, <3>3
  <2>4. CASE AppendNew
    <3>1. table'[k] = table[k] \cup run.insert[k] /\ k \notin torn
      BY <2>4 DEF AppendNew
    <3>2. \A v \in run.insert[k] : v.validFrom = now
      BY <3>1 DEF HistoryInv, InsertInv
    <3>3. (AsOf(k, t))' = AsOf(k, t)
      BY <2>1, <3>1, <3>2 DEF AsOf
    <3>4. QED BY <3>3 DEF Said
  <2>5. QED BY <2>2, <2>3, <2>4 DEF Next, ChangeRegistry, StartRun, Killed
<1>2. QED BY <1>1, HistoryInvariant, PTL DEF Spec, HistoryIsFixed
=============================================================================
