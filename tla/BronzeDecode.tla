---------------------------- MODULE BronzeDecode ----------------------------
(***************************************************************************)
(* Stage 2 of docker/lake/ingest.py: raw.messages to the bronze tables of  *)
(* each venue (docker/lake/bronze.py), the rebuild of the layer            *)
(* (docker/lake/rebuild.py) and the snapshot expiry of raw.messages.       *)
(*                                                                         *)
(* Every table carries its own position, k2.src-snapshot-id, in the commit *)
(* that appends to it; the tables of a venue are decoded from one range    *)
(* but commit one after the other.  All of these jobs run under the lock   *)
(* of lock.py (RawIngest), so there is one writer at a time: it may be     *)
(* killed between any two of its steps.                                    *)
(*                                                                         *)
(* A frame is named by the raw snapshot that added it and by its writer    *)
(* schema id; each snapshot adds frames of every stream of the venues in   *)
(* it, so each table has its own frame of that name.                       *)
(***************************************************************************)
EXTENDS Integers, Sequences

CONSTANTS Venue,        \* numbers, in the sorted order of the venues' names
          TableCount,   \* venue -> how many VENUE_TABLES it has
          SchemaIds,    \* writer schema ids of frames
          Registered,   \* those the schema registry holds
          Batches,      \* what a stage 1 commit can add: venue -> schema ids
          RetainLast,   \* expire_snapshots(retain_last)
          RetainDays,   \* --retain-days
          MaxSnapshots, \* bound: snapshots of raw.messages
          MaxDay,       \* bound: days that pass
          MaxRebuilds,  \* bound: rebuilds a person starts
          MaxFaults,    \* bound: kills and audit rows that fail to land
          MaxHttpErrors \* bound: answers of the registry other than 200 and 404

ASSUME BronzeConstants ==
  /\ Venue \subseteq Nat
  /\ TableCount \in [Venue -> Nat \ {0}]
  /\ Registered \subseteq SchemaIds
  /\ Batches \subseteq [Venue -> SUBSET SchemaIds]
  /\ RetainLast \in Nat \ {0} /\ RetainDays \in Nat
  /\ {MaxSnapshots, MaxDay, MaxRebuilds, MaxFaults, MaxHttpErrors} \subseteq Nat

VARIABLES
  raw,        \* raw.messages: what each snapshot added, and on which day
  oldest,     \* raw.messages: the oldest snapshot not expired
  today,
  present,    \* the bronze tables the catalog has
  position,   \* k2.src-snapshot-id of each table's last decode, 0 for none
  rows,       \* how many rows each table has of each frame
  filed,      \* audit.checks: unresolvable_schema_id rows, as <<venue, schema id>>
  writer,     \* the process that holds the lock
  unfiled,    \* history: venues whose findings a kill or a failed write may have cost
  rebuilds, faults, httpErrors \* counters for the bounds

vars == <<raw, oldest, today, present, position, rows, filed, writer,
          unfiled, rebuilds, faults, httpErrors>>
bronze == <<present, position, rows>>
counters == <<unfiled, rebuilds, faults, httpErrors>>

-----------------------------------------------------------------------------
Snap     == 1..MaxSnapshots
Tables(v) == {<<v, k>> : k \in 1..TableCount[v]}
Table    == UNION {Tables(v) : v \in Venue}
Frame    == Snap \X SchemaIds
NoRows   == [f \in Frame |-> 0]

AnyDay == -1
Slice  == Venue \X (0..MaxDay \cup {AnyDay})

\* Venues sort by name, days by date, tables by their place in VENUE_TABLES.
First(pairs) ==
  CHOOSE a \in pairs : \A b \in pairs : a[1] < b[1] \/ (a[1] = b[1] /\ a[2] <= b[2])

Idle == [job |-> "none", pc |-> "idle", pinned |-> 0, slices |-> {},
         tables |-> {}, batch |-> {}, unserved |-> {}]

Writer == [job : {"none", "ingest", "rebuild", "maintenance"},
           pc : {"idle", "raw", "slicing", "writing", "filing",
                 "dropping", "recreating", "nightly"},
           pinned : 0..MaxSnapshots, slices : SUBSET Slice, tables : SUBSET Table,
           batch : SUBSET Frame, unserved : SUBSET SchemaIds]

TypeOK ==
  /\ raw \in Seq([added : [Venue -> SUBSET SchemaIds], day : 0..MaxDay])
  /\ oldest \in Nat /\ today \in 0..MaxDay
  /\ present \subseteq Table
  /\ position \in [Table -> 0..MaxSnapshots]
  /\ rows \in [Table -> [Frame -> Nat]]
  /\ filed \subseteq Venue \X SchemaIds
  /\ writer \in Writer
  /\ unfiled \subseteq Venue
  /\ rebuilds \in 0..MaxRebuilds /\ faults \in 0..MaxFaults
  /\ httpErrors \in 0..MaxHttpErrors

\* The DDL has run and nothing has been ingested.
Init ==
  /\ raw = <<>> /\ oldest = 1 /\ today = 0
  /\ present = Table
  /\ position = [t \in Table |-> 0]
  /\ rows = [t \in Table |-> NoRows]
  /\ filed = {}
  /\ writer = Idle /\ unfiled = {}
  /\ rebuilds = 0 /\ faults = 0 /\ httpErrors = 0

Frames(v, snaps) == {f \in Frame : f[1] \in snaps /\ f[2] \in raw[f[1]].added[v]}

At(pc) == writer.pc = pc
Exit   == writer' = Idle

-----------------------------------------------------------------------------
(* The ingest: one stage 1 commit, or none, and then the venues in turn.   *)

StartIngest ==
  /\ At("idle")
  /\ writer' = [Idle EXCEPT !.job = "ingest", !.pc = "raw"]
  /\ UNCHANGED <<raw, oldest, today, bronze, filed, counters>>

\* bronze.stage(current_snapshot_id(raw.messages)): every venue, unless raw is empty.
ThenStage(current) ==
  writer' = [writer EXCEPT !.pc = "slicing", !.pinned = current,
               !.slices = IF current = 0 THEN {} ELSE Venue \X {AnyDay}]

AddRaw ==
  /\ Len(raw) < MaxSnapshots
  /\ \E batch \in Batches : raw' = Append(raw, [added |-> batch, day |-> today])

\* A person's --stage raw: the run ends after stage 1.
StageRawOnly ==
  /\ At("idle") /\ AddRaw
  /\ UNCHANGED <<oldest, today, bronze, filed, writer, counters>>

StageRaw ==
  /\ At("raw") /\ AddRaw
  /\ ThenStage(Len(raw'))
  /\ UNCHANGED <<oldest, today, bronze, filed, counters>>

NoNewRecords ==
  /\ At("raw")
  /\ ThenStage(Len(raw))
  /\ UNCHANGED <<raw, oldest, today, bronze, filed, counters>>

Next1      == First(writer.slices)
V          == Next1[1]
Finished   == writer' = [writer EXCEPT !.slices = @ \ {Next1}, !.pc = "slicing",
                                       !.tables = {}, !.batch = {}, !.unserved = {}]

\* Mutant of Uneven: the first table's position speaks for the venue.
NeverUneven(v) == FALSE

\* Some of the venue's tables committed and others did not.
Uneven(v)  == \E t, u \in Tables(v) : position[t] # position[u]
Absent(v)  == ~(Tables(v) \subseteq present)
Start(v)   == position[<<v, 1>>]

\* Mutant of Current: an empty range is read like any other.
NeverCurrent(v) == FALSE

\* Stage 1 added nothing since the venue's last decode.
Current(v) == Start(v) # 0 /\ Start(v) = writer.pinned

\* Iceberg (external): the start must be retained and a parent of the end.
Unreadable(v) == Start(v) # 0 /\ (Start(v) < oldest \/ Start(v) = writer.pinned)

Deciding(job) == At("slicing") /\ writer.job = job /\ writer.slices # {}

\* The run ends here, and with it every later venue and stage of this tick.
TableNotFound ==
  /\ Deciding("ingest") /\ Absent(V)
  /\ Exit
  /\ UNCHANGED <<raw, oldest, today, bronze, filed, counters>>

RefuseUneven ==
  /\ Deciding("ingest") /\ ~Absent(V) /\ Uneven(V)
  /\ Exit
  /\ UNCHANGED <<raw, oldest, today, bronze, filed, counters>>

ReadFails ==
  /\ Deciding("ingest") /\ ~Absent(V) /\ ~Uneven(V) /\ ~Current(V) /\ Unreadable(V)
  /\ Exit
  /\ UNCHANGED <<raw, oldest, today, bronze, filed, counters>>

SkipLevel ==
  /\ Deciding("ingest") /\ ~Absent(V) /\ ~Uneven(V) /\ Current(V)
  /\ Finished
  /\ UNCHANGED <<raw, oldest, today, bronze, filed, counters>>

(***************************************************************************)
(* decode(): the frames whose schema the registry serves are written to    *)
(* every table of the venue; the others are a finding.  fetch_schema takes *)
(* any HTTP error for "this registry has never held it".  Nothing served   *)
(* means no commit, and the positions stay where they are.                 *)
(***************************************************************************)
Decode(frames) ==
  \E failing \in SUBSET {f[2] : f \in frames} :
    LET serves == Registered \ failing
        batch  == {f \in frames : f[2] \in serves}
        ids    == {f[2] : f \in frames} \ serves
    IN  /\ failing \subseteq Registered
        /\ httpErrors' = httpErrors + (IF failing = {} THEN 0 ELSE 1)
        /\ httpErrors' <= MaxHttpErrors
        /\ IF batch = {} /\ ids = {} THEN Finished
           ELSE writer' = [writer EXCEPT
                  !.pc = IF batch = {} THEN "filing" ELSE "writing",
                  !.tables = IF batch = {} THEN {} ELSE Tables(V),
                  !.batch = batch, !.unserved = ids]

\* Mutant of DecodeNew: the start snapshot is read again.
DecodeInclusive ==
  /\ Deciding("ingest")
  /\ ~Absent(V) /\ ~Uneven(V) /\ ~Current(V) /\ ~Unreadable(V)
  /\ Decode(Frames(V, Start(V)..writer.pinned))
  /\ UNCHANGED <<raw, oldest, today, bronze, filed, unfiled, rebuilds, faults>>

\* Frames added after the venue's position, up to the pinned snapshot.
DecodeNew ==
  /\ Deciding("ingest")
  /\ ~Absent(V) /\ ~Uneven(V) /\ ~Current(V) /\ ~Unreadable(V)
  /\ Decode(Frames(V, (Start(V) + 1)..writer.pinned))
  /\ UNCHANGED <<raw, oldest, today, bronze, filed, unfiled, rebuilds, faults>>

\* Mutant of WriteTable: findings are filed only for a venue that wrote nothing.
WriteTableUnfiled ==
  /\ At("writing")
  /\ LET t    == First(writer.tables)
         left == writer.tables \ {t}
     IN  /\ rows' = [rows EXCEPT ![t] = [f \in Frame |->
                       IF f \in writer.batch THEN rows[t][f] + 1 ELSE rows[t][f]]]
         /\ position' = [position EXCEPT ![t] = writer.pinned]
         /\ IF left # {} THEN writer' = [writer EXCEPT !.tables = left] ELSE Finished
  /\ UNCHANGED <<raw, oldest, today, present, filed, counters>>

\* The append and its position are one commit; the tables take turns.
WriteTable ==
  /\ At("writing")
  /\ LET t    == First(writer.tables)
         left == writer.tables \ {t}
     IN  /\ rows' = [rows EXCEPT ![t] = [f \in Frame |->
                       IF f \in writer.batch THEN rows[t][f] + 1 ELSE rows[t][f]]]
         /\ position' = [position EXCEPT ![t] = writer.pinned]
         /\ IF left # {} THEN writer' = [writer EXCEPT !.tables = left]
            ELSE IF writer.unserved # {} THEN writer' = [writer EXCEPT !.tables = {}, !.pc = "filing"]
            ELSE Finished
  /\ UNCHANGED <<raw, oldest, today, present, filed, counters>>

\* write_audit_rows, after every table of the venue has committed.
FileFindings ==
  /\ At("filing")
  /\ filed' = filed \cup ({V} \X writer.unserved)
  /\ Finished
  /\ UNCHANGED <<raw, oldest, today, bronze, counters>>

\* "a finding that cannot be recorded must not become a second failure"
FilingFails ==
  /\ At("filing") /\ faults < MaxFaults
  /\ faults' = faults + 1
  /\ unfiled' = unfiled \cup {V}
  /\ Finished
  /\ UNCHANGED <<raw, oldest, today, bronze, filed, rebuilds, httpErrors>>

\* Every venue, or every day of every venue, is done.
Return ==
  /\ At("slicing") /\ writer.slices = {}
  /\ Exit
  /\ UNCHANGED <<raw, oldest, today, bronze, filed, counters>>

VenuesOf(slices) == {s[1] : s \in slices}

\* What a kill leaves: a rebuild not finished, or findings not filed.
CutShort ==
  IF writer.job = "rebuild" THEN VenuesOf(writer.slices)
  ELSE IF writer.unserved # {} THEN {V} ELSE {}

Killed ==
  /\ ~At("idle") /\ faults < MaxFaults
  /\ faults' = faults + 1
  /\ unfiled' = unfiled \cup CutShort
  /\ Exit
  /\ UNCHANGED <<raw, oldest, today, bronze, filed, rebuilds, httpErrors>>

-----------------------------------------------------------------------------
(* rebuild.py --layer bronze [--exchange v]: pin, drop, recreate, and      *)
(* decode the archive one day of one venue at a time.                      *)

\* archive_days: the days on which any of the chosen venues has a frame.
ArchiveDays(vs) ==
  {raw[i].day : i \in {j \in DOMAIN raw : \E v \in vs : raw[j].added[v] # {}}}

StartRebuild(vs) ==
  /\ At("idle") /\ rebuilds < MaxRebuilds
  /\ raw # <<>> /\ ArchiveDays(vs) # {}
  /\ rebuilds' = rebuilds + 1
  /\ unfiled' = unfiled \ vs
  /\ writer' = [Idle EXCEPT !.job = "rebuild", !.pc = "dropping", !.pinned = Len(raw),
                            !.slices = vs \X ArchiveDays(vs),
                            !.tables = UNION {Tables(v) : v \in vs}]
  /\ UNCHANGED <<raw, oldest, today, bronze, filed, faults, httpErrors>>

DropTable ==
  /\ At("dropping")
  /\ LET t    == First(writer.tables)
         left == writer.tables \ {t}
     IN  /\ present' = present \ {t}
         /\ position' = [position EXCEPT ![t] = 0]
         /\ rows' = [rows EXCEPT ![t] = NoRows]
         /\ writer' = IF left # {} THEN [writer EXCEPT !.tables = left]
                      ELSE [writer EXCEPT !.pc = "recreating",
                              !.tables = UNION {Tables(v) : v \in VenuesOf(writer.slices)}]
  /\ UNCHANGED <<raw, oldest, today, filed, counters>>

Recreate ==
  /\ At("recreating")
  /\ LET t    == First(writer.tables)
         left == writer.tables \ {t}
     IN  /\ present' = present \cup {t}
         /\ writer' = [writer EXCEPT !.tables = left,
                         !.pc = IF left # {} THEN "recreating" ELSE "slicing"]
  /\ UNCHANGED <<raw, oldest, today, position, rows, filed, counters>>

\* Every slice is stamped with the one pinned snapshot.
DecodeDay ==
  /\ Deciding("rebuild")
  /\ Decode(Frames(V, {i \in 1..writer.pinned : raw[i].day = Next1[2]}))
  /\ UNCHANGED <<raw, oldest, today, bronze, filed, unfiled, rebuilds, faults>>

-----------------------------------------------------------------------------
(* The nightly maintenance, as far as raw.messages is concerned.           *)

StartMaintenance ==
  /\ At("idle") /\ raw # <<>>
  /\ writer' = [Idle EXCEPT !.job = "maintenance", !.pc = "nightly"]
  /\ UNCHANGED <<raw, oldest, today, bronze, filed, counters>>

\* A rewrite commits a snapshot that adds no rows.
Compact ==
  /\ At("nightly") /\ Len(raw) < MaxSnapshots
  /\ raw' = Append(raw, [added |-> [v \in Venue |-> {}], day |-> today])
  /\ UNCHANGED <<oldest, today, bronze, filed, writer, counters>>

Kept(i) == i > Len(raw) - RetainLast \/ raw[i].day + RetainDays >= today

Expire ==
  /\ At("nightly")
  /\ oldest' = CHOOSE k \in DOMAIN raw : Kept(k) /\ \A i \in 1..(k - 1) : ~Kept(i)
  /\ Exit
  /\ UNCHANGED <<raw, today, bronze, filed, counters>>

NextDay ==
  /\ today < MaxDay
  /\ today' = today + 1
  /\ UNCHANGED <<raw, oldest, bronze, filed, writer, counters>>

-----------------------------------------------------------------------------
IngestStep ==
  \/ StageRaw \/ NoNewRecords
  \/ TableNotFound \/ RefuseUneven \/ ReadFails \/ SkipLevel \/ DecodeNew
  \/ WriteTable \/ FileFindings \/ Return

RebuildStep == DropTable \/ Recreate \/ DecodeDay

Next ==
  \/ StartIngest \/ IngestStep \/ StageRawOnly
  \/ \E v \in Venue : StartRebuild({v})
  \/ StartRebuild(Venue) \/ RebuildStep
  \/ StartMaintenance \/ Compact \/ Expire
  \/ FilingFails \/ Killed \/ NextDay

Spec == Init /\ [][Next]_vars

\* The process that holds the lock runs; the schedule fires for ever.
FairSpec ==
  /\ Spec
  /\ WF_vars(IngestStep \/ RebuildStep \/ Expire)
  /\ SF_vars(StartIngest)
-----------------------------------------------------------------------------
(* Properties *)

(***************************************************************************)
(* No frame is in a bronze table twice, or before the position that the    *)
(* table claims to have reached: after any kill between the commits of a   *)
(* venue's tables, any expiry and any rebuild (the uneven-positions        *)
(* refusal of stage(): re-decoding "would double the ones that did").      *)
(***************************************************************************)
DecodedOnce ==
  /\ TypeOK
  /\ \A t \in present : \A f \in Frame :
       /\ rows[t][f] <= 1
       /\ rows[t][f] = 1 => f \in Frames(t[1], 1..position[t])

(***************************************************************************)
(* Between runs, a frame that a table's position has passed and the table  *)
(* does not have is one that an unresolvable_schema_id row accounts for    *)
(* (bronze.py: "so 'not decoded' is never 'lost'"), in every venue but     *)
(* those whose own last batch or rebuild was cut short.                    *)
(***************************************************************************)
Passed(t)  == Frames(t[1], 1..position[t])
Skipped(t) == {f \in Passed(t) : rows[t][f] = 0}

LossIsFiled ==
  At("idle") => \A t \in present : t[1] \notin unfiled =>
    \A f \in Skipped(t) : <<t[1], f[2]>> \in filed

(***************************************************************************)
(* A killed ingest costs nothing of what the registry serves: until a      *)
(* person rebuilds or the registry errs, where a venue's tables agree, and *)
(* so no later run refuses it, they have every frame up to their position  *)
(* ("the commit did not happen" or "the offsets moved with it",            *)
(* lake-recovery.md, section 5).                                           *)
(***************************************************************************)
KillsLoseNothing ==
  rebuilds = 0 /\ httpErrors = 0 /\ At("idle") => \A v \in Venue : ~Absent(v) /\ ~Uneven(v) =>
    \A t \in Tables(v) : \A f \in Skipped(t) : f[2] \notin Registered

(***************************************************************************)
(* The layer catches up: with the schedule running and the kills over,     *)
(* every venue's tables come to have passed all that raw.messages has of   *)
(* it, or this venue or one before it in the order waits for a person to   *)
(* rebuild: its tables are absent or uneven, or their position has expired.*)
(***************************************************************************)
Level(v) ==
  /\ ~Absent(v) /\ ~Uneven(v)
  /\ \A f \in Frames(v, (Start(v) + 1)..Len(raw)) : f[2] \notin Registered

AwaitsRebuild(v) == Absent(v) \/ Uneven(v) \/ (Start(v) # 0 /\ Start(v) < oldest)

CatchesUp ==
  \A v \in Venue : <>[](Level(v) \/ \E w \in Venue : w <= v /\ AwaitsRebuild(w))
=============================================================================
