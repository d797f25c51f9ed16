--------------------------- MODULE SecurityMaster ---------------------------
(***************************************************************************)
(* The two SCD2 dimensions of gold: the diff of docker/lake/scd2.py and    *)
(* the two commits per table of _merge_dim in docker/lake/gold.py, as      *)
(* load_dims runs them in every ingest and every rebuild of gold.          *)
(*                                                                         *)
(* All of them run under the write lock (RawIngest), so there is one run   *)
(* at a time; it may be killed between any two commits.  The attributes of *)
(* a key are one value: what the registry and Kraken's instrument channel  *)
(* say of it, compared the way attr_hash compares them.                    *)
(***************************************************************************)
EXTENDS Integers, FiniteSets

CONSTANTS Key,      \* natural keys of both dimensions
          DimOf,    \* key -> 1 (gold.dim_instrument) or 2 (gold.dim_venue)
          Attrs,    \* tracked attributes, subscribed apart
          NotListed,\* what the registry says of a key it does not name
          MaxRuns,  \* bound: runs, one per unit of time
          MaxKills  \* bound: kills

ASSUME MasterConstants ==
  /\ DimOf \in [Key -> {1, 2}]
  /\ NotListed \notin Attrs
  /\ MaxRuns \in Nat /\ MaxKills \in Nat

VARIABLES
  registry, \* config/instruments.yaml and bronze.kraken_instrument
  table,    \* the versions of each key
  now,      \* run_ts of the newest run
  run,      \* the run that holds the lock
  kills,
  told,     \* history: what the newest run read of the registry, if it finished
  torn      \* history: keys that a kill left closed and not reopened

vars == <<registry, table, now, run, kills, told, torn>>

-----------------------------------------------------------------------------
EPOCH   == 0
FOREVER == MaxRuns + 1

Listing == [Key -> Attrs \cup {NotListed}]
Version == [attrs : Attrs, subscribed : BOOLEAN, validFrom : 0..MaxRuns,
            validTo : 0..FOREVER, isCurrent : BOOLEAN, recordedAt : 0..MaxRuns]

Nothing == [k \in Key |-> NotListed]
Idle    == [pc |-> "idle", dim |-> 1, current |-> Nothing, insert |-> [k \in Key |-> {}]]

TypeOK ==
  /\ registry \in Listing /\ told \subseteq Listing
  /\ table \in [Key -> SUBSET Version]
  /\ now \in 0..MaxRuns /\ kills \in 0..MaxKills
  /\ run \in [pc : {"idle", "closing", "appending"}, dim : {1, 2},
              current : Listing, insert : [Key -> SUBSET Version]]
  /\ torn \subseteq Key

\* The DDL has created both tables; an empty registry is one, too.
Init ==
  /\ registry \in Listing
  /\ table = [k \in Key |-> {}]
  /\ now = 0 /\ run = Idle /\ kills = 0
  /\ told = {} /\ torn = {}

-----------------------------------------------------------------------------
(* scd2.plan: which open versions close, and which versions open.          *)

OpenVersions(k) == {v \in table[k] : v.isCurrent}
HasOpen(k)      == OpenVersions(k) # {}
Previous(k)     == CHOOSE v \in OpenVersions(k) : TRUE

OpenedAt(attrs, subscribed, from) ==
  [attrs |-> attrs, subscribed |-> subscribed, validFrom |-> from,
   validTo |-> FOREVER, isCurrent |-> TRUE, recordedAt |-> now]

Listed(k)  == run.current[k] # NotListed
\* Mutant of SameHash: `subscribed` is not tracked.
SameAttrs(k) == Previous(k).attrs = run.current[k]

\* attr_hash covers `subscribed`, and every row of the registry is subscribed.
SameHash(k) == Previous(k).attrs = run.current[k] /\ Previous(k).subscribed

Changed(k) == Listed(k) /\ HasOpen(k) /\ ~SameHash(k)
Unseen(k)  == Listed(k) /\ ~HasOpen(k)

\* Mutant of Gone: a delisting is news in every run.
GoneAgain(k) == ~Listed(k) /\ HasOpen(k)

\* A key that left the registry, once.
Gone(k)    == ~Listed(k) /\ HasOpen(k) /\ Previous(k).subscribed

ToClose(dim) == {k \in Key : DimOf[k] = dim /\ (Changed(k) \/ Gone(k))}

\* Mutant of Inserts: a changed version holds from the start, as a first one does.
InsertsFromEpoch(dim) ==
  [k \in Key |->
     IF DimOf[k] # dim THEN {}
     ELSE IF Changed(k) \/ Unseen(k) THEN {OpenedAt(run.current[k], TRUE, EPOCH)}
     ELSE IF Gone(k) THEN {OpenedAt(Previous(k).attrs, FALSE, now)}
     ELSE {}]

\* A change is new as of run_ts; a first version is not.
Inserts(dim) ==
  [k \in Key |->
     IF DimOf[k] # dim THEN {}
     ELSE IF Changed(k) THEN {OpenedAt(run.current[k], TRUE, now)}
     ELSE IF Unseen(k)  THEN {OpenedAt(run.current[k], TRUE, EPOCH)}
     ELSE IF Gone(k)    THEN {OpenedAt(Previous(k).attrs, FALSE, now)}
     ELSE {}]

-----------------------------------------------------------------------------
(* One run.                                                                *)

At(pc) == run.pc = pc

\* Someone edits the registry, or Kraken publishes other attributes.
ChangeRegistry(k) ==
  /\ \E said \in Attrs \cup {NotListed} :
       said # registry[k] /\ registry' = [registry EXCEPT ![k] = said]
  /\ UNCHANGED <<table, now, run, kills, told, torn>>

StartRun ==
  /\ At("idle") /\ now < MaxRuns
  /\ now' = now + 1
  /\ run' = [Idle EXCEPT !.pc = "closing", !.current = registry]
  /\ UNCHANGED <<registry, table, kills, told, torn>>

\* Mutant of Close: only the flag is set.
CloseFlagOnly(versions) == {[v EXCEPT !.isCurrent = FALSE] : v \in versions}

\* The MERGE's WHEN MATCHED AND is_current.
Close(versions) ==
  {IF v.isCurrent THEN [v EXCEPT !.validTo = now, !.isCurrent = FALSE] ELSE v : v \in versions}

\* Reads the current slice, plans, and commits the MERGE.
CloseChanged ==
  /\ At("closing")
  /\ table' = [k \in Key |-> IF k \in ToClose(run.dim) THEN Close(table[k]) ELSE table[k]]
  /\ run' = [run EXCEPT !.pc = "appending", !.insert = Inserts(run.dim)]
  /\ UNCHANGED <<registry, now, kills, told, torn>>

\* The second commit; dim_instrument comes before dim_venue.
AppendNew ==
  /\ At("appending")
  /\ table' = [k \in Key |-> table[k] \cup run.insert[k]]
  /\ IF run.dim = 1
     THEN /\ run' = [run EXCEPT !.pc = "closing", !.dim = 2, !.insert = Idle.insert]
          /\ UNCHANGED told
     ELSE /\ run' = Idle
          /\ told' = {run.current}
  /\ UNCHANGED <<registry, now, kills, torn>>

\* Keys the run has closed and has yet to reopen.
InDoubt == {k \in Key : run.insert[k] # {} /\ table[k] # {}}

Killed ==
  /\ ~At("idle") /\ kills < MaxKills
  /\ kills' = kills + 1
  /\ run' = Idle
  /\ told' = {}
  /\ torn' = torn \cup InDoubt
  /\ UNCHANGED <<registry, table, now>>

Next ==
  \/ \E k \in Key : ChangeRegistry(k)
  \/ StartRun \/ CloseChanged \/ AppendNew
  \/ Killed

Spec == Init /\ [][Next]_vars

-----------------------------------------------------------------------------
(* Properties *)

\* The versions an as-of join of time t returns: t >= valid_from AND t < valid_to.
AsOf(k, t) == {v \in table[k] : v.validFrom <= t /\ t < v.validTo}

(***************************************************************************)
(* Close-then-insert never shows two current rows for one key, between the *)
(* two commits, after a kill between them, or in the run that finds the    *)
(* key without one (_merge_dim: two open rows make the as-of join          *)
(* non-deterministic and double every count downstream).                   *)
(***************************************************************************)
AtMostOneOpen == \A k \in Key : \A v, w \in OpenVersions(k) : v = w

(***************************************************************************)
(* After a run, and whatever earlier runs were killed, the current slice   *)
(* is the registry that run saw: a listed key is open with its attributes, *)
(* and no other key is open and subscribed.                                *)
(***************************************************************************)
CurrentSliceIsTold ==
  At("idle") => \A listing \in told : \A k \in Key :
    IF listing[k] # NotListed
    THEN \E v \in OpenVersions(k) : v.attrs = listing[k] /\ v.subscribed
    ELSE \A v \in OpenVersions(k) : ~v.subscribed

(***************************************************************************)
(* "[valid_from, valid_to) tiles the timeline with no gap and no overlap"  *)
(* (test_lake_scd2.py): between runs, every instant since EPOCH has one    *)
(* version of each key ever loaded, unless a kill tore that key's merge.   *)
(***************************************************************************)
Tiles ==
  At("idle") => \A k \in Key \ torn : table[k] # {} =>
    \A t \in EPOCH..MaxRuns : Cardinality(AsOf(k, t)) = 1

(***************************************************************************)
(* A version boundary is a change: no two adjacent versions of a key say   *)
(* the same, however many runs pass over an unchanged or delisted key      *)
(* (scd2.py: "a delisting produces exactly one extra row however many runs *)
(* follow").                                                               *)
(***************************************************************************)
BoundariesAreChanges ==
  \A k \in Key : \A v, w \in table[k] :
    v.validTo = w.validFrom => v.attrs # w.attrs \/ v.subscribed # w.subscribed

(***************************************************************************)
(* What an as-of join answered about an instant before the newest run, it  *)
(* answers for ever: the dimension is "the record of what the registry     *)
(* said over time" (rebuild.py), unless a kill tore the key's merge.       *)
(***************************************************************************)
Said(k, t) == {<<v.attrs, v.subscribed>> : v \in AsOf(k, t)}

HistoryIsFixed ==
  [][\A k \in Key \ torn' : table[k] # {} =>
       \A t \in EPOCH..(now - 1) : Said(k, t)' = Said(k, t)]_vars
=============================================================================
