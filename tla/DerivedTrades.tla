---------------------------- MODULE DerivedTrades ----------------------------
(***************************************************************************)
(* Stages 2c and 2d of docker/lake/ingest.py: the trades of bronze typed   *)
(* and flagged per venue (silver.py), projected into gold.trades, and the  *)
(* candles and bars computed from it (gold.py, bars.py); and the rebuilds  *)
(* of silver, gold and bars (rebuild.py).                                  *)
(*                                                                         *)
(* A process is the list of what it still has to do: the stages of a run   *)
(* and of a rebuild are loops over tables, each turn of which is one       *)
(* commit (or none).  A kill, or an error, drops the rest of the list and  *)
(* what the process had in memory.  Every process holds the lock           *)
(* (RawIngest), so there is one list.  load_dims runs between the trades   *)
(* and the candles; it is SecurityMaster's.                                *)
(*                                                                         *)
(* A delivery of a trade is numbered by its place in the venue's bronze    *)
(* table, which is its place in (recv_ts_ns, lineage).  Time counts days:  *)
(* LOOKBACK is a day and rebuilds go day by day.                           *)
(***************************************************************************)
EXTENDS Integers, Sequences, FiniteSetsExt, Functions

CONSTANTS Venues,      \* silver.TRADES, as a sequence
          Timeframes,  \* gold.OHLCV, as a sequence
          Ids,         \* trade ids, which a venue numbers without holes
          BucketOf,    \* timeframe (and "bars") -> trade id -> window_start (day)
          Lookback,    \* silver.LOOKBACK
          MaxResend,   \* a venue re-sends a trade at most so long after its last delivery
          MaxEvents    \* bound: deliveries, days, kills and rebuilds, together

Venue  == Range(Venues)
Frames == Range(Timeframes)
Bars   == "bars"
Trades == "gold.trades"
Derived == Frames \cup {Bars}
Bucket == UNION {Range(BucketOf[t]) : t \in Derived}
Key    == Venue \X Bucket

ASSUME DerivedConstants ==
  /\ Venues \in Seq(Venue) /\ Timeframes \in Seq(Frames)
  /\ Ids \subseteq Nat
  /\ Bars \notin Frames \cup Venue /\ Trades \notin Derived \cup Venue
  /\ Frames \cap Venue = {}
  /\ \A t \in Derived : DOMAIN BucketOf[t] = Ids
  /\ {Lookback, MaxResend, MaxEvents} \subseteq Nat

VARIABLES
  heard,    \* the bronze trades of each venue, in order of delivery
  today,
  absent,   \* tables dropped and not created again
  silver,   \* per venue: the table's generation, its commits, its position in bronze
  gold,     \* gold.trades, commit by commit
  position, \* k2.src-snapshot-id.<venue> in gold's latest summary
  stored,   \* candles and bars: the trades each row was computed from, {} for no row
  todo,     \* what the process that holds the lock has left to do
  touched,  \* its list of the trades it added, which name the buckets to recompute
  owed,     \* history: buckets whose recomputation a process did not live to commit
  torn,     \* history: venues whose silver rebuild was cut between two days
  events    \* counter for the bound

vars == <<heard, today, absent, silver, gold, position, stored, todo, touched,
          owed, torn, events>>
history == <<owed, torn>>

-----------------------------------------------------------------------------
Delivery == [id : Ids, day : 0..MaxEvents]
Unknown  == -1 \* missing_before is NULL
NoPosition == [gen |-> 0, snapshot |-> 0]

SilverRow == [n : Nat, id : Ids, day : 0..MaxEvents, replay : BOOLEAN,
              missing : {Unknown} \cup Nat]
GoldRow == [venue : Venue, n : Nat, id : Ids]

SilverRows(v) == UNION Range(silver[v].commits)
Originals(rows) == {r \in rows : ~r.replay}
GoldRows == UNION Range(gold)
GoldOf(v) == {r \in GoldRows : r.venue = v}

Jobs(what, tables) == [i \in DOMAIN tables |-> [do |-> what, on |-> tables[i]]]
IngestJobs == Jobs("type", Venues) \o Jobs("add", Venues)
              \o Jobs("merge", Timeframes) \o <<[do |-> "delete", on |-> Bars],
                                               [do |-> "append", on |-> Bars]>>
Emptied(tables) == Jobs("drop", tables) \o Jobs("create", tables)
GoldTables == <<Trades>> \o Timeframes \o <<Bars>>

Job == [do : {"type", "add", "merge", "delete", "append", "drop", "create", "replay", "fill"},
        on : Venue \cup Derived \cup {Trades}]

TypeOK ==
  /\ heard \in [Venue -> Seq(Delivery)] /\ today \in 0..MaxEvents
  /\ absent \subseteq Venue \cup Derived \cup {Trades}
  /\ silver \in [Venue -> [gen : Nat, at : Nat, commits : Seq(SUBSET SilverRow)]]
  /\ gold \in Seq(SUBSET GoldRow)
  /\ position \in [Venue -> [gen : Nat, snapshot : Nat]]
  /\ stored \in [Derived -> [Key -> SUBSET GoldRow]]
  /\ todo \in Seq(Job) /\ touched \in Seq(SUBSET GoldRow)
  /\ owed \subseteq Derived \X Key /\ torn \subseteq Venue
  /\ events \in 0..MaxEvents

NoRows == [k \in Key |-> {}]

Init ==
  /\ heard = [v \in Venue |-> <<>>] /\ today = 0 /\ absent = {}
  /\ silver = [v \in Venue |-> [gen |-> 1, at |-> 0, commits |-> <<>>]]
  /\ gold = <<>> /\ position = [v \in Venue |-> NoPosition]
  /\ stored = [t \in Derived |-> NoRows]
  /\ todo = <<>> /\ touched = <<>>
  /\ owed = {} /\ torn = {}
  /\ events = 0

-----------------------------------------------------------------------------
(* The venue, and bronze, which only a run between two of these commits to. *)

LastDay(v, id) == Max({heard[v][n].day : n \in {m \in DOMAIN heard[v] : heard[v][m].id = id}})
HeardIds(v) == {d.id : d \in Range(heard[v])}

\* Trades come in any order, and some never: a frame may have a trade before the
\* one below it, and what a snapshot after a reconnect sends again may be the first
\* the archive hears of a trade whose frame was lost.
Fresh(v, id)  == id \notin HeardIds(v)
Resent(v, id) == id \in HeardIds(v) /\ today - LastDay(v, id) <= MaxResend

\* Something the lake does not do of itself.
Event == events < MaxEvents /\ events' = events + 1

Hear(v, id) ==
  /\ todo = <<>> /\ Event
  /\ Fresh(v, id) \/ Resent(v, id)
  /\ heard' = [heard EXCEPT ![v] = Append(@, [id |-> id, day |-> today])]
  /\ UNCHANGED <<today, absent, silver, gold, position, stored, todo, touched, owed, torn>>

NextDay ==
  /\ todo = <<>> /\ Event
  /\ today' = today + 1
  /\ UNCHANGED <<heard, absent, silver, gold, position, stored, todo, touched, history>>

-----------------------------------------------------------------------------
(* Processes. *)

Begin(jobs) ==
  /\ todo = <<>>
  /\ todo' = jobs /\ touched' = <<>>
  /\ UNCHANGED <<heard, today, absent, silver, gold, position, stored, owed, torn>>

StartIngest == Begin(IngestJobs) /\ UNCHANGED events

StartRebuild ==
  /\ Event
  /\ \/ \E vs \in {Venues} \cup {<<v>> : v \in Venue} :
          Begin(Emptied(vs) \o Jobs("replay", vs))
     \/ Begin(Emptied(GoldTables) \o Jobs("add", Venues) \o Jobs("fill", Timeframes \o <<Bars>>))
     \/ Begin(Emptied(<<Bars>>) \o Jobs("fill", <<Bars>>))

\* The head of the list, when it is to do `what` on `t`.
Due(what, t) == todo # <<>> /\ Head(todo) = [do |-> what, on |-> t]
Done == todo' = Tail(todo) /\ UNCHANGED <<heard, today, torn, events>>

-----------------------------------------------------------------------------
(* Silver. *)

Rows(v, ns) == {[n |-> n, id |-> heard[v][n].id, day |-> heard[v][n].day] : n \in ns}

\* score: among the rows of a trade the first delivery is the original; an
\* original's gap is the distance to the next lower original, wherever that came.
IsReplay(r, both) == \E q \in both : q.id = r.id /\ q.n < r.n

\* Mutant of Missing: the window of the gaps is ordered by delivery.
MissingByArrival(r, both) ==
  LET before == {q \in both : ~IsReplay(q, both) /\ q.n < r.n}
      last   == Max({q.n : q \in before})
  IN  IF IsReplay(r, both) THEN 0
      ELSE IF before = {} THEN Unknown
      ELSE r.id - (CHOOSE q \in before : q.n = last).id - 1

Missing(r, both) ==
  LET lower == {q.id : q \in {p \in both : ~IsReplay(p, both) /\ p.id < r.id}}
  IN  IF IsReplay(r, both) THEN 0
      ELSE IF lower = {} THEN Unknown ELSE r.id - Max(lower) - 1

Score(batch, lookback) ==
  LET both == batch \cup {[n |-> r.n, id |-> r.id, day |-> r.day] : r \in lookback}
  IN  {[n |-> r.n, id |-> r.id, day |-> r.day,
        replay |-> IsReplay(r, both), missing |-> Missing(r, both)] : r \in batch}

LookbackRows(v, batch) ==
  {r \in SilverRows(v) : r.day >= Min({b.day : b \in batch}) - Lookback}

Write(v, batch, end) ==
  silver' = [silver EXCEPT ![v].at = end,
                           ![v].commits = Append(@, Score(batch, LookbackRows(v, batch)))]

\* silver.stage, one venue.
TypeTrades(v) ==
  LET end == Len(heard[v]) IN
  /\ Due("type", v) /\ v \notin absent
  /\ IF end = silver[v].at THEN UNCHANGED silver
     ELSE Write(v, Rows(v, silver[v].at + 1 .. end), end)
  /\ Done /\ UNCHANGED <<absent, gold, position, stored, touched, owed>>

\* silver.rebuild, one day of one venue; every day is stamped with the same snapshot.
DaysLeft(v) == {d.day : d \in Range(heard[v])} \ {r.day : r \in SilverRows(v)}

ReplayDay(v) ==
  /\ Due("replay", v) /\ DaysLeft(v) # {}
  /\ Write(v, {r \in Rows(v, DOMAIN heard[v]) : r.day = Min(DaysLeft(v))}, Len(heard[v]))
  /\ UNCHANGED <<heard, today, absent, gold, position, stored, todo, touched,
                 history, events>>

ReplayEnds(v) ==
  /\ Due("replay", v) /\ DaysLeft(v) = {}
  /\ Done /\ UNCHANGED <<absent, silver, gold, position, stored, touched, owed>>

-----------------------------------------------------------------------------
(* Gold. *)

Snapshot(v) == [gen |-> silver[v].gen, snapshot |-> Len(silver[v].commits)]

\* The silver rows after the position of v.  Iceberg (external) reads no range
\* that begins at a snapshot of a table that was dropped.
Readable(v) == position[v] = NoPosition \/ position[v].gen = silver[v].gen
Unread(v) ==
  UNION {silver[v].commits[i] : i \in position[v].snapshot + 1 .. Len(silver[v].commits)}

\* Mutant of Carried: the summary names the venue of its own commit only.
CarriedAlone(v) == [u \in Venue |-> IF u = v THEN Snapshot(v) ELSE NoPosition]

\* Every venue's position goes with each commit, so the latest summary has all.
Carried(v) == [position EXCEPT ![v] = Snapshot(v)]

\* gold.stage_trades, one venue.
AddTrades(v) ==
  /\ Due("add", v) /\ {v, Trades} \cap absent = {}
  /\ IF silver[v].commits = <<>> \/ position[v] = Snapshot(v)
     THEN UNCHANGED <<gold, position, touched>>
     ELSE /\ Readable(v)
          /\ LET new == {[venue |-> v, n |-> r.n, id |-> r.id] : r \in Originals(Unread(v))}
             IN  /\ gold' = Append(gold, new)
                 /\ touched' = Append(touched, new)
          /\ position' = Carried(v)
  /\ Done /\ UNCHANGED <<absent, silver, stored, owed>>

KeyOf(t, row) == <<row.venue, BucketOf[t][row.id]>>
KeysOf(t, rows) == {KeyOf(t, row) : row \in rows}
Touched(t) == KeysOf(t, UNION Range(touched))

\* candles(), bars_sql(): a row is a function of the trades of its bucket.
Computed(t, k) == {row \in GoldRows : KeyOf(t, row) = k}
\* Mutant of Recomputed: the candle of the batch is put over the stored one.
RecomputedFromBatch(t, keys) ==
  [stored EXCEPT ![t] = [k \in Key |->
     IF k \in keys THEN {row \in UNION Range(touched) : KeyOf(t, row) = k} ELSE @[k]]]

Recomputed(t, keys) == [stored EXCEPT ![t] = [k \in Key |-> IF k \in keys THEN Computed(t, k) ELSE @[k]]]
Paid(t, keys) == owed' = owed \ ({t} \X keys)

\* gold.stage: without a list of touched trades there is nothing to recompute.
Untouched == touched = <<>>
SkipDerived(what, t) ==
  /\ Due(what, t) /\ what \in {"merge", "delete", "append"}
  /\ Untouched \/ (t = Bars /\ Touched(Bars) = {})
  /\ Done /\ UNCHANGED <<absent, silver, gold, position, stored, touched, owed>>

\* stage_ohlcv, one timeframe.
MergeCandles(t) ==
  /\ Due("merge", t) /\ ~Untouched /\ {t, Trades} \cap absent = {}
  /\ stored' = Recomputed(t, Touched(t)) /\ Paid(t, Touched(t))
  /\ Done /\ UNCHANGED <<absent, silver, gold, position, touched>>

\* stage_bars: the touched days are computed and cached, deleted, and appended.
DeleteBars ==
  /\ Due("delete", Bars) /\ ~Untouched /\ Touched(Bars) # {} /\ {Bars, Trades} \cap absent = {}
  /\ stored' = [stored EXCEPT ![Bars] = [k \in Key |-> IF k \in Touched(Bars) THEN {} ELSE @[k]]]
  /\ Done /\ UNCHANGED <<absent, silver, gold, position, touched, owed>>

AppendBars ==
  /\ Due("append", Bars) /\ ~Untouched /\ Touched(Bars) # {} /\ Bars \notin absent
  /\ stored' = [stored EXCEPT ![Bars] =
                   [k \in Key |-> @[k] \cup IF k \in Touched(Bars) THEN Computed(Bars, k) ELSE {}]]
  /\ Paid(Bars, Touched(Bars))
  /\ Done /\ UNCHANGED <<absent, silver, gold, position, touched>>

\* gold.rebuild, one timeframe, and rebuild_bars: every bucket, into an empty table.
FillDerived(t) ==
  /\ Due("fill", t) /\ {t, Trades} \cap absent = {}
  /\ stored' = [stored EXCEPT ![t] = [k \in Key |-> @[k] \cup Computed(t, k)]]
  /\ Paid(t, Key)
  /\ Done /\ UNCHANGED <<absent, silver, gold, position, touched>>

-----------------------------------------------------------------------------
(* rebuild.py, and the end of a process. *)

Drop(t) ==
  /\ Due("drop", t) /\ absent' = absent \cup {t}
  /\ todo' = Tail(todo)
  /\ IF t \in Venue
     THEN /\ silver' = [silver EXCEPT ![t] = [gen |-> @.gen + 1, at |-> 0, commits |-> <<>>]]
          /\ torn' = torn \ {t}
          /\ UNCHANGED <<gold, position, stored>>
     ELSE /\ IF t = Trades
             THEN /\ gold' = <<>> /\ position' = [v \in Venue |-> NoPosition]
                  /\ UNCHANGED stored
             ELSE /\ stored' = [stored EXCEPT ![t] = NoRows]
                  /\ UNCHANGED <<gold, position>>
          /\ UNCHANGED <<silver, torn>>
  /\ UNCHANGED <<heard, today, touched, owed, events>>

Create(t) ==
  /\ Due("create", t) /\ absent' = absent \ {t}
  /\ Done /\ UNCHANGED <<silver, gold, position, stored, touched, owed>>

\* What the rest of the list would have recomputed: an ingest run its touched
\* buckets, a rebuild every bucket of the tables it still had to fill.
Unpaid ==
  UNION {{j.on} \X (IF j.do = "fill" THEN Key ELSE Touched(j.on)) :
           j \in {i \in Range(todo) : i.do \in {"merge", "append", "fill"}}}
\* The venue whose days a rebuild was going through.
Halfway ==
  {v \in Venue : Due("replay", v) /\ silver[v].commits # <<>> /\ DaysLeft(v) # {}}

Cut ==
  /\ todo' = <<>> /\ touched' = <<>>
  /\ owed' = owed \cup Unpaid /\ torn' = torn \cup Halfway
  /\ UNCHANGED <<heard, today, absent, silver, gold, position, stored>>

Killed == todo # <<>> /\ Event /\ Cut

\* A table that is not there, or a position in a table that is no more, is an error.
NeedsTables(j) ==
  CASE j.do = "type" -> {j.on}
    [] j.do = "add"  -> {j.on, Trades}
    [] j.do \in {"merge", "delete", "append"} ->
         IF Untouched \/ (j.on = Bars /\ Touched(Bars) = {}) THEN {} ELSE {j.on, Trades}
    [] j.do = "fill" -> {j.on, Trades}
    [] OTHER -> {}
Dies ==
  /\ todo # <<>>
  /\ \/ NeedsTables(Head(todo)) \cap absent # {}
     \/ \E v \in Venue : Due("add", v) /\ silver[v].commits # <<>> /\ ~Readable(v)
  /\ Cut /\ UNCHANGED events

-----------------------------------------------------------------------------
(* The nightly audits of the two layers (maintenance.py). *)

Count(commits) == MapThenSumSet(LAMBDA i : Cardinality(commits[i]), DOMAIN commits)
FirstDeliveries(v) ==
  Originals(UNION {silver[v].commits[i] : i \in 1..position[v].snapshot})

\* Mutant of SilverParity: the audit takes bronze's current snapshot for the one silver read.
ParityWithCurrent(v) == silver[v].at = 0 \/ Count(silver[v].commits) = Len(heard[v])

\* As many rows as bronze had trades at the snapshot silver last read.
SilverParity(v) == silver[v].at = 0 \/ Count(silver[v].commits) = silver[v].at

\* As many rows of the venue as silver had originals at the snapshot gold last read.
GoldCounts(v) ==
  \/ position[v] = NoPosition
  \/ MapThenSumSet(LAMBDA i : Cardinality({r \in gold[i] : r.venue = v}), DOMAIN gold)
       = Cardinality(FirstDeliveries(v))

\* Mutant of GoldParity: a venue whose snapshot cannot be read is passed over.
ParityOfReadable == [v \in {u \in Venue : Readable(u)} |-> GoldCounts(v)]

\* The rows gold_parity files, by scope: one check counts venue after venue, and
\* where one's snapshot cannot be read it raises, which is one failed row for the
\* table (run_audits) and no verdict on any venue.
GoldParity ==
  IF \A v \in Venue : Readable(v) THEN [v \in Venue |-> GoldCounts(v)]
  ELSE [t \in {Trades} |-> FALSE]

-----------------------------------------------------------------------------
Step ==
  \/ \E v \in Venue : TypeTrades(v) \/ ReplayDay(v) \/ ReplayEnds(v) \/ AddTrades(v)
  \/ \E what \in {"merge", "delete", "append"}, t \in Derived : SkipDerived(what, t)
  \/ \E t \in Frames : MergeCandles(t)
  \/ DeleteBars \/ AppendBars
  \/ \E t \in Derived : FillDerived(t)
  \/ \E t \in Venue \cup Derived \cup {Trades} : Drop(t) \/ Create(t)
  \/ Dies

Next ==
  \/ \E v \in Venue, id \in Ids : Hear(v, id)
  \/ NextDay \/ StartIngest \/ StartRebuild \/ Step \/ Killed

Spec == Init /\ [][Next]_vars

-----------------------------------------------------------------------------
Whole(v) == v \notin torn \cup absent /\ ~Due("replay", v)
End(rows) == Max({r.n : r \in rows})

\* One row per logical trade (gold.py, silver.py): whatever a venue re-sends, in
\* whatever batches, silver keeps every delivery up to its position and leaves
\* exactly the first unflagged, and gold has that one and no other.  Not said of
\* a venue whose rebuild was cut between two days, nor of a gold.trades that a
\* rebuild of silver has left behind.  Typed sets of rows are what it counts.
OneRowPerTrade ==
  /\ TypeOK
  /\ \A i, j \in DOMAIN gold : i # j => gold[i] \cap gold[j] = {}
  /\ \A v \in Venue : Whole(v) =>
      /\ {r.n : r \in SilverRows(v)} = 1..silver[v].at
      /\ \A r \in SilverRows(v) :
           r.replay <=> \E m \in 1..(r.n - 1) : heard[v][m].id = r.id
      /\ position[v].gen = silver[v].gen =>
           GoldOf(v) = {[venue |-> v, n |-> r.n, id |-> r.id] : r \in FirstDeliveries(v)}

\* missing_before (silver.py, score) measures what the archive had not received
\* when the row was committed: where the nearest lower trade delivered up to the end
\* of the row's batch came at most LOOKBACK before the row, or after it, an original
\* counts the ids between the two, and it counts none where no lower trade had come,
\* in whatever order trades and re-sent trades arrive and batches are cut.
GapsAreExact ==
  \A v \in Venue : Whole(v) =>
    \A i \in DOMAIN silver[v].commits : \A r \in Originals(silver[v].commits[i]) :
      LET lower == {m \in 1..End(silver[v].commits[i]) : heard[v][m].id < r.id}
      IN  /\ lower = {} => r.missing = Unknown
          /\ \A m \in lower :
               /\ \A k \in lower : heard[v][k].id <= heard[v][m].id
               /\ r.day - heard[v][m].day <= Lookback
               => r.missing = r.id - heard[v][m].id - 1

\* What silver.py says of the column: "A jump is trades the archive never received
\* ... and `missing_before` is how many", so no trade of silver is among those that
\* the gap of another one counts.
GapsNeverReceived ==
  \A v \in Venue : Whole(v) =>
    \A r \in Originals(SilverRows(v)), q \in SilverRows(v) :
      r.missing # Unknown => q.id \notin (r.id - r.missing)..(r.id - 1)

\* Candles are replaced, never accumulated (gold.py): between processes every
\* candle and bar is what its bucket of gold.trades computes to, late trades
\* included, but for the buckets a cut process still owed.
DerivedFollowTrades ==
  todo = <<>> => \A t \in Derived \ absent, k \in Key :
    <<t, k>> \notin owed => stored[t][k] = Computed(t, k)

\* The audits tell what a cut process left: between processes silver_parity fails
\* for exactly the venues whose rebuild was cut between two days, whatever has been
\* appended since, and all that gold_parity files passes exactly while every venue's
\* silver table is the one that gold read.
AuditsSeeTheCuts ==
  todo = <<>> =>
    /\ \A v \in Venue \ absent : SilverParity(v) <=> v \notin torn
    /\ Trades \notin absent =>
         ((\A scope \in DOMAIN GoldParity : GoldParity[scope]) <=> \A v \in Venue : Readable(v))
=============================================================================
