----------------------------- MODULE BooksReplay -----------------------------
(***************************************************************************)
(* Stage 2e of docker/lake/ingest.py: the book frames of bronze typed into *)
(* silver.book_<venue> and, from one replay of the same frames,            *)
(* gold.book_top20 (the book at the end of every second), gold.bbo_1s and  *)
(* gold.book_state, the book each connection is carried with to the next   *)
(* run (books.py, book.py); and their rebuild (rebuild.py).                *)
(*                                                                         *)
(* A book is the set of changes folded into it: levels, depth, truncation  *)
(* and CRC32 are data.  A frame names the book the venue had after it,     *)
(* which may have changes whose frames never reached the archive, and its  *)
(* checksum is right when the replayed book and that one agree in their    *)
(* ten best levels; a sample holds twenty.  The precisions of all pairs    *)
(* are known.  As in DerivedTrades, a process is the list of what it has   *)
(* left to do, each item one commit.                                       *)
(***************************************************************************)
EXTENDS Integers, Sequences, SequencesExt

CONSTANTS Venues,    \* books.BOOKS, as a sequence
          Replayed,  \* the venues whose book is replayed; a binance frame is the book
          Symbols,   \* in the order they sort
          Later,     \* pairs of keys: the second's frames follow the first's in a Spark partition
          TopTen(_), \* the levels of a book that its checksum covers
          DaySeconds, \* how many seconds make a day
          MaxEvents  \* bound: changes of a book, seconds, reconnects, kills and rebuilds, together

Venue == Range(Venues)
Conn  == 0..MaxEvents
Key   == Symbols \X Conn
Second == 0..MaxEvents

ASSUME BooksConstants ==
  /\ Venues \in Seq(Venue) /\ IsInjective(Venues)
  /\ Replayed \subseteq Venue /\ DaySeconds \in Nat \ {0} /\ MaxEvents \in Nat
  /\ Later \subseteq Key \X Key

VARIABLES
  venueBook, \* per venue and symbol: the changes in the book the venue has
  conn,      \* per venue: how many connections came before
  now,       \* the second it is
  bronze,    \* per venue: the book frames archived, in order of receipt
  silver,    \* per venue: rows (with their verdicts) and position in bronze
  samples,   \* per venue: what each commit added to gold.book_top20
  bbo,       \* per venue: what each commit added to gold.bbo_1s
  carried,   \* per venue: gold.book_state, by key
  gone,      \* the tables were dropped and not created again
  todo,      \* what the process that holds the lock has left to do
  out,       \* its replay of the batch it is writing
  torn,      \* history: venues whose batch or rebuild was cut, or whose samples another's took along
  events     \* counter for the bound

vars == <<venueBook, conn, now, bronze, silver, samples, bbo, carried, gone,
          todo, out, torn, events>>
tables == <<silver, samples, bbo, carried>>
world  == <<venueBook, conn, now, bronze>>

-----------------------------------------------------------------------------
Change == 1..MaxEvents
Frame  == [n : Change, symbol : Symbols, conn : Conn, snapshot : BOOLEAN,
           second : Second, truth : SUBSET Change]
Unverified == "null" \* checksum_ok IS NULL
Verdict == {Unverified, "true", "false"}
Sample == [symbol : Symbols, conn : Conn, second : Second, book : SUBSET Change, ok : Verdict]
State  == [book : SUBSET Change, ok : Verdict, last : Second \cup {-1}]

Job == [do : {"type", "sample", "project", "carry", "drop", "create", "replay"}, on : SUBSET Venue]
NoOutput == [verdicts |-> {}, samples |-> {}, states |-> <<>>]

TypeOK ==
  /\ venueBook \in [Venue -> [Symbols -> SUBSET Change]] /\ conn \in [Venue -> Conn]
  /\ now \in Second /\ bronze \in [Venue -> Seq(Frame)]
  /\ silver \in [Venue -> [rows : SUBSET (Change \X Verdict), at : Nat]]
  /\ samples \in [Venue -> Seq(SUBSET Sample)] /\ bbo \in [Venue -> Seq(SUBSET Sample)]
  /\ \A v \in Venue : DOMAIN carried[v] \subseteq Key /\ Range(carried[v]) \subseteq State
  /\ gone \in BOOLEAN /\ todo \in Seq(Job) /\ out.samples \subseteq Sample
  /\ torn \subseteq Venue /\ events \in 0..MaxEvents

Empty == [rows |-> {}, at |-> 0]

Init ==
  /\ venueBook = [v \in Venue |-> [s \in Symbols |-> {}]]
  /\ conn = [v \in Venue |-> 0] /\ now = 0
  /\ bronze = [v \in Venue |-> <<>>]
  /\ silver = [v \in Venue |-> Empty] /\ samples = [v \in Venue |-> <<>>]
  /\ bbo = [v \in Venue |-> <<>>] /\ carried = [v \in Venue |-> <<>>]
  /\ gone = FALSE /\ todo = <<>> /\ out = NoOutput /\ torn = {} /\ events = 0

-----------------------------------------------------------------------------
(* The venues and what the archive gets of them. *)

Event == events < MaxEvents /\ events' = events + 1
Idle  == todo = <<>>

\* A venue sends a book or a change of one it has sent; the capture may drop the frame.
Publish(v, s, snapshot, dropped) ==
  /\ Idle /\ Event
  /\ snapshot \/ (venueBook[v][s] # {} /\ v \in Replayed)
  /\ dropped => v \in Replayed \* nothing tells a binance frame lost from one never sent
  /\ LET book == IF snapshot THEN {events'} ELSE venueBook[v][s] \cup {events'}
     IN  /\ venueBook' = [venueBook EXCEPT ![v][s] = book]
         /\ bronze' = IF dropped THEN bronze
                      ELSE [bronze EXCEPT ![v] = Append(@,
                        [n |-> events', symbol |-> s, conn |-> conn[v],
                         snapshot |-> snapshot, second |-> now, truth |-> book])]
  /\ UNCHANGED <<conn, now, tables, gone, todo, out, torn>>

\* A connection that brought no book leaves no trace.
Reconnect(v) ==
  /\ Idle /\ Event /\ \E s \in Symbols : venueBook[v][s] # {}
  /\ conn' = [conn EXCEPT ![v] = @ + 1]
  /\ venueBook' = [venueBook EXCEPT ![v] = [s \in Symbols |-> {}]]
  /\ UNCHANGED <<now, bronze, tables, gone, todo, out, torn>>

NextSecond ==
  /\ Idle /\ Event /\ now' = now + 1
  /\ UNCHANGED <<venueBook, conn, bronze, tables, gone, todo, out, torn>>

-----------------------------------------------------------------------------
(* The replay of a batch. *)

KeyOf(f) == <<f.symbol, f.conn>>
KeysIn(batch) == {KeyOf(f) : f \in Range(batch)}

\* Where the walk of a connection begins: at the state the last run left, or
\* with a book that is not live until its snapshot.  `unflushed` is the time
\* from there until flush_seconds has run once (last_second_ns is None).
Resumed(k, states) ==
  IF k \in DOMAIN states
  THEN [live |-> TRUE, unflushed |-> FALSE, book |-> states[k].book, ok |-> states[k].ok,
        last |-> states[k].last, samples |-> {}, verdicts |-> {}]
  ELSE [live |-> FALSE, unflushed |-> FALSE, book |-> {}, ok |-> Unverified,
        last |-> -1, samples |-> {}, verdicts |-> {}]

\* Mutant of Flushed: the second of the frame itself is emitted with the others.
FlushedToo(w, f) ==
  {[symbol |-> f.symbol, conn |-> f.conn, second |-> sec, book |-> w.book, ok |-> w.ok] :
     sec \in IF w.live THEN w.last + 1 .. f.second ELSE {}}

\* Mutant of Flushed: the last second emitted is emitted once more.
FlushedAgain(w, f) ==
  {[symbol |-> f.symbol, conn |-> f.conn, second |-> sec, book |-> w.book, ok |-> w.ok] :
     sec \in IF w.live THEN w.last .. f.second - 1 ELSE {}}

\* flush_seconds: every second before the frame's is decided by the state before it.
Flushed(w, f) ==
  {[symbol |-> f.symbol, conn |-> f.conn, second |-> sec, book |-> w.book, ok |-> w.ok] :
     sec \in IF w.live THEN w.last + 1 .. f.second - 1 ELSE {}}

Ok(book, f) == IF TopTen(book) = TopTen(f.truth) THEN "true" ELSE "false"

\* One turn of replay_partition's loop.
Walk(w, f) ==
  LET book == IF f.snapshot THEN {f.n} ELSE w.book \cup {f.n}
  IN  IF ~w.live /\ ~f.snapshot
      THEN [w EXCEPT !.verdicts = @ \cup {<<f.n, Unverified>>}]
      ELSE [live |-> TRUE, unflushed |-> ~w.live, book |-> book, ok |-> Ok(book, f),
            last |-> f.second - 1, samples |-> w.samples \cup Flushed(w, f),
            verdicts |-> w.verdicts \cup {<<f.n, Ok(book, f)>>}]

\* The walk of a connection over a batch: over the frames that are its own.
Turn(k, w, f) == IF KeyOf(f) = k THEN Walk(w, f) ELSE w
Walked(k, batch, states) == FoldLeft(LAMBDA w, f : Turn(k, w, f), Resumed(k, states), batch)

\* At the end of a connection its state is yielded: with last_second_ns still
\* None that is an error, except for the last connection of the partition,
\* which is flushed once more.
Raises(batch, states) ==
  \E k \in KeysIn(batch) :
    Walked(k, batch, states).unflushed /\ \E j \in KeysIn(batch) : <<k, j>> \in Later

Replay(batch, states) ==
  LET end(k) == Walked(k, batch, states)
      live   == {k \in KeysIn(batch) : end(k).live}
  IN  [verdicts |-> UNION {end(k).verdicts : k \in KeysIn(batch)},
       samples  |-> UNION {end(k).samples : k \in KeysIn(batch)},
       states   |-> [k \in live |-> [book |-> end(k).book, ok |-> end(k).ok, last |-> end(k).last]]]

\* binance_books: the last frame of each second of the batch.
LastOfSecond(batch) ==
  {[symbol |-> batch[i].symbol, conn |-> batch[i].conn, second |-> batch[i].second,
    book |-> {batch[i].n}, ok |-> Unverified] :
     i \in {j \in DOMAIN batch : \A k \in j + 1 .. Len(batch) :
              batch[k].symbol # batch[j].symbol \/ batch[k].second # batch[j].second}}

Result(v, batch) ==
  IF v \in Replayed THEN Replay(batch, carried[v])
  ELSE [verdicts |-> {<<f.n, Unverified>> : f \in Range(batch)},
        samples  |-> LastOfSecond(batch), states |-> <<>>]

-----------------------------------------------------------------------------
(* Processes. *)

On(what, v) == [do |-> what, on |-> {v}]
Due(what, v) == ~Idle /\ Head(todo) = On(what, v)
Writes(v) == <<On("sample", v), On("project", v), On("carry", v)>>
ForEach(what, vs) == [i \in DOMAIN vs |-> On(what, vs[i])]
Rest == todo' = Tail(todo)

Begin(jobs) == Idle /\ todo' = jobs /\ UNCHANGED <<world, tables, gone, out, torn>>

StartIngest == Begin(ForEach("type", Venues)) /\ UNCHANGED events

\* Every run of rebuild.py drops the gold tables, of one venue or of all.
StartRebuild ==
  /\ Event
  /\ \E vs \in {Venues} \cup {<<v>> : v \in Venue} :
       Begin(<<[do |-> "drop", on |-> Range(vs)], [do |-> "create", on |-> Range(vs)]>>
             \o ForEach("replay", vs))

\* process(): the silver commit moves the position; the rest of the batch follows.
TypeBatch(v, batch, end) ==
  /\ out' = Result(v, batch)
  /\ silver' = [silver EXCEPT ![v] = [rows |-> @.rows \cup out'.verdicts, at |-> end]]
  /\ UNCHANGED <<samples, bbo, carried>>

New(v) == SubSeq(bronze[v], silver[v].at + 1, Len(bronze[v]))

TypeFrames(v) ==
  /\ Due("type", v) /\ ~gone
  /\ IF New(v) = <<>> THEN Rest /\ UNCHANGED <<tables, out>>
     ELSE /\ ~(v \in Replayed /\ Raises(New(v), carried[v]))
          /\ TypeBatch(v, New(v), Len(bronze[v]))
          /\ todo' = Writes(v) \o Tail(todo)
  /\ UNCHANGED <<world, gone, torn, events>>

\* rebuild(): bronze day by day, every day stamped with the same snapshot.
DayOf(f) == f.second \div DaySeconds
Typed(v) == {f \in Range(bronze[v]) : \E r \in silver[v].rows : r[1] = f.n}
DaysLeft(v) == {DayOf(f) : f \in Range(bronze[v]) \ Typed(v)}
OfDay(v, day) ==
  FoldLeft(LAMBDA q, f : IF DayOf(f) = day THEN Append(q, f) ELSE q, <<>>, bronze[v])
NextDayOf(v) == OfDay(v, CHOOSE d \in DaysLeft(v) : \A e \in DaysLeft(v) : d <= e)

ReplayDay(v) ==
  /\ Due("replay", v) /\ ~gone
  /\ IF DaysLeft(v) = {} THEN Rest /\ UNCHANGED <<tables, out>>
     ELSE /\ ~(v \in Replayed /\ Raises(NextDayOf(v), carried[v]))
          /\ TypeBatch(v, NextDayOf(v), Len(bronze[v]))
          /\ todo' = Writes(v) \o todo
  /\ UNCHANGED <<world, gone, torn, events>>

AppendSamples(v) ==
  /\ Due("sample", v) /\ Rest
  /\ samples' = [samples EXCEPT ![v] = Append(@, out.samples)]
  /\ UNCHANGED <<world, silver, bbo, carried, gone, out, torn, events>>

\* bbo(): the samples the append just added that have both sides; all of them here.
AppendBbo(v) ==
  /\ Due("project", v) /\ Rest
  /\ bbo' = [bbo EXCEPT ![v] = Append(@, Last(samples[v]))]
  /\ UNCHANGED <<world, silver, samples, carried, gone, out, torn, events>>

\* Mutant of Merged: the table is overwritten by the states of the batch.
Overwritten(v) == out.states

\* MERGE INTO gold.book_state: the states of the batch over those that are there.
Over(new, old) ==
  [k \in DOMAIN new \cup DOMAIN old |-> IF k \in DOMAIN new THEN new[k] ELSE old[k]]

Merged(v) == Over(out.states, carried[v])

MergeState(v) ==
  /\ Due("carry", v) /\ Rest
  /\ carried' = [carried EXCEPT ![v] = Merged(v)]
  /\ out' = NoOutput
  /\ UNCHANGED <<world, silver, samples, bbo, gone, torn, events>>

\* The silver tables of the venues asked for; the gold tables hold every venue's rows.
DropTables ==
  /\ ~Idle /\ Head(todo).do = "drop" /\ Rest
  /\ LET dropped == Head(todo).on IN
     /\ silver' = [v \in Venue |-> IF v \in dropped THEN Empty ELSE silver[v]]
     /\ torn' = {v \in Venue \ dropped : v \in torn \/ silver[v].at > 0}
  /\ samples' = [v \in Venue |-> <<>>] /\ bbo' = [v \in Venue |-> <<>>]
  /\ carried' = [v \in Venue |-> <<>>]
  /\ gone' = TRUE /\ UNCHANGED <<world, out, events>>

CreateTables ==
  /\ ~Idle /\ Head(todo).do = "create" /\ Rest
  /\ gone' = FALSE /\ UNCHANGED <<world, tables, out, torn, events>>

\* What the rest of the list would have written.
Cut ==
  /\ todo' = <<>> /\ out' = NoOutput
  /\ torn' = torn \cup {v \in Venue :
       \/ \E what \in {"sample", "project", "carry"} : On(what, v) \in Range(todo)
       \/ Due("replay", v) /\ silver[v].at > 0 /\ DaysLeft(v) # {}}
  /\ UNCHANGED <<world, tables, gone>>

Killed == ~Idle /\ Event /\ Cut

Dies ==
  /\ \E v \in Venue :
       \/ gone /\ Due("type", v)
       \/ v \in Replayed /\ Due("type", v) /\ Raises(New(v), carried[v])
       \/ v \in Replayed /\ Due("replay", v) /\ DaysLeft(v) # {} /\ Raises(NextDayOf(v), carried[v])
  /\ Cut /\ UNCHANGED events

Next ==
  \/ \E v \in Venue, s \in Symbols, snapshot, dropped \in BOOLEAN : Publish(v, s, snapshot, dropped)
  \/ \E v \in Venue : Reconnect(v)
  \/ NextSecond \/ StartIngest \/ StartRebuild \/ DropTables \/ CreateTables \/ Killed \/ Dies
  \/ \E v \in Venue : \/ TypeFrames(v) \/ ReplayDay(v)
                      \/ AppendSamples(v) \/ AppendBbo(v) \/ MergeState(v)

Spec == Init /\ [][Next]_vars

-----------------------------------------------------------------------------
Covered(v)  == SubSeq(bronze[v], 1, silver[v].at)
AllSamples(v) == UNION Range(samples[v])
Settled(v)  == Idle /\ ~gone /\ v \notin torn

\* One replay, two outputs (books.py), and no trace of the batches it was done
\* in: the verdicts and samples that runs and day-by-day rebuilds have written,
\* with their carried states, are those of one walk over all frames covered,
\* each sample written once and projected once.  A binance second has at least
\* its last frame.
BatchesLeaveNoTrace ==
  \A v \in Venue : Settled(v) =>
    /\ bbo[v] = samples[v]
    /\ {r[1] : r \in silver[v].rows} = {f.n : f \in Range(Covered(v))}
    /\ IF v \in Replayed
       THEN LET whole == Replay(Covered(v), <<>>) IN
            /\ silver[v].rows = whole.verdicts /\ AllSamples(v) = whole.samples
            /\ \A i, j \in DOMAIN samples[v] : i # j => samples[v][i] \cap samples[v][j] = {}
       ELSE LastOfSecond(Covered(v)) \subseteq AllSamples(v)

\* (exchange, canonical_symbol, second) identifies a sample (lake.sql), also
\* when a symbol changes connections within a second and the old connection's
\* last second stays open; a sample is typed as the table's row.
OneSamplePerSecond ==
  /\ TypeOK
  /\ \A v \in Replayed : Settled(v) =>
       \A a, b \in AllSamples(v) : a.symbol = b.symbol /\ a.second = b.second => a = b

\* A sample with checksum_ok has the ten best levels of the venue's book after the
\* last frame it got in that second or before: no run resumes from a book the
\* frames have left behind.  Its next ten levels carry no such promise.
VerifiedMeansVenues ==
  \A v \in Replayed : Settled(v) =>
    \A a \in AllSamples(v) : a.ok = "true" =>
      LET heard == {f \in Range(bronze[v]) : KeyOf(f) = <<a.symbol, a.conn>> /\ f.second <= a.second}
      IN  \E f \in heard : TopTen(a.book) = TopTen(f.truth) /\ \A g \in heard : g.n <= f.n

\* "Yields ... ("state", Row) at the end of each connection seen" (books.py,
\* replay_partition): the replay of a batch is not refused.
ReplayYieldsEveryState ==
  \A v \in Replayed : Due("type", v) => ~Raises(New(v), carried[v])
=============================================================================
