---------------------------- MODULE CaptureSession ----------------------------
(***************************************************************************)
(* k2-capture, the process that holds one venue's WebSocket: the reconnect *)
(* and select loops of main.rs, the venue adapters of exchanges/ that keep *)
(* the books, the producer queue of sink.rs and the resubscription of      *)
(* resync.rs after it drops a frame.  What the broker gets of the book     *)
(* frames is what stage 2e of the lake (BooksReplay) replays.              *)
(*                                                                         *)
(* A book is the number of the change it has come to: an update takes the  *)
(* book of the change before it to its own.  Any other book it makes       *)
(* `Skewed`: one that may differ from the venue's, and may do so in levels *)
(* that the frame's checksum, over ten of them, does not cover.  Levels,   *)
(* precisions and truncation are data.  Trades, heartbeats and the other   *)
(* instruments of the book channel are Chatter.  coinbase's sequence_num   *)
(* is the fact whether a frame follows the one sent before it.             *)
(***************************************************************************)
EXTENDS Integers, Sequences, SequencesExt

CONSTANTS Exchanges,   \* the venues a process may be started for
          Order,       \* the symbols of the registry that the model follows, in its order
          QueueMax,    \* records the producer queue holds
          ParkMax,     \* kraken's MAX_PENDING_FRAMES
          SilenceMax,  \* ticks the book stream may be silent
          DelayMax,    \* doublings of the backoff until its cap
          MaxChanges,  \* bound: changes of the venue's books
          MaxFaults    \* bound: skipped, stale and odd frames, lost connections, muted venues,
                       \* restarts, records that message.timeout.ms takes from the queue

Symbols == Range(Order)

ASSUME CaptureConstants ==
  /\ Order \in Seq(Range(Order)) /\ {"all", "instrument"} \cap Range(Order) = {}
  /\ Exchanges \subseteq {"binance", "kraken", "coinbase"}
  /\ {QueueMax, ParkMax, SilenceMax} \subseteq Nat \ {0}
  /\ {DelayMax, MaxChanges, MaxFaults} \subseteq Nat

VARIABLES
  exchange,   \* --exchange
  version,    \* per symbol: the number of the venue's book
  subscribed, \* the symbols the venue sends on this connection
  mute,       \* the venue has stopped serving this connection's books, silently
  skipped,    \* coinbase: a frame was not sent since the last one
  missed,     \* history: symbols of which this connection was not sent an update
  wire,       \* frames on their way to the capture
  requests,   \* subscriptions on their way to the venue, "instrument" among them
  phase,      \* "open", or "waiting" out the backoff
  delay,      \* the backoff: how often it has doubled
  book,       \* per symbol: the adapter's book, None when it has none
  precise,    \* kraken: the instrument frame has come
  parked,     \* per symbol: kraken's frames waiting for it
  overflowed, \* history: symbols of which a parked frame was dropped on this connection
  anchored,   \* coinbase: expected_seq is known
  silent,     \* ticks without a frame on the book stream
  pending, droppedSinceTick, \* ResyncOnDrain
  queue,      \* the producer's queue
  archived,   \* per symbol: the lake's book of this connection, replayed from what was delivered
  heard,      \* history, per symbol: the same, from all frames the capture got
  last,       \* per symbol: the number in the last frame it got, binance's last_update_id
  blind,      \* history: symbols of whose book the frames do not tell whether it is the venue's
  lost,       \* history: symbols of which an accepted frame timed out on this connection
  changes, faults \* counters for the bounds

world   == <<version, subscribed, mute, skipped, missed>>
adapter == <<book, precise, parked, overflowed, anchored, heard, last, blind>>
resync  == <<pending, droppedSinceTick>>
broker  == <<queue, archived, lost>>
counts  == <<changes, faults>>
vars == <<exchange, world, wire, requests, phase, delay, adapter, silent, resync, broker, counts>>

-----------------------------------------------------------------------------
None   == 0
Wrong  == -1
Skewed == -2
Change == 1..(MaxChanges + MaxFaults + 1)
Replayed == Change \cup {None, Wrong}
Held == Change \cup {None, Skewed}

\* odd: one of its levels does not parse.  tells: its checksum covers a level in which
\* a skewed book differs.
Frame == [kind : {"instrument", "snapshot", "update"}, symbol : Symbols \cup {"all"},
          version : Change \cup {None}, gap : BOOLEAN, odd : BOOLEAN, tells : BOOLEAN]

\* A queued record that the replay of this connection's books does not read: a
\* BookSnapshotL2 or a frame of an older connection.
Other == [kind |-> "other", symbol |-> "all", version |-> None, gap |-> FALSE,
          odd |-> FALSE, tells |-> TRUE]

TypeOK ==
  /\ exchange \in Exchanges /\ phase \in {"open", "waiting"} /\ delay \in 0..DelayMax
  /\ version \in [Symbols -> Change] /\ subscribed \subseteq Symbols
  /\ {mute, skipped, precise, anchored, droppedSinceTick} \subseteq BOOLEAN
  /\ wire \in Seq(Frame) /\ requests \in Seq(Symbols \cup {"instrument"})
  /\ book \in [Symbols -> Held] /\ {missed, blind} \subseteq SUBSET Symbols
  /\ \A s \in Symbols : parked[s] \in Seq(Frame) /\ Len(parked[s]) <= ParkMax
  /\ overflowed \subseteq Symbols /\ pending \subseteq Symbols /\ silent \in 0..SilenceMax
  /\ queue \in Seq(Frame \cup {Other}) /\ Len(queue) <= QueueMax
  /\ archived \in [Symbols -> Replayed] /\ heard \in [Symbols -> Replayed]
  /\ last \in [Symbols -> Change \cup {None}]
  /\ lost \subseteq Symbols /\ changes \in 0..MaxChanges /\ faults \in 0..MaxFaults

Nothing == [s \in Symbols |-> None]

Init ==
  /\ exchange \in Exchanges /\ phase = "waiting" /\ delay = 0
  /\ version = [s \in Symbols |-> 1] /\ subscribed = {} /\ mute = FALSE /\ skipped = FALSE
  /\ missed = {} /\ blind = {}
  /\ wire = <<>> /\ requests = <<>>
  /\ book = Nothing /\ precise = FALSE /\ parked = [s \in Symbols |-> <<>>]
  /\ overflowed = {} /\ anchored = FALSE /\ heard = Nothing /\ last = Nothing
  /\ silent = 0 /\ pending = {} /\ droppedSinceTick = FALSE
  /\ queue = <<>> /\ archived = Nothing /\ lost = {}
  /\ changes = 0 /\ faults = 0

-----------------------------------------------------------------------------
(* The venue. *)

Fault == faults < MaxFaults /\ faults' = faults + 1 /\ UNCHANGED changes

IsBook(f) == f.kind # "instrument"

Sends(kind, s, v, tells) ==
  /\ wire' = Append(wire, [kind |-> kind, symbol |-> s, version |-> v, gap |-> skipped,
                           odd |-> FALSE, tells |-> tells])
  /\ skipped' = FALSE /\ UNCHANGED missed

KindOfChange == IF exchange = "binance" THEN "snapshot" ELSE "update"

Told == IF exchange = "kraken" THEN BOOLEAN ELSE {TRUE}

\* A change that nobody is sent shows in the next snapshot as any other.
Trade(s) ==
  /\ changes < MaxChanges /\ changes' = changes + 1 /\ UNCHANGED faults
  /\ s \in subscribed /\ ~mute
  /\ version' = [version EXCEPT ![s] = @ + 1]
  /\ \E tells \in Told : Sends(KindOfChange, s, version'[s], tells)
  /\ UNCHANGED <<exchange, subscribed, mute, requests, phase, delay, adapter, silent, resync, broker>>

\* An update the venue does not send.
Skip(s) ==
  /\ Fault /\ KindOfChange = "update" /\ s \in subscribed /\ ~mute
  /\ version' = [version EXCEPT ![s] = @ + 1]
  /\ skipped' = TRUE /\ missed' = missed \cup {s}
  /\ UNCHANGED <<exchange, subscribed, mute, wire, requests, phase, delay, adapter, silent, resync, broker>>

\* binance sends a book older than one it has sent.
Stale(s) ==
  /\ Fault /\ exchange = "binance" /\ s \in subscribed /\ ~mute /\ version[s] > 1
  /\ Sends("snapshot", s, version[s] - 1, TRUE)
  /\ UNCHANGED <<exchange, version, subscribed, mute, requests, phase, delay, adapter, silent, resync, broker>>

\* A level of a book frame is one that decimal.rs does not read, or of a side it does not know.
Garble(i) ==
  /\ Fault /\ i \in DOMAIN wire /\ IsBook(wire[i]) /\ wire' = [wire EXCEPT ![i].odd = TRUE]
  /\ UNCHANGED <<exchange, world, requests, phase, delay, adapter, silent, resync, broker>>

GoMute ==
  /\ Fault /\ phase = "open" /\ ~mute /\ mute' = TRUE
  /\ UNCHANGED <<exchange, version, subscribed, skipped, missed, wire, requests, phase, delay, adapter,
                 silent, resync, broker>>

\* Requests are answered in any order; a book's answer is a snapshot and the changes from there.
Answer ==
  /\ phase = "open" /\ ~mute
  /\ \E i \in DOMAIN requests :
       /\ requests' = RemoveAt(requests, i)
       /\ IF requests[i] = "instrument"
          THEN Sends("instrument", "all", None, TRUE) /\ UNCHANGED subscribed
          ELSE /\ Sends("snapshot", requests[i], version[requests[i]], TRUE)
               /\ subscribed' = subscribed \cup {requests[i]}
  /\ UNCHANGED <<exchange, version, mute, phase, delay, adapter, silent, resync, broker, counts>>

-----------------------------------------------------------------------------
(* The producer queue and the archive behind it. *)

\* The book that a frame makes of a book, for whoever holds no checksum against it.
Folded(b, f) ==
  IF f.kind = "snapshot" THEN f.version
  ELSE IF b = None THEN None
  ELSE IF b = f.version - 1 THEN f.version ELSE Wrong

Reads(b, s, f) == IF f.symbol = s THEN Folded(b, f) ELSE b

\* Sink::send, for the records of one turn of the loop: what finds room is queued.
Queued(q, records) == SubSeq(q \o records, 1, IF Len(q \o records) < QueueMax THEN Len(q \o records) ELSE QueueMax)
HasRoom(q) == Len(q) < QueueMax

Deliver ==
  /\ queue # <<>> /\ queue' = Tail(queue)
  /\ archived' = [s \in Symbols |-> Reads(archived[s], s, Head(queue))]
  /\ UNCHANGED <<exchange, world, wire, requests, phase, delay, adapter, silent, resync, lost, counts>>

\* The delivery report of a record the broker did not take in time is counted, no more.
TimeOut ==
  /\ Fault /\ queue # <<>> /\ queue' = Tail(queue)
  /\ lost' = lost \cup ({Head(queue).symbol} \cap Symbols)
  /\ UNCHANGED <<exchange, world, wire, requests, phase, delay, adapter, silent, resync, archived>>

-----------------------------------------------------------------------------
(* The adapters: what a frame does to the books, and what is asked of the venue. *)

Unchanged == [book |-> book, parked |-> parked, overflowed |-> overflowed, precise |-> precise,
              again |-> <<>>, marked |-> <<>>, reconnect |-> FALSE]

\* The book an adapter makes of its own: a level that does not parse is left out.
Adapted(b, f) ==
  IF f.kind = "update" /\ b = None THEN None
  ELSE IF f.odd \/ (f.kind = "update" /\ b # f.version - 1) THEN Skewed
  ELSE f.version

\* kraken's verdict: an odd frame fails, another one if its ten levels tell.
Mismatch(b, f) == Adapted(b, f) = Skewed /\ (f.odd \/ f.tells)

\* Mutant of Applied: the book is dropped and no fresh one asked for.
AppliedUnasked(a, f) ==
  LET s == f.symbol
  IN  [a EXCEPT !.book[s] = IF Mismatch(@, f) THEN None ELSE Adapted(@, f)]

\* kraken: a mismatch is emitted once, marked, then the book goes and a fresh one is asked for.
Applied(a, f) ==
  LET s == f.symbol
  IN  IF ~Mismatch(a.book[s], f) THEN [a EXCEPT !.book[s] = Adapted(@, f)]
      ELSE [a EXCEPT !.book[s] = None, !.again = Append(@, s), !.marked = Append(@, Other)]


\* What came before the instrument frame waits for it, up to a bound.
Parked(a, f) ==
  LET s == f.symbol
      full == Len(a.parked[s]) >= ParkMax
  IN  [a EXCEPT !.parked[s] = Append(IF full THEN Tail(@) ELSE @, f),
                !.overflowed = IF full THEN @ \cup {s} ELSE @]

Drained(a) ==
  LET waiting == FlattenSeq([i \in DOMAIN Order |-> a.parked[Order[i]]])
  IN  [FoldLeft(Applied, a, waiting) EXCEPT !.parked = [s \in Symbols |-> <<>>]]

Kraken(f) ==
  CASE f.kind = "instrument" -> Drained([Unchanged EXCEPT !.precise = TRUE])
    [] f.kind # "instrument" /\ precise -> Applied(Unchanged, f)
    [] OTHER -> Parked(Unchanged, f)

\* Mutant of Coinbase: the sequence is not looked at.
CoinbaseTrusting(f) == [Unchanged EXCEPT !.book[f.symbol] = Adapted(@, f)]

Coinbase(f) ==
  LET gap  == anchored /\ f.gap
      kept == IF gap THEN Nothing ELSE book
  IN  [Unchanged EXCEPT !.reconnect = gap,
                        !.book = [kept EXCEPT ![f.symbol] = Adapted(@, f)]]

Binance(f) ==
  [Unchanged EXCEPT !.book[f.symbol] =
     IF @ # None /\ f.version <= last[f.symbol] THEN None
     ELSE IF f.odd THEN Skewed ELSE f.version]

Handled(f) ==
  CASE exchange = "kraken"   -> Kraken(f)
    [] exchange = "coinbase" -> Coinbase(f)
    [] exchange = "binance"  -> Binance(f)

-----------------------------------------------------------------------------
(* The session. *)

\* resubscribe_messages: none for binance, whose next frame is the book.
Resubscribed(symbols) == IF exchange = "binance" THEN <<>> ELSE symbols

\* The socket is gone and with it all that was under way.
Closed ==
  /\ phase' = "waiting" /\ wire' = <<>> /\ requests' = <<>> /\ subscribed' = {}
  /\ mute' = FALSE /\ skipped' = FALSE /\ missed' = {}

\* Backoff::next_delay, for every session that ends.
NextDelay == IF delay < DelayMax THEN delay + 1 ELSE delay
SessionEnds == Closed /\ delay' = NextDelay

\* Mutant of RememberDrop: the drop of a snapshot is taken for repaired.
RememberDropOfUpdates(f) ==
  IF HasRoom(queue) \/ f.kind # "update" \/ exchange = "binance" THEN UNCHANGED resync
  ELSE pending' = pending \cup {f.symbol} /\ droppedSinceTick' = TRUE

\* A dropped raw frame of `book` or `l2_data` is remembered; of `depth20` it is not.
RememberDrop(f) ==
  IF HasRoom(queue) \/ ~IsBook(f) \/ exchange = "binance" THEN UNCHANGED resync
  ELSE pending' = pending \cup {f.symbol} /\ droppedSinceTick' = TRUE

\* Mutant of Stamped: one timer for the whole socket.
StampedByAny(onBooks) == 0

\* last_frame_ns is kept per stream: only a frame of the book stream resets this one.
Stamped(onBooks) == IF onBooks THEN 0 ELSE silent

\* A frame settles that a book is the venue's if there is one, or unsettles it: by what
\* kraken's checksum covers, and elsewhere by a level left out of the book.
Settles(f)   == IF exchange = "kraken" THEN f.tells ELSE f.kind = "snapshot" /\ ~f.odd
Unsettles(f) == IF exchange = "kraken" THEN ~f.tells ELSE f.odd
Blinded(f) == (IF Settles(f) THEN blind \ {f.symbol} ELSE blind)
                \cup (IF Unsettles(f) THEN {f.symbol} \cap Symbols ELSE {})

HandleFrame ==
  /\ phase = "open" /\ wire # <<>>
  /\ LET f == Head(wire)
         h == Handled(f)
     IN  /\ book' = h.book /\ precise' = h.precise /\ parked' = h.parked /\ overflowed' = h.overflowed
         /\ anchored' = TRUE
         /\ queue' = Queued(queue, <<f>> \o h.marked)
         /\ RememberDrop(f)
         /\ silent' = Stamped(IsBook(f))
         /\ heard' = [s \in Symbols |-> Reads(heard[s], s, f)]
         /\ last' = [s \in Symbols |-> IF s = f.symbol THEN f.version ELSE last[s]]
         /\ blind' = Blinded(f)
         /\ IF h.reconnect THEN SessionEnds
            ELSE /\ wire' = Tail(wire) /\ requests' = requests \o Resubscribed(h.again)
                 /\ UNCHANGED <<phase, delay, subscribed, mute, skipped, missed>>
  /\ UNCHANGED <<exchange, version, archived, lost, counts>>

\* A book frame of an instrument not in Order, or a heartbeat; a mute venue still sends those.
Chatter(onBooks) ==
  /\ phase = "open" /\ silent > 0 /\ (onBooks => ~mute) /\ silent' = Stamped(onBooks)
  /\ UNCHANGED <<exchange, world, wire, requests, phase, delay, adapter, resync, broker, counts>>

\* The venue answers and the socket is read within a stream's bound, unless the venue is mute.
Quiet == wire = <<>> /\ (mute \/ requests = <<>>)

Samples == [i \in 1..Cardinality({s \in Symbols : book[s] # None}) |-> Other]

\* Mutant of Mended: the symbols are forgotten when the ticks have been waited out.
Forgotten == <<>>

\* ResyncOnDrain::drained.
Mended == IF droppedSinceTick THEN <<>> ELSE SetToSeq(pending)

Tick ==
  /\ phase = "open"
  /\ pending' = IF droppedSinceTick THEN pending ELSE {}
  /\ droppedSinceTick' = FALSE
  /\ queue' = Queued(queue, Samples)
  /\ IF Quiet /\ silent = SilenceMax
     THEN SessionEnds /\ UNCHANGED silent
     ELSE /\ silent' = IF Quiet THEN silent + 1 ELSE silent
          /\ requests' = requests \o Resubscribed(Mended)
          /\ UNCHANGED <<phase, delay, wire, subscribed, mute, skipped, missed>>
  /\ UNCHANGED <<exchange, version, adapter, archived, lost, counts>>

\* The peer closes, the socket errs, a binance connection has reached its age.
Disconnect ==
  /\ Fault /\ phase = "open" /\ SessionEnds
  /\ UNCHANGED <<exchange, version, adapter, silent, resync, broker>>

\* begin_connection, and the subscriptions; the records of older connections stay queued.
Fresh ==
  /\ book' = Nothing /\ precise' = FALSE /\ parked' = [s \in Symbols |-> <<>>]
  /\ overflowed' = {} /\ anchored' = FALSE /\ heard' = Nothing /\ last' = Nothing
  /\ blind' = {} /\ archived' = Nothing /\ lost' = {}

Subscriptions == (IF exchange = "kraken" THEN <<"instrument">> ELSE <<>>) \o Order

Connect ==
  /\ phase = "waiting" /\ phase' = "open"
  /\ Fresh /\ requests' = Subscriptions
  /\ delay' = 0
  /\ queue' = [i \in DOMAIN queue |-> Other]
  /\ silent' = 0 /\ pending' = {} /\ droppedSinceTick' = FALSE
  /\ UNCHANGED <<exchange, world, wire, counts>>

\* Feed::connect errs: the next attempt waits twice as long.
ConnectFails ==
  /\ phase = "waiting" /\ delay' = NextDelay
  /\ UNCHANGED <<exchange, world, wire, requests, phase, adapter, silent, resync, broker, counts>>

\* The process ends with what its queue holds, and is started again.
Restart ==
  /\ Fault /\ Closed /\ queue' = <<>> /\ delay' = 0
  /\ UNCHANGED <<exchange, version, adapter, silent, resync, archived, lost>>

Next ==
  \/ \E s \in Symbols : Trade(s) \/ Skip(s) \/ Stale(s)
  \/ (\E i \in DOMAIN wire : Garble(i)) \/ GoMute \/ Answer \/ Deliver \/ TimeOut
  \/ HandleFrame \/ (\E onBooks \in BOOLEAN : Chatter(onBooks)) \/ Tick \/ Disconnect \/ Connect \/ ConnectFails \/ Restart

\* The loop takes what is ready; the venue answers a connection it serves; the broker comes back.
Fairness ==
  WF_vars(HandleFrame) /\ WF_vars(Tick) /\ WF_vars(Connect) /\ WF_vars(Answer) /\ WF_vars(Deliver)

Spec == Init /\ [][Next]_vars /\ Fairness

-----------------------------------------------------------------------------
Open == phase = "open"
Accepted(s) == FoldLeft(LAMBDA b, f : Reads(b, s, f), archived[s], queue)
Hole(s) == Open /\ exchange # "binance" /\ Accepted(s) # heard[s]
Underway(s) == \/ s \in Range(requests)
               \/ \E i \in DOMAIN wire : wire[i].kind = "snapshot" /\ wire[i].symbol = s

\* "A plausible lie" is not sampled (kraken.rs, coinbase.rs, binance.rs) as far as
\* the frames tell: a book the sampler can see is the one the venue had at the
\* last frame the capture got for it, whatever the venue skipped, resent or
\* parked before.  It may differ where kraken's checksum of that frame does not
\* reach, and elsewhere after a level that was left out.
NoPlausibleLie ==
  /\ TypeOK
  /\ Open => \A s \in Symbols :
       book[s] # None => book[s] = last[s] \/ (book[s] = Skewed /\ s \in blind)


\* resync.rs: a symbol whose book the archive can no longer replay as the
\* capture could, because a frame found no room, is remembered or its fresh
\* snapshot is under way.
HolesArePending ==
  \A s \in Symbols : Hole(s) => s \in pending \/ Underway(s) \/ s \in lost

\* A symbol that has gone dark gets a book again, on this connection or the next.
\* A parked snapshot that overflowed is the exception (kraken.rs, MAX_PENDING_FRAMES).
DarkBooksReturn ==
  \A s \in Symbols :
    (Open /\ exchange # "binance" /\ book[s] = None) ~> (book[s] # None \/ s \in overflowed)

\* If the queue comes to drop no more book frames, every hole a full one has made
\* is repaired or its connection ended.
HolesAreMended ==
  <>[](~droppedSinceTick) => \A s \in Symbols : Hole(s) ~> (~Hole(s) \/ s \in lost)

\* A venue that stops serving the books without closing the socket is left.
SilenceEnds == (Open /\ mute) ~> ~(Open /\ mute)
=============================================================================
