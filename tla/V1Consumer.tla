------------------------------ MODULE V1Consumer ------------------------------
(***************************************************************************)
(* The archived v1 consumer (legacy/v1): Kafka to Iceberg by batches, with *)
(* load shedding under a degradation level, retries of a failed write, a   *)
(* dead letter queue and offsets committed by hand.                        *)
(*                                                                         *)
(* One consumer reads one partition; a message is its offset and what the  *)
(* code tells messages apart by (Kind).  The deserializers, the rows'      *)
(* content and the sequence tracker's log lines are left out.              *)
(***************************************************************************)
EXTENDS Integers, FiniteSets, Sequences, SequencesExt

CONSTANTS Kinds,        \* the kinds of messages produced
          HeapReadings, \* what psutil may read, in percent
          LagAt,        \* the lag of soft, graceful, aggressive and circuit break
          BatchSize,    \* batch_size
          MaxAttempts,  \* attempts of a write: the consumer's times the writer's
          MaxMessages,  \* bound: messages produced
          MaxFaults     \* bound: failed writes and commits, lost answers, signals, kills

ASSUME ConsumerConstants ==
  /\ Kinds \subseteq {"critical", "high", "normal", "invalid", "garbled"}
  /\ HeapReadings \subseteq 0..100
  /\ LagAt \in [1..4 -> Nat \ {0}] /\ \A i, j \in 1..4 : i < j => LagAt[i] < LagAt[j]
  /\ {BatchSize, MaxAttempts} \subseteq Nat \ {0}
  /\ {MaxMessages, MaxFaults} \subseteq Nat

VARIABLES
  log,       \* the partition: the kind of each message
  committed, \* messages below the group's committed offset
  phase,     \* "down", "idle" between batches, "polling" or "writing"
  running,   \* self.running, which a signal clears
  position,  \* messages polled since the start of the log
  batch,     \* the batch being put together or written
  attempts,  \* attempts of its write that have failed
  level,     \* DegradationManager._level
  cooling,   \* a transition is less than the cooldown ago
  rows,      \* per message: its rows in the table
  dlq,       \* messages in the dead letter queue
  shed,      \* history: messages shed
  abandoned, \* history: messages of a batch that failed, when the shutdown committed
  faults     \* counter for the bound

broker == <<log, committed>>
health == <<level, cooling>>
sinks  == <<rows, dlq>>
vars == <<broker, phase, running, position, batch, attempts, health, sinks, shed, abandoned, faults>>

-----------------------------------------------------------------------------
Messages == 1..MaxMessages
Produced == 1..Len(log)

TypeOK ==
  /\ log \in Seq(Kinds) /\ Len(log) <= MaxMessages
  /\ committed \in 0..position /\ position \in 0..Len(log)
  /\ phase \in {"down", "idle", "polling", "writing"} /\ running \in BOOLEAN
  /\ batch \in Seq(Produced) /\ Len(batch) <= BatchSize
  /\ phase = "writing" => batch # <<>>
  /\ \A i, j \in DOMAIN batch : i < j => batch[i] < batch[j]
  /\ \A i \in DOMAIN batch : batch[i] \in (committed + 1)..position
  /\ attempts \in 0..(MaxAttempts - 1)
  /\ level \in 0..4 /\ cooling \in BOOLEAN
  /\ rows \in [Messages -> Nat]
  /\ dlq \cup shed \cup abandoned \subseteq Produced
  /\ faults \in 0..MaxFaults

Init ==
  /\ log = <<>> /\ committed = 0 /\ phase = "down" /\ running = TRUE
  /\ position = 0 /\ batch = <<>> /\ attempts = 0
  /\ level = 0 /\ cooling = FALSE
  /\ rows = [m \in Messages |-> 0] /\ dlq = {} /\ shed = {} /\ abandoned = {} /\ faults = 0

Fault == faults < MaxFaults /\ faults' = faults + 1

Produce ==
  /\ Len(log) < MaxMessages /\ \E k \in Kinds : log' = Append(log, k)
  /\ UNCHANGED <<committed, phase, running, position, batch, attempts, health, sinks, shed, abandoned, faults>>

-----------------------------------------------------------------------------
(* The degradation manager and the load shedder. *)

HeapAt == <<70, 80, 90, 95>>

Calculated(lag, heap) ==
  Cardinality({i \in 1..4 : lag >= LagAt[i] \/ heap >= HeapAt[i]})

CanRecover(lag, heap) ==
  ~cooling /\ 2 * lag < LagAt[level] /\ 10 * heap < 9 * HeapAt[level]

CheckAndDegrade(lag, heap) ==
  LET target == Calculated(lag, heap)
      new    == IF target < level /\ ~CanRecover(lag, heap) THEN level ELSE target
  IN  level' = new /\ cooling' = (cooling \/ new # level)

CoolDown ==
  /\ cooling /\ cooling' = FALSE
  /\ UNCHANGED <<broker, phase, running, position, batch, attempts, level, sinks, shed, abandoned, faults>>

\* Mutant of ShouldProcess: nothing passes the last level.
ShouldProcessBelowBreak(kind) == level < 3 \/ (level = 3 /\ kind \in {"critical", "high"})

\* should_process, for trades: they are never of the LOW priority that GRACEFUL drops.
ShouldProcess(kind) ==
  CASE level = 3 -> kind \in {"critical", "high"}
    [] level = 4 -> kind = "critical"
    [] OTHER -> TRUE

-----------------------------------------------------------------------------
(* One batch. *)

Start ==
  /\ phase = "down" /\ phase' = "idle" /\ running' = TRUE
  /\ position' = committed /\ batch' = <<>> /\ attempts' = 0
  /\ level' = 0 /\ cooling' = FALSE
  /\ UNCHANGED <<broker, sinks, shed, abandoned, faults>>

\* The lag reads 0 without an assignment or when it cannot be had.
BeginBatch ==
  /\ phase = "idle" /\ running /\ phase' = "polling" /\ batch' = <<>>
  /\ \E lag \in {0, Len(log) - committed}, heap \in HeapReadings : CheckAndDegrade(lag, heap)
  /\ UNCHANGED <<broker, running, position, attempts, sinks, shed, abandoned, faults>>

\* A message that cannot be decoded is logged and passed over.
PollMessage ==
  /\ phase = "polling" /\ position < Len(log) /\ position' = position + 1
  /\ LET m == position + 1
         decoded == log[m] # "garbled"
         kept == decoded /\ ShouldProcess(log[m])
     IN  /\ batch' = IF kept THEN Append(batch, m) ELSE batch
         /\ shed' = IF decoded /\ ~kept THEN shed \cup {m} ELSE shed
  /\ phase' = IF Len(batch') = BatchSize THEN "writing" ELSE "polling"
  /\ UNCHANGED <<broker, running, attempts, health, sinks, abandoned, faults>>

\* poll times out: what there is is written.  Nothing at all is polled for again.
PollNothing ==
  /\ phase = "polling" /\ batch # <<>> /\ phase' = "writing"
  /\ UNCHANGED <<broker, running, position, batch, attempts, health, sinks, shed, abandoned, faults>>

Valid == \A i \in DOMAIN batch : log[batch[i]] # "invalid"
Appended == [m \in Messages |-> IF m \in Range(batch) THEN rows[m] + 1 ELSE rows[m]]

\* commit() without arguments: what has been polled.
Commits == committed' = position

\* Mutant of BatchEnds: the attempt that succeeded is made again.
BatchEndsRetried == UNCHANGED <<phase, batch, attempts>>

BatchEnds == phase' = "idle" /\ batch' = <<>> /\ attempts' = 0

Write ==
  /\ phase = "writing" /\ Valid
  /\ rows' = Appended /\ Commits /\ BatchEnds
  /\ UNCHANGED <<log, running, position, health, dlq, shed, abandoned, faults>>

\* Mutant of DeadLetter: the bad batch is skipped.
DeadLetterSkipped ==
  /\ phase = "writing" /\ ~Valid /\ Commits /\ BatchEnds
  /\ UNCHANGED <<log, running, position, health, sinks, shed, abandoned, faults>>

\* A permanent error sends the whole batch to the dead letter queue.
DeadLetter ==
  /\ phase = "writing" /\ ~Valid
  /\ dlq' = dlq \cup Range(batch) /\ Commits /\ BatchEnds
  /\ UNCHANGED <<log, running, position, health, rows, shed, abandoned, faults>>

\* _shutdown: the final commit, if the broker takes it, then close.
Shutdown ==
  /\ phase' = "down" /\ batch' = <<>> /\ attempts' = 0
  /\ Commits \/ UNCHANGED committed

\* What a failed batch loses when the shutdown has committed.
Abandons == abandoned' = IF committed' = committed THEN abandoned ELSE abandoned \cup Range(batch)

\* A transient failure with an attempt left; the append may have been made.
WriteFails ==
  /\ Fault /\ phase = "writing" /\ Valid /\ attempts < MaxAttempts - 1
  /\ rows' \in {rows, Appended} /\ attempts' = attempts + 1
  /\ UNCHANGED <<broker, phase, running, position, batch, health, dlq, shed, abandoned>>

\* The last attempt, an error of neither list, or the dead letter file fails: raise, and run's finally.
BatchRaises ==
  /\ Fault /\ phase = "writing" /\ Shutdown /\ Abandons
  /\ IF Valid THEN rows' \in {rows, Appended} ELSE UNCHANGED rows
  /\ UNCHANGED <<log, running, position, health, dlq, shed>>

\* The batch is written and its commit raises.
CommitRaises ==
  /\ Fault /\ phase = "writing" /\ Shutdown
  /\ IF Valid THEN rows' = Appended /\ UNCHANGED dlq ELSE dlq' = dlq \cup Range(batch) /\ UNCHANGED rows
  /\ UNCHANGED <<log, running, position, health, shed, abandoned>>

Signal ==
  /\ Fault /\ phase # "down" /\ running /\ running' = FALSE
  /\ UNCHANGED <<broker, phase, position, batch, attempts, health, sinks, shed, abandoned>>

\* run looks at self.running between batches.
Stop ==
  /\ phase = "idle" /\ ~running /\ Shutdown
  /\ UNCHANGED <<log, running, position, health, sinks, shed, abandoned, faults>>

Kill ==
  /\ Fault /\ phase # "down" /\ phase' = "down" /\ batch' = <<>> /\ attempts' = 0
  /\ UNCHANGED <<broker, running, position, health, sinks, shed, abandoned>>

Next ==
  \/ Produce \/ CoolDown \/ Start \/ BeginBatch \/ PollMessage \/ PollNothing
  \/ Write \/ DeadLetter \/ WriteFails \/ BatchRaises \/ CommitRaises \/ Signal \/ Stop \/ Kill

\* The container is restarted; the loop goes on.
Fairness ==
  /\ WF_vars(Start) /\ WF_vars(BeginBatch) /\ WF_vars(PollMessage) /\ WF_vars(PollNothing)
  /\ WF_vars(Write) /\ WF_vars(DeadLetter) /\ WF_vars(Stop)

Spec == Init /\ [][Next]_vars /\ Fairness

-----------------------------------------------------------------------------
\* "Don't commit offsets - will reprocess after restart" (consumer.py) holds of
\* every batch but the failed one that the shutdown commits: a message below
\* the committed offset is in the table or the dead letter queue, was shed,
\* could not be decoded, or was abandoned.
CommittedIsSettled ==
  \A m \in 1..committed :
    rows[m] > 0 \/ m \in dlq \/ m \in shed \/ log[m] = "garbled" \/ m \in abandoned

\* At-least-once: each copy of a row beyond the first took a lost answer, a
\* failed commit or a killed process. (faults counts signals too, which make no
\* copy: the bound is not tight.)
CopiesTakeFaults == \A m \in Messages : rows[m] <= 1 + faults

\* A message of the first tier is settled whatever the level, also by a consumer
\* that sheds all the others and therefore commits nothing for them.
CriticalSettles ==
  \A m \in Messages : (m \in Produced /\ log[m] = "critical") ~> committed >= m
=============================================================================
