------------------------------ MODULE V1Proofs ------------------------------
(***************************************************************************)
(* The two archived services.  At-least-once delivery of the v1 consumer,  *)
(* for every number of messages, every batch size, every number of         *)
(* attempts and of faults; and of the v1 streaming service, for every      *)
(* number of URLs, reconnects, trades and disturbances: it gives up no URL *)
(* untried, and an exit accounts for every trade.                          *)
(***************************************************************************)
EXTENDS V1Consumer, V1Stream, FiniteSetTheorems, TLAPS

-----------------------------------------------------------------------------
(* The consumer. *)

\* What has been polled and not committed is in the batch, unless it was passed over.
PolledIsHeld ==
  phase # "down" =>
    \A m \in (committed + 1)..position :
      m \in Range(batch) \/ m \in shed \/ log[m] = "garbled"

\* Before a message is committed each of its rows took a fault.
UncommittedCopies == \A m \in Messages : m > committed => rows[m] <= faults

\* Between two batches none is held, and one that is polled for has room.
PhaseFitsBatch ==
  /\ phase = "idle" => batch = <<>>
  /\ phase = "polling" => Len(batch) < BatchSize

IInv ==
  /\ TypeOK /\ CommittedIsSettled /\ CopiesTakeFaults
  /\ PolledIsHeld /\ UncommittedCopies /\ PhaseFitsBatch

-----------------------------------------------------------------------------
(* The constants and the sequences. *)

\* The assumption on the constants, one membership at a time.
LEMMA ConstantTypes ==
  /\ BatchSize \in Nat /\ BatchSize > 0 /\ MaxAttempts \in Nat /\ MaxAttempts > 0
  /\ MaxMessages \in Nat /\ MaxFaults \in Nat
  BY ConsumerConstants

\* Append adds one element to the range.
LEMMA RangeOfAppend ==
  ASSUME NEW S, NEW s \in Seq(S), NEW e \in S
  PROVE  Range(Append(s, e)) = Range(s) \cup {e}
  <1> DEFINE t == Append(s, e)
  <1>1. Len(t) = Len(s) + 1 /\ t[Len(s) + 1] = e /\ \A i \in 1..Len(s) : t[i] = s[i]
    OBVIOUS
  <1>2. DOMAIN t = 1..(Len(s) + 1) /\ DOMAIN s = 1..Len(s) /\ Len(s) \in Nat
    OBVIOUS
  <1>3. ASSUME NEW x \in Range(t) PROVE x \in Range(s) \cup {e}
    BY <1>1, <1>2 DEF Range
  <1>4. ASSUME NEW x \in Range(s) \cup {e} PROVE x \in Range(t)
    <2>1. CASE x = e BY <2>1, <1>1, <1>2 DEF Range
    <2>2. CASE x \in Range(s)
      <3>1. PICK i \in 1..Len(s) : x = s[i] BY <2>2, <1>2 DEF Range
      <3> QED BY <3>1, <1>1, <1>2 DEF Range
    <2> QED BY <2>1, <2>2
  <1> QED BY <1>3, <1>4

LEMMA InitIInv == Init => IInv
  <1> SUFFICES ASSUME Init PROVE IInv OBVIOUS
  <1>1. TypeOK
    <2>1. log \in Seq(Kinds) /\ Len(log) = 0 /\ batch \in Seq(Produced) /\ Len(batch) = 0
      BY DEF Init
    <2>2. rows \in [Messages -> Nat] BY DEF Init
    <2>3. DOMAIN batch = {} BY DEF Init
    <2>4. committed \in 0..position /\ position \in 0..Len(log) /\ Len(log) <= MaxMessages
          /\ Len(batch) <= BatchSize /\ attempts \in 0..(MaxAttempts - 1)
          /\ level \in 0..4 /\ faults \in 0..MaxFaults
      BY <2>1, ConstantTypes DEF Init
    <2>5. dlq \cup shed \cup abandoned \subseteq Produced BY DEF Init
    <2>6. phase = "down" /\ running \in BOOLEAN /\ cooling \in BOOLEAN BY DEF Init
    <2> QED BY <2>1, <2>2, <2>3, <2>4, <2>5, <2>6 DEF TypeOK
  <1>2. CommittedIsSettled /\ PolledIsHeld /\ PhaseFitsBatch
    BY DEF Init, CommittedIsSettled, PolledIsHeld, PhaseFitsBatch
  <1>3. CopiesTakeFaults /\ UncommittedCopies
    BY DEF Init, CopiesTakeFaults, UncommittedCopies, Messages
  <1> QED BY <1>1, <1>2, <1>3 DEF IInv

-----------------------------------------------------------------------------
(* What TypeOK says, fact by fact. *)

LEMMA NumberTypes ==
  ASSUME TypeOK
  PROVE  /\ committed \in Nat /\ position \in Nat /\ Len(log) \in Nat
         /\ committed <= position /\ position <= Len(log) /\ Len(log) <= MaxMessages
         /\ MaxMessages \in Nat /\ faults \in Nat
  BY ConstantTypes DEF TypeOK

\* The batch holds messages polled and not committed.
LEMMA BatchIsPolled ==
  ASSUME TypeOK
  PROVE  \A m \in Range(batch) : m \in Messages /\ m \in Produced /\ m > committed /\ m <= position
  <1>1. Range(batch) = {batch[i] : i \in DOMAIN batch}
    BY DEF Range
  <1>2. \A i \in DOMAIN batch : batch[i] \in (committed + 1)..position
    BY DEF TypeOK
  <1>3. QED
    BY <1>1, <1>2, NumberTypes DEF Messages, Produced

\* What an append of the batch does to the rows.
LEMMA AppendedRows ==
  ASSUME TypeOK
  PROVE  /\ Appended \in [Messages -> Nat]
         /\ \A m \in Messages : Appended[m] = IF m \in Range(batch) THEN rows[m] + 1 ELSE rows[m]
  BY DEF TypeOK, Appended

\* The batch is over: written, put aside or given up.
LEMMA EmptyBatchTypes ==
  ASSUME NEW S, NEW s, s = <<>>
  PROVE  s \in Seq(S) /\ Len(s) = 0 /\ DOMAIN s = {}
  OBVIOUS

\* TypeOK when the batch is emptied, in the terms that each action changes.
LEMMA TypesOfEmptyBatch ==
  ASSUME TypeOK, batch' = <<>>, log' = log, position' = position,
         committed' = committed \/ committed' = position,
         phase' \in {"down", "idle"}, attempts' = 0,
         running' \in BOOLEAN, level' \in 0..4, cooling' \in BOOLEAN, rows' \in [Messages -> Nat],
         dlq' \subseteq Produced, shed' \subseteq Produced, abandoned' \subseteq Produced,
         faults' \in 0..MaxFaults
  PROVE  TypeOK'
  <1>1. log' \in Seq(Kinds) /\ Len(log') <= MaxMessages /\ Produced' = Produced
    BY DEF TypeOK, Produced
  <1>2. committed' \in 0..position' /\ position' \in 0..Len(log')
    BY NumberTypes DEF TypeOK
  <1>3. batch' \in Seq(Produced') /\ Len(batch') = 0 /\ DOMAIN batch' = {}
    BY EmptyBatchTypes
  <1>4. Len(batch') <= BatchSize /\ attempts' \in 0..(MaxAttempts - 1)
    BY <1>3, ConstantTypes
  <1>5. phase' \in {"down", "idle", "polling", "writing"} /\ phase' # "writing"
    OBVIOUS
  <1>6. (dlq \cup shed \cup abandoned)' \subseteq Produced'
    BY <1>1
  <1> QED
    BY <1>1, <1>2, <1>3, <1>4, <1>5, <1>6 DEF TypeOK

\* The rows of an action that may append: what the two invariants of rows need.
LEMMA RowsAfterFault ==
  ASSUME IInv, faults' = faults + 1, rows' \in {rows, Appended},
         committed' = committed \/ committed' = position
  PROVE  /\ rows' \in [Messages -> Nat] /\ \A m \in Messages : rows[m] > 0 => rows'[m] > 0
         /\ CopiesTakeFaults' /\ UncommittedCopies'
  <1>1. TypeOK /\ rows \in [Messages -> Nat]
    BY DEF IInv, TypeOK
  <1>2. rows' \in [Messages -> Nat]
    BY <1>1, AppendedRows
  <1>3. \A m \in Messages : rows'[m] <= rows[m] + 1 /\ rows'[m] >= rows[m]
    BY <1>1, AppendedRows
  <1>4. CopiesTakeFaults'
    BY <1>1, <1>2, <1>3, NumberTypes DEF CopiesTakeFaults, IInv
  <1>5. UncommittedCopies'
    <2> SUFFICES ASSUME NEW m \in Messages, m > committed' PROVE rows'[m] <= faults'
      BY DEF UncommittedCopies
    <2>1. m > committed /\ rows[m] <= faults
      BY <1>1, NumberTypes DEF UncommittedCopies, IInv, Messages
    <2> QED
      BY <2>1, <1>1, <1>2, <1>3, NumberTypes
  <1> QED
    BY <1>1, <1>2, <1>3, <1>4, <1>5

\* What the commit of a polled batch must find: H is where the batch went.
LEMMA SettledByCommit ==
  ASSUME IInv, log' = log, phase # "down",
         committed' = committed \/ committed' = position,
         \A m \in Messages : rows[m] > 0 => rows'[m] > 0,
         dlq \subseteq dlq', shed' = shed, abandoned \subseteq abandoned',
         committed' # committed =>
           \A m \in Range(batch) : rows'[m] > 0 \/ m \in dlq' \/ m \in abandoned'
  PROVE  CommittedIsSettled'
  <1> SUFFICES ASSUME NEW m \in 1..committed'
               PROVE  rows'[m] > 0 \/ m \in dlq' \/ m \in shed' \/ log'[m] = "garbled" \/ m \in abandoned'
    BY DEF CommittedIsSettled
  <1>1. TypeOK /\ m \in Messages
    BY NumberTypes DEF IInv, Messages
  <1>2. CASE m <= committed
    <2>1. m \in 1..committed
      BY <1>1, <1>2, NumberTypes
    <2> QED
      BY <2>1, <1>1 DEF IInv, CommittedIsSettled
  <1>3. CASE m > committed
    <2>1. committed' # committed /\ m \in (committed + 1)..position
      BY <1>1, <1>3, NumberTypes
    <2>2. m \in Range(batch) \/ m \in shed \/ log[m] = "garbled"
      BY <2>1 DEF IInv, PolledIsHeld
    <2> QED
      BY <2>1, <2>2
  <1> QED
    BY <1>1, <1>2, <1>3, NumberTypes

-----------------------------------------------------------------------------
(* Every action preserves IInv. *)

LEMMA ProducePreserves == IInv /\ Produce => IInv'
  <1> SUFFICES ASSUME IInv, Produce PROVE IInv'
    OBVIOUS
  <1>1. PICK k \in Kinds : log' = Append(log, k)
    BY DEF Produce
  <1>2. /\ log' \in Seq(Kinds) /\ Len(log') = Len(log) + 1 /\ Len(log) < MaxMessages
        /\ \A m \in 1..Len(log) : log'[m] = log[m]
    BY <1>1 DEF Produce, IInv, TypeOK
  <1>3. TypeOK /\ committed <= position /\ position <= Len(log) /\ Len(log) \in Nat
        /\ committed \in Nat /\ position \in Nat /\ MaxMessages \in Nat
    BY NumberTypes DEF IInv
  <1>4. UNCHANGED <<committed, phase, running, position, batch, attempts, level, cooling,
                    rows, dlq, shed, abandoned, faults>>
    BY DEF Produce, health, sinks
  <1>5. TypeOK'
    <2>1. Produced \subseteq Produced' /\ position' \in 0..Len(log') /\ Len(log') <= MaxMessages
      BY <1>2, <1>3, <1>4 DEF Produced
    <2>2. batch' \in Seq(Produced')
      <3>1. batch \in Seq(Produced) /\ Len(batch) \in Nat
        BY <1>3 DEF TypeOK
      <3>2. DOMAIN batch = 1..Len(batch) /\ \A i \in 1..Len(batch) : batch[i] \in Produced'
        BY <3>1, <2>1
      <3>3. batch = [i \in 1..Len(batch) |-> batch[i]]
        BY <3>1
      <3> QED
        BY <3>1, <3>2, <3>3, <1>4
    <2>3. (dlq \cup shed \cup abandoned)' \subseteq Produced'
      BY <2>1, <1>3, <1>4 DEF TypeOK
    <2> QED
      BY <1>2, <1>3, <1>4, <2>1, <2>2, <2>3 DEF TypeOK
  <1>6. \A m \in 1..position : log'[m] = log[m]
    BY <1>2, <1>3
  <1>7. CommittedIsSettled'
    BY <1>3, <1>4, <1>6 DEF IInv, CommittedIsSettled
  <1>8. PolledIsHeld'
    BY <1>3, <1>4, <1>6 DEF IInv, PolledIsHeld
  <1>9. CopiesTakeFaults' /\ UncommittedCopies' /\ PhaseFitsBatch'
    BY <1>4 DEF IInv, CopiesTakeFaults, UncommittedCopies, PhaseFitsBatch, Messages
  <1> QED
    BY <1>5, <1>7, <1>8, <1>9 DEF IInv

\* Actions that leave the log, the messages and the rows alone.
LEMMA QuietPreserves ==
  ASSUME IInv, TypeOK', UNCHANGED <<broker, sinks, shed, abandoned>>, faults' \in {faults, faults + 1},
         phase' = "down" \/ (phase # "down" /\ UNCHANGED <<position, batch>>) \/ position' = committed,
         PhaseFitsBatch'
  PROVE  IInv'
  <1>1. UNCHANGED <<log, committed, rows, dlq, shed, abandoned>> /\ faults' >= faults
        /\ faults \in Nat /\ faults' \in Nat /\ committed \in Nat /\ TypeOK
    BY NumberTypes DEF broker, sinks, IInv
  <1>2. CommittedIsSettled'
    BY <1>1 DEF IInv, CommittedIsSettled
  <1>3. rows \in [Messages -> Nat]
    BY <1>1 DEF TypeOK
  <1>4. CopiesTakeFaults'
    BY <1>1, <1>3 DEF IInv, CopiesTakeFaults
  <1>5. UncommittedCopies'
    BY <1>1, <1>3 DEF IInv, UncommittedCopies
  <1>6. PolledIsHeld'
    <2>1. CASE phase' = "down"
      BY <2>1 DEF PolledIsHeld
    <2>2. CASE phase # "down" /\ UNCHANGED <<position, batch>>
      BY <2>2, <1>1 DEF IInv, PolledIsHeld
    <2>3. CASE position' = committed
      BY <2>3, <1>1 DEF PolledIsHeld
    <2> QED
      BY <2>1, <2>2, <2>3
  <1> QED
    BY <1>2, <1>4, <1>5, <1>6 DEF IInv

LEMMA CoolDownPreserves == IInv /\ CoolDown => IInv'
  <1> SUFFICES ASSUME IInv, CoolDown PROVE IInv'
    OBVIOUS
  <1>1. TypeOK'
    BY DEF IInv, TypeOK, CoolDown, broker, sinks, Produced
  <1>2. UNCHANGED <<broker, sinks, shed, abandoned, phase, position, batch>> /\ faults' = faults
    BY DEF CoolDown
  <1>3. PhaseFitsBatch'
    BY <1>2 DEF IInv, PhaseFitsBatch
  <1> QED
    BY <1>1, <1>2, <1>3, QuietPreserves

LEMMA StartPreserves == IInv /\ Start => IInv'
  <1> SUFFICES ASSUME IInv, Start PROVE IInv'
    OBVIOUS
  <1>1. TypeOK /\ committed \in Nat /\ position \in Nat /\ Len(log) \in Nat
        /\ committed <= position /\ position <= Len(log)
    BY NumberTypes DEF IInv
  <1>2. UNCHANGED <<log, committed, rows, dlq, shed, abandoned, faults>> /\ position' = committed
        /\ batch' = <<>> /\ attempts' = 0 /\ phase' = "idle" /\ running' = TRUE /\ level' = 0 /\ cooling' = FALSE
    BY DEF Start, broker, sinks
  <1>3. batch' \in Seq(Produced') /\ Len(batch') = 0 /\ DOMAIN batch' = {}
    BY <1>2, EmptyBatchTypes
  <1>4. Produced' = Produced /\ position' \in 0..Len(log') /\ committed' \in 0..position'
    BY <1>1, <1>2 DEF Produced
  <1>5. Len(batch') <= BatchSize /\ attempts' \in 0..(MaxAttempts - 1) /\ level' \in 0..4
    BY <1>2, <1>3, ConstantTypes
  <1>6. TypeOK'
    <2>1. running' \in BOOLEAN /\ cooling' \in BOOLEAN /\ phase' \in {"idle"}
      BY <1>2
    <2> QED
      BY <1>1, <1>2, <1>3, <1>4, <1>5, <2>1 DEF TypeOK
  <1>7. PhaseFitsBatch'
    BY <1>2 DEF PhaseFitsBatch
  <1> QED
    BY <1>2, <1>6, <1>7, QuietPreserves DEF Start

LEMMA BeginBatchPreserves == IInv /\ BeginBatch => IInv'
  <1> SUFFICES ASSUME IInv, BeginBatch PROVE IInv'
    OBVIOUS
  <1>1. TypeOK
    BY DEF IInv
  <1>2. UNCHANGED <<log, committed, running, position, attempts, rows, dlq, shed, abandoned, faults>>
        /\ batch' = <<>> /\ phase' = "polling" /\ phase = "idle"
    BY DEF BeginBatch, broker, sinks
  <1>3. PICK lag \in {0, Len(log) - committed}, heap \in HeapReadings : CheckAndDegrade(lag, heap)
    BY DEF BeginBatch
  <1>4. level' \in 0..4
    <2>1. Calculated(lag, heap) \in 0..4
      <3> DEFINE D == {i \in 1..4 : lag >= LagAt[i] \/ heap >= HeapAt[i]}
      <3>0. 1 \in Int /\ 4 \in Int /\ ~(1 > 4)
        OBVIOUS
      <3>1. IsFiniteSet(1..4) /\ Cardinality(1..4) = 4 - 1 + 1
        BY <3>0, FS_Interval, Zenon
      <3>2. D \subseteq 1..4
        OBVIOUS
      <3>3. IsFiniteSet(D) /\ Cardinality(D) <= 4
        BY <3>1, <3>2, FS_Subset
      <3>4. Cardinality(D) \in Nat
        BY <3>3, FS_CardinalityType
      <3> QED
        BY <3>3, <3>4 DEF Calculated
    <2>2. level \in 0..4
      BY <1>1 DEF TypeOK
    <2> QED
      BY <1>3, <2>1, <2>2 DEF CheckAndDegrade
  <1>5. cooling' \in BOOLEAN
    <2>1. PICK b \in BOOLEAN : cooling' = (cooling \/ b)
      BY <1>3 DEF CheckAndDegrade
    <2> QED
      BY <2>1
  <1>6. batch' \in Seq(Produced') /\ Len(batch') = 0 /\ DOMAIN batch' = {}
    BY <1>2, EmptyBatchTypes
  <1>7. Len(batch') <= BatchSize /\ Produced' = Produced
    BY <1>2, <1>6, ConstantTypes DEF Produced
  <1>8. TypeOK'
    BY <1>1, <1>2, <1>4, <1>5, <1>6, <1>7 DEF TypeOK
  <1>9. UNCHANGED batch
    BY <1>2 DEF IInv, PhaseFitsBatch
  <1>10. PhaseFitsBatch'
    BY <1>2, <1>6, ConstantTypes DEF PhaseFitsBatch
  <1> QED
    BY <1>2, <1>8, <1>9, <1>10, QuietPreserves DEF broker, sinks

LEMMA PollMessagePreserves == IInv /\ PollMessage => IInv'
  <1> SUFFICES ASSUME IInv, PollMessage PROVE IInv'
    OBVIOUS
  <1> DEFINE m == position + 1
             kept == log[m] # "garbled" /\ ShouldProcess(log[m])
  <1>1. TypeOK /\ committed \in Nat /\ position \in Nat /\ Len(log) \in Nat
        /\ committed <= position /\ position < Len(log)
    BY NumberTypes DEF IInv, PollMessage
  <1>2. UNCHANGED <<log, committed, running, attempts, level, cooling, rows, dlq, abandoned, faults>>
        /\ phase = "polling" /\ position' = position + 1
        /\ phase' = (IF Len(batch') = BatchSize THEN "writing" ELSE "polling")
    BY DEF PollMessage, broker, health, sinks
  <1>3. /\ kept => batch' = Append(batch, m)
        /\ ~kept => batch' = batch
    BY DEF PollMessage
  <1>4. shed' = IF log[m] # "garbled" /\ ~kept THEN shed \cup {m} ELSE shed
    BY DEF PollMessage
  <1> HIDE DEF kept
  <1>5. Produced' = Produced /\ m \in Produced /\ batch \in Seq(Produced) /\ Len(batch) \in Nat
        /\ DOMAIN batch = 1..Len(batch)
    BY <1>1, <1>2 DEF Produced, TypeOK
  <1>6. BatchSize \in Nat /\ BatchSize > 0 /\ MaxAttempts \in Nat
    BY ConstantTypes
  <1>7. Len(batch) < BatchSize
    BY <1>2 DEF IInv, PhaseFitsBatch
  <1>8. batch' \in Seq(Produced') /\ Len(batch') \in Nat /\ Len(batch') <= BatchSize /\ DOMAIN batch' = 1..Len(batch')
    <2>1. CASE kept
      <3>1. batch' = Append(batch, m) /\ Len(Append(batch, m)) = Len(batch) + 1 /\ Append(batch, m) \in Seq(Produced)
        BY <2>1, <1>3, <1>5
      <3> QED
        BY <3>1, <1>5, <1>6, <1>7
    <2>2. CASE ~kept
      <3>1. batch' = batch
        BY <2>2, <1>3
      <3> QED
        BY <3>1, <1>5, <1>6, <1>7
    <2> QED
      BY <2>1, <2>2
  <1>9. \A i \in 1..Len(batch) : batch[i] \in (committed + 1)..position
    BY <1>1, <1>5 DEF TypeOK
  <1>10. \A i \in 1..Len(batch) : \A j \in 1..Len(batch) : i < j => batch[i] < batch[j]
    BY <1>1, <1>5 DEF TypeOK
  <1>11. /\ \A i \in 1..Len(batch') : batch'[i] \in (committed' + 1)..position'
         /\ \A i \in 1..Len(batch') : \A j \in 1..Len(batch') : i < j => batch'[i] < batch'[j]
    <2>1. CASE kept
      <3>1. Len(batch') = Len(batch) + 1 /\ batch'[Len(batch) + 1] = m
            /\ \A i \in 1..Len(batch) : batch'[i] = batch[i]
        BY <2>1, <1>3, <1>5
      <3>2. ASSUME NEW i \in 1..Len(batch') PROVE batch'[i] \in (committed' + 1)..position'
        <4>1. CASE i = Len(batch) + 1
          BY <4>1, <3>1, <1>1, <1>2
        <4>2. CASE i \in 1..Len(batch)
          BY <4>2, <3>1, <1>1, <1>2, <1>9
        <4> QED
          BY <4>1, <4>2, <3>1, <1>5
      <3>3. ASSUME NEW i \in 1..Len(batch'), NEW j \in 1..Len(batch'), i < j
            PROVE  batch'[i] < batch'[j]
        <4>1. i \in 1..Len(batch)
          BY <3>1, <3>3, <1>5
        <4>2. CASE j = Len(batch) + 1
          <5>1. batch'[j] = position + 1 /\ batch'[i] = batch[i] /\ batch[i] \in (committed + 1)..position
            BY <4>1, <4>2, <3>1, <1>9
          <5> QED
            BY <5>1, <1>1
        <4>3. CASE j \in 1..Len(batch)
          BY <4>1, <4>3, <3>1, <3>3, <1>10
        <4> QED
          BY <4>2, <4>3, <3>1, <1>5
      <3> QED
        BY <3>2, <3>3
    <2>2. CASE ~kept
      BY <2>2, <1>1, <1>2, <1>3, <1>9, <1>10
    <2> QED
      BY <2>1, <2>2
  <1>12. TypeOK'
    <2>1. phase' = "writing" => batch' # <<>>
      BY <1>2, <1>6
    <2>2. committed' \in 0..position' /\ position' \in 0..Len(log')
      BY <1>1, <1>2
    <2>3. (dlq \cup shed \cup abandoned)' \subseteq Produced'
      BY <1>1, <1>2, <1>4, <1>5 DEF TypeOK
    <2>4. phase' \in {"down", "idle", "polling", "writing"}
      BY <1>2
    <2>5. /\ \A i, j \in DOMAIN batch' : i < j => batch'[i] < batch'[j]
          /\ \A i \in DOMAIN batch' : batch'[i] \in (committed' + 1)..position'
      BY <1>8, <1>11
    <2> QED
      BY <1>1, <1>2, <1>8, <2>1, <2>2, <2>3, <2>4, <2>5 DEF TypeOK
  <1>13. PolledIsHeld'
    <2> SUFFICES ASSUME NEW n \in (committed' + 1)..position'
                 PROVE  n \in Range(batch') \/ n \in shed' \/ log'[n] = "garbled"
      BY DEF PolledIsHeld
    <2>1. Range(batch) \subseteq Range(batch') /\ (kept => m \in Range(batch'))
      <3>1. CASE kept
        <4>1. Range(Append(batch, m)) = Range(batch) \cup {m}
          BY <1>5, RangeOfAppend
        <4> QED
          BY <3>1, <4>1, <1>3
      <3>2. CASE ~kept
        BY <3>2, <1>3
      <3> QED
        BY <3>1, <3>2
    <2>2. CASE n = m
      <3>1. kept <=> log[m] # "garbled" /\ ShouldProcess(log[m])
        BY DEF kept
      <3> QED
        BY <2>1, <2>2, <3>1, <1>2, <1>4
    <2>3. CASE n # m
      <3>1. n \in (committed + 1)..position
        BY <2>3, <1>1, <1>2
      <3>2. n \in Range(batch) \/ n \in shed \/ log[n] = "garbled"
        BY <3>1, <1>2 DEF IInv, PolledIsHeld
      <3> QED
        BY <3>2, <2>1, <1>2, <1>4
    <2> QED
      BY <2>2, <2>3
  <1>14. CommittedIsSettled'
    BY <1>2, <1>4 DEF IInv, CommittedIsSettled
  <1>15. CopiesTakeFaults' /\ UncommittedCopies'
    BY <1>2 DEF IInv, CopiesTakeFaults, UncommittedCopies, Messages
  <1>16. PhaseFitsBatch'
    <2>1. CASE Len(batch') = BatchSize
      BY <2>1, <1>2 DEF PhaseFitsBatch
    <2>2. CASE Len(batch') # BatchSize
      <3>1. phase' # "idle"
        BY <1>2
      <3>2. Len(batch') < BatchSize
        <4> DEFINE n == Len(batch')
        <4>1. n \in Nat /\ n <= BatchSize /\ n # BatchSize
          BY <2>2, <1>8
        <4> HIDE DEF n
        <4>2. n < BatchSize
          BY <4>1, <1>6
        <4> QED
          BY <4>2 DEF n
      <3> QED
        BY <3>1, <3>2 DEF PhaseFitsBatch
    <2> QED
      BY <2>1, <2>2
  <1> QED
    BY <1>12, <1>13, <1>14, <1>15, <1>16 DEF IInv

LEMMA PollNothingPreserves == IInv /\ PollNothing => IInv'
  <1> SUFFICES ASSUME IInv, PollNothing PROVE IInv'
    OBVIOUS
  <1>1. TypeOK
    BY DEF IInv
  <1>2. UNCHANGED <<broker, running, position, batch, attempts, health, sinks, shed, abandoned, faults>>
        /\ phase = "polling" /\ phase' = "writing" /\ batch # <<>>
    BY DEF PollNothing
  <1>3. TypeOK'
    BY <1>1, <1>2 DEF TypeOK, broker, health, sinks, Produced
  <1>4. PhaseFitsBatch'
    BY <1>2 DEF PhaseFitsBatch
  <1> QED
    BY <1>2, <1>3, <1>4, QuietPreserves

LEMMA WritePreserves == IInv /\ Write => IInv'
  <1> SUFFICES ASSUME IInv, Write PROVE IInv'
    OBVIOUS
  <1>1. TypeOK /\ rows \in [Messages -> Nat] /\ faults \in Nat /\ position \in Nat
    BY NumberTypes DEF IInv, TypeOK
  <1>2. UNCHANGED <<log, running, position, level, cooling, dlq, shed, abandoned, faults>>
        /\ phase # "down" /\ rows' = Appended /\ committed' = position
        /\ phase' = "idle" /\ batch' = <<>> /\ attempts' = 0
    BY DEF Write, Commits, BatchEnds, health
  <1>3. rows' \in [Messages -> Nat]
        /\ \A m \in Messages : rows'[m] = IF m \in Range(batch) THEN rows[m] + 1 ELSE rows[m]
    BY <1>1, <1>2, AppendedRows
  <1>4. TypeOK'
    <2>1. running' \in BOOLEAN /\ level' \in 0..4 /\ cooling' \in BOOLEAN
          /\ dlq' \subseteq Produced /\ shed' \subseteq Produced /\ abandoned' \subseteq Produced
          /\ faults' \in 0..MaxFaults
      BY <1>1, <1>2 DEF TypeOK
    <2> QED
      BY <1>1, <1>2, <1>3, <2>1, TypesOfEmptyBatch
  <1>5. CommittedIsSettled'
    <2>1. \A m \in Messages : rows[m] > 0 => rows'[m] > 0
      BY <1>1, <1>3
    <2>2. \A m \in Range(batch) : rows'[m] > 0
      BY <1>1, <1>3, BatchIsPolled
    <2> QED
      BY <1>2, <2>1, <2>2, SettledByCommit
  <1>6. CopiesTakeFaults'
    <2> SUFFICES ASSUME NEW m \in Messages PROVE rows'[m] <= 1 + faults
      BY <1>2 DEF CopiesTakeFaults, Messages
    <2>1. CASE m \in Range(batch)
      <3>1. m > committed
        BY <2>1, <1>1, BatchIsPolled
      <3>2. rows[m] <= faults
        BY <3>1 DEF IInv, UncommittedCopies
      <3> QED
        BY <3>2, <2>1, <1>1, <1>3
    <2>2. CASE m \notin Range(batch)
      BY <2>2, <1>1, <1>3 DEF IInv, CopiesTakeFaults
    <2> QED
      BY <2>1, <2>2
  <1>7. UncommittedCopies'
    <2> SUFFICES ASSUME NEW m \in Messages, m > position PROVE rows'[m] <= faults
      BY <1>2 DEF UncommittedCopies, Messages
    <2>1. m \notin Range(batch) /\ m > committed
      BY <1>1, BatchIsPolled, NumberTypes DEF Messages
    <2> QED
      BY <2>1, <1>3 DEF IInv, UncommittedCopies
  <1>8. PolledIsHeld'
    BY <1>1, <1>2 DEF PolledIsHeld
  <1>9. PhaseFitsBatch'
    BY <1>2 DEF PhaseFitsBatch
  <1> QED
    BY <1>4, <1>5, <1>6, <1>7, <1>8, <1>9 DEF IInv

LEMMA DeadLetterPreserves == IInv /\ DeadLetter => IInv'
  <1> SUFFICES ASSUME IInv, DeadLetter PROVE IInv'
    OBVIOUS
  <1>1. TypeOK /\ rows \in [Messages -> Nat] /\ faults \in Nat /\ position \in Nat
        /\ committed \in Nat /\ committed <= position
    BY NumberTypes DEF IInv, TypeOK
  <1>2. UNCHANGED <<log, running, position, level, cooling, rows, shed, abandoned, faults>>
        /\ phase # "down" /\ dlq' = dlq \cup Range(batch) /\ committed' = position
        /\ phase' = "idle" /\ batch' = <<>> /\ attempts' = 0
    BY DEF DeadLetter, Commits, BatchEnds, health
  <1>3. TypeOK'
    <2>1. dlq' \subseteq Produced
      BY <1>1, <1>2, BatchIsPolled DEF TypeOK
    <2>2. running' \in BOOLEAN /\ level' \in 0..4 /\ cooling' \in BOOLEAN
          /\ shed' \subseteq Produced /\ abandoned' \subseteq Produced /\ faults' \in 0..MaxFaults
      BY <1>1, <1>2 DEF TypeOK
    <2> QED
      BY <1>1, <1>2, <2>1, <2>2, TypesOfEmptyBatch
  <1>4. CommittedIsSettled'
    BY <1>2, SettledByCommit
  <1>5. CopiesTakeFaults'
    BY <1>2 DEF IInv, CopiesTakeFaults, Messages
  <1>6. UncommittedCopies'
    BY <1>1, <1>2 DEF IInv, UncommittedCopies, Messages
  <1>7. PolledIsHeld'
    BY <1>1, <1>2 DEF PolledIsHeld
  <1>8. PhaseFitsBatch'
    BY <1>2 DEF PhaseFitsBatch
  <1> QED
    BY <1>3, <1>4, <1>5, <1>6, <1>7, <1>8 DEF IInv

LEMMA WriteFailsPreserves == IInv /\ WriteFails => IInv'
  <1> SUFFICES ASSUME IInv, WriteFails PROVE IInv'
    OBVIOUS
  <1>1. TypeOK /\ faults \in Nat
    BY NumberTypes DEF IInv
  <1>2. UNCHANGED <<log, committed, phase, running, position, batch, level, cooling, dlq, shed, abandoned>>
        /\ rows' \in {rows, Appended} /\ attempts' = attempts + 1 /\ attempts < MaxAttempts - 1
        /\ faults' = faults + 1 /\ faults < MaxFaults
    BY DEF WriteFails, Fault, broker, health
  <1>3. rows' \in [Messages -> Nat] /\ (\A m \in Messages : rows[m] > 0 => rows'[m] > 0)
        /\ CopiesTakeFaults' /\ UncommittedCopies'
    BY <1>2, RowsAfterFault
  <1>4. TypeOK'
    <2>1. attempts' \in 0..(MaxAttempts - 1) /\ faults' \in 0..MaxFaults
      BY <1>1, <1>2, ConstantTypes DEF TypeOK
    <2> QED
      BY <1>1, <1>2, <1>3, <2>1 DEF TypeOK, Produced
  <1>5. CommittedIsSettled'
    <2>1. \A m \in 1..committed : m \in Messages
      BY <1>1, NumberTypes DEF Messages
    <2> QED
      BY <2>1, <1>2, <1>3 DEF IInv, CommittedIsSettled
  <1>6. PolledIsHeld' /\ PhaseFitsBatch'
    BY <1>2 DEF IInv, PolledIsHeld, PhaseFitsBatch
  <1> QED
    BY <1>3, <1>4, <1>5, <1>6 DEF IInv

\* A batch that ends in the shutdown of a running consumer.
LEMMA ShutdownPreserves ==
  ASSUME IInv, Shutdown, Fault, phase # "down", UNCHANGED <<log, running, position, health, shed>>,
         rows' \in {rows, Appended}, dlq \subseteq dlq', dlq' \subseteq Produced,
         abandoned \subseteq abandoned', abandoned' \subseteq Produced,
         committed' # committed =>
           \A m \in Range(batch) : rows'[m] > 0 \/ m \in dlq' \/ m \in abandoned'
  PROVE  IInv'
  <1>1. TypeOK
    BY DEF IInv
  <1>2. phase' = "down" /\ batch' = <<>> /\ attempts' = 0
        /\ (committed' = committed \/ committed' = position)
        /\ faults' = faults + 1 /\ faults < MaxFaults
        /\ UNCHANGED <<log, running, position, level, cooling, shed>>
    BY DEF Shutdown, Commits, Fault, health
  <1>3. rows' \in [Messages -> Nat] /\ (\A m \in Messages : rows[m] > 0 => rows'[m] > 0)
        /\ CopiesTakeFaults' /\ UncommittedCopies'
    BY <1>2, RowsAfterFault
  <1>4. TypeOK'
    <2>1. faults' \in 0..MaxFaults
      BY <1>1, <1>2, ConstantTypes DEF TypeOK
    <2>2. running' \in BOOLEAN /\ level' \in 0..4 /\ cooling' \in BOOLEAN /\ shed' \subseteq Produced
      BY <1>1, <1>2 DEF TypeOK
    <2> QED
      BY <1>1, <1>2, <1>3, <2>1, <2>2, TypesOfEmptyBatch
  <1>5. CommittedIsSettled'
    BY <1>2, <1>3, SettledByCommit
  <1>6. PolledIsHeld' /\ PhaseFitsBatch'
    BY <1>2 DEF PolledIsHeld, PhaseFitsBatch
  <1> QED
    BY <1>3, <1>4, <1>5, <1>6 DEF IInv

LEMMA BatchRaisesPreserves == IInv /\ BatchRaises => IInv'
  <1> SUFFICES ASSUME IInv, BatchRaises PROVE IInv'
    OBVIOUS
  <1>1. TypeOK
    BY DEF IInv
  <1>2. Shutdown /\ Fault /\ phase # "down" /\ UNCHANGED <<log, running, position, health, shed>>
        /\ rows' \in {rows, Appended} /\ dlq' = dlq
    BY DEF BatchRaises, sinks
  <1>3. abandoned' = (IF committed' = committed THEN abandoned ELSE abandoned \cup Range(batch))
    BY DEF BatchRaises, Abandons
  <1>4. dlq' \subseteq Produced /\ abandoned' \subseteq Produced
    BY <1>1, <1>2, <1>3, BatchIsPolled DEF TypeOK
  <1> QED
    BY <1>2, <1>3, <1>4, ShutdownPreserves

LEMMA CommitRaisesPreserves == IInv /\ CommitRaises => IInv'
  <1> SUFFICES ASSUME IInv, CommitRaises PROVE IInv'
    OBVIOUS
  <1>1. TypeOK
    BY DEF IInv
  <1>2. Shutdown /\ Fault /\ phase # "down" /\ UNCHANGED <<log, running, position, health, shed>>
        /\ abandoned' = abandoned
    BY DEF CommitRaises
  <1>3. abandoned' \subseteq Produced
    BY <1>1, <1>2 DEF TypeOK
  <1>4. CASE Valid
    <2>1. rows' = Appended /\ dlq' = dlq
      BY <1>4 DEF CommitRaises
    <2>2. \A m \in Range(batch) : rows'[m] > 0
      <3>1. rows \in [Messages -> Nat]
        BY <1>1 DEF TypeOK
      <3> QED
        BY <2>1, <3>1, <1>1, AppendedRows, BatchIsPolled
    <2>3. dlq' \subseteq Produced
      BY <2>1, <1>1 DEF TypeOK
    <2> QED
      BY <1>2, <1>3, <2>1, <2>2, <2>3, ShutdownPreserves
  <1>5. CASE ~Valid
    <2>1. dlq' = dlq \cup Range(batch) /\ rows' = rows
      BY <1>5 DEF CommitRaises
    <2>2. dlq' \subseteq Produced
      BY <2>1, <1>1, BatchIsPolled DEF TypeOK
    <2> QED
      BY <1>2, <1>3, <2>1, <2>2, ShutdownPreserves
  <1> QED
    BY <1>4, <1>5

LEMMA SignalPreserves == IInv /\ Signal => IInv'
  <1> SUFFICES ASSUME IInv, Signal PROVE IInv'
    OBVIOUS
  <1>1. TypeOK
    BY DEF IInv
  <1>2. UNCHANGED <<broker, phase, position, batch, attempts, health, sinks, shed, abandoned>>
        /\ running' = FALSE /\ faults' = faults + 1 /\ faults < MaxFaults /\ phase # "down"
    BY DEF Signal, Fault
  <1>3. faults' \in 0..MaxFaults
    BY <1>1, <1>2, ConstantTypes DEF TypeOK
  <1>4. TypeOK'
    BY <1>1, <1>2, <1>3 DEF TypeOK, broker, health, sinks, Produced
  <1>5. PhaseFitsBatch'
    BY <1>2 DEF IInv, PhaseFitsBatch
  <1> QED
    BY <1>2, <1>4, <1>5, QuietPreserves

LEMMA StopPreserves == IInv /\ Stop => IInv'
  <1> SUFFICES ASSUME IInv, Stop PROVE IInv'
    OBVIOUS
  <1>1. TypeOK /\ position \in Nat /\ committed \in Nat /\ committed <= position
    BY NumberTypes DEF IInv
  <1>2. UNCHANGED <<log, running, position, level, cooling, rows, dlq, shed, abandoned, faults>>
        /\ phase' = "down" /\ batch' = <<>> /\ attempts' = 0 /\ phase = "idle"
        /\ (committed' = committed \/ committed' = position)
    BY DEF Stop, Shutdown, Commits, health, sinks
  <1>3. TypeOK'
    <2>1. running' \in BOOLEAN /\ level' \in 0..4 /\ cooling' \in BOOLEAN /\ rows' \in [Messages -> Nat]
          /\ dlq' \subseteq Produced /\ shed' \subseteq Produced /\ abandoned' \subseteq Produced
          /\ faults' \in 0..MaxFaults
      BY <1>1, <1>2 DEF TypeOK
    <2> QED
      BY <1>1, <1>2, <2>1, TypesOfEmptyBatch
  <1>4. Range(batch) = {}
    <2>1. batch = <<>> /\ DOMAIN batch = {}
      <3>1. batch = <<>>
        BY <1>2 DEF IInv, PhaseFitsBatch
      <3> QED
        BY <3>1, EmptyBatchTypes
    <2> QED
      BY <2>1 DEF Range
  <1>5. CommittedIsSettled'
    BY <1>2, <1>4, SettledByCommit
  <1>6. CopiesTakeFaults'
    BY <1>2 DEF IInv, CopiesTakeFaults, Messages
  <1>7. UncommittedCopies'
    BY <1>1, <1>2 DEF IInv, UncommittedCopies, Messages
  <1>8. PolledIsHeld' /\ PhaseFitsBatch'
    BY <1>2 DEF PolledIsHeld, PhaseFitsBatch
  <1> QED
    BY <1>3, <1>5, <1>6, <1>7, <1>8 DEF IInv

LEMMA KillPreserves == IInv /\ Kill => IInv'
  <1> SUFFICES ASSUME IInv, Kill PROVE IInv'
    OBVIOUS
  <1>1. TypeOK
    BY DEF IInv
  <1>2. UNCHANGED <<broker, running, position, health, sinks, shed, abandoned>>
        /\ phase' = "down" /\ batch' = <<>> /\ attempts' = 0 /\ faults' = faults + 1 /\ faults < MaxFaults
    BY DEF Kill, Fault
  <1>3. TypeOK'
    <2>1. faults' \in 0..MaxFaults
      BY <1>1, <1>2, ConstantTypes DEF TypeOK
    <2>2. running' \in BOOLEAN /\ level' \in 0..4 /\ cooling' \in BOOLEAN /\ rows' \in [Messages -> Nat]
          /\ dlq' \subseteq Produced /\ shed' \subseteq Produced /\ abandoned' \subseteq Produced
          /\ log' = log /\ committed' = committed /\ position' = position
      BY <1>1, <1>2 DEF TypeOK, broker, health, sinks
    <2> QED
      BY <1>1, <1>2, <2>1, <2>2, TypesOfEmptyBatch
  <1>4. PhaseFitsBatch'
    BY <1>2 DEF PhaseFitsBatch
  <1> QED
    BY <1>2, <1>3, <1>4, QuietPreserves

LEMMA StepPreserves == IInv /\ [Next]_vars => IInv'
  <1> SUFFICES ASSUME IInv, [Next]_vars PROVE IInv'
    OBVIOUS
  <1>1. CASE UNCHANGED vars
    BY <1>1 DEF vars, broker, health, sinks, IInv, TypeOK, CommittedIsSettled, CopiesTakeFaults,
                PolledIsHeld, UncommittedCopies, PhaseFitsBatch, Produced, Messages
  <1>2. CASE Next
    BY <1>2, ProducePreserves, CoolDownPreserves, StartPreserves, BeginBatchPreserves,
       PollMessagePreserves, PollNothingPreserves, WritePreserves, DeadLetterPreserves,
       WriteFailsPreserves, BatchRaisesPreserves, CommitRaisesPreserves, SignalPreserves,
       StopPreserves, KillPreserves DEF Next
  <1> QED
    BY <1>1, <1>2

-----------------------------------------------------------------------------
(* The theorems. *)

\* The strengthened invariant holds throughout.
LEMMA Invariance == Spec => []IInv
  <1> QED
    BY InitIInv, StepPreserves, PTL DEF Spec

\* The consumer's state keeps its type: the batch holds, in order, offsets
\* polled and not committed (_consume_batch).
THEOREM TypeCorrect == Spec => []TypeOK
  <1>1. IInv => TypeOK
    BY DEF IInv
  <1> QED
    BY <1>1, Invariance, PTL

\* Nothing is committed that was not written, put aside, passed over or
\* abandoned by the shutdown, whatever fails and whenever.
THEOREM CommittedIsSettledHolds == Spec => []CommittedIsSettled
  <1>1. IInv => CommittedIsSettled
    BY DEF IInv
  <1> QED
    BY <1>1, Invariance, PTL

\* A row is duplicated at most once per fault.
THEOREM CopiesTakeFaultsHolds == Spec => []CopiesTakeFaults
  <1>1. IInv => CopiesTakeFaults
    BY DEF IInv
  <1> QED
    BY <1>1, Invariance, PTL

-----------------------------------------------------------------------------
(* The streaming service. *)

Flags ==
  /\ reachable \in BOOLEAN /\ isRunning \in BOOLEAN /\ monitors \in BOOLEAN
  /\ silent \in BOOLEAN /\ aged \in BOOLEAN /\ pinging \in BOOLEAN /\ closing \in BOOLEAN
  /\ ws \in BOOLEAN /\ pings \in {"sends", "raises", "raised"} /\ late \in BOOLEAN /\ shutdown \in BOOLEAN

ClientTypes ==
  /\ venue \in [Url -> {"up", "mute", "down"}]
  /\ task \in {"created", "deciding", "connecting", "open", "backoff", "done"}
  /\ url \in Url /\ reconnects \in 0..MaxReconnects /\ failed \subseteq Url
  /\ main \in {"streaming", "disconnecting", "raising", "joining", "flushing", "exited", "crashed"}
  /\ changes \in 0..MaxChanges

\* The URL k places before u.
Before(u, k) == IF u >= k THEN u - k ELSE u - k + UrlCount

\* The last URLs tried are those before the current one, or up to it at the end.
Tried ==
  /\ task \in {"created", "connecting", "backoff", "open"} => reconnects < MaxReconnects
  /\ reconnects < MaxReconnects => \A k \in 1..UrlCount : k <= reconnects => Before(url, k) \in failed
  /\ reconnects = MaxReconnects => \A k \in 0..(UrlCount - 1) : Before(url, k) \in failed

ClientInv == ClientTypes /\ Tried

\* Nothing comes in once main() has joined the client.
JoinedInv == main \in {"flushing", "exited", "crashed"} => task = "done"

TradeTypes ==
  /\ received \in Nat /\ count \in 0..received
  /\ queue \in Seq(Trade) /\ Len(queue) <= QueueMax
  /\ delivered \subseteq Trade /\ reported \subseteq Trade

\* Every trade is delivered, counted as an error, or still in the queue.
Accounted == Trade = delivered \cup reported \cup Range(queue)

\* Between two flushes the queue holds at most what came since the first.
SinceFlush == Len(queue) <= count % FlushEvery \/ late

TradeInv == TradeTypes /\ Accounted /\ SinceFlush

ExitInv ==
  /\ main = "exited" => left = Range(queue) /\ (reachable => left = {})
  /\ main \in {"raising", "crashed"} => pings = "raised"
LeftTypes == left \subseteq Trade

StreamInv == Flags /\ ClientInv /\ JoinedInv /\ TradeInv /\ ExitInv /\ LeftTypes

-----------------------------------------------------------------------------
LEMMA StreamConstantTypes ==
  /\ UrlCount \in Nat /\ UrlCount > 0 /\ MaxReconnects \in Nat /\ MaxReconnects > 0
  /\ FlushEvery \in Nat /\ FlushEvery > 0 /\ QueueMax \in Nat /\ QueueMax > 0
  /\ UrlCount <= MaxReconnects /\ FlushEvery <= QueueMax
  /\ MaxTrades \in Nat /\ MaxChanges \in Nat
  BY StreamConstants

\* Counting on by one, modulo n.
LEMMA NextModulo ==
  ASSUME NEW n \in Nat, n > 0, NEW u \in 0..(n - 1)
  PROVE  (u + 1) % n = IF u + 1 = n THEN 0 ELSE u + 1
  OBVIOUS

LEMMA SuccessorModulo ==
  ASSUME NEW n \in Nat, n > 0, NEW c \in Nat
  PROVE  /\ c % n \in 0..(n - 1)
         /\ (c + 1) % n # 0 => (c + 1) % n = (c % n) + 1
  OBVIOUS

LEMMA RangeOfTail ==
  ASSUME NEW S, NEW s \in Seq(S), s # <<>>
  PROVE  /\ Tail(s) \in Seq(S) /\ Len(Tail(s)) = Len(s) - 1 /\ Head(s) \in S
         /\ Range(s) = {Head(s)} \cup Range(Tail(s))
  <1> DEFINE t == Tail(s)
  <1>1. Len(s) \in Nat /\ Len(s) > 0 /\ t \in Seq(S) /\ Len(t) = Len(s) - 1
        /\ Head(s) = s[1] /\ Head(s) \in S /\ \A i \in 1..Len(t) : t[i] = s[i + 1]
    OBVIOUS
  <1>2. DOMAIN t = 1..Len(t) /\ DOMAIN s = 1..Len(s)
    BY <1>1
  <1>3. ASSUME NEW x \in Range(s) PROVE x \in {Head(s)} \cup Range(t)
    <2>1. PICK i \in 1..Len(s) : x = s[i] BY <1>2 DEF Range
    <2>2. CASE i = 1 BY <2>1, <2>2, <1>1
    <2>3. CASE i # 1
      <3>1. i - 1 \in 1..Len(t) /\ t[i - 1] = s[i] BY <2>1, <2>3, <1>1
      <3> QED BY <3>1, <2>1, <1>2 DEF Range
    <2> QED BY <2>2, <2>3
  <1>4. ASSUME NEW x \in {Head(s)} \cup Range(t) PROVE x \in Range(s)
    <2>1. CASE x = Head(s) BY <2>1, <1>1, <1>2 DEF Range
    <2>2. CASE x \in Range(t)
      <3>1. PICK i \in 1..Len(t) : x = t[i] BY <2>2, <1>2 DEF Range
      <3>2. i + 1 \in 1..Len(s) /\ x = s[i + 1] BY <3>1, <1>1
      <3> QED BY <3>2, <1>2 DEF Range
    <2> QED BY <2>1, <2>2
  <1> QED BY <1>1, <1>3, <1>4

LEMMA EmptyQueue == <<>> \in Seq(Trade) /\ Len(<<>>) = 0 /\ Range(<<>>) = {}
  BY DEF Range

-----------------------------------------------------------------------------
(* The initial states. *)

LEMMA InitStreamInv == StreamInit => StreamInv
  <1> SUFFICES ASSUME StreamInit PROVE StreamInv OBVIOUS
  <1>0. Flags
    BY Zenon DEF StreamInit, Flags
  <1>1. ClientTypes
    <2>1. venue \in [Url -> {"up", "mute", "down"}] BY DEF StreamInit
    <2>2. url \in Url /\ reconnects \in 0..MaxReconnects /\ failed \subseteq Url /\ changes \in 0..MaxChanges
      BY StreamConstantTypes DEF StreamInit, Url
    <2>3. task = "created" /\ main = "streaming" BY DEF StreamInit
    <2> QED BY <2>1, <2>2, <2>3 DEF ClientTypes
  <1>2. Tried
    BY StreamConstantTypes DEF StreamInit, Tried
  <1>3. TradeTypes
    <2>1. received = 0 /\ count = 0 /\ queue = <<>> /\ delivered = {} /\ reported = {} BY DEF StreamInit
    <2> QED BY <2>1, StreamConstantTypes, EmptyQueue DEF TradeTypes
  <1>4. Accounted /\ SinceFlush
    <2>1. Trade = {} BY DEF StreamInit, Trade
    <2>2. Accounted BY <2>1, EmptyQueue DEF StreamInit, Accounted
    <2>3. 0 % FlushEvery \in Nat BY StreamConstantTypes, SuccessorModulo
    <2>4. Len(queue) = 0 /\ count = 0 BY DEF StreamInit
    <2> QED BY <2>2, <2>3, <2>4 DEF SinceFlush
  <1> QED
    BY <1>0, <1>1, <1>2, <1>3, <1>4
    DEF StreamInv, ClientInv, TradeInv, JoinedInv, ExitInv, LeftTypes, Alive, StreamInit

-----------------------------------------------------------------------------
(* The client. *)

\* A step that leaves the position of connect() alone.
LEMMA QuietTried ==
  ASSUME Tried, UNCHANGED <<url, reconnects, failed>>,
         task' = task \/ task' \in {"deciding", "done"}
  PROVE  Tried'
  BY DEF Tried, Before

LEMMA HandleReconnectTried ==
  ASSUME ClientInv, task \in {"connecting", "open"}, HandleReconnect
  PROVE  /\ Tried'
         /\ task' \in {"deciding", "backoff"} /\ url' \in Url /\ reconnects' \in 0..MaxReconnects
         /\ failed' \subseteq Url
  <1>1. /\ reconnects \in Nat /\ reconnects < MaxReconnects /\ url \in 0..(UrlCount - 1)
        /\ reconnects' = reconnects + 1 /\ failed' = failed \cup {url} /\ failed \subseteq Url
        /\ \A k \in 1..UrlCount : k <= reconnects => Before(url, k) \in failed
    BY StreamConstantTypes DEF ClientInv, ClientTypes, Tried, HandleReconnect, Url
  <1>2. CASE reconnects' < MaxReconnects
    <2>1. task' = "backoff" /\ url' = IF url + 1 = UrlCount THEN 0 ELSE url + 1
      <3>1. task' = "backoff" /\ url' = (url + 1) % UrlCount BY <1>2 DEF HandleReconnect
      <3> QED BY <3>1, <1>1, StreamConstantTypes, NextModulo
    <2>2. ASSUME NEW k \in 1..UrlCount, k <= reconnects' PROVE Before(url', k) \in failed'
      <3>1. CASE k = 1
        BY <3>1, <2>1, <1>1, StreamConstantTypes DEF Before
      <3>2. CASE k # 1
        <4>1. k - 1 \in 1..UrlCount /\ k - 1 <= reconnects BY <3>2, <2>2, <1>1, StreamConstantTypes
        <4>2. Before(url', k) = Before(url, k - 1)
          BY <3>2, <2>1, <1>1, StreamConstantTypes DEF Before
        <4> QED BY <4>1, <4>2, <1>1
      <3> QED BY <3>1, <3>2
    <2>3. url' \in Url BY <2>1, <1>1, StreamConstantTypes DEF Url
    <2>4. Tried'
      <3>1. \A k \in 1..UrlCount : k <= reconnects' => Before(url', k) \in failed' BY <2>2
      <3>2. reconnects' # MaxReconnects BY <1>2, <1>1, StreamConstantTypes
      <3> QED BY <3>1, <3>2, <1>2 DEF Tried, Before
    <2> QED BY <2>1, <2>3, <2>4, <1>1, <1>2, StreamConstantTypes DEF Url
  <1>3. CASE ~(reconnects' < MaxReconnects)
    <2>1. task' = "deciding" /\ url' = url BY <1>3 DEF HandleReconnect
    <2>2. reconnects' = MaxReconnects BY <1>3, <1>1, StreamConstantTypes
    <2>3. ASSUME NEW k \in 0..(UrlCount - 1) PROVE Before(url', k) \in failed'
      <3>1. CASE k = 0
        BY <3>1, <2>1, <1>1 DEF Before
      <3>2. CASE k # 0
        <4>1. k \in 1..UrlCount /\ k <= reconnects BY <3>2, <2>2, <1>1, StreamConstantTypes
        <4> QED BY <4>1, <2>1, <1>1
      <3> QED BY <3>1, <3>2
    <2>4. Tried' BY <2>1, <2>2, <2>3, StreamConstantTypes DEF Tried, Before
    <2> QED BY <2>1, <2>2, <2>4, <1>1, StreamConstantTypes DEF Url
  <1> QED BY <1>2, <1>3

-----------------------------------------------------------------------------
(* One step: the actions split by what they touch. *)

LEMMA Cases ==
  StreamNext => \/ VenueChanges \/ BrokerChanges \/ Deliver \/ DeliveryTimesOut
          \/ Starts \/ Decide \/ Backoff \/ ConnectFails \/ Opens \/ CloseCompletes \/ VenueCloses
          \/ FallsSilent \/ HealthCheck \/ Ages \/ Rotate \/ Ping \/ PingRaises \/ Pong \/ PongTimesOut
          \/ TradeFails \/ HandleTrade
          \/ SignalHandler \/ Disconnect \/ DisconnectRaises \/ DisconnectCloses \/ Joined \/ JoinTimesOut \/ Exit
  BY DEF StreamNext, ClientStep, MainStep

LEMMA FlagsStep == ASSUME Flags, StreamNext PROVE Flags'
  <1>1. CASE VenueChanges
    BY <1>1, Zenon DEF VenueChanges, Changes, Flags, world, client, watched, pingLoop, trades, service
  <1>2. CASE BrokerChanges
    BY <1>2, Zenon DEF BrokerChanges, Changes, Flags, world, client, watched, pingLoop, trades, service
  <1>3. CASE Deliver
    BY <1>3, Zenon DEF Deliver, Flags, world, client, watched, pingLoop, trades, service
  <1>4. CASE DeliveryTimesOut
    BY <1>4, Zenon DEF DeliveryTimesOut, Flags, world, client, watched, pingLoop, trades, service
  <1>5. CASE Starts
    BY <1>5, Zenon DEF Starts, Flags, world, client, watched, pingLoop, trades, service
  <1>6. CASE Decide
    BY <1>6, Zenon DEF Decide, Flags, world, client, watched, pingLoop, trades, service
  <1>7. CASE Backoff
    BY <1>7, Zenon DEF Backoff, Flags, world, client, watched, pingLoop, trades, service
  <1>8. CASE ConnectFails
    BY <1>8, Zenon DEF ConnectFails, HandleReconnect, Flags, world, client, watched, pingLoop, trades, service
  <1>9. CASE Opens
    BY <1>9, Zenon DEF Opens, Flags, world, client, watched, pingLoop, trades, service
  <1>10. CASE CloseCompletes
    BY <1>10, Zenon DEF CloseCompletes, Ends, Closed, HandleReconnect, Flags, world, client, watched, pingLoop, trades, service
  <1>11. CASE VenueCloses
    BY <1>11, Zenon DEF VenueCloses, Changes, Ends, Closed, HandleReconnect, Flags, world, client, watched, pingLoop, trades, service
  <1>12. CASE FallsSilent
    BY <1>12, Zenon DEF FallsSilent, Flags, world, client, watched, pingLoop, trades, service
  <1>13. CASE HealthCheck
    BY <1>13, Zenon DEF HealthCheck, CloseWs, Flags, world, client, watched, pingLoop, trades, service
  <1>14. CASE Ages
    BY <1>14, Zenon DEF Ages, Flags, world, client, watched, pingLoop, trades, service
  <1>15. CASE Rotate
    BY <1>15, Zenon DEF Rotate, CloseWs, Flags, world, client, watched, pingLoop, trades, service
  <1>16. CASE Ping
    BY <1>16, Zenon DEF Ping, Flags, world, client, watched, pingLoop, trades, service
  <1>17. CASE Pong
    BY <1>17, Zenon DEF Pong, Flags, world, client, watched, pingLoop, trades, service
  <1>18. CASE PongTimesOut
    BY <1>18, Zenon DEF PongTimesOut, CloseWs, Flags, world, client, watched, pingLoop, trades, service
  <1>19. CASE TradeFails
    BY <1>19, Zenon DEF TradeFails, Arrives, Flags, world, client, watched, pingLoop, trades, service
  <1>20. CASE HandleTrade
    BY <1>20, Zenon DEF HandleTrade, Arrives, Produces, Flush, Flags, world, client, watched, pingLoop, trades, service
  <1>21. CASE SignalHandler
    BY <1>21, Zenon DEF SignalHandler, Flags, world, client, watched, pingLoop, trades, service
  <1>22. CASE Disconnect
    BY <1>22, Zenon DEF Disconnect, Flags, world, client, watched, pingLoop, trades, service
  <1>23. CASE DisconnectCloses
    BY <1>23, Zenon DEF DisconnectCloses, CloseWs, Flags, world, client, watched, pingLoop, trades, service
  <1>24. CASE Joined
    BY <1>24, Zenon DEF Joined, Flags, world, client, watched, pingLoop, trades, service
  <1>25. CASE JoinTimesOut
    BY <1>25, Zenon DEF JoinTimesOut, Closed, Flags, world, client, watched, pingLoop, trades, service
  <1>26. CASE Exit
    BY <1>26, Zenon DEF Exit, Flush, Flags, world, client, watched, pingLoop, trades, service
  <1>27. CASE PingRaises
    BY <1>27, Zenon DEF PingRaises, Flags, world, client, watched, pingLoop, trades, service
  <1>28. CASE DisconnectRaises
    BY <1>28, Zenon DEF DisconnectRaises, Closed, Flags, world, client, watched, pingLoop, trades, service
  <1> QED
    BY <1>1, <1>2, <1>3, <1>4, <1>5, <1>6, <1>7, <1>8, <1>9, <1>10, <1>11, <1>12, <1>13, <1>14, <1>15, <1>16, <1>17, <1>18, <1>19, <1>20, <1>21, <1>22, <1>23, <1>24, <1>25, <1>26, <1>27, <1>28, Cases

\* A step that leaves the client's position alone, or ends connect().
LEMMA QuietClient ==
  ASSUME ClientInv, UNCHANGED <<url, reconnects, failed>>,
         task' = task \/ task' \in {"deciding", "done"},
         venue' \in [Url -> {"up", "mute", "down"}], changes' \in 0..MaxChanges,
         main' \in {"streaming", "disconnecting", "raising", "joining", "flushing", "exited", "crashed"}
  PROVE  ClientInv'
  <1>1. Tried' BY QuietTried DEF ClientInv
  <1>2. ClientTypes' BY DEF ClientInv, ClientTypes, Url
  <1> QED BY <1>1, <1>2 DEF ClientInv

LEMMA VenueSteps ==
  ASSUME ClientInv, VenueChanges \/ BrokerChanges
  PROVE  ClientInv'
  <1>1. venue \in [Url -> {"up", "mute", "down"}] /\ changes \in 0..MaxChanges
    BY DEF ClientInv, ClientTypes
  <1>2. venue' \in [Url -> {"up", "mute", "down"}]
    BY <1>1 DEF VenueChanges, BrokerChanges
  <1>3. changes' \in 0..MaxChanges
    BY <1>1, StreamConstantTypes DEF VenueChanges, BrokerChanges, Changes
  <1>4. UNCHANGED <<client, main>>
    BY DEF VenueChanges, BrokerChanges, service
  <1> QED
    BY <1>2, <1>3, <1>4, QuietClient DEF client, ClientInv, ClientTypes

LEMMA WatchSteps ==
  ASSUME ClientInv,
         \/ Deliver \/ DeliveryTimesOut \/ FallsSilent \/ HealthCheck \/ Ages \/ Rotate
         \/ Ping \/ PingRaises \/ Pong \/ PongTimesOut \/ TradeFails \/ HandleTrade \/ SignalHandler
  PROVE  ClientInv'
  <1>1. UNCHANGED <<world, client, main>>
    BY DEF Deliver, DeliveryTimesOut, FallsSilent, HealthCheck, Ages, Rotate, Ping, PingRaises, Pong,
           PongTimesOut, TradeFails, HandleTrade, Arrives, SignalHandler, service
  <1> QED
    BY <1>1, QuietClient DEF world, client, ClientInv, ClientTypes

LEMMA MainSteps ==
  ASSUME ClientInv, MainStep \/ Starts \/ (Decide /\ task' = "done") \/ Backoff
  PROVE  ClientInv'
  <1>1. UNCHANGED <<world, url, reconnects, failed>>
    BY DEF MainStep, Disconnect, DisconnectRaises, DisconnectCloses, Joined, JoinTimesOut, Exit, Starts, Decide, Backoff,
           client
  <1>2. task' = task \/ task' \in {"deciding", "done"}
    BY DEF MainStep, Disconnect, DisconnectRaises, DisconnectCloses, Joined, JoinTimesOut, Exit, Starts, Decide, Backoff,
           client
  <1>3. main' = main \/ main' \in {"disconnecting", "raising", "joining", "flushing", "exited", "crashed"}
    BY DEF MainStep, Disconnect, DisconnectRaises, DisconnectCloses, Joined, JoinTimesOut, Exit, Starts, Decide, Backoff,
           service
  <1> QED
    BY <1>1, <1>2, <1>3, QuietClient DEF world, ClientInv, ClientTypes

LEMMA DecideStep ==
  ASSUME ClientInv, Decide PROVE ClientInv'
  <1>1. CASE task' = "done" BY <1>1, MainSteps
  <1>2. CASE task' = "connecting"
    <2>1. reconnects < MaxReconnects BY <1>2 DEF Decide
    <2>2. UNCHANGED <<venue, changes, url, reconnects, failed, main>> BY DEF Decide, world, service
    <2>3. Tried' BY <1>2, <2>1, <2>2 DEF ClientInv, Tried, Before
    <2> QED BY <1>2, <2>2, <2>3 DEF ClientInv, ClientTypes, Url
  <1> QED BY <1>1, <1>2 DEF Decide

LEMMA OpensStep ==
  ASSUME ClientInv, Opens PROVE ClientInv'
  <1>1. task' = "open" /\ reconnects' = 0 /\ failed' = {} /\ UNCHANGED <<venue, changes, url, main>>
    BY DEF Opens, world, service
  <1>2. Tried' BY <1>1, StreamConstantTypes DEF Tried
  <1> QED BY <1>1, <1>2, StreamConstantTypes DEF ClientInv, ClientTypes, Url

LEMMA ReconnectSteps ==
  ASSUME ClientInv, ConnectFails \/ CloseCompletes \/ VenueCloses PROVE ClientInv'
  <1>1. venue' = venue /\ main' = main
    BY DEF ConnectFails, CloseCompletes, VenueCloses, Ends, world, service
  <1>2. changes' \in 0..MaxChanges
    BY StreamConstantTypes
    DEF ConnectFails, CloseCompletes, VenueCloses, Changes, world, ClientInv, ClientTypes
  <1>3. CASE HandleReconnect /\ task \in {"connecting", "open"}
    BY <1>1, <1>2, <1>3, HandleReconnectTried DEF ClientInv, ClientTypes, Url
  <1>4. CASE task' = "deciding" /\ UNCHANGED <<url, reconnects, failed>>
    BY <1>1, <1>2, <1>4, QuietClient DEF ClientInv, ClientTypes
  <1> QED
    BY <1>3, <1>4 DEF ConnectFails, CloseCompletes, VenueCloses, Ends

LEMMA ClientInvStep == ASSUME ClientInv, StreamNext PROVE ClientInv'
  BY Cases, VenueSteps, WatchSteps, MainSteps, DecideStep, OpensStep, ReconnectSteps DEF MainStep

-----------------------------------------------------------------------------
(* Nothing comes in once the client is joined; the exit is the end. *)

LEMMA JoinedInvStep == ASSUME JoinedInv, StreamNext PROVE JoinedInv'
  <1> USE DEF JoinedInv
  <1>1. CASE \/ VenueChanges \/ BrokerChanges \/ Deliver \/ DeliveryTimesOut
             \/ FallsSilent \/ HealthCheck \/ Ages \/ Rotate \/ Ping \/ PingRaises \/ Pong \/ PongTimesOut
             \/ TradeFails \/ HandleTrade \/ SignalHandler
    BY <1>1 DEF VenueChanges, BrokerChanges, Deliver, DeliveryTimesOut, FallsSilent, HealthCheck, Ages,
                Rotate, Ping, PingRaises, Pong, PongTimesOut, TradeFails, HandleTrade, Arrives, SignalHandler,
                client, service
  <1>2. CASE \/ Starts \/ Decide \/ Backoff \/ ConnectFails \/ Opens \/ CloseCompletes \/ VenueCloses
    <2>1. task # "done" /\ main' = main
      BY <1>2 DEF Starts, Decide, Backoff, ConnectFails, Opens, CloseCompletes, VenueCloses, Ends, service
    <2> QED BY <2>1
  <1>3. CASE Disconnect \/ DisconnectRaises \/ DisconnectCloses \/ Joined \/ JoinTimesOut \/ Exit
    BY <1>3 DEF Disconnect, DisconnectRaises, DisconnectCloses, Joined, JoinTimesOut, Exit, client
  <1> QED
    BY <1>1, <1>2, <1>3, Cases

\* Only Exit ends the service in order; the other end is the ping loop's.
LEMMA RaisingStep == ASSUME ExitInv, StreamNext, ~Exit PROVE ExitInv'
  <1> USE DEF ExitInv, Alive
  <1>1. CASE \/ VenueChanges \/ BrokerChanges \/ Deliver \/ DeliveryTimesOut
             \/ FallsSilent \/ HealthCheck \/ Ages \/ Rotate \/ Ping \/ PingRaises \/ Pong \/ PongTimesOut
             \/ TradeFails \/ HandleTrade \/ SignalHandler
    <2>1. Alive /\ main' = main /\ (pings' = pings \/ pings' = "raised")
      BY <1>1 DEF VenueChanges, BrokerChanges, Changes, Deliver, DeliveryTimesOut, FallsSilent, HealthCheck,
                  Ages, Rotate, Ping, PingRaises, Pong, PongTimesOut, TradeFails, HandleTrade, Arrives,
                  SignalHandler, Watching, service, pingLoop
    <2> QED BY <2>1
  <1>2. CASE \/ Starts \/ Decide \/ Backoff \/ ConnectFails \/ Opens \/ CloseCompletes \/ VenueCloses
    <2>1. Alive /\ main' = main /\ pings' = pings
      BY <1>2 DEF Starts, Decide, Backoff, ConnectFails, Opens, CloseCompletes, VenueCloses, Changes, Ends,
                  service, pingLoop
    <2> QED BY <2>1
  <1>3. CASE Disconnect \/ DisconnectRaises \/ DisconnectCloses \/ Joined \/ JoinTimesOut
    BY <1>3 DEF Disconnect, DisconnectRaises, DisconnectCloses, Joined, JoinTimesOut, pingLoop
  <1> QED
    BY <1>1, <1>2, <1>3, Cases

-----------------------------------------------------------------------------
(* The trades. *)

LEMMA TakenFromQueue ==
  ASSUME TradeInv, late \in BOOLEAN, UNCHANGED <<received, count>>, queue # <<>>,
         queue' = Tail(queue), late' = (late /\ queue' # <<>>),
         \/ delivered' = delivered \cup {Head(queue)} /\ reported' = reported
         \/ delivered' = delivered /\ reported' = reported \cup {Head(queue)}
  PROVE  TradeInv'
  <1>1. /\ received \in Nat /\ count \in 0..received /\ queue \in Seq(Trade) /\ Len(queue) <= QueueMax
        /\ delivered \subseteq Trade /\ reported \subseteq Trade
    BY DEF TradeInv, TradeTypes
  <1>2. /\ queue' \in Seq(Trade) /\ Len(queue') = Len(queue) - 1 /\ Head(queue) \in Trade
        /\ Range(queue) = {Head(queue)} \cup Range(queue')
    BY <1>1, RangeOfTail
  <1>3. Trade' = Trade BY DEF Trade
  <1>4. TradeTypes'
    BY <1>1, <1>2, <1>3, StreamConstantTypes DEF TradeTypes
  <1>5. Accounted'
    BY <1>2, <1>3 DEF TradeInv, Accounted
  <1>6. SinceFlush'
    <2>1. count % FlushEvery \in Nat /\ Len(queue) \in Nat
      BY <1>1, StreamConstantTypes, SuccessorModulo
    <2>2. CASE late
      <3>1. CASE queue' = <<>>
        BY <3>1, <2>1, EmptyQueue DEF SinceFlush
      <3>2. CASE queue' # <<>>
        BY <3>2, <2>2 DEF SinceFlush
      <3> QED BY <3>1, <3>2
    <2>3. CASE ~late
      <3>1. Len(queue) <= count % FlushEvery BY <2>3 DEF TradeInv, SinceFlush
      <3> QED BY <3>1, <2>1, <1>2 DEF SinceFlush
    <2> QED BY <2>2, <2>3
  <1> QED BY <1>4, <1>5, <1>6 DEF TradeInv

\* What the last flush does to the queue.
LEMMA FlushFacts ==
  ASSUME Flush(queue, delivered)
  PROVE  /\ queue' = <<>> \/ (queue' = queue /\ late')
         /\ delivered' \cup Range(queue') = delivered \cup Range(queue)
  <1>1. CASE reachable
    BY <1>1, EmptyQueue DEF Flush
  <1>2. CASE ~reachable
    <2>1. queue' = queue /\ delivered' = delivered /\ late' = (queue # <<>>) BY <1>2 DEF Flush
    <2>2. queue' = <<>> \/ late' BY <2>1, Zenon
    <2> QED BY <2>1, <2>2
  <1> QED BY <1>1, <1>2

LEMMA FailedTrade ==
  ASSUME TradeInv, TradeFails PROVE TradeInv'
  <1>1. /\ received \in Nat /\ count \in 0..received /\ queue \in Seq(Trade) /\ Len(queue) <= QueueMax
        /\ delivered \subseteq Trade /\ reported \subseteq Trade
        /\ Trade = delivered \cup reported \cup Range(queue)
    BY DEF TradeInv, TradeTypes, Accounted
  <1>2. received' = received + 1 /\ reported' = reported \cup {received'}
        /\ UNCHANGED <<count, queue, delivered, late>>
    BY DEF TradeFails, Arrives
  <1>3. Trade' = Trade \cup {received'} BY <1>1, <1>2 DEF Trade
  <1>4. queue' \in Seq(Trade') BY <1>1, <1>2, <1>3
  <1>5. TradeTypes' BY <1>1, <1>2, <1>3, <1>4 DEF TradeTypes
  <1>6. Accounted' BY <1>1, <1>2, <1>3 DEF Accounted
  <1>7. SinceFlush' BY <1>2 DEF TradeInv, SinceFlush
  <1> QED BY <1>5, <1>6, <1>7 DEF TradeInv

LEMMA HandledTrade ==
  ASSUME TradeInv, late \in BOOLEAN, HandleTrade PROVE TradeInv'
  <1> DEFINE kept    == IF Full THEN <<>> ELSE queue
             sent    == delivered \cup (IF Full THEN Range(queue) ELSE {})
             pending == Append(kept, received')
             flushes == count' % FlushEvery = 0
  <1>1. /\ received \in Nat /\ count \in 0..received /\ queue \in Seq(Trade) /\ Len(queue) <= QueueMax
        /\ delivered \subseteq Trade /\ reported \subseteq Trade
        /\ Trade = delivered \cup reported \cup Range(queue)
    BY DEF TradeInv, TradeTypes, Accounted
  <1>2. received' = received + 1 /\ count' = count + 1 /\ reported' = reported /\ Produces(flushes)
    BY DEF HandleTrade, Arrives
  <1>3. Trade' = Trade \cup {received'} BY <1>1, <1>2 DEF Trade
  <1>4. /\ kept \in Seq(Trade') /\ Len(kept) < QueueMax /\ sent \cup Range(kept) = delivered \cup Range(queue)
        /\ Len(kept) <= Len(queue) /\ sent \subseteq Trade
    <2>1. queue \in Seq(Trade') /\ Len(queue) \in Nat BY <1>1, <1>3
    <2>2. CASE Full
      <3>1. kept = <<>> /\ sent = delivered \cup Range(queue) BY <2>2
      <3> QED BY <3>1, <2>1, <1>1, <1>3, EmptyQueue, StreamConstantTypes
    <2>3. CASE ~Full
      <3>1. kept = queue /\ sent = delivered BY <2>3
      <3>2. Len(queue) < QueueMax BY <2>3, <2>1, <1>1, StreamConstantTypes DEF Full
      <3> QED BY <3>1, <3>2, <2>1, <1>1
    <2> QED BY <2>2, <2>3
  <1>5. /\ pending \in Seq(Trade') /\ Len(pending) = Len(kept) + 1 /\ Len(kept) \in Nat
        /\ Range(pending) = Range(kept) \cup {received'}
    <2>1. received' \in Trade' BY <1>3
    <2>2. Len(pending) = Len(kept) + 1 /\ pending \in Seq(Trade') /\ Len(kept) \in Nat
      <3> HIDE DEF kept
      <3> QED BY <1>4, <2>1
    <2>3. Range(pending) = Range(kept) \cup {received'}
      <3> HIDE DEF kept
      <3> QED BY <1>4, <2>1, RangeOfAppend
    <2> QED BY <2>2, <2>3
  <1>6. CASE flushes
    <2>1. Flush(pending, sent) BY <1>2, <1>6 DEF Produces
    <2>2. /\ queue' = <<>> \/ (queue' = pending /\ late')
          /\ delivered' \cup Range(queue') = sent \cup Range(pending)
      <3> HIDE DEF pending, sent
      <3>1. CASE reachable
        BY <2>1, <3>1, EmptyQueue DEF Flush
      <3>2. CASE ~reachable
        <4>1. queue' = pending /\ delivered' = sent /\ late' = (pending # <<>>) BY <2>1, <3>2 DEF Flush
        <4>2. queue' = <<>> \/ late' BY <4>1, Zenon
        <4> QED BY <4>1, <4>2
      <3> QED BY <3>1, <3>2
    <2>3. Accounted'
      BY <2>2, <1>1, <1>2, <1>3, <1>4, <1>5 DEF Accounted
    <2>4. TradeTypes'
      <3>1. queue' \in Seq(Trade') /\ Len(queue') <= QueueMax
        <4>1. <<>> \in Seq(Trade') /\ Len(<<>>) = 0 OBVIOUS
        <4>2. CASE queue' = <<>> BY <4>1, <4>2, StreamConstantTypes
        <4>3. CASE queue' = pending
          <5>1. Len(pending) <= QueueMax
            <6> HIDE DEF kept, pending
            <6> QED BY <1>4, <1>5, StreamConstantTypes
          <5> HIDE DEF pending
          <5> QED BY <4>3, <5>1, <1>5
        <4> QED BY <2>2, <4>2, <4>3
      <3>2. delivered' \subseteq Trade' BY <2>3 DEF Accounted
      <3>3. received' \in Nat /\ count' \in 0..received' BY <1>1, <1>2
      <3>4. reported' \subseteq Trade' BY <1>1, <1>2, <1>3
      <3> QED BY <3>1, <3>2, <3>3, <3>4 DEF TradeTypes
    <2>5. SinceFlush'
      <3>1. count' % FlushEvery = 0 BY <1>6
      <3> QED BY <3>1, <2>2, EmptyQueue DEF SinceFlush
    <2> QED BY <2>3, <2>4, <2>5 DEF TradeInv
  <1>7. CASE ~flushes
    <2>1. queue' = pending /\ delivered' = sent /\ late' = (late /\ ~Full)
      BY <1>2, <1>7 DEF Produces
    <2>2. Accounted'
      BY <2>1, <1>1, <1>2, <1>3, <1>4, <1>5 DEF Accounted
    <2>3. TradeTypes'
      <3>1. queue' \in Seq(Trade') /\ Len(queue') <= QueueMax
        BY <2>1, <1>4, <1>5, StreamConstantTypes
      <3>2. delivered' \subseteq Trade' BY <2>2 DEF Accounted
      <3>3. received' \in Nat /\ count' \in 0..received' BY <1>1, <1>2
      <3>4. reported' \subseteq Trade' BY <1>1, <1>2, <1>3
      <3> QED BY <3>1, <3>2, <3>3, <3>4 DEF TradeTypes
    <2>4. SinceFlush'
      <3>1. /\ count % FlushEvery \in Nat /\ count' % FlushEvery \in Nat /\ count' % FlushEvery # 0
            /\ count' % FlushEvery = (count % FlushEvery) + 1
        <4>1. count \in Nat /\ count' = count + 1 /\ (count + 1) % FlushEvery # 0 BY <1>1, <1>2, <1>7
        <4>2. /\ count % FlushEvery \in 0..(FlushEvery - 1)
              /\ (count + 1) % FlushEvery = (count % FlushEvery) + 1
          <5> HIDE DEF flushes
          <5> QED BY <4>1, StreamConstantTypes, SuccessorModulo
        <4>3. count % FlushEvery \in Nat BY <4>2, StreamConstantTypes
        <4> QED BY <4>1, <4>2, <4>3
      <3>2. CASE Full
        <4>1. Len(queue') = 1 BY <3>2, <2>1, <1>5
        <4> QED BY <4>1, <3>1 DEF SinceFlush
      <3>3. CASE ~Full /\ late
        BY <3>3, <2>1 DEF SinceFlush
      <3>4. CASE ~Full /\ ~late
        <4>1. Len(queue) <= count % FlushEvery BY <3>4 DEF TradeInv, SinceFlush
        <4>2. Len(queue') = Len(queue) + 1 BY <3>4, <2>1, <1>5
        <4>3. Len(queue) \in Nat BY <1>1
        <4> QED BY <4>1, <4>2, <4>3, <3>1 DEF SinceFlush
      <3> QED BY <3>2, <3>3, <3>4
    <2> QED BY <2>2, <2>3, <2>4 DEF TradeInv
  <1> QED BY <1>6, <1>7

LEMMA ExitStep ==
  ASSUME TradeInv, JoinedInv, Exit PROVE TradeInv' /\ ExitInv' /\ LeftTypes'
  <1>1. /\ received \in Nat /\ count \in 0..received /\ queue \in Seq(Trade) /\ Len(queue) <= QueueMax
        /\ Trade = delivered \cup reported \cup Range(queue) /\ reported \subseteq Trade
    BY DEF TradeInv, TradeTypes, Accounted
  <1>2. /\ Flush(queue, delivered) /\ left' = Range(queue') /\ UNCHANGED <<received, count, reported, reachable>>
    BY DEF Exit, world
  <1>3. /\ queue' = <<>> \/ (queue' = queue /\ late')
        /\ delivered' \cup Range(queue') = delivered \cup Range(queue)
    BY <1>2, FlushFacts
  <1>4. Trade' = Trade BY <1>2 DEF Trade
  <1>5. Accounted' BY <1>1, <1>2, <1>3, <1>4 DEF Accounted
  <1>6. TradeTypes'
    <2>1. queue' \in Seq(Trade') /\ Len(queue') <= QueueMax
      <3>1. CASE queue' = <<>> BY <3>1, <1>4, EmptyQueue, StreamConstantTypes
      <3>2. CASE queue' = queue BY <3>2, <1>1, <1>4
      <3> QED BY <3>1, <3>2, <1>3
    <2>2. delivered' \subseteq Trade' BY <1>5 DEF Accounted
    <2> QED BY <2>1, <2>2, <1>1, <1>2, <1>4 DEF TradeTypes
  <1>7. SinceFlush'
    <2>1. count' % FlushEvery \in Nat BY <1>1, <1>2, StreamConstantTypes, SuccessorModulo
    <2> QED BY <2>1, <1>3, EmptyQueue DEF SinceFlush
  <1>8. ExitInv'
    <2>1. main' = "exited" BY DEF Exit
    <2> QED BY <1>2, <2>1, EmptyQueue DEF ExitInv, Flush
  <1>9. LeftTypes'
    BY <1>2, <1>5 DEF LeftTypes, Accounted
  <1> QED BY <1>5, <1>6, <1>7, <1>8, <1>9 DEF TradeInv

LEMMA TradeStep ==
  ASSUME StreamInv, StreamNext PROVE TradeInv' /\ ExitInv' /\ LeftTypes'
  <1>1. CASE Exit BY <1>1, ExitStep DEF StreamInv
  <1>2. CASE ~Exit
    <2>1. ExitInv'
      BY <1>2, RaisingStep DEF StreamInv
    <2>2. late \in BOOLEAN BY DEF StreamInv, Flags
    <2>3. CASE Deliver \/ DeliveryTimesOut
      BY <2>1, <2>2, <2>3, TakenFromQueue DEF StreamInv, Deliver, DeliveryTimesOut, LeftTypes, Trade, service
    <2>4. CASE TradeFails \/ HandleTrade
      <3>1. TradeInv' BY <2>2, <2>4, FailedTrade, HandledTrade DEF StreamInv
      <3>2. left' = left /\ received' = received + 1 /\ received \in Nat
        BY <2>4 DEF TradeFails, HandleTrade, Arrives, service, StreamInv, TradeInv, TradeTypes
      <3>3. LeftTypes'
        BY <3>2 DEF StreamInv, LeftTypes, Trade
      <3> QED BY <3>1, <3>3, <2>1
    <2>5. CASE UNCHANGED trades /\ UNCHANGED left
      BY <2>1, <2>5 DEF StreamInv, TradeInv, TradeTypes, Accounted, SinceFlush, LeftTypes, Trade, trades
    <2>6. CASE \/ VenueChanges \/ BrokerChanges \/ Starts \/ Decide \/ Backoff \/ ConnectFails \/ Opens
               \/ CloseCompletes \/ VenueCloses
      BY <2>5, <2>6 DEF VenueChanges, BrokerChanges, Starts, Decide, Backoff, ConnectFails, Opens,
                        CloseCompletes, VenueCloses, Ends, service
    <2>7. CASE \/ FallsSilent \/ HealthCheck \/ Ages \/ Rotate \/ Ping \/ PingRaises \/ Pong \/ PongTimesOut
               \/ SignalHandler \/ Disconnect \/ DisconnectRaises \/ DisconnectCloses \/ Joined \/ JoinTimesOut
      BY <2>5, <2>7 DEF FallsSilent, HealthCheck, Ages, Rotate, Ping, PingRaises, Pong, PongTimesOut,
                        SignalHandler, Disconnect, DisconnectRaises, DisconnectCloses, Joined, JoinTimesOut, service
    <2> QED BY <1>2, <2>3, <2>4, <2>6, <2>7, Cases
  <1> QED BY <1>1, <1>2

-----------------------------------------------------------------------------
(* The theorems. *)

LEMMA StepStreamInv == StreamInv /\ [StreamNext]_streamVars => StreamInv'
  <1> SUFFICES ASSUME StreamInv, [StreamNext]_streamVars PROVE StreamInv' OBVIOUS
  <1>1. CASE StreamNext
    BY <1>1, FlagsStep, ClientInvStep, JoinedInvStep, TradeStep DEF StreamInv
  <1>2. CASE UNCHANGED streamVars
    BY <1>2 DEF streamVars, world, client, watched, pingLoop, trades, service, StreamInv, Flags, ClientInv, ClientTypes,
                Tried, Before, JoinedInv, TradeInv, TradeTypes, Accounted, SinceFlush, ExitInv, LeftTypes,
                Trade, Url, Alive
  <1> QED BY <1>1, <1>2

LEMMA StreamInvariance == StreamSpec => []StreamInv
  BY InitStreamInv, StepStreamInv, PTL DEF StreamSpec

\* The service's state keeps its type: what the queue holds, what was
\* delivered and what a counter stands for are trades that were received.
THEOREM StreamTypeCorrect == StreamSpec => []StreamTypeOK
  <1>1. StreamInv => StreamTypeOK
    <2> SUFFICES ASSUME StreamInv PROVE StreamTypeOK OBVIOUS
    <2>1. {isRunning, monitors, silent, aged, pinging, closing, ws, late, shutdown} \subseteq BOOLEAN
          /\ reachable \in BOOLEAN /\ pings \in {"sends", "raises", "raised"}
      BY Zenon DEF StreamInv, Flags
    <2> QED BY <2>1 DEF StreamTypeOK, StreamInv, ClientInv, ClientTypes, TradeInv, TradeTypes, LeftTypes
  <1> QED BY <1>1, StreamInvariance, PTL

\* connect() leaves no URL untried before it gives up, however many there are
\* and whichever it began with (_handle_reconnect, max_reconnect_attempts).
THEOREM GivesUpOnEveryUrlHolds == StreamSpec => []GivesUpOnEveryUrl
  <1>1. StreamInv => GivesUpOnEveryUrl
    <2> SUFFICES ASSUME StreamInv, reconnects = MaxReconnects PROVE failed = Url
      BY DEF GivesUpOnEveryUrl
    <2>1. /\ url \in 0..(UrlCount - 1) /\ failed \subseteq Url
          /\ \A k \in 0..(UrlCount - 1) : Before(url, k) \in failed
      BY DEF StreamInv, ClientInv, ClientTypes, Tried, Url
    <2>2. ASSUME NEW u \in Url PROVE u \in failed
      <3> DEFINE k == IF url >= u THEN url - u ELSE url - u + UrlCount
      <3>1. u \in 0..(UrlCount - 1) BY DEF Url
      <3>2. k \in 0..(UrlCount - 1) BY <2>1, <3>1, StreamConstantTypes
      <3>3. Before(url, k) = u BY <2>1, <3>1, StreamConstantTypes DEF Before
      <3> QED BY <2>1, <3>2, <3>3
    <2> QED BY <2>1, <2>2
  <1> QED BY <1>1, StreamInvariance, PTL

\* Between two flushes that succeed the producer never holds FlushEvery trades
\* (the flush of handle_trade).
THEOREM ExposureIsBoundedHolds == StreamSpec => []ExposureIsBounded
  <1>1. StreamInv => ExposureIsBounded
    <2> SUFFICES ASSUME StreamInv, ~late PROVE Len(queue) < FlushEvery
      BY DEF ExposureIsBounded
    <2>1. count \in Nat /\ Len(queue) \in Nat /\ Len(queue) <= count % FlushEvery
      BY DEF StreamInv, TradeInv, TradeTypes, SinceFlush
    <2>2. count % FlushEvery < FlushEvery BY <2>1, StreamConstantTypes, SuccessorModulo
    <2>3. count % FlushEvery \in Nat BY <2>1, StreamConstantTypes, SuccessorModulo
    <2> QED BY <2>1, <2>2, <2>3, StreamConstantTypes
  <1> QED BY <1>1, StreamInvariance, PTL

\* The graceful shutdown accounts for every trade: delivered, counted as an
\* error, or named by the last flush (main() of scripts/binance_stream.py); an
\* end without it is that of a ping loop that died (disconnect()).
THEOREM ExitLosesNothingHolds == StreamSpec => []ExitLosesNothing
  <1>1. StreamInv => ExitLosesNothing
    BY DEF StreamInv, ExitInv, JoinedInv, TradeInv, Accounted, ExitLosesNothing, Alive,
           ClientInv, ClientTypes
  <1> QED BY <1>1, StreamInvariance, PTL
=============================================================================
