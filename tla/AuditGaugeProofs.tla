--------------------------- MODULE AuditGaugeProofs ---------------------------
(***************************************************************************)
(* The gauges read off audit.checks, for every schedule, age and number of *)
(* commits for which expiry keeps what they read: a nightly audit lives    *)
(* until the next one, an accepted loss as long as it is shown.            *)
(***************************************************************************)
EXTENDS AuditGauge, TLAPS

RetentionCovers == MaxBetweenAudits <= RetainAge /\ MaxAge <= RetainAge

Gaps == "k2.offset-gaps"
Summaries ==
  {AuditFailures(n) : n \in Nat}
    \cup {With(AuditFailures(n), key, n) : n \in Nat, key \in {Gaps, "k2.bronze-findings"}}
Snapshot == [job : {"ingest", "maintenance", "replay", "operator"}, at : Nat, summary : Summaries]

Typed ==
  /\ checks \in Seq(Snapshot) /\ now \in Nat
  /\ lastAudit \in [count : Nat, at : Nat] /\ lastGap \in [count : Nat, at : Nat]
  /\ lastGap.at <= now

IsNewest(i, S) == i \in S /\ \A j \in S : j <= i

\* The newest audit's commit is there, unless there never was one.
AuditIsKept ==
  /\ now - lastAudit.at <= MaxBetweenAudits
  /\ \/ WrittenBy("maintenance") = {} /\ lastAudit.count = 0
     \/ \E i \in DOMAIN checks :
          /\ IsNewest(i, WrittenBy("maintenance"))
          /\ checks[i].at = lastAudit.at /\ checks[i].summary["k2.audit-failures"] = lastAudit.count

\* No commit that carries the key is newer than the newest loss, and while that
\* is shown its own commit is there.
GapIsKept ==
  /\ \A i \in Carrying(Gaps) : checks[i].at <= lastGap.at
  /\ lastGap.count = 0 => Carrying(Gaps) = {}
  /\ Carrying(Gaps) = {} \/ \E i \in DOMAIN checks : IsNewest(i, Carrying(Gaps))
  /\ lastGap.count > 0 /\ now - lastGap.at <= MaxAge =>
       \E i \in DOMAIN checks :
         /\ IsNewest(i, Carrying(Gaps))
         /\ checks[i].at = lastGap.at /\ checks[i].summary[Gaps] = lastGap.count

GaugeInv == Typed /\ AuditIsKept /\ GapIsKept

-----------------------------------------------------------------------------
LEMMA ConstantTypes ==
  /\ MaxAge \in Nat /\ RetainLast \in Nat /\ RetainAge \in Nat
  /\ MaxBetweenAudits \in Nat /\ MaxCount \in Nat
  BY GaugeConstants

\* The greatest index is the one Max finds.
LEMMA MaxIsNewest ==
  ASSUME NEW S \in SUBSET Nat, NEW i \in S, IsNewest(i, S)
  PROVE  Max(S) = i
  <1>1. \A x \in S : (\A y \in S : x >= y) => x = i
    BY DEF IsNewest
  <1>2. i \in S /\ \A y \in S : i >= y
    BY DEF IsNewest
  <1> QED
    BY <1>1, <1>2 DEF Max

\* A commit leaves the snapshots before it alone.
LEMMA Committed ==
  ASSUME Typed, NEW c \in Snapshot, checks' = Append(checks, c)
  PROVE  /\ checks' \in Seq(Snapshot) /\ Len(checks) \in Nat
         /\ DOMAIN checks = 1..Len(checks) /\ DOMAIN checks' = 1..(Len(checks) + 1)
         /\ checks'[Len(checks) + 1] = c
         /\ \A i \in 1..Len(checks) : checks'[i] = checks[i]
  <1>1. checks \in Seq(Snapshot)
    BY DEF Typed
  <1> QED
    BY <1>1

\* A commit that is not of the job leaves the set of the job's commits alone.
LEMMA OtherJobs ==
  ASSUME Typed, NEW c \in Snapshot, checks' = Append(checks, c), c.job # "maintenance"
  PROVE  WrittenBy("maintenance")' = WrittenBy("maintenance")
  BY Committed DEF WrittenBy

LEMMA OtherKeys ==
  ASSUME Typed, NEW c \in Snapshot, checks' = Append(checks, c),
         c.job # "ingest" \/ Gaps \notin DOMAIN c.summary
  PROVE  Carrying(Gaps)' = Carrying(Gaps)
  BY Committed DEF Carrying

\* What a commit that is no audit leaves of the audits.
LEMMA AuditSurvivesCommit ==
  ASSUME Typed, AuditIsKept, NEW c \in Snapshot, checks' = Append(checks, c), c.job # "maintenance",
         UNCHANGED <<now, lastAudit>>
  PROVE  AuditIsKept'
  <1>1. WrittenBy("maintenance")' = WrittenBy("maintenance")
    BY OtherJobs
  <1>2. \A i \in DOMAIN checks : i \in DOMAIN checks' /\ checks'[i] = checks[i]
    BY Committed
  <1> QED
    BY <1>1, <1>2 DEF AuditIsKept, IsNewest

LEMMA GapSurvivesCommit ==
  ASSUME Typed, GapIsKept, NEW c \in Snapshot, checks' = Append(checks, c),
         c.job # "ingest" \/ Gaps \notin DOMAIN c.summary, UNCHANGED <<now, lastGap>>
  PROVE  GapIsKept'
  <1>1. Carrying(Gaps)' = Carrying(Gaps)
    BY OtherKeys
  <1>2. \A i \in DOMAIN checks : i \in DOMAIN checks' /\ checks'[i] = checks[i]
    BY Committed
  <1>3. Carrying(Gaps) \subseteq DOMAIN checks
    BY DEF Carrying
  <1> QED
    BY <1>1, <1>2, <1>3 DEF GapIsKept, IsNewest

-----------------------------------------------------------------------------
LEMMA GaugeInit == Init => GaugeInv
  <1> SUFFICES ASSUME Init PROVE GaugeInv
    OBVIOUS
  <1>1. checks \in Seq(Snapshot) /\ DOMAIN checks = {}
    BY DEF Init
  <1>2. now = 0 /\ lastAudit = [count |-> 0, at |-> 0] /\ lastGap = [count |-> 0, at |-> 0]
    BY DEF Init, Never
  <1>3. WrittenBy("maintenance") = {} /\ Carrying(Gaps) = {}
    BY <1>1 DEF WrittenBy, Carrying
  <1> QED
    BY <1>1, <1>2, <1>3, ConstantTypes DEF GaugeInv, Typed, AuditIsKept, GapIsKept

LEMMA BronzeFindingsStep ==
  ASSUME GaugeInv, NEW n \in 1..MaxCount, BronzeFindings(n)
  PROVE  GaugeInv'
  <1> DEFINE c == [job |-> "ingest", at |-> now, summary |-> With(AuditFailures(n), "k2.bronze-findings", n)]
  <1>1. n \in Nat /\ Typed
    BY ConstantTypes DEF GaugeInv
  <1>2. c \in Snapshot
    BY <1>1 DEF Snapshot, Summaries, Typed
  <1>3. checks' = Append(checks, c) /\ UNCHANGED <<now, lastAudit, lastGap>>
    BY DEF BronzeFindings, Commits
  <1>4. Gaps \notin DOMAIN c.summary
    BY DEF With, AuditFailures, Gaps
  <1>5. Typed'
    BY <1>1, <1>2, <1>3, Committed DEF Typed
  <1> HIDE DEF c
  <1>6. c.job = "ingest"
    BY DEF c
  <1>7. AuditIsKept'
    BY <1>1, <1>2, <1>3, <1>6, AuditSurvivesCommit DEF GaugeInv
  <1>8. GapIsKept'
    BY <1>1, <1>2, <1>3, <1>4, GapSurvivesCommit DEF GaugeInv
  <1> QED
    BY <1>5, <1>7, <1>8 DEF GaugeInv

LEMMA AcceptDataLossStep ==
  ASSUME GaugeInv, NEW n \in 1..MaxCount, AcceptDataLoss(n)
  PROVE  GaugeInv'
  <1> DEFINE c == [job |-> "ingest", at |-> now, summary |-> With(AuditFailures(n), Gaps, n)]
  <1>1. n \in Nat /\ n > 0 /\ Typed /\ now \in Nat
    BY ConstantTypes DEF GaugeInv, Typed
  <1>2. c \in Snapshot
    BY <1>1 DEF Snapshot, Summaries, Typed
  <1>3. checks' = Append(checks, c) /\ UNCHANGED <<now, lastAudit>> /\ lastGap' = [count |-> n, at |-> now]
    BY DEF AcceptDataLoss, Commits, Gaps
  <1>4. c.job = "ingest" /\ c.at = now /\ Gaps \in DOMAIN c.summary /\ c.summary[Gaps] = n
    BY DEF With, AuditFailures, Gaps
  <1> HIDE DEF c
  <1>5. /\ Len(checks) \in Nat /\ DOMAIN checks = 1..Len(checks) /\ DOMAIN checks' = 1..(Len(checks) + 1)
        /\ checks'[Len(checks) + 1] = c /\ \A i \in 1..Len(checks) : checks'[i] = checks[i]
        /\ checks' \in Seq(Snapshot)
    BY <1>1, <1>2, <1>3, Committed
  <1>6. Typed'
    BY <1>1, <1>3, <1>5 DEF Typed
  <1>7. AuditIsKept'
    BY <1>1, <1>2, <1>3, <1>4, AuditSurvivesCommit DEF GaugeInv
  <1>8. GapIsKept'
    <2>1. Carrying(Gaps)' = Carrying(Gaps) \cup {Len(checks) + 1}
      BY <1>4, <1>5 DEF Carrying
    <2>2. Carrying(Gaps) \subseteq 1..Len(checks)
      BY <1>5 DEF Carrying
    <2>3. \A i \in Carrying(Gaps)' : checks'[i].at <= lastGap'.at
      <3> SUFFICES ASSUME NEW i \in Carrying(Gaps)' PROVE checks'[i].at <= now
        BY <1>3
      <3>1. CASE i = Len(checks) + 1
        BY <3>1, <1>1, <1>4, <1>5
      <3>2. CASE i \in Carrying(Gaps)
        <4>1. checks'[i] = checks[i] /\ checks[i].at <= lastGap.at /\ checks[i] \in Snapshot
          BY <3>2, <2>2, <1>1, <1>5 DEF GaugeInv, GapIsKept, Typed
        <4>2. lastGap.at \in Nat /\ lastGap.at <= now /\ checks[i].at \in Nat
          BY <4>1, <1>1 DEF Typed, Snapshot
        <4> QED
          BY <4>1, <4>2, <1>1
      <3> QED
        BY <2>1, <3>1, <3>2
    <2>4. IsNewest(Len(checks) + 1, Carrying(Gaps)')
      BY <2>1, <2>2, <1>5 DEF IsNewest
    <2>5. Len(checks) + 1 \in DOMAIN checks'
          /\ checks'[Len(checks) + 1].at = lastGap'.at
          /\ checks'[Len(checks) + 1].summary[Gaps] = lastGap'.count
      BY <1>3, <1>4, <1>5
    <2>6. lastGap'.count = n /\ n # 0
      BY <1>1, <1>3
    <2> QED
      BY <2>3, <2>4, <2>5, <2>6 DEF GapIsKept
  <1> QED
    BY <1>6, <1>7, <1>8 DEF GaugeInv

LEMMA RecordCheckStep ==
  ASSUME GaugeInv, NEW job \in {"replay", "operator"}, NEW failed \in 0..1, RecordCheck(job, failed)
  PROVE  GaugeInv'
  <1> DEFINE c == [job |-> job, at |-> now, summary |-> AuditFailures(failed)]
  <1>1. failed \in Nat /\ Typed
    BY DEF GaugeInv
  <1>2. c \in Snapshot
    BY <1>1 DEF Snapshot, Summaries, Typed
  <1>3. checks' = Append(checks, c) /\ UNCHANGED <<now, lastAudit, lastGap>>
    BY DEF RecordCheck, Commits
  <1>4. c.job # "ingest" /\ c.job # "maintenance"
    OBVIOUS
  <1> HIDE DEF c
  <1>5. Typed'
    BY <1>1, <1>2, <1>3, Committed DEF Typed
  <1>6. AuditIsKept'
    BY <1>1, <1>2, <1>3, <1>4, AuditSurvivesCommit DEF GaugeInv
  <1>7. GapIsKept'
    BY <1>1, <1>2, <1>3, <1>4, GapSurvivesCommit DEF GaugeInv
  <1> QED
    BY <1>5, <1>6, <1>7 DEF GaugeInv

LEMMA RunAuditsStep ==
  ASSUME GaugeInv, NEW n \in 0..MaxCount, RunAudits(n)
  PROVE  GaugeInv'
  <1> DEFINE c == [job |-> "maintenance", at |-> now, summary |-> AuditFailures(n)]
  <1>1. n \in Nat /\ Typed /\ now \in Nat
    BY ConstantTypes DEF GaugeInv, Typed
  <1>2. c \in Snapshot
    BY <1>1 DEF Snapshot, Summaries, Typed
  <1>3. checks' = Append(checks, c) /\ UNCHANGED <<now, lastGap>> /\ lastAudit' = [count |-> n, at |-> now]
    BY DEF RunAudits, Commits
  <1>4. c.job = "maintenance" /\ c.at = now /\ c.summary["k2.audit-failures"] = n
    BY DEF AuditFailures
  <1> HIDE DEF c
  <1>5. /\ Len(checks) \in Nat /\ DOMAIN checks = 1..Len(checks) /\ DOMAIN checks' = 1..(Len(checks) + 1)
        /\ checks'[Len(checks) + 1] = c /\ \A i \in 1..Len(checks) : checks'[i] = checks[i]
        /\ checks' \in Seq(Snapshot)
    BY <1>1, <1>2, <1>3, Committed
  <1>6. Typed'
    BY <1>1, <1>3, <1>5 DEF Typed
  <1>7. AuditIsKept'
    <2>1. WrittenBy("maintenance")' = WrittenBy("maintenance") \cup {Len(checks) + 1}
          /\ WrittenBy("maintenance") \subseteq 1..Len(checks)
      BY <1>4, <1>5 DEF WrittenBy
    <2>2. IsNewest(Len(checks) + 1, WrittenBy("maintenance")')
      BY <2>1, <1>5 DEF IsNewest
    <2>3. Len(checks) + 1 \in DOMAIN checks'
          /\ checks'[Len(checks) + 1].at = lastAudit'.at
          /\ checks'[Len(checks) + 1].summary["k2.audit-failures"] = lastAudit'.count
      BY <1>3, <1>4, <1>5
    <2>4. now' - lastAudit'.at <= MaxBetweenAudits
      BY <1>1, <1>3, ConstantTypes
    <2> QED
      BY <2>2, <2>3, <2>4 DEF AuditIsKept
  <1>8. GapIsKept'
    BY <1>1, <1>2, <1>3, <1>4, GapSurvivesCommit DEF GaugeInv
  <1> QED
    BY <1>6, <1>7, <1>8 DEF GaugeInv

\* What expiry keeps moves down by the same number of places.
LEMMA ExpireStep ==
  ASSUME RetentionCovers, GaugeInv, Expire
  PROVE  GaugeInv'
  <1>1. PICK first \in 1..Len(checks) :
          /\ Kept(first) /\ \A i \in 1..(first - 1) : ~Kept(i)
          /\ checks' = SubSeq(checks, first, Len(checks))
    BY DEF Expire
  <1>2. UNCHANGED <<now, lastAudit, lastGap>>
    BY DEF Expire
  <1>3. Typed /\ checks \in Seq(Snapshot) /\ Len(checks) \in Nat /\ first \in Nat /\ now \in Nat
        /\ DOMAIN checks = 1..Len(checks)
    BY DEF GaugeInv, Typed
  <1>4. /\ checks' \in Seq(Snapshot) /\ DOMAIN checks' = 1..(Len(checks) - first + 1)
        /\ \A i \in 1..(Len(checks) - first + 1) : checks'[i] = checks[i + first - 1]
    BY <1>1, <1>3
  <1>5. \A i \in DOMAIN checks : checks[i].at + RetainAge >= now => i >= first
    <2> SUFFICES ASSUME NEW i \in DOMAIN checks, checks[i].at + RetainAge >= now, i < first PROVE FALSE
      BY <1>3
    <2>1. i \in 1..(first - 1) /\ Kept(i)
      BY <1>3 DEF Kept
    <2> QED
      BY <2>1, <1>1
  <1>6. \A i \in DOMAIN checks : i >= first =>
          i - first + 1 \in DOMAIN checks' /\ checks'[i - first + 1] = checks[i]
    BY <1>3, <1>4
  <1>7. \A i \in DOMAIN checks' : i + first - 1 \in DOMAIN checks /\ checks'[i] = checks[i + first - 1]
    <2> SUFFICES ASSUME NEW i \in DOMAIN checks'
                 PROVE  i + first - 1 \in DOMAIN checks /\ checks'[i] = checks[i + first - 1]
      OBVIOUS
    <2>1. i \in 1..(Len(checks) - first + 1)
      BY <1>4
    <2>2. i + first - 1 \in 1..Len(checks)
      BY <2>1, <1>1, <1>3
    <2> QED
      BY <2>1, <2>2, <1>3, <1>4
  <1>8. Typed'
    BY <1>2, <1>3, <1>4 DEF Typed
  <1>9. AuditIsKept'
    <2>1. \A i \in WrittenBy("maintenance")' : i + first - 1 \in WrittenBy("maintenance")
      BY <1>7 DEF WrittenBy
    <2>2. CASE WrittenBy("maintenance") = {} /\ lastAudit.count = 0
      BY <2>1, <2>2, <1>2 DEF GaugeInv, AuditIsKept
    <2>3. CASE \E i \in DOMAIN checks :
                 /\ IsNewest(i, WrittenBy("maintenance"))
                 /\ checks[i].at = lastAudit.at /\ checks[i].summary["k2.audit-failures"] = lastAudit.count
      <3>1. PICK i \in DOMAIN checks :
              /\ IsNewest(i, WrittenBy("maintenance"))
              /\ checks[i].at = lastAudit.at /\ checks[i].summary["k2.audit-failures"] = lastAudit.count
        BY <2>3
      <3>2. now - lastAudit.at <= MaxBetweenAudits /\ lastAudit.at \in Nat
        BY <1>3 DEF GaugeInv, AuditIsKept, Typed
      <3>3. i >= first
        BY <1>3, <1>5, <3>1, <3>2, ConstantTypes DEF RetentionCovers
      <3> DEFINE k == i - first + 1
      <3>4. k \in DOMAIN checks' /\ checks'[k] = checks[i]
        BY <1>6, <3>3
      <3>5. IsNewest(k, WrittenBy("maintenance")')
        <4>1. k \in WrittenBy("maintenance")'
          BY <3>1, <3>4 DEF WrittenBy, IsNewest
        <4>2. ASSUME NEW j \in WrittenBy("maintenance")' PROVE j <= k
          <5>1. j + first - 1 <= i /\ j \in DOMAIN checks'
            BY <2>1, <3>1 DEF IsNewest, WrittenBy
          <5> QED
            BY <5>1, <1>3, <1>4
        <4> QED
          BY <4>1, <4>2 DEF IsNewest
      <3> QED
        BY <3>1, <3>2, <3>4, <3>5, <1>2 DEF AuditIsKept
    <2> QED
      BY <2>2, <2>3 DEF GaugeInv, AuditIsKept
  <1>10. GapIsKept'
    <2>1. \A i \in Carrying(Gaps)' : i + first - 1 \in Carrying(Gaps) /\ checks'[i] = checks[i + first - 1]
      BY <1>7 DEF Carrying
    <2>2. /\ \A i \in Carrying(Gaps)' : checks'[i].at <= lastGap'.at
          /\ lastGap'.count = 0 => Carrying(Gaps)' = {}
      BY <2>1, <1>2 DEF GaugeInv, GapIsKept
    <2>3. ASSUME lastGap'.count > 0, now' - lastGap'.at <= MaxAge
          PROVE  \E i \in DOMAIN checks' :
                   /\ IsNewest(i, Carrying(Gaps)')
                   /\ checks'[i].at = lastGap'.at /\ checks'[i].summary[Gaps] = lastGap'.count
      <3>1. PICK i \in DOMAIN checks :
              /\ IsNewest(i, Carrying(Gaps))
              /\ checks[i].at = lastGap.at /\ checks[i].summary[Gaps] = lastGap.count
        BY <2>3, <1>2 DEF GaugeInv, GapIsKept
      <3>2. lastGap.at \in Nat
        BY <1>3 DEF Typed
      <3>3. i >= first
        BY <1>2, <1>3, <1>5, <2>3, <3>1, <3>2, ConstantTypes DEF RetentionCovers
      <3> DEFINE k == i - first + 1
      <3>4. k \in DOMAIN checks' /\ checks'[k] = checks[i]
        BY <1>6, <3>3
      <3>5. IsNewest(k, Carrying(Gaps)')
        <4>1. k \in Carrying(Gaps)'
          BY <3>1, <3>4 DEF Carrying, IsNewest
        <4>2. ASSUME NEW j \in Carrying(Gaps)' PROVE j <= k
          <5>1. j + first - 1 <= i /\ j \in DOMAIN checks'
            BY <2>1, <3>1 DEF IsNewest, Carrying
          <5> QED
            BY <5>1, <1>3, <1>4
        <4> QED
          BY <4>1, <4>2 DEF IsNewest
      <3> QED
        BY <3>1, <3>4, <3>5, <1>2
    <2>4. ASSUME Carrying(Gaps)' # {}
          PROVE  \E i \in DOMAIN checks' : IsNewest(i, Carrying(Gaps)')
      <3>1. PICK l \in Carrying(Gaps)' : TRUE
        BY <2>4
      <3>2. l + first - 1 \in Carrying(Gaps) /\ l \in DOMAIN checks'
        BY <2>1, <3>1 DEF Carrying
      <3>3. PICK i \in DOMAIN checks : IsNewest(i, Carrying(Gaps))
        BY <3>2 DEF GaugeInv, GapIsKept
      <3>4. l + first - 1 <= i
        BY <3>2, <3>3 DEF IsNewest
      <3>5. i >= first
        BY <3>2, <3>4, <1>3, <1>4
      <3> DEFINE k == i - first + 1
      <3>6. k \in DOMAIN checks' /\ checks'[k] = checks[i]
        BY <1>6, <3>5
      <3>7. k \in Carrying(Gaps)'
        BY <3>3, <3>6 DEF Carrying, IsNewest
      <3>8. ASSUME NEW j \in Carrying(Gaps)' PROVE j <= k
        <4>1. j + first - 1 <= i /\ j \in DOMAIN checks'
          BY <2>1, <3>3, <3>8 DEF IsNewest, Carrying
        <4> QED
          BY <4>1, <1>3, <1>4
      <3> QED
        BY <3>6, <3>7, <3>8 DEF IsNewest
    <2> QED
      BY <2>2, <2>3, <2>4 DEF GapIsKept
  <1> QED
    BY <1>8, <1>9, <1>10 DEF GaugeInv

LEMMA CycleStep ==
  ASSUME GaugeInv, Cycle
  PROVE  GaugeInv'
  <1>1. now' = now + 1 /\ UNCHANGED <<checks, lastAudit, lastGap>> /\ now + 1 - lastAudit.at <= MaxBetweenAudits
    BY DEF Cycle
  <1>2. Typed /\ now \in Nat /\ lastGap.at \in Nat
    BY DEF GaugeInv, Typed
  <1>3. Typed'
    BY <1>1, <1>2 DEF Typed
  <1>4. WrittenBy("maintenance")' = WrittenBy("maintenance") /\ Carrying(Gaps)' = Carrying(Gaps)
    BY <1>1 DEF WrittenBy, Carrying
  <1>5. AuditIsKept'
    <2>1. now' - lastAudit'.at <= MaxBetweenAudits
      <3>1. lastAudit' = lastAudit /\ now' = now + 1 /\ now + 1 - lastAudit.at <= MaxBetweenAudits
        BY <1>1
      <3>2. now \in Nat /\ lastAudit.at \in Nat
        BY DEF GaugeInv, Typed
      <3> QED
        BY <3>1, <3>2, ConstantTypes
    <2>2. DOMAIN checks' = DOMAIN checks /\ lastAudit' = lastAudit /\ checks' = checks
      BY <1>1
    <2>3. \A i : IsNewest(i, WrittenBy("maintenance"))' <=> IsNewest(i, WrittenBy("maintenance"))
      BY <1>4 DEF IsNewest
    <2> QED
      BY <2>1, <2>2, <2>3, <1>4 DEF GaugeInv, AuditIsKept
  <1>6. now' - lastGap'.at <= MaxAge => now - lastGap.at <= MaxAge
    BY <1>1, <1>2, ConstantTypes
  <1>7. GapIsKept'
    BY <1>1, <1>4, <1>6 DEF GaugeInv, GapIsKept, IsNewest
  <1> QED
    BY <1>3, <1>5, <1>7 DEF GaugeInv

LEMMA GaugeStep == RetentionCovers /\ GaugeInv /\ [Next]_vars => GaugeInv'
  <1> SUFFICES ASSUME RetentionCovers, GaugeInv, [Next]_vars PROVE GaugeInv'
    OBVIOUS
  <1>1. CASE UNCHANGED vars
    BY <1>1 DEF vars, GaugeInv, Typed, AuditIsKept, GapIsKept, IsNewest, WrittenBy, Carrying
  <1>2. CASE \E n \in 1..MaxCount : BronzeFindings(n) \/ AcceptDataLoss(n)
    BY <1>2, BronzeFindingsStep, AcceptDataLossStep
  <1>3. CASE \E job \in {"replay", "operator"}, failed \in 0..1 : RecordCheck(job, failed)
    BY <1>3, RecordCheckStep
  <1>4. CASE \E n \in 0..MaxCount : RunAudits(n)
    BY <1>4, RunAuditsStep
  <1>5. CASE Expire
    BY <1>5, ExpireStep
  <1>6. CASE Cycle
    BY <1>6, CycleStep
  <1> QED
    BY <1>1, <1>2, <1>3, <1>4, <1>5, <1>6 DEF Next

LEMMA Invariance ==
  ASSUME RetentionCovers
  PROVE  Spec => []GaugeInv
  <1>1. GaugeInv /\ [Next]_vars => GaugeInv'
    BY GaugeStep
  <1> QED
    BY <1>1, GaugeInit, PTL DEF Spec

-----------------------------------------------------------------------------
\* The audit gauge is the newest nightly audit, whatever the ingest and people
\* file meanwhile and whatever expires, if an audit outlives the wait for the next.
THEOREM AuditAlarmHoldsAlways ==
  ASSUME RetentionCovers
  PROVE  Spec => []AuditAlarmHolds
  <1>1. ASSUME GaugeInv PROVE AuditAlarmHolds
    <2>1. CASE WrittenBy("maintenance") = {} /\ lastAudit.count = 0
      BY <2>1 DEF AuditAlarmHolds, AuditFailuresGauge
    <2>2. CASE \E i \in DOMAIN checks :
                 /\ IsNewest(i, WrittenBy("maintenance"))
                 /\ checks[i].at = lastAudit.at /\ checks[i].summary["k2.audit-failures"] = lastAudit.count
      <3>1. PICK i \in DOMAIN checks :
              /\ IsNewest(i, WrittenBy("maintenance"))
              /\ checks[i].summary["k2.audit-failures"] = lastAudit.count
        BY <2>2
      <3>2. WrittenBy("maintenance") \in SUBSET Nat /\ i \in WrittenBy("maintenance")
        <4>1. checks \in Seq(Snapshot)
          BY <1>1 DEF GaugeInv, Typed
        <4>2. DOMAIN checks \subseteq Nat
          BY <4>1
        <4> QED
          BY <3>1, <4>2 DEF WrittenBy, IsNewest
      <3>3. Max(WrittenBy("maintenance")) = i
        BY <3>1, <3>2, MaxIsNewest
      <3> QED
        BY <3>1, <3>2, <3>3 DEF AuditAlarmHolds, AuditFailuresGauge, Newest
    <2> QED
      BY <1>1, <2>1, <2>2 DEF GaugeInv, AuditIsKept
  <1> QED
    BY <1>1, Invariance, PTL

\* An accepted loss shows for its age and no longer, whatever else is filed.
THEOREM GapIsAPulseAlways ==
  ASSUME RetentionCovers
  PROVE  Spec => []GapIsAPulse
  <1>1. ASSUME GaugeInv PROVE GapIsAPulse
    <2> DEFINE S == Carrying(Gaps)
               shown == lastGap.count > 0 /\ now - lastGap.at <= MaxAge
    <2>1. checks \in Seq(Snapshot) /\ now \in Nat /\ lastGap.at \in Nat /\ lastGap.count \in Nat
      BY <1>1 DEF GaugeInv, Typed
    <2>2. DOMAIN checks \subseteq Nat
      BY <2>1
    <2>3. S \in SUBSET Nat /\ S \subseteq DOMAIN checks
      BY <2>2 DEF Carrying
    <2>4. CASE shown
      <3>1. PICK i \in DOMAIN checks :
              /\ IsNewest(i, S) /\ checks[i].at = lastGap.at /\ checks[i].summary[Gaps] = lastGap.count
        BY <1>1, <2>4 DEF GaugeInv, GapIsKept
      <3>2. i \in S /\ Max(S) = i
        BY <2>3, <3>1, MaxIsNewest DEF IsNewest
      <3>3. Newest(S) = checks[i] /\ S # {} /\ Gaps \in DOMAIN checks[i].summary
        BY <3>2 DEF Newest, Carrying
      <3>4. ~(now - Newest(S).at > MaxAge)
        BY <2>1, <2>4, <3>1, <3>3, ConstantTypes
      <3>5. FreshIngestValue(Gaps) = lastGap.count
        BY <3>1, <3>3, <3>4 DEF FreshIngestValue
      <3> QED
        BY <2>4, <3>5 DEF GapIsAPulse, OffsetGapsGauge, Gaps
    <2>5. CASE ~shown
      <3>1. FreshIngestValue(Gaps) = 0
        <4>1. CASE S = {}
          BY <4>1 DEF FreshIngestValue
        <4>2. CASE S # {}
          <5>1. lastGap.count > 0
            BY <1>1, <2>1, <4>2 DEF GaugeInv, GapIsKept
          <5>2. now - lastGap.at > MaxAge
            BY <5>1, <2>1, <2>5, ConstantTypes
          <5>3. \A i \in S : now - checks[i].at > MaxAge
            <6> SUFFICES ASSUME NEW i \in S PROVE now - checks[i].at > MaxAge
              OBVIOUS
            <6>1. checks[i].at <= lastGap.at /\ checks[i] \in Snapshot
              BY <1>1, <2>1, <2>3 DEF GaugeInv, GapIsKept
            <6>2. checks[i].at \in Nat
              BY <6>1 DEF Snapshot
            <6> QED
              BY <6>1, <6>2, <5>2, <2>1, ConstantTypes
          <5>4. Max(S) \in S
            <6>1. \E x \in S : \A y \in S : x >= y
              <7>1. PICK x \in DOMAIN checks : IsNewest(x, S)
                BY <1>1, <4>2 DEF GaugeInv, GapIsKept
              <7> QED
                BY <7>1 DEF IsNewest
            <6> QED
              BY <6>1 DEF Max
          <5> QED
            BY <5>3, <5>4 DEF FreshIngestValue, Newest
        <4> QED
          BY <4>1, <4>2
      <3> QED
        BY <2>5, <3>1 DEF GapIsAPulse, OffsetGapsGauge, Gaps
    <2> QED
      BY <2>4, <2>5
  <1> QED
    BY <1>1, Invariance, PTL
=============================================================================
