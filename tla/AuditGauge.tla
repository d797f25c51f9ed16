----------------------------- MODULE AuditGauge -----------------------------
(***************************************************************************)
(* The gauges docker/lake/metrics.py reads off the snapshots of            *)
(* audit.checks, and everything that commits to that table: the nightly    *)
(* audit, the two findings of the ingest, rows a person files, and expiry. *)
(* Time is counted in cycles of the 5-minute ingest.                       *)
(***************************************************************************)
EXTENDS Integers, Sequences, FiniteSetsExt

CONSTANTS MaxAge,           \* INGEST_SUMMARY_MAX_AGE
          RetainLast,       \* expire_snapshots(retain_last)
          RetainAge,        \* --retain-days
          MaxBetweenAudits, \* bound: the nightly schedule
          MaxCount,         \* bound: findings in one commit
          MaxTime,          \* bound: cycles
          MaxChecks         \* bound: retained snapshots

ASSUME GaugeConstants ==
  /\ {MaxAge, RetainAge, MaxBetweenAudits, MaxCount, MaxTime, MaxChecks} \subseteq Nat
  /\ RetainLast \in Nat \ {0}

VARIABLES checks,    \* snapshots of audit.checks, in commit order
          now,
          lastAudit, \* history: the newest nightly audit, its count and its time
          lastGap    \* history: the newest accepted loss, its partitions and its time

vars == <<checks, now, lastAudit, lastGap>>

Never == [count |-> 0, at |-> 0]

Init ==
  /\ checks = <<>> /\ now = 0
  /\ lastAudit = Never /\ lastGap = Never

\* The count of write_audit_rows and run_audits, and what names the finding.
AuditFailures(n) == [p \in {"k2.audit-failures"} |-> n]
With(summary, key, n) == [p \in DOMAIN summary \cup {key} |-> IF p = key THEN n ELSE summary[p]]

Commits(job, summary) ==
  /\ Len(checks) < MaxChecks
  /\ checks' = Append(checks, [job |-> job, at |-> now, summary |-> summary])
  /\ UNCHANGED now

-----------------------------------------------------------------------------
(* The writers.                                                            *)

\* decode() of one venue: unresolvable ids, and the parity row they bring.
BronzeFindings(n) ==
  /\ Commits("ingest", With(AuditFailures(n), "k2.bronze-findings", n))
  /\ UNCHANGED <<lastAudit, lastGap>>

\* _accept_data_loss: one row per evicted partition, all of them failed checks.
AcceptDataLoss(n) ==
  /\ Commits("ingest", With(AuditFailures(n), "k2.offset-gaps", n))
  /\ lastGap' = [count |-> n, at |-> now]
  /\ UNCHANGED lastAudit

\* record_check.py, whose row passes unless --failed is typed.
RecordCheck(job, failed) ==
  /\ Commits(job, AuditFailures(failed))
  /\ UNCHANGED <<lastAudit, lastGap>>

RunAudits(n) ==
  /\ Commits("maintenance", AuditFailures(n))
  /\ lastAudit' = [count |-> n, at |-> now]
  /\ UNCHANGED lastGap

Kept(i) == i > Len(checks) - RetainLast \/ checks[i].at + RetainAge >= now

\* A run of maintenance that dies after expire() runs no audit.
Expire ==
  /\ \E first \in 1..Len(checks) :
       /\ Kept(first) /\ \A i \in 1..(first - 1) : ~Kept(i)
       /\ checks' = SubSeq(checks, first, Len(checks))
  /\ UNCHANGED <<now, lastAudit, lastGap>>

Cycle ==
  /\ now < MaxTime
  /\ now + 1 - lastAudit.at <= MaxBetweenAudits
  /\ now' = now + 1
  /\ UNCHANGED <<checks, lastAudit, lastGap>>

Next ==
  \/ \E n \in 1..MaxCount : BronzeFindings(n) \/ AcceptDataLoss(n)
  \/ \E job \in {"replay", "operator"}, failed \in 0..1 : RecordCheck(job, failed)
  \/ \E n \in 0..MaxCount : RunAudits(n)
  \/ Expire
  \/ Cycle

Spec == Init /\ [][Next]_vars

-----------------------------------------------------------------------------
(* The exporter: what refresh() sets each gauge to.                        *)

Newest(snaps) == checks[Max(snaps)]

\* Mutant of WrittenBy: whichever writer went last.
WrittenByAnyone(job) == DOMAIN checks

\* latest_job_snapshot
WrittenBy(job) == {i \in DOMAIN checks : checks[i].job = job}

AuditFailuresGauge ==
  IF WrittenBy("maintenance") = {} THEN 0
  ELSE Newest(WrittenBy("maintenance")).summary["k2.audit-failures"]

\* Mutant of Carrying: any ingest commit will do.
CarryingAnything(key) == {i \in DOMAIN checks : checks[i].job = "ingest"}

Carrying(key) ==
  {i \in DOMAIN checks : checks[i].job = "ingest" /\ key \in DOMAIN checks[i].summary}

FreshIngestValue(key) ==
  IF Carrying(key) = {} \/ now - Newest(Carrying(key)).at > MaxAge THEN 0
  ELSE IF key \in DOMAIN Newest(Carrying(key)).summary
       THEN Newest(Carrying(key)).summary[key] ELSE 0

OffsetGapsGauge == FreshIngestValue("k2.offset-gaps")

-----------------------------------------------------------------------------
(***************************************************************************)
(* Only a nightly audit moves the gauge LakeAuditFailed fires on: no       *)
(* finding of an ingest, no row of a person and no expiry between two      *)
(* audits clears it (latest_job_snapshot: "zero a firing LakeAuditFailed   *)
(* with no audit having passed").                                          *)
(***************************************************************************)
AuditAlarmHolds == AuditFailuresGauge = lastAudit.count

(***************************************************************************)
(* An accepted loss shows for MaxAge cycles, whatever else is filed        *)
(* meanwhile, and then no more (fresh_ingest_value: "newest snapshot that  *)
(* carries THIS key").                                                     *)
(***************************************************************************)
GapIsAPulse ==
  OffsetGapsGauge = IF lastGap.count > 0 /\ now - lastGap.at <= MaxAge
                    THEN lastGap.count ELSE 0
=============================================================================
