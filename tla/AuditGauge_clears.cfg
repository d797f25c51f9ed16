\* Every writer, in every order, between audits.
CONSTANTS
  MaxAge = 2
  RetainLast = 2
  RetainAge = 3
  MaxBetweenAudits = 3
  MaxCount = 2
  MaxTime = 4
  MaxChecks = 4
SPECIFICATION Spec
INVARIANTS
  AuditAlarmHolds
  GapIsAPulse
\* Finite enumeration: it ends when the cycles and the commits are used up.
CHECK_DEADLOCK FALSE
