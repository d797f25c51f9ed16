CONSTANTS
  LastOffset = 4
  MaxCopies = 2
  MaxGaps = 2
SPECIFICATION AuditSpec
INVARIANTS
  WalkDecidesCoverage
  NettingIsExact
\* Finite enumeration: it ends when every row and gap within the bounds exists.
CHECK_DEADLOCK FALSE
