\* One entity, full and narrow runs and resets, two workers, two claims of a run.
SPECIFICATION StateSpec
CONSTANTS
  RunIds = {r1}
  Selectors = {full, alice}
  Full = full
  Keys = {k1}
  ResetOp = reset
  Workers = {w1, w2}
  OwnerOf <- MCOwnerOf
  service = service
  NoOwner = NoOwner
  NoTime = NoTime
  NoKey = NoKey
  NoLease = NoLease
  LeaseDuration = 1
  TtlHours = 1
  ReadLag = 0
  MaxTime = 1
  MaxEpoch = 2
  Entities = {e1}
  Hashes = {h1, h2}
  NoRow = NoRow
INVARIANTS StateTablesOK AuditMatchesWork
PROPERTIES FinishedTablesFrozen RowChangeHasCause
SYMMETRY Symmetry
\* Stops at the bounds: no id left, clock at MaxTime, recovery refused.
CHECK_DEADLOCK FALSE
