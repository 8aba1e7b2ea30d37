\* A content that recurs after a commit was lost.
SPECIFICATION IndexSpec
CONSTANTS
  RunIds = {r1, r2}
  Selectors = {full}
  Full = full
  Keys = {}
  ResetOp = reset
  Workers = {w1}
  worker = w1
  OwnerOf <- MCOwnerOf
  service = service
  NoOwner = NoOwner
  NoTime = NoTime
  NoKey = NoKey
  NoLease = NoLease
  LeaseDuration = 1
  TtlHours = 1
  ReadLag = 0
  MaxTime = 0
  MaxEpoch = 2
  Entities = {e1}
  oneEntity = e1
  Selects <- MCSelects
  ShortOf <- MCShortOf
  whole = none
  Hashes = {h1, h2}
  NoRow = NoRow
  BatchSize = 1
  MaxAttempts = 1
  Edits <- AnyEdit
  MaxLate = 0
PROPERTIES RestartConverges
SYMMETRY Symmetry
\* Stops at the bounds: no run id left, no claim left, no change left.
CHECK_DEADLOCK FALSE
