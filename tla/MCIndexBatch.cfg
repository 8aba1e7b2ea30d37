\* Four entities in one run: chunks, partial refusals and splits.
SPECIFICATION FairIndexSpec
CONSTANTS
  RunIds = {r1}
  Selectors = {full, alice}
  Full = full
  Keys = {k1}
  ResetOp = reset
  Workers = {w1}
  worker = w1
  OwnerOf <- MCOwnerOf
  service = service
  NoOwner = NoOwner
  NoTime = NoTime
  NoKey = NoKey
  NoLease = NoLease
  LeaseDuration = 1
  TtlHours = 1
  ReadLag = 0
  MaxTime = 0
  MaxEpoch = 1
  Entities = {e1, e2, e3, e4}
  oneEntity = e1
  Selects <- MCSelects
  ShortOf <- MCShortOf
  whole = none
  Hashes = {h1}
  NoRow = NoRow
  BatchSize = 3
  MaxAttempts = 2
  Edits = {}
  MaxLate = 0
INVARIANTS ReportMatchesWork
PROPERTIES ExecutionEnds ExecutionRunsDown
\* Stops at the bounds: no run id left, no claim left, no change left.
CHECK_DEADLOCK FALSE
