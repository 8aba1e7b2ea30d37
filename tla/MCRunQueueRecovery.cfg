\* Recovery against the unique index on queued selectors.
SPECIFICATION Spec
CONSTANTS
  RunIds = {r1, r2}
  Selectors = {full, alice}
  Full = full
  Keys = {}
  ResetOp = reset
  Workers = {w1}
  OwnerOf <- MCOwnerOf
  service = service
  NoOwner = NoOwner
  NoTime = NoTime
  NoKey = NoKey
  NoLease = NoLease
  LeaseDuration = 1
  TtlHours = 1
  ReadLag = 1
  MaxTime = 2
  MaxEpoch = 1
INVARIANT StartCanRecover
SYMMETRY Symmetry
CHECK_DEADLOCK FALSE
