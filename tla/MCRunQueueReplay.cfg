\* The response stored for a coalesced request.
SPECIFICATION Spec
CONSTANTS
  RunIds = {r1, r2, r3}
  Selectors = {full, alice}
  Full = full
  Keys = {k1}
  ResetOp = reset
  Workers = {w1}
  OwnerOf <- MCOwnerOf
  service = service
  NoOwner = NoOwner
  NoTime = NoTime
  NoKey = NoKey
  NoLease = NoLease
  LeaseDuration = 1
  TtlHours = 1
  ReadLag = 1
  MaxTime = 2
  MaxEpoch = 1
INVARIANT ReplayNamesTheAnsweredRun
SYMMETRY Symmetry
CHECK_DEADLOCK FALSE
