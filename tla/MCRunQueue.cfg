\* Two workers, two selectors, one idempotency key: fencing and what a key remembers.
SPECIFICATION Spec
CONSTANTS
  RunIds = {r1, r2}
  Selectors = {full, alice}
  Full = full
  Keys = {k1}
  ResetOp = reset
  Workers = {w1, w2}
  OwnerOf <- MCOwnerOf
  service = service
  NoOwner = NoOwner
  NoTime = NoTime
  NoKey = NoKey
  NoLease = NoLease
  LeaseDuration = 1
  TtlHours = 1
  ReadLag = 1
  MaxTime = 2
  MaxEpoch = 2
INVARIANTS TablesOK ExclusiveLease KeyNamesARun
PROPERTIES NoLateWriter KeyIsStable
SYMMETRY Symmetry
\* The bounded run stops when no id is left, the clock is at its bound and the
\* start-up recovery is refused.
CHECK_DEADLOCK FALSE
