\* Two processes, two runs, one connection: start, serve, drain, stop and start again.
SPECIFICATION FairServiceSpec
CONSTANTS
  RunIds = {r1, r2}
  Selectors = {full, alice}
  Full = full
  Keys = {k1}
  ResetOp = reset
  Workers = {p1, p2}
  Clients = {c1}
  OwnerOf <- MCOwnerOf
  service = service
  NoOwner = NoOwner
  NoTime = NoTime
  NoKey = NoKey
  NoLease = NoLease
  NoProcess = NoProcess
  NoRequest = NoRequest
  LeaseDuration = 1
  TtlHours = 1
  ReadLag = 0
  MaxTime = 0
  MaxEpoch = 1
INVARIANTS ServiceTypeOK SoleExecutor RecoveredBeforeServing
PROPERTIES Spec QueuedRunsAreClaimed SignalledProcessExits
