\* A worker and two handlers on a pool of two connections.
SPECIFICATION FairPoolSpec
CONSTANTS
  Worker = worker
  Writers = {h1}
  Readers = {h2}
  Connections = {c1, c2}
  MaxLeased = 1
  NoConnection = NoConnection
  NoTransaction = NoTransaction
INVARIANTS PoolTypeOK PlanFromCommittedRows
PROPERTIES LeftoversAreRolledBack ImplementsAtomicStore CallsEnd
