\* The executor with two attempts, a search beside it, two sessions the server may issue.
SPECIFICATION FairClientSpec
CONSTANTS
  Executor = executor
  Searchers = {s1}
  MaxAttempts = 2
  Sessions = {a, b}
  NoSession = NoSession
  Nobody = Nobody
  MaxShift = 3
  MaxProduct = 6300
  MaxMillis = 63
  Delays <- MCDelays
  Failures <- MCFailures
  Bases <- MCBases
  Vectors = {v, w, bad}
  Fitting = {v, w}
  InvalidResponse = InvalidResponse
  MaxItems = 3
INVARIANTS ClientTypeOK CallsUseReadySession DelayWithinBounds EmbeddingsMatchInputs
PROPERTIES SessionIsKept ImplementsToolCalls EveryCallEnds
