------------------------- MODULE RemoteCallsProofs -------------------------
(***************************************************************************)
(* McpClient implements ToolCalls, and its safety properties, for any      *)
(* callers, sessions and number of attempts; the delays of a retry for any  *)
(* configuration and number of failures; and the reading of any reply of an *)
(* embedding provider.                                                     *)
(***************************************************************************)
EXTENDS RemoteCalls, FiniteSetTheorems, FunctionTheorems, TLAPS

(* A session is stored when its handshake is complete and no other runs.    *)
StoredIsReady ==
  /\ session # NoSession => issues /\ server[session] \in {"ready", "forgotten"}
  /\ holder # Nobody => session = NoSession
  /\ \A t \in Callers : issues /\ call[t].at = "cloning" => session # NoSession

(* What is on the wire belongs to an attempt, and a notification to a       *)
(* session the server has offered.                                          *)
WireIsSound ==
  \A m \in wire :
    /\ m.attempt <= Attempts(m.task)
    /\ m.kind = "initialized" =>
         IF issues THEN m.with \in Sessions /\ server[m.with] # "unknown"
                   ELSE m.with = NoSession

AttemptsAreCounted ==
  \A t \in Callers : /\ call[t].attempt <= Attempts(t)
                     /\ call[t].at = "sleeping" => call[t].attempt < Attempts(t)

ClientInv ==
  /\ ClientTypeOK /\ StoredIsReady /\ WireIsSound /\ CallsUseReadySession
  /\ AttemptsAreCounted /\ RunsWithinAttempts /\ SuccessMeansRan

-----------------------------------------------------------------------------
(* The jitter leaves three quarters of the delay at least, whatever its     *)
(* basis, and never makes it longer.                                        *)
THEOREM JitterBounds ==
  ASSUME NEW capped \in 0..MaxMillis, NEW basis \in Nat
  PROVE  /\ Jittered(capped, basis) \in Nat
         /\ Jittered(capped, basis) <= capped
         /\ 75 * capped < 100 * (Jittered(capped, basis) + 1)
<1> DEFINE p == 75 + (basis % 26)
           q == capped * p
<1>1. p \in 75..100
  BY RetryAssumption
<1>2. capped \in Nat /\ capped <= MaxMillis /\ MaxMillis \in Nat /\ MaxProduct \in Nat
  BY RetryAssumption
<1> HIDE DEF p
<1>3. q \in Nat /\ 75 * capped <= q /\ q <= 100 * capped
  BY <1>1, <1>2
<1>4. 100 * capped <= MaxProduct
  BY <1>2, RetryAssumption
<1> HIDE DEF q
<1>5. Smaller(q, MaxProduct) = q
  BY <1>2, <1>3, <1>4 DEF Smaller
<1>6. q \div 100 \in Nat /\ 100 * (q \div 100) <= q /\ q < 100 * ((q \div 100) + 1)
  BY <1>3
<1>7. q \div 100 <= capped
  BY <1>2, <1>3, <1>6
<1>8. Smaller(q \div 100, MaxMillis) = q \div 100
  BY <1>2, <1>6, <1>7 DEF Smaller
<1>9. Jittered(capped, basis) = q \div 100
  BY <1>5, <1>8 DEF Jittered, SaturatingMul, p, q
<1> QED
  BY <1>2, <1>3, <1>6, <1>7, <1>9

(* 2^n is the number of subsets of a set with n elements, which gives what  *)
(* is needed of powers without induction.                                   *)
LEMMA PowerIsCount ==
  ASSUME NEW n \in Nat
  PROVE  2^n = Cardinality(SUBSET (1..n)) /\ IsFiniteSet(SUBSET (1..n))
<1>1. IsFiniteSet(1..n) /\ Cardinality(1..n) = n
  BY FS_Interval
<1>2. IsFiniteSet(SUBSET (1..n)) /\ Cardinality(SUBSET (1..n)) = 2^Cardinality(1..n)
  BY <1>1, FS_SUBSET
<1> QED
  BY <1>1, <1>2

LEMMA PowersGrow ==
  ASSUME NEW m \in Nat, NEW n \in Nat, m <= n
  PROVE  2^m \in Nat \ {0} /\ 2^n \in Nat /\ 2^m <= 2^n
<1>1. IsFiniteSet(SUBSET (1..n)) /\ IsFiniteSet(SUBSET (1..m))
  BY PowerIsCount
<1>2. SUBSET (1..m) \in SUBSET (SUBSET (1..n))
  OBVIOUS
<1>3. Cardinality(SUBSET (1..m)) <= Cardinality(SUBSET (1..n))
  BY <1>1, <1>2, FS_Subset
<1>4. Cardinality(SUBSET (1..m)) \in Nat /\ Cardinality(SUBSET (1..n)) \in Nat
  BY <1>1, FS_CardinalityType
<1>5. SUBSET (1..m) # {}
  OBVIOUS
<1>6. Cardinality(SUBSET (1..m)) # 0
  BY <1>1, <1>5, FS_EmptySet
<1>7. 2^m = Cardinality(SUBSET (1..m)) /\ 2^n = Cardinality(SUBSET (1..n))
  BY PowerIsCount
<1> QED
  BY <1>3, <1>4, <1>6, <1>7

LEMMA ProductGrows ==
  ASSUME NEW a \in Nat, NEW b \in Nat, NEW c \in Nat, b <= c
  PROVE  a * b \in Nat /\ a * c \in Nat /\ a * b <= a * c
<1>1. PICK d \in Nat : c = b + d
  <2>1. c - b \in Nat /\ c = b + (c - b)
    OBVIOUS
  <2> QED
    BY <2>1
<1>2. a * c = a * b + a * d
  BY <1>1
<1>3. a * b \in Nat /\ a * d \in Nat
  BY <1>1
<1> QED
  BY <1>2, <1>3

(* A longer backoff is not made shorter by the same jitter.                 *)
LEMMA JitterGrows ==
  ASSUME NEW less \in 0..MaxMillis, NEW more \in 0..MaxMillis, less <= more,
         NEW basis \in Nat
  PROVE  Jittered(less, basis) <= Jittered(more, basis)
<1> DEFINE p == 75 + (basis % 26)
           u == less * p
           v == more * p
           s == Smaller(u, MaxProduct)
           t == Smaller(v, MaxProduct)
<1>1. p \in Nat
  OBVIOUS
<1>2. less \in Nat /\ more \in Nat /\ MaxMillis \in Nat /\ MaxProduct \in Nat
  BY RetryAssumption
<1> HIDE DEF p
<1>3. u = p * less /\ v = p * more
  BY <1>1, <1>2
<1>4. u \in Nat /\ v \in Nat /\ u <= v
  BY <1>1, <1>2, <1>3, ProductGrows
<1> HIDE DEF u, v
<1>5. s \in Nat /\ t \in Nat /\ s <= t
  BY <1>2, <1>4 DEF Smaller
<1> HIDE DEF s, t
<1>6. s \div 100 \in Nat /\ t \div 100 \in Nat /\ s \div 100 <= t \div 100
  BY <1>5
<1>7. Smaller(s \div 100, MaxMillis) <= Smaller(t \div 100, MaxMillis)
  BY <1>2, <1>6 DEF Smaller
<1> QED
  BY <1>7 DEF Jittered, SaturatingMul, p, u, v, s, t

(* What the backoff is, without its intermediate saturation.                *)
LEMMA BackoffIs ==
  ASSUME NEW base \in 1..MaxMillis, NEW max \in 1..MaxMillis, NEW n \in Nat \ {0}
  PROVE  LET e == Smaller(n - 1, MaxShift) IN
         /\ e \in Nat /\ e <= n - 1 /\ (n - 1 <= MaxShift => e = n - 1)
         /\ Backoff(base, max, n) = Smaller(base * 2^e, max)
         /\ Backoff(base, max, n) \in 0..MaxMillis
<1> DEFINE e == Smaller(n - 1, MaxShift)
           x == base * 2^e
<1>1. /\ n - 1 \in Nat /\ base \in Nat /\ max \in Nat /\ max <= MaxMillis
      /\ MaxShift \in Nat /\ MaxMillis \in Nat /\ MaxProduct \in Nat
      /\ MaxMillis <= MaxProduct
  BY RetryAssumption
<1>2. e \in Nat /\ e <= n - 1 /\ (n - 1 <= MaxShift => e = n - 1)
  BY <1>1 DEF Smaller
<1> HIDE DEF e
<1>3. 2^e \in Nat
  BY <1>2, PowersGrow
<1>4. x \in Nat
  BY <1>1, <1>3
<1>5. Backoff(base, max, n) = Smaller(Smaller(x, MaxProduct), max)
  BY <1>1 DEF Backoff, SaturatingMul, e, x
<1> HIDE DEF x
<1>6. Smaller(Smaller(x, MaxProduct), max) = Smaller(x, max)
  BY <1>1, <1>4 DEF Smaller
<1>7. Smaller(x, max) \in 0..MaxMillis
  BY <1>1, <1>4 DEF Smaller
<1> QED
  BY <1>2, <1>5, <1>6, <1>7 DEF e, x

(* The delays are right for every configuration, at every failure.          *)
THEOREM DelaysFit ==
  ASSUME NEW n \in Nat \ {0}
  PROVE  DelayFits(n)
<1> SUFFICES ASSUME NEW base \in 1..MaxMillis, NEW max \in 1..MaxMillis, NEW basis \in Nat
             PROVE  LET exact == Smaller(base * 2^(n - 1), max)
                        delay == retry_delay(base, max, n, basis)
                    IN  /\ delay <= exact
                        /\ n - 1 <= MaxShift => 75 * exact < 100 * (delay + 1)
                        /\ delay <= retry_delay(base, max, n + 1, basis)
  BY DelayAssumption DEF DelayFits
<1> DEFINE e == Smaller(n - 1, MaxShift)
           f == Smaller(n, MaxShift)
           exact == Smaller(base * 2^(n - 1), max)
           now == Backoff(base, max, n)
           then == Backoff(base, max, n + 1)
<1>1. /\ e \in Nat /\ e <= n - 1 /\ (n - 1 <= MaxShift => e = n - 1)
      /\ now = Smaller(base * 2^e, max) /\ now \in 0..MaxMillis
  BY BackoffIs
<1>2. f \in Nat /\ then = Smaller(base * 2^f, max) /\ then \in 0..MaxMillis
  <2>1. n + 1 \in Nat \ {0} /\ (n + 1) - 1 = n
    OBVIOUS
  <2> QED
    BY <2>1, BackoffIs
<1>3. e <= f
  BY RetryAssumption DEF Smaller
<1>4. base \in Nat /\ max \in Nat /\ n - 1 \in Nat
  BY RetryAssumption
<1> HIDE DEF e, f
<1>5. 2^e \in Nat /\ 2^f \in Nat /\ 2^(n - 1) \in Nat /\ 2^e <= 2^f /\ 2^e <= 2^(n - 1)
  BY <1>1, <1>2, <1>3, <1>4, PowersGrow
<1>6. /\ base * 2^e \in Nat /\ base * 2^f \in Nat /\ base * 2^(n - 1) \in Nat
      /\ base * 2^e <= base * 2^f /\ base * 2^e <= base * 2^(n - 1)
  BY <1>4, <1>5, ProductGrows
<1>7. now <= exact /\ now <= then /\ (n - 1 <= MaxShift => now = exact)
  BY <1>1, <1>2, <1>4, <1>6 DEF Smaller
<1>8. exact \in Nat
  BY <1>4, <1>6 DEF Smaller
<1> HIDE DEF now, then, exact
<1>9. /\ Jittered(now, basis) \in Nat /\ Jittered(now, basis) <= now
      /\ 75 * now < 100 * (Jittered(now, basis) + 1)
  BY <1>1, JitterBounds
<1>10. Jittered(now, basis) <= Jittered(then, basis)
  BY <1>1, <1>2, <1>7, JitterGrows
<1>11. now \in Nat
  BY <1>1
<1>12. Jittered(now, basis) <= exact
  BY <1>7, <1>8, <1>9, <1>11
<1>13. n - 1 <= MaxShift => 75 * exact < 100 * (Jittered(now, basis) + 1)
  BY <1>7, <1>9
<1> QED
  BY <1>10, <1>12, <1>13 DEF retry_delay, now, then, exact

(* While a call sleeps before its next attempt, no failure it can have counted *)
(* makes it wait longer than the configured maximum or shorter than the jitter *)
(* allows.                                                                  *)
THEOREM DelaysAreBounded == ClientSpec => []DelayWithinBounds
<1>1. FailuresThatFit = Failures
  BY DelaysFit, DelayAssumption DEF FailuresThatFit
<1>2. DelayWithinBounds
  BY <1>1 DEF DelayWithinBounds
<1> QED
  BY <1>2, PTL

-----------------------------------------------------------------------------
CallRecords == [at: Places, attempt: 1..MaxAttempts]

LEMMA AttemptsRange == \A t \in Callers : Attempts(t) \in 1..MaxAttempts
  BY ClientAssumption DEF Attempts

LEMMA PlacesAre ==
  Places = {"idle", "succeeded", "entering", "cloning", "sleeping", "greeting", "confirming",
            "calling"}
  BY DEF Places, Awaited

LEMMA WaitingIs ==
  ASSUME NEW t \in Callers
  PROVE  Waiting(t) <=> call[t].at \in {"greeting", "confirming", "calling"}
  BY DEF Waiting, Awaited

LEMMA ReachesIs ==
  ASSUME NEW m \in Requests, Reaches(m)
  PROVE  /\ m.task \in Callers /\ call[m.task].attempt = m.attempt
         /\ m.kind = "initialize"  => call[m.task].at = "greeting"
         /\ m.kind = "initialized" => call[m.task].at = "confirming"
         /\ m.kind = "tools/call"  => call[m.task].at = "calling"
         /\ call[m.task].at \in {"greeting", "confirming", "calling"}
  BY DEF Reaches, Requests, Waiting, Awaited

LEMMA InitInv ==
  ASSUME ClientInit
  PROVE  ClientInv
<1>1. \A t \in Callers : call[t] = [at |-> "idle", attempt |-> 1] /\ ran[t] = {}
  BY DEF ClientInit
<1>2. 1 \in 1..MaxAttempts
  BY ClientAssumption
<1>3. ClientTypeOK
  BY <1>1, <1>2, ClientAssumption, PlacesAre DEF ClientInit, ClientTypeOK
<1>4. StoredIsReady /\ WireIsSound /\ CallsUseReadySession
  BY <1>1 DEF ClientInit, StoredIsReady, WireIsSound, CallsUseReadySession
<1>5. AttemptsAreCounted
  BY <1>1, AttemptsRange DEF AttemptsAreCounted
<1>6. RunsWithinAttempts /\ SuccessMeansRan
  BY <1>1 DEF RunsWithinAttempts, SuccessMeansRan
<1> QED
  BY <1>3, <1>4, <1>5, <1>6 DEF ClientInv

(* One caller moves to another place.                                       *)
LEMMA TypeStep ==
  ASSUME ClientTypeOK, NEW t \in Callers, NEW r \in CallRecords,
         call' = [call EXCEPT ![t] = r],
         session' \in Sessions \cup {NoSession}, holder' \in Callers \cup {Nobody},
         wire' \subseteq Requests,
         server' \in [Sessions -> {"unknown", "offered", "ready", "forgotten"}],
         issues' \in BOOLEAN, ran' \in [Callers -> SUBSET (1..MaxAttempts)],
         r.at \in {"greeting", "confirming"} <=> holder' = t,
         \A u \in Callers : u # t => (holder' = u <=> holder = u)
  PROVE  ClientTypeOK'
<1>1. call' \in [Callers -> CallRecords] /\ call'[t] = r
      /\ \A u \in Callers : u # t => call'[u] = call[u]
  BY DEF ClientTypeOK, CallRecords
<1>2. \A u \in Callers : call'[u].at \in {"greeting", "confirming"} <=> holder' = u
  BY <1>1 DEF ClientTypeOK
<1> QED
  BY <1>1, <1>2 DEF ClientTypeOK, CallRecords

(* The rest of the invariant after a step of one caller that adds nothing   *)
(* to the wire and leaves session and server alone.                         *)
LEMMA QuietStep ==
  ASSUME ClientInv, ClientTypeOK', NEW t \in Callers, NEW r \in CallRecords,
         call' = [call EXCEPT ![t] = r],
         UNCHANGED <<session, server, issues>>,
         holder' \in {holder, Nobody}, wire' \subseteq wire,
         r.attempt <= Attempts(t), r.at = "sleeping" => r.attempt < Attempts(t),
         r.at = "cloning" => session # NoSession,
         \A u \in Callers : /\ ran[u] \subseteq ran'[u]
                            /\ \A n \in ran'[u] : n <= Attempts(u),
         r.at = "succeeded" => ran'[t] # {}
  PROVE  ClientInv'
<1> USE DEF ClientInv
<1>1. call'[t] = r /\ \A u \in Callers : u # t => call'[u] = call[u]
  BY DEF ClientTypeOK
<1>2. StoredIsReady'
  BY <1>1 DEF StoredIsReady
<1>3. WireIsSound' /\ CallsUseReadySession'
  BY DEF WireIsSound, CallsUseReadySession
<1>4. AttemptsAreCounted'
  BY <1>1 DEF AttemptsAreCounted
<1>5. RunsWithinAttempts' /\ SuccessMeansRan'
  BY <1>1 DEF RunsWithinAttempts, SuccessMeansRan
<1> QED
  BY <1>2, <1>3, <1>4, <1>5

(* How an attempt that failed leaves its caller.                            *)
LEMMA FailedLeaves ==
  ASSUME ClientInv, NEW t \in Callers, NEW e, Failed(t, e)
  PROVE  \E r \in CallRecords :
           /\ call' = [call EXCEPT ![t] = r]
           /\ r.at \in {"idle", "sleeping"} /\ r.attempt <= Attempts(t)
           /\ r.at = "sleeping" => r.attempt < Attempts(t)
           /\ holder' \in {holder, Nobody} /\ holder' # t
           /\ \A u \in Callers : u # t => (holder' = u <=> holder = u)
<1> USE DEF ClientInv
<1>1. /\ holder' \in {holder, Nobody} /\ holder' # t
      /\ \A u \in Callers : u # t => (holder' = u <=> holder = u)
  BY ClientAssumption DEF Failed, Release
<1>2. call[t] \in CallRecords /\ call[t].attempt \in 1..MaxAttempts
  BY DEF ClientTypeOK, CallRecords
<1>3. CASE e \in Retryable /\ call[t].attempt < Attempts(t)
  <2> DEFINE r == [call[t] EXCEPT !.at = "sleeping"]
  <2>1. call' = [call EXCEPT ![t] = r]
    BY <1>3 DEF Failed, Goto
  <2>2. r \in CallRecords /\ r.at = "sleeping" /\ r.attempt = call[t].attempt
    BY <1>2, PlacesAre DEF CallRecords
  <2>3. r.attempt <= Attempts(t)
    BY <1>2, <1>3, <2>2, AttemptsRange
  <2> HIDE DEF r
  <2> QED
    BY <1>1, <1>3, <2>1, <2>2, <2>3
<1>4. CASE ~(e \in Retryable /\ call[t].attempt < Attempts(t))
  <2> DEFINE r == [at |-> "idle", attempt |-> 1]
  <2>1. call' = [call EXCEPT ![t] = r]
    BY <1>4 DEF Failed, End
  <2>2. r \in CallRecords /\ r.at = "idle" /\ r.attempt <= Attempts(t)
    BY AttemptsRange, ClientAssumption, PlacesAre DEF CallRecords
  <2> HIDE DEF r
  <2> QED
    BY <1>1, <2>1, <2>2
<1> QED
  BY <1>3, <1>4

LEMMA EndLeaves ==
  ASSUME NEW t \in Callers, NEW place \in {"idle", "succeeded"}, End(t, place)
  PROVE  \E r \in CallRecords :
           /\ call' = [call EXCEPT ![t] = r]
           /\ r.at = place /\ r.attempt <= Attempts(t)
<1> DEFINE r == [at |-> place, attempt |-> 1]
<1>1. r \in CallRecords /\ r.at = place /\ r.attempt <= Attempts(t)
  BY AttemptsRange, ClientAssumption, PlacesAre DEF CallRecords
<1>2. call' = [call EXCEPT ![t] = r]
  BY DEF End
<1> HIDE DEF r
<1> QED
  BY <1>1, <1>2

LEMMA FailedStep ==
  ASSUME ClientInv, NEW t \in Callers, NEW e, Failed(t, e),
         UNCHANGED <<session, server, issues>>, wire' \subseteq wire,
         ran' \in [Callers -> SUBSET (1..MaxAttempts)],
         \A u \in Callers : /\ ran[u] \subseteq ran'[u]
                            /\ \A n \in ran'[u] : n <= Attempts(u)
  PROVE  ClientInv'
<1>1. PICK r \in CallRecords :
        /\ call' = [call EXCEPT ![t] = r]
        /\ r.at \in {"idle", "sleeping"} /\ r.attempt <= Attempts(t)
        /\ r.at = "sleeping" => r.attempt < Attempts(t)
        /\ holder' \in {holder, Nobody} /\ holder' # t
        /\ \A u \in Callers : u # t => (holder' = u <=> holder = u)
  BY FailedLeaves
<1>2. ClientTypeOK'
  <2>1. wire' \subseteq Requests /\ holder' \in Callers \cup {Nobody}
    BY <1>1 DEF ClientInv, ClientTypeOK
  <2>2. /\ session' \in Sessions \cup {NoSession} /\ issues' \in BOOLEAN
        /\ server' \in [Sessions -> {"unknown", "offered", "ready", "forgotten"}]
        /\ ClientTypeOK
    BY DEF ClientInv, ClientTypeOK
  <2>3. r.at \in {"greeting", "confirming"} <=> holder' = t
    BY <1>1
  <2> QED
    BY <1>1, <2>1, <2>2, <2>3, TypeStep
<1> QED
  BY <1>1, <1>2, QuietStep

-----------------------------------------------------------------------------
(* The wire after a new call has made its caller's requests old ones.       *)
LEMMA OldRequests ==
  ASSUME ClientTypeOK, NEW t \in Callers,
         NEW n \in {IF m.task = t THEN [m EXCEPT !.attempt = 0] ELSE m : m \in wire}
  PROVE  \E m \in wire : /\ n \in Requests /\ n.task = m.task /\ n.kind = m.kind
                         /\ n.with = m.with /\ n.attempt \in {0, m.attempt}
<1>1. PICK m \in wire : n = IF m.task = t THEN [m EXCEPT !.attempt = 0] ELSE m
  OBVIOUS
<1>2. m \in Requests /\ 0 \in 0..MaxAttempts
  BY ClientAssumption DEF ClientTypeOK
<1>3. CASE m.task = t
  <2>1. n = [task |-> m.task, kind |-> m.kind, with |-> m.with, attempt |-> 0]
    BY <1>1, <1>2, <1>3 DEF Requests
  <2>2. n \in Requests
    BY <1>2, <2>1 DEF Requests
  <2> QED
    BY <2>1, <2>2
<1>4. CASE m.task # t
  BY <1>1, <1>2, <1>4
<1> QED
  BY <1>3, <1>4

LEMMA AskInv ==
  ASSUME ClientInv, NEW t \in Callers, Ask(t)
  PROVE  ClientInv'
<1> DEFINE r == [at |-> "entering", attempt |-> 1]
<1>1. r \in CallRecords /\ r.at = "entering" /\ r.attempt = 1 /\ r.attempt <= Attempts(t)
  BY AttemptsRange, ClientAssumption, PlacesAre DEF CallRecords
<1>2. call' = [call EXCEPT ![t] = r] /\ ran' = [ran EXCEPT ![t] = {}]
  BY DEF Ask
<1>3. UNCHANGED <<session, holder, server, issues>> /\ ClientTypeOK
  BY DEF Ask, ClientInv
<1>4. \A n \in wire' : \E m \in wire :
        /\ n \in Requests /\ n.task = m.task /\ n.kind = m.kind
        /\ n.with = m.with /\ n.attempt \in {0, m.attempt}
  BY <1>3, OldRequests DEF Ask
<1> HIDE DEF r
<1>5. call[t].at \in {"idle", "succeeded"} /\ holder # t
  BY <1>3 DEF Ask, InCall, ClientTypeOK
<1>6. ClientTypeOK'
  <2>1. wire' \subseteq Requests
    BY <1>4
  <2>2. /\ session' \in Sessions \cup {NoSession} /\ holder' \in Callers \cup {Nobody}
        /\ server' \in [Sessions -> {"unknown", "offered", "ready", "forgotten"}]
        /\ issues' \in BOOLEAN
    BY <1>3 DEF ClientTypeOK
  <2>3. ran' \in [Callers -> SUBSET (1..MaxAttempts)]
    BY <1>2, <1>3 DEF ClientTypeOK
  <2> QED
    BY <1>1, <1>2, <1>3, <1>5, <2>1, <2>2, <2>3, TypeStep
<1>7. call'[t] = r /\ \A u \in Callers : u # t => call'[u] = call[u]
  BY <1>2, <1>3 DEF ClientTypeOK
<1>8. ran'[t] = {} /\ \A u \in Callers : u # t => ran'[u] = ran[u]
  BY <1>2, <1>3 DEF ClientTypeOK
<1>9. StoredIsReady'
  BY <1>1, <1>3, <1>7 DEF StoredIsReady, ClientInv
<1>10. WireIsSound'
  <2> SUFFICES ASSUME NEW n \in wire'
               PROVE  /\ n.attempt <= Attempts(n.task)
                      /\ n.kind = "initialized" =>
                           IF issues THEN n.with \in Sessions /\ server[n.with] # "unknown"
                                     ELSE n.with = NoSession
    BY <1>3 DEF WireIsSound
  <2>1. PICK m \in wire : /\ n \in Requests /\ n.task = m.task /\ n.kind = m.kind
                          /\ n.with = m.with /\ n.attempt \in {0, m.attempt}
    BY <1>4
  <2>2. Attempts(n.task) \in 1..MaxAttempts
    BY <2>1, AttemptsRange DEF Requests
  <2>3. n.attempt <= Attempts(n.task)
    BY <2>1, <2>2 DEF ClientInv, WireIsSound
  <2> QED
    BY <2>1, <2>3 DEF ClientInv, WireIsSound
<1>11. CallsUseReadySession'
  BY <1>3, <1>4 DEF CallsUseReadySession, ClientInv
<1>12. AttemptsAreCounted'
  BY <1>1, <1>7 DEF AttemptsAreCounted, ClientInv
<1>13. RunsWithinAttempts'
  BY <1>8 DEF RunsWithinAttempts, ClientInv
<1>14. SuccessMeansRan'
  BY <1>1, <1>7, <1>8 DEF SuccessMeansRan, ClientInv
<1> QED
  BY <1>6, <1>9, <1>10, <1>11, <1>12, <1>13, <1>14 DEF ClientInv

-----------------------------------------------------------------------------
LEMMA GotoIs ==
  ASSUME ClientTypeOK, NEW t \in Callers, NEW place \in Places, Goto(t, place)
  PROVE  \E r \in CallRecords : /\ call' = [call EXCEPT ![t] = r]
                                /\ r.at = place /\ r.attempt = call[t].attempt
<1> DEFINE r == [call[t] EXCEPT !.at = place]
<1>1. call[t] \in CallRecords
  BY DEF ClientTypeOK, CallRecords
<1>2. call' = [call EXCEPT ![t] = r]
  BY DEF Goto
<1>3. r \in CallRecords /\ r.at = place /\ r.attempt = call[t].attempt
  BY <1>1 DEF CallRecords
<1> HIDE DEF r
<1> QED
  BY <1>2, <1>3

LEMMA RequestIs ==
  ASSUME ClientTypeOK, NEW t \in Callers, NEW s \in Sessions \cup {NoSession},
         NEW kind \in {"initialize", "initialized", "tools/call"}
  PROVE  /\ Request(t, kind, s) \in Requests
         /\ Request(t, kind, s).task = t /\ Request(t, kind, s).kind = kind
         /\ Request(t, kind, s).with = s
         /\ Request(t, kind, s).attempt = call[t].attempt
<1>1. call[t].attempt \in 0..MaxAttempts
  BY ClientAssumption DEF ClientTypeOK
<1> QED
  BY <1>1 DEF Request, Requests

LEMMA EnterInv ==
  ASSUME ClientInv, NEW t \in Callers, Enter(t)
  PROVE  ClientInv'
<1>1. /\ ClientTypeOK /\ call[t].at = "entering" /\ holder = Nobody
      /\ UNCHANGED <<session, server, issues, ran>>
  BY DEF Enter, ClientInv
<1>2. call[t].attempt <= Attempts(t) /\ call[t].attempt \in 1..MaxAttempts
  BY <1>1 DEF ClientInv, AttemptsAreCounted, ClientTypeOK
<1>3. \A u \in Callers : /\ ran'[u] = ran[u]
                         /\ \A n \in ran[u] : n <= Attempts(u)
  BY <1>1 DEF ClientInv, RunsWithinAttempts
<1>4. /\ session' \in Sessions \cup {NoSession} /\ issues' \in BOOLEAN
      /\ server' \in [Sessions -> {"unknown", "offered", "ready", "forgotten"}]
      /\ ran' \in [Callers -> SUBSET (1..MaxAttempts)]
  BY <1>1 DEF ClientTypeOK
<1>5. CASE session # NoSession
  <2>1. Goto(t, "cloning") /\ UNCHANGED <<wire, holder>>
    BY <1>5 DEF Enter
  <2>2. PICK r \in CallRecords : /\ call' = [call EXCEPT ![t] = r]
                                /\ r.at = "cloning" /\ r.attempt = call[t].attempt
    BY <1>1, <2>1, GotoIs, PlacesAre
  <2>3. /\ wire' \subseteq Requests /\ holder' \in Callers \cup {Nobody}
        /\ r.at \in {"greeting", "confirming"} <=> holder' = t
    BY <1>1, <2>1, <2>2, ClientAssumption DEF ClientTypeOK
  <2>4. ClientTypeOK'
    BY <1>1, <1>4, <2>1, <2>2, <2>3, TypeStep
  <2> QED
    BY <1>1, <1>2, <1>3, <1>5, <2>1, <2>2, <2>4, QuietStep
<1>6. CASE session = NoSession
  <2> DEFINE q == Request(t, "initialize", NoSession)
  <2>1. /\ holder' = t /\ Goto(t, "greeting") /\ wire' = wire \cup {q}
    BY <1>6 DEF Enter
  <2>2. PICK r \in CallRecords : /\ call' = [call EXCEPT ![t] = r]
                                /\ r.at = "greeting" /\ r.attempt = call[t].attempt
    BY <1>1, <2>1, GotoIs, PlacesAre
  <2>3. /\ q \in Requests /\ q.task = t /\ q.kind = "initialize"
        /\ q.attempt = call[t].attempt
    BY <1>1, RequestIs
  <2> HIDE DEF q
  <2>4. /\ wire' \subseteq Requests /\ holder' \in Callers \cup {Nobody}
        /\ r.at \in {"greeting", "confirming"} <=> holder' = t
        /\ \A u \in Callers : u # t => (holder' = u <=> holder = u)
    BY <1>1, <2>1, <2>2, <2>3, ClientAssumption DEF ClientTypeOK
  <2>5. ClientTypeOK'
    BY <1>1, <1>4, <2>2, <2>4, TypeStep
  <2>6. call'[t] = r /\ \A u \in Callers : u # t => call'[u] = call[u]
    BY <1>1, <2>2 DEF ClientTypeOK
  <2>7. StoredIsReady'
    BY <1>1, <1>6, <2>2, <2>6 DEF StoredIsReady, ClientInv
  <2>8. WireIsSound'
    BY <1>1, <1>2, <2>1, <2>3 DEF WireIsSound, ClientInv
  <2>9. CallsUseReadySession'
    BY <1>1, <2>1, <2>3 DEF CallsUseReadySession, ClientInv
  <2>10. AttemptsAreCounted'
    BY <1>2, <2>2, <2>6 DEF AttemptsAreCounted, ClientInv
  <2>11. RunsWithinAttempts' /\ SuccessMeansRan'
    BY <1>1, <2>2, <2>6 DEF RunsWithinAttempts, SuccessMeansRan, ClientInv
  <2> QED
    BY <2>5, <2>7, <2>8, <2>9, <2>10, <2>11 DEF ClientInv
<1> QED
  BY <1>5, <1>6

LEMMA CloneInv ==
  ASSUME ClientInv, NEW t \in Callers, Clone(t)
  PROVE  ClientInv'
<1> DEFINE q == Request(t, "tools/call", session)
<1>1. /\ ClientTypeOK /\ call[t].at = "cloning" /\ holder = Nobody
      /\ UNCHANGED <<session, holder, server, issues, ran>>
      /\ Goto(t, "calling") /\ wire' = wire \cup {q}
  BY DEF Clone, ClientInv
<1>2. call[t].attempt <= Attempts(t)
  BY <1>1 DEF ClientInv, AttemptsAreCounted
<1>3. /\ q \in Requests /\ q.task = t /\ q.kind = "tools/call" /\ q.with = session
      /\ q.attempt = call[t].attempt
  BY <1>1, RequestIs DEF ClientTypeOK
<1> HIDE DEF q
<1>4. PICK r \in CallRecords : /\ call' = [call EXCEPT ![t] = r]
                              /\ r.at = "calling" /\ r.attempt = call[t].attempt
  BY <1>1, GotoIs, PlacesAre
<1>5. /\ session' \in Sessions \cup {NoSession} /\ holder' \in Callers \cup {Nobody}
      /\ server' \in [Sessions -> {"unknown", "offered", "ready", "forgotten"}]
      /\ issues' \in BOOLEAN /\ ran' \in [Callers -> SUBSET (1..MaxAttempts)]
      /\ wire' \subseteq Requests
  BY <1>1, <1>3 DEF ClientTypeOK
<1>6. r.at \in {"greeting", "confirming"} <=> holder' = t
  BY <1>1, <1>4, ClientAssumption
<1>7. ClientTypeOK'
  BY <1>1, <1>4, <1>5, <1>6, TypeStep
<1>8. call'[t] = r /\ \A u \in Callers : u # t => call'[u] = call[u]
  BY <1>1, <1>4 DEF ClientTypeOK
<1>9. StoredIsReady'
  BY <1>1, <1>4, <1>8 DEF StoredIsReady, ClientInv
<1>10. WireIsSound'
  BY <1>1, <1>2, <1>3 DEF WireIsSound, ClientInv
<1>11. CallsUseReadySession'
  BY <1>1, <1>3 DEF CallsUseReadySession, StoredIsReady, ClientInv
<1>12. AttemptsAreCounted'
  BY <1>2, <1>4, <1>8 DEF AttemptsAreCounted, ClientInv
<1>13. RunsWithinAttempts' /\ SuccessMeansRan'
  BY <1>1, <1>4, <1>8 DEF RunsWithinAttempts, SuccessMeansRan, ClientInv
<1> QED
  BY <1>7, <1>9, <1>10, <1>11, <1>12, <1>13 DEF ClientInv

LEMMA WakeInv ==
  ASSUME ClientInv, NEW t \in Callers, Wake(t)
  PROVE  ClientInv'
<1> DEFINE r == [call[t] EXCEPT !.at = "entering", !.attempt = call[t].attempt + 1]
<1>1. /\ ClientTypeOK /\ call[t].at = "sleeping"
      /\ UNCHANGED <<session, holder, wire, server, issues, ran>>
      /\ call' = [call EXCEPT ![t] = r]
  BY DEF Wake, ClientInv
<1>2. call[t] \in CallRecords /\ call[t].attempt < Attempts(t)
  BY <1>1 DEF ClientInv, AttemptsAreCounted, ClientTypeOK, CallRecords
<1>3. call[t].attempt + 1 \in 1..MaxAttempts /\ call[t].attempt + 1 <= Attempts(t)
  BY <1>2, AttemptsRange, ClientAssumption DEF CallRecords
<1>4. r.at = "entering" /\ r.attempt = call[t].attempt + 1 /\ r \in CallRecords
  BY <1>2, <1>3, PlacesAre DEF CallRecords
<1> HIDE DEF r
<1>5. /\ session' \in Sessions \cup {NoSession} /\ holder' \in Callers \cup {Nobody}
      /\ server' \in [Sessions -> {"unknown", "offered", "ready", "forgotten"}]
      /\ issues' \in BOOLEAN /\ ran' \in [Callers -> SUBSET (1..MaxAttempts)]
      /\ wire' \subseteq Requests
      /\ holder # t
  BY <1>1 DEF ClientTypeOK
<1>6. ClientTypeOK'
  BY <1>1, <1>4, <1>5, TypeStep
<1>7. \A u \in Callers : /\ ran'[u] = ran[u]
                         /\ \A n \in ran[u] : n <= Attempts(u)
  BY <1>1 DEF ClientInv, RunsWithinAttempts
<1> QED
  BY <1>1, <1>3, <1>4, <1>6, <1>7, QuietStep

LEMMA TimeoutInv ==
  ASSUME ClientInv, NEW t \in Callers, Timeout(t)
  PROVE  ClientInv'
<1>1. UNCHANGED <<session, wire, server, issues, ran>> /\ Failed(t, "transport")
  BY DEF Timeout
<1>2. /\ ran' \in [Callers -> SUBSET (1..MaxAttempts)]
      /\ \A u \in Callers : \A n \in ran'[u] : n <= Attempts(u)
  BY <1>1 DEF ClientInv, ClientTypeOK, RunsWithinAttempts
<1> QED
  BY <1>1, <1>2, FailedStep

LEMMA CancelInv ==
  ASSUME ClientInv, NEW t \in Callers, Cancel(t)
  PROVE  ClientInv'
<1>1. /\ ClientTypeOK /\ UNCHANGED <<session, wire, server, issues, ran>>
      /\ End(t, "idle") /\ Release(t)
  BY DEF Cancel, ClientInv
<1>2. PICK r \in CallRecords : /\ call' = [call EXCEPT ![t] = r]
                              /\ r.at = "idle" /\ r.attempt <= Attempts(t)
  BY <1>1, EndLeaves
<1>3. /\ holder' \in {holder, Nobody} /\ holder' # t /\ holder' \in Callers \cup {Nobody}
      /\ \A u \in Callers : u # t => (holder' = u <=> holder = u)
  BY <1>1, ClientAssumption DEF Release, ClientTypeOK
<1>4. /\ session' \in Sessions \cup {NoSession}
      /\ server' \in [Sessions -> {"unknown", "offered", "ready", "forgotten"}]
      /\ issues' \in BOOLEAN /\ ran' \in [Callers -> SUBSET (1..MaxAttempts)]
      /\ wire' \subseteq Requests
  BY <1>1 DEF ClientTypeOK
<1>5. ClientTypeOK'
  BY <1>1, <1>2, <1>3, <1>4, TypeStep
<1>6. \A u \in Callers : /\ ran'[u] = ran[u]
                         /\ \A n \in ran[u] : n <= Attempts(u)
  BY <1>1 DEF ClientInv, RunsWithinAttempts
<1> QED
  BY <1>1, <1>2, <1>3, <1>5, <1>6, QuietStep

-----------------------------------------------------------------------------
(* A step of the server that no caller notices.                            *)
LEMMA UnheardStep ==
  ASSUME ClientInv, UNCHANGED <<call, holder, session, issues>>, wire' \subseteq wire,
         ran' \in [Callers -> SUBSET (1..MaxAttempts)],
         \A u \in Callers : /\ ran[u] \subseteq ran'[u]
                            /\ \A n \in ran'[u] : n <= Attempts(u),
         server' \in [Sessions -> {"unknown", "offered", "ready", "forgotten"}],
         \A s \in Sessions :
           /\ server[s] # "unknown" => server'[s] # "unknown"
           /\ server[s] \in {"ready", "forgotten"} => server'[s] \in {"ready", "forgotten"}
  PROVE  ClientInv'
<1>1. ClientTypeOK' /\ session \in Sessions \cup {NoSession}
  BY DEF ClientInv, ClientTypeOK
<1>2. StoredIsReady'
  BY <1>1 DEF ClientInv, StoredIsReady
<1>3. WireIsSound'
  BY DEF ClientInv, WireIsSound
<1>4. CallsUseReadySession'
  BY <1>1 DEF ClientInv, CallsUseReadySession
<1>5. AttemptsAreCounted' /\ RunsWithinAttempts'
  BY DEF ClientInv, AttemptsAreCounted, RunsWithinAttempts
<1>6. SuccessMeansRan'
  BY DEF ClientInv, SuccessMeansRan
<1> QED
  BY <1>1, <1>2, <1>3, <1>4, <1>5, <1>6 DEF ClientInv

LEMMA ExecutedIs ==
  ASSUME ClientInv, NEW m \in wire
  PROVE  /\ Executed(m) \in [Callers -> SUBSET (1..MaxAttempts)]
         /\ \A u \in Callers : /\ ran[u] \subseteq Executed(m)[u]
                                /\ \A n \in Executed(m)[u] : n <= Attempts(u)
         /\ m.attempt # 0 => Executed(m)[m.task] # {}
<1>1. /\ ran \in [Callers -> SUBSET (1..MaxAttempts)] /\ m.task \in Callers
      /\ m.attempt \in 0..MaxAttempts
      /\ \A u \in Callers : \A n \in ran[u] : n <= Attempts(u)
      /\ m.attempt <= Attempts(m.task)
  BY DEF ClientInv, ClientTypeOK, Requests, RunsWithinAttempts, WireIsSound
<1>2. CASE m.attempt = 0
  BY <1>1, <1>2 DEF Executed
<1>3. CASE m.attempt # 0
  <2>1. Executed(m) = [ran EXCEPT ![m.task] = ran[m.task] \cup {m.attempt}]
    BY <1>3 DEF Executed
  <2>2. m.attempt \in 1..MaxAttempts
    BY <1>1, <1>3, ClientAssumption
  <2>3. /\ Executed(m) \in [Callers -> SUBSET (1..MaxAttempts)]
        /\ Executed(m)[m.task] = ran[m.task] \cup {m.attempt}
        /\ \A u \in Callers : u # m.task => Executed(m)[u] = ran[u]
    BY <1>1, <2>1, <2>2
  <2> QED
    BY <1>1, <2>3
<1> QED
  BY <1>2, <1>3

LEMMA RanIsSound ==
  ASSUME ClientInv
  PROVE  /\ ran \in [Callers -> SUBSET (1..MaxAttempts)]
         /\ \A u \in Callers : \A n \in ran[u] : n <= Attempts(u)
  BY DEF ClientInv, ClientTypeOK, RunsWithinAttempts

LEMMA GreetInv ==
  ASSUME ClientInv, NEW m \in wire, NEW s \in Sessions \cup {NoSession}, Greet(m, s)
  PROVE  ClientInv'
<1>1. /\ ClientTypeOK /\ m \in Requests /\ m.kind = "initialize" /\ Offered(s)
      /\ server' = IF issues THEN [server EXCEPT ![s] = "offered"] ELSE server
      /\ UNCHANGED <<issues, ran>>
  BY DEF Greet, ClientInv, ClientTypeOK
<1>2. /\ server' \in [Sessions -> {"unknown", "offered", "ready", "forgotten"}]
      /\ issues => s \in Sessions /\ server'[s] = "offered" /\ server[s] = "unknown"
      /\ \A x \in Sessions : x # s => server'[x] = server[x]
      /\ ~issues => server' = server /\ s = NoSession
  BY <1>1 DEF Offered, ClientTypeOK
<1>3. \A x \in Sessions :
        /\ server[x] # "unknown" => server'[x] # "unknown"
        /\ server[x] \in {"ready", "forgotten"} => server'[x] \in {"ready", "forgotten"}
  BY <1>2
<1>4. CASE wire' = wire \ {m} /\ Unheard
  BY <1>1, <1>2, <1>3, <1>4, UnheardStep, RanIsSound DEF Unheard
<1>5. CASE /\ Reaches(m) /\ Goto(m.task, "confirming")
           /\ wire' = (wire \ {m}) \cup {Request(m.task, "initialized", s)}
           /\ UNCHANGED <<session, holder>>
  <2> DEFINE q == Request(m.task, "initialized", s)
  <2>1. /\ m.task \in Callers /\ call[m.task].at = "greeting"
        /\ wire' \subseteq wire \cup {q} /\ UNCHANGED <<session, holder>>
    BY <1>1, <1>5, ReachesIs
  <2>2. /\ q \in Requests /\ q.kind = "initialized" /\ q.task = m.task /\ q.with = s
        /\ q.attempt = call[m.task].attempt
    BY <1>1, <2>1, RequestIs
  <2> HIDE DEF q
  <2>3. PICK r \in CallRecords :
          /\ call' = [call EXCEPT ![m.task] = r]
          /\ r.at = "confirming" /\ r.attempt = call[m.task].attempt
    BY <1>1, <1>5, <2>1, GotoIs, PlacesAre
  <2>4. holder = m.task
    BY <1>1, <2>1 DEF ClientTypeOK
  <2>5. /\ session' \in Sessions \cup {NoSession} /\ holder' \in Callers \cup {Nobody}
        /\ issues' \in BOOLEAN /\ ran' \in [Callers -> SUBSET (1..MaxAttempts)]
        /\ wire' \subseteq Requests
        /\ r.at \in {"greeting", "confirming"} <=> holder' = m.task
    BY <1>1, <2>1, <2>2, <2>3, <2>4 DEF ClientTypeOK
  <2>6. ClientTypeOK'
    BY <1>1, <1>2, <2>1, <2>3, <2>5, TypeStep
  <2>7. call'[m.task] = r /\ \A u \in Callers : u # m.task => call'[u] = call[u]
    BY <1>1, <2>1, <2>3 DEF ClientTypeOK
  <2>8. session = NoSession /\ session' = NoSession
    BY <2>1, <2>4, ClientAssumption DEF ClientInv, StoredIsReady
  <2>9. StoredIsReady'
    BY <1>1, <2>1, <2>3, <2>7, <2>8 DEF ClientInv, StoredIsReady
  <2>10. call[m.task].attempt <= Attempts(m.task)
    BY <2>1 DEF ClientInv, AttemptsAreCounted
  <2>11. WireIsSound'
    <3> SUFFICES ASSUME NEW n \in wire'
                 PROVE  /\ n.attempt <= Attempts(n.task)
                        /\ n.kind = "initialized" =>
                             IF issues THEN n.with \in Sessions /\ server'[n.with] # "unknown"
                                       ELSE n.with = NoSession
      BY <1>1 DEF WireIsSound
    <3>1. CASE n = q
      BY <1>2, <2>2, <2>10, <3>1
    <3>2. CASE n \in wire
      BY <1>3, <3>2 DEF ClientInv, WireIsSound
    <3> QED
      BY <2>1, <3>1, <3>2
  <2>12. CallsUseReadySession'
    BY <1>1, <2>1, <2>2, <2>8 DEF ClientInv, CallsUseReadySession
  <2>13. AttemptsAreCounted'
    BY <2>3, <2>7, <2>10 DEF ClientInv, AttemptsAreCounted
  <2>14. RunsWithinAttempts' /\ SuccessMeansRan'
    BY <1>1, <2>3, <2>7 DEF ClientInv, RunsWithinAttempts, SuccessMeansRan
  <2> QED
    BY <2>6, <2>9, <2>11, <2>12, <2>13, <2>14 DEF ClientInv
<1> QED
  BY <1>4, <1>5 DEF Greet

LEMMA ConfirmInv ==
  ASSUME ClientInv, NEW m \in wire, Confirm(m)
  PROVE  ClientInv'
<1>1. /\ ClientTypeOK /\ m \in Requests /\ m.kind = "initialized"
      /\ issues => server[m.with] \in {"offered", "ready"}
      /\ server' = IF issues THEN [server EXCEPT ![m.with] = "ready"] ELSE server
      /\ wire' = wire \ {m} /\ UNCHANGED <<issues, ran>>
  BY DEF Confirm, ClientInv, ClientTypeOK
<1>2. IF issues THEN m.with \in Sessions ELSE m.with = NoSession
  BY <1>1 DEF ClientInv, WireIsSound
<1>3. /\ server' \in [Sessions -> {"unknown", "offered", "ready", "forgotten"}]
      /\ issues => server'[m.with] = "ready"
      /\ \A x \in Sessions :
           /\ server[x] # "unknown" => server'[x] # "unknown"
           /\ server[x] \in {"ready", "forgotten"} => server'[x] \in {"ready", "forgotten"}
  BY <1>1, <1>2 DEF ClientTypeOK
<1>4. CASE Unheard
  BY <1>1, <1>3, <1>4, UnheardStep, RanIsSound DEF Unheard
<1>5. CASE /\ Reaches(m) /\ session' = m.with /\ Release(m.task)
           /\ Goto(m.task, "cloning")
  <2>1. m.task \in Callers /\ call[m.task].at = "confirming"
    BY <1>1, <1>5, ReachesIs
  <2>2. holder = m.task
    BY <1>1, <2>1 DEF ClientTypeOK
  <2>3. session = NoSession /\ holder' = Nobody
    BY <1>5, <2>1, <2>2, ClientAssumption DEF ClientInv, StoredIsReady, Release
  <2>4. PICK r \in CallRecords :
          /\ call' = [call EXCEPT ![m.task] = r]
          /\ r.at = "cloning" /\ r.attempt = call[m.task].attempt
    BY <1>1, <1>5, <2>1, GotoIs, PlacesAre
  <2>5. /\ session' \in Sessions \cup {NoSession}
        /\ issues' \in BOOLEAN /\ ran' \in [Callers -> SUBSET (1..MaxAttempts)]
        /\ wire' \subseteq Requests
        /\ holder' # m.task
        /\ \A u \in Callers : u # m.task => (holder' = u <=> holder = u)
    BY <1>1, <1>2, <1>5, <2>1, <2>2, <2>3, ClientAssumption DEF ClientTypeOK
  <2>6. ClientTypeOK'
    BY <1>1, <1>3, <2>1, <2>3, <2>4, <2>5, TypeStep
  <2>7. call'[m.task] = r /\ \A u \in Callers : u # m.task => call'[u] = call[u]
    BY <1>1, <2>1, <2>4 DEF ClientTypeOK
  <2>8. IF issues THEN session' \in Sessions /\ session' # NoSession ELSE session' = NoSession
    BY <1>2, <1>5, ClientAssumption
  <2>9. StoredIsReady'
    BY <1>1, <1>3, <1>5, <2>3, <2>8, ClientAssumption DEF StoredIsReady
  <2>10. WireIsSound'
    BY <1>1, <1>3 DEF ClientInv, WireIsSound
  <2>11. CallsUseReadySession'
    BY <1>1, <2>3, <2>8 DEF ClientInv, CallsUseReadySession
  <2>12. AttemptsAreCounted'
    BY <2>1, <2>4, <2>7 DEF ClientInv, AttemptsAreCounted
  <2>13. RunsWithinAttempts' /\ SuccessMeansRan'
    BY <1>1, <2>4, <2>7 DEF ClientInv, RunsWithinAttempts, SuccessMeansRan
  <2> QED
    BY <2>6, <2>9, <2>10, <2>11, <2>12, <2>13 DEF ClientInv
<1> QED
  BY <1>4, <1>5 DEF Confirm

LEMMA RunInv ==
  ASSUME ClientInv, NEW m \in wire, Run(m)
  PROVE  ClientInv'
<1>1. /\ ClientTypeOK /\ m \in Requests /\ m.kind = "tools/call" /\ ran' = Executed(m)
      /\ wire' = wire \ {m} /\ UNCHANGED <<server, issues>>
  BY DEF Run, ClientInv, ClientTypeOK
<1>2. /\ ran' \in [Callers -> SUBSET (1..MaxAttempts)]
      /\ \A u \in Callers : /\ ran[u] \subseteq ran'[u]
                             /\ \A n \in ran'[u] : n <= Attempts(u)
      /\ m.attempt # 0 => ran'[m.task] # {}
  BY <1>1, ExecutedIs
<1>3. CASE Unheard
  <2>1. /\ server' \in [Sessions -> {"unknown", "offered", "ready", "forgotten"}]
        /\ \A x \in Sessions : server'[x] = server[x]
    BY <1>1 DEF ClientTypeOK
  <2> QED
    BY <1>1, <1>2, <1>3, <2>1, UnheardStep DEF Unheard
<1>4. CASE Reaches(m) /\ End(m.task, "succeeded") /\ UNCHANGED <<session, holder>>
  <2>1. /\ m.task \in Callers /\ call[m.task].at = "calling"
        /\ call[m.task].attempt = m.attempt
    BY <1>1, <1>4, ReachesIs
  <2>2. holder # m.task /\ m.attempt # 0
    BY <1>1, <2>1 DEF ClientTypeOK
  <2>3. PICK r \in CallRecords : /\ call' = [call EXCEPT ![m.task] = r]
                                /\ r.at = "succeeded" /\ r.attempt <= Attempts(m.task)
    BY <1>4, <2>1, EndLeaves
  <2>4. /\ session' \in Sessions \cup {NoSession} /\ holder' \in Callers \cup {Nobody}
        /\ server' \in [Sessions -> {"unknown", "offered", "ready", "forgotten"}]
        /\ issues' \in BOOLEAN /\ wire' \subseteq Requests /\ holder' = holder
    BY <1>1, <1>4 DEF ClientTypeOK
  <2>5. ClientTypeOK'
    BY <1>1, <1>2, <2>1, <2>2, <2>3, <2>4, TypeStep
  <2> QED
    BY <1>1, <1>2, <1>4, <2>1, <2>2, <2>3, <2>5, QuietStep
<1> QED
  BY <1>3, <1>4 DEF Run

LEMMA RejectInv ==
  ASSUME ClientInv, NEW m \in wire, NEW e \in Refusals, Reject(m, e)
  PROVE  ClientInv'
<1>1. /\ ClientTypeOK /\ m \in Requests /\ ran' \in {ran, Executed(m)}
      /\ wire' = wire \ {m} /\ UNCHANGED <<server, issues>>
  BY DEF Reject, ClientInv, ClientTypeOK
<1>2. /\ ran' \in [Callers -> SUBSET (1..MaxAttempts)]
      /\ \A u \in Callers : /\ ran[u] \subseteq ran'[u]
                             /\ \A n \in ran'[u] : n <= Attempts(u)
  BY <1>1, ExecutedIs, RanIsSound
<1>3. CASE Unheard
  <2>1. /\ server' \in [Sessions -> {"unknown", "offered", "ready", "forgotten"}]
        /\ \A x \in Sessions : server'[x] = server[x]
    BY <1>1 DEF ClientTypeOK
  <2> QED
    BY <1>1, <1>2, <1>3, <2>1, UnheardStep DEF Unheard
<1>4. CASE Reaches(m) /\ Failed(m.task, e) /\ UNCHANGED session
  BY <1>1, <1>2, <1>4, ReachesIs, FailedStep
<1> QED
  BY <1>3, <1>4 DEF Reject

LEMMA ForgetInv ==
  ASSUME ClientInv, NEW s \in Sessions, Forget(s)
  PROVE  ClientInv'
<1>1. /\ ClientTypeOK /\ server[s] \in {"offered", "ready"}
      /\ server' = [server EXCEPT ![s] = "forgotten"]
      /\ UNCHANGED <<session, holder, call, wire, issues, ran>>
  BY DEF Forget, ClientInv
<1>2. /\ server' \in [Sessions -> {"unknown", "offered", "ready", "forgotten"}]
      /\ \A x \in Sessions :
           /\ server[x] # "unknown" => server'[x] # "unknown"
           /\ server[x] \in {"ready", "forgotten"} => server'[x] \in {"ready", "forgotten"}
  BY <1>1 DEF ClientTypeOK
<1> QED
  BY <1>1, <1>2, UnheardStep, RanIsSound

LEMMA StutterInv ==
  ASSUME ClientInv, UNCHANGED vars
  PROVE  ClientInv'
<1>1. /\ server' \in [Sessions -> {"unknown", "offered", "ready", "forgotten"}]
      /\ server' = server
  BY DEF vars, ClientInv, ClientTypeOK
<1> QED
  BY <1>1, UnheardStep, RanIsSound DEF vars

LEMMA NextInv ==
  ASSUME ClientInv, [ClientNext]_vars
  PROVE  ClientInv'
<1>1. CASE \E t \in Callers : Ask(t) \/ Advance(t) \/ Cancel(t)
  <2>1. PICK t \in Callers : Ask(t) \/ Advance(t) \/ Cancel(t)
    BY <1>1
  <2> QED
    BY <2>1, AskInv, EnterInv, CloneInv, WakeInv, TimeoutInv, CancelInv DEF Advance
<1>2. CASE \E m \in wire : \/ \E s \in Sessions \cup {NoSession} : Greet(m, s)
                           \/ Confirm(m) \/ Run(m)
                           \/ \E e \in Refusals : Reject(m, e)
  BY <1>2, GreetInv, ConfirmInv, RunInv, RejectInv
<1>3. CASE \E s \in Sessions : Forget(s)
  BY <1>3, ForgetInv
<1>4. CASE UNCHANGED vars
  BY <1>4, StutterInv
<1> QED
  BY <1>1, <1>2, <1>3, <1>4 DEF ClientNext

LEMMA InvAlways == ClientSpec => []ClientInv
<1>1. ClientInit => ClientInv
  BY InitInv
<1>2. ClientInv /\ [ClientNext]_vars => ClientInv'
  BY NextInv
<1> QED
  BY <1>1, <1>2, PTL DEF ClientSpec

-----------------------------------------------------------------------------
(* The variables keep their types, and the mutex across a handshake has one *)
(* holder, however requests fail and whoever is dropped while it holds it.  *)
THEOREM ClientTypeCorrect == ClientSpec => []ClientTypeOK
<1>1. ClientInv => ClientTypeOK
  BY DEF ClientInv
<1> QED
  BY <1>1, InvAlways, PTL

(* Every tools/call names the one session of the client, and the server has *)
(* seen that session's handshake to its end.                                *)
THEOREM CallsOnReadySession == ClientSpec => []CallsUseReadySession
<1>1. ClientInv => CallsUseReadySession
  BY DEF ClientInv
<1> QED
  BY <1>1, InvAlways, PTL

(* For any number of attempts, no attempt past the last is ever executed.   *)
(* And no call succeeds that the server did not execute.                    *)
THEOREM AnswersAreResults == ClientSpec => []AnswersAccountForRuns
<1>1. ClientInv => AnswersAccountForRuns
  BY DEF ClientInv, AnswersAccountForRuns
<1> QED
  BY <1>1, InvAlways, PTL

LEMMA SessionStep ==
  ASSUME ClientInv, [ClientNext]_vars
  PROVE  [session # NoSession => session' = session]_vars
<1> SUFFICES ASSUME session # NoSession, session' # session
             PROVE  FALSE
  OBVIOUS
<1>1. \E m \in wire : Confirm(m) /\ Reaches(m)
  <2>1. \A t \in Callers : ~Ask(t) /\ ~Advance(t) /\ ~Cancel(t)
    BY DEF Ask, Advance, Enter, Clone, Wake, Timeout, Cancel
  <2>2. \A m \in wire : /\ \A s \in Sessions \cup {NoSession} : ~Greet(m, s)
                        /\ ~Run(m)
                        /\ \A e \in Refusals : ~Reject(m, e)
    BY DEF Greet, Run, Reject, Unheard
  <2>3. (\A s \in Sessions : ~Forget(s)) /\ ~UNCHANGED vars
    BY DEF Forget, vars
  <2>4. PICK m \in wire : Confirm(m)
    BY <2>1, <2>2, <2>3 DEF ClientNext
  <2>5. Reaches(m)
    BY <2>4 DEF Confirm, Unheard
  <2> QED
    BY <2>4, <2>5
<1>2. PICK m \in wire : Confirm(m) /\ Reaches(m)
  BY <1>1
<1>3. ClientTypeOK /\ m \in Requests /\ m.kind = "initialized"
  BY <1>2 DEF Confirm, ClientInv, ClientTypeOK
<1>4. m.task \in Callers /\ call[m.task].at = "confirming"
  BY <1>2, <1>3, ReachesIs
<1>5. holder = m.task
  BY <1>3, <1>4 DEF ClientTypeOK
<1> QED
  BY <1>4, <1>5, ClientAssumption DEF ClientInv, StoredIsReady

(* A session once stored stays for the life of the process.                *)
THEOREM SessionNeverReplaced == ClientSpec => SessionIsKept
<1>1. ClientInv /\ [ClientNext]_vars => [session # NoSession => session' = session]_vars
  BY SessionStep
<1> QED
  BY <1>1, InvAlways, PTL DEF ClientSpec, SessionIsKept

-----------------------------------------------------------------------------
(* A caller's record x in a call, and past the request of its attempt.      *)
Going(x) == x.at \notin {"idle", "succeeded"}
Sent(x) == x.at \in {"calling", "sleeping"}

(* A request was made in an attempt the caller has reached, and a tools/call *)
(* that is still on the wire was not executed.                              *)
FreshRequest(m, x, executed) ==
  /\ Going(x) => m.attempt <= x.attempt
  /\ m.kind = "tools/call" =>
       /\ m.attempt \notin executed
       /\ Going(x) /\ m.attempt = x.attempt => Sent(x)

FreshRuns(x, executed) ==
  Going(x) => \A n \in executed : n <= x.attempt /\ (n = x.attempt => Sent(x))

Fresh(w, c, r) == /\ \A m \in w : FreshRequest(m, c[m.task], r[m.task])
                  /\ \A t \in Callers : FreshRuns(c[t], r[t])

FreshInv == Fresh(wire, call, ran)

(* What a caller may do to its record y without making another request.     *)
Proceeds(y, x) ==
  \/ ~Going(x)
  \/ Going(y) /\ y.attempt = x.attempt /\ (Sent(y) => Sent(x))
  \/ Going(y) /\ y.attempt < x.attempt

LEMMA FreshMove ==
  ASSUME NEW w \in SUBSET Requests, NEW v \in SUBSET w, NEW c \in [Callers -> CallRecords],
         NEW r \in [Callers -> SUBSET (1..MaxAttempts)],
         NEW t \in Callers, NEW x \in CallRecords, Fresh(w, c, r), Proceeds(c[t], x)
  PROVE  Fresh(v, [c EXCEPT ![t] = x], r)
<1> DEFINE d == [c EXCEPT ![t] = x]
<1>1. d[t] = x /\ \A u \in Callers : u # t => d[u] = c[u]
  OBVIOUS
<1>2. c[t].attempt \in Nat /\ x.attempt \in Nat
  BY ClientAssumption DEF CallRecords
<1> HIDE DEF d
<1>3. ASSUME NEW m \in v PROVE FreshRequest(m, d[m.task], r[m.task])
  <2>1. m \in Requests /\ m.task \in Callers /\ m.attempt \in Nat
    BY ClientAssumption DEF Requests
  <2>2. FreshRequest(m, c[m.task], r[m.task])
    BY DEF Fresh
  <2>3. CASE m.task # t
    BY <1>1, <2>1, <2>2, <2>3
  <2>4. CASE m.task = t
    <3>1. FreshRequest(m, x, r[t])
      BY <1>2, <2>1, <2>2, <2>4 DEF FreshRequest, Proceeds
    <3> QED
      BY <1>1, <2>4, <3>1
  <2> QED
    BY <2>3, <2>4
<1>4. ASSUME NEW u \in Callers PROVE FreshRuns(d[u], r[u])
  <2>1. FreshRuns(c[u], r[u])
    BY DEF Fresh
  <2>2. CASE u # t
    BY <1>1, <2>1, <2>2
  <2>3. CASE u = t
    <3>1. \A n \in r[t] : n \in Nat
      BY ClientAssumption
    <3>2. FreshRuns(x, r[t])
      BY <1>2, <2>1, <2>3, <3>1 DEF FreshRuns, Proceeds
    <3> QED
      BY <1>1, <2>3, <3>2
  <2> QED
    BY <2>2, <2>3
<1> QED
  BY <1>3, <1>4 DEF Fresh, d

LEMMA FreshRequests ==
  ASSUME NEW w, NEW c, NEW r, NEW q, Fresh(w, c, r), FreshRequest(q, c[q.task], r[q.task])
  PROVE  Fresh(w \cup {q}, c, r)
  BY DEF Fresh

(* Executing a request takes it from the wire.  No other like it is there,   *)
(* since all calls use one session.                                         *)
LEMMA FreshExecuted ==
  ASSUME ClientInv, FreshInv, NEW m \in wire, m.kind = "tools/call"
  PROVE  Fresh(wire \ {m}, call, Executed(m))
<1>1. /\ ClientTypeOK /\ CallsUseReadySession /\ m \in Requests /\ m.task \in Callers
      /\ ran \in [Callers -> SUBSET (1..MaxAttempts)]
  BY DEF ClientInv, ClientTypeOK, Requests
<1>2. CASE m.attempt = 0
  BY <1>2 DEF Executed, FreshInv, Fresh
<1>3. CASE m.attempt # 0
  <2> DEFINE e == [ran EXCEPT ![m.task] = ran[m.task] \cup {m.attempt}]
  <2>1. Executed(m) = e
    BY <1>3 DEF Executed
  <2>2. /\ e[m.task] = ran[m.task] \cup {m.attempt}
        /\ \A u \in Callers : u # m.task => e[u] = ran[u]
    BY <1>1
  <2> HIDE DEF e
  <2>3. ASSUME NEW n \in wire \ {m} PROVE FreshRequest(n, call[n.task], e[n.task])
    <3>1. FreshRequest(n, call[n.task], ran[n.task]) /\ n \in Requests /\ n.task \in Callers
      BY <1>1 DEF FreshInv, Fresh, ClientTypeOK, Requests
    <3>2. CASE n.task # m.task
      BY <2>2, <3>1, <3>2
    <3>3. CASE n.task = m.task
      <4>1. n.kind = "tools/call" => n.attempt # m.attempt
        <5>1. ASSUME n.kind = "tools/call", n.attempt = m.attempt PROVE FALSE
          <6>1. n.with = session /\ m.with = session
            BY <1>1, <5>1 DEF CallsUseReadySession
          <6>2. n = m
            BY <1>1, <3>1, <3>3, <5>1, <6>1 DEF Requests
          <6> QED
            BY <6>2
        <5> QED
          BY <5>1
      <4> QED
        BY <2>2, <3>1, <3>3, <4>1 DEF FreshRequest
    <3> QED
      BY <3>2, <3>3
  <2>4. ASSUME NEW u \in Callers PROVE FreshRuns(call[u], e[u])
    <3>1. FreshRuns(call[u], ran[u])
      BY DEF FreshInv, Fresh
    <3>2. CASE u # m.task
      BY <2>2, <3>1, <3>2
    <3>3. CASE u = m.task
      <4>1. FreshRequest(m, call[u], ran[u])
        BY <3>3 DEF FreshInv, Fresh
      <4> QED
        BY <2>2, <3>1, <3>3, <4>1 DEF FreshRequest, FreshRuns
    <3> QED
      BY <3>2, <3>3
  <2> QED
    BY <2>1, <2>3, <2>4 DEF Fresh
<1> QED
  BY <1>2, <1>3

LEMMA FreshAsk ==
  ASSUME ClientInv, FreshInv, NEW t \in Callers, Ask(t)
  PROVE  FreshInv'
<1> DEFINE x == [at |-> "entering", attempt |-> 1]
<1>1. /\ ClientTypeOK /\ call' = [call EXCEPT ![t] = x] /\ ran' = [ran EXCEPT ![t] = {}]
      /\ wire' = {IF m.task = t THEN [m EXCEPT !.attempt = 0] ELSE m : m \in wire}
  BY DEF Ask, ClientInv
<1>2. /\ call'[t] = x /\ ran'[t] = {}
      /\ \A u \in Callers : u # t => call'[u] = call[u] /\ ran'[u] = ran[u]
  BY <1>1 DEF ClientTypeOK
<1>3. ASSUME NEW n \in wire' PROVE FreshRequest(n, call'[n.task], ran'[n.task])
  <2>1. PICK m \in wire : n = IF m.task = t THEN [m EXCEPT !.attempt = 0] ELSE m
    BY <1>1
  <2>2. m \in Requests /\ m.task \in Callers
    BY <1>1 DEF ClientTypeOK, Requests
  <2>3. CASE m.task = t
    <3>1. n.task = t /\ n.attempt = 0
      BY <2>1, <2>2, <2>3 DEF Requests
    <3> QED
      BY <1>2, <3>1 DEF FreshRequest
  <2>4. CASE m.task # t
    BY <1>2, <2>1, <2>2, <2>4 DEF FreshInv, Fresh
  <2> QED
    BY <2>3, <2>4
<1>4. ASSUME NEW u \in Callers PROVE FreshRuns(call'[u], ran'[u])
  BY <1>2 DEF FreshInv, Fresh, FreshRuns
<1> QED
  BY <1>3, <1>4 DEF FreshInv, Fresh

LEMMA GotoKeeps ==
  ASSUME ClientInv, FreshInv, NEW t \in Callers, NEW place \in Places, Goto(t, place),
         Going(call[t]), place \notin {"idle", "succeeded"},
         Sent(call[t]) => place \in {"calling", "sleeping"}
  PROVE  /\ Fresh(wire, call', ran)
         /\ call' = [call EXCEPT ![t] = [call[t] EXCEPT !.at = place]]
         /\ call'[t].at = place /\ call'[t].attempt = call[t].attempt
<1> DEFINE x == [call[t] EXCEPT !.at = place]
<1>1. /\ call \in [Callers -> CallRecords] /\ wire \in SUBSET Requests
      /\ ran \in [Callers -> SUBSET (1..MaxAttempts)]
  BY DEF ClientInv, ClientTypeOK, CallRecords
<1>2. call' = [call EXCEPT ![t] = x]
  BY DEF Goto
<1>3. x \in CallRecords /\ x.at = place /\ x.attempt = call[t].attempt
  BY <1>1 DEF CallRecords
<1>4. call'[t] = x
  BY <1>1, <1>2
<1> HIDE DEF x
<1>5. Proceeds(call[t], x)
  BY <1>3 DEF Proceeds, Going, Sent
<1>6. Fresh(wire, [call EXCEPT ![t] = x], ran)
  BY <1>1, <1>3, <1>5, FreshMove DEF FreshInv
<1> QED
  BY <1>2, <1>3, <1>4, <1>6 DEF x

(* Every way an attempt fails or is dropped leaves the wire and what was     *)
(* executed as they are, or takes from the wire what was executed.          *)
LEMMA LeftKeeps ==
  ASSUME ClientInv, NEW t \in Callers, NEW w \in SUBSET Requests, NEW v \in SUBSET w,
         NEW r \in [Callers -> SUBSET (1..MaxAttempts)], Fresh(w, call, r),
         \/ \E e : Failed(t, e) /\ Going(call[t])
         \/ \E place \in {"idle", "succeeded"} : End(t, place)
  PROVE  Fresh(v, call', r)
<1>1. call \in [Callers -> CallRecords] /\ call[t] \in CallRecords
  BY DEF ClientInv, ClientTypeOK, CallRecords
<1>2. CASE Goto(t, "sleeping") /\ Going(call[t])
  <2> DEFINE x == [call[t] EXCEPT !.at = "sleeping"]
  <2>1. call' = [call EXCEPT ![t] = x]
    BY <1>2 DEF Goto
  <2>2. x \in CallRecords /\ x.at = "sleeping" /\ x.attempt = call[t].attempt
    BY <1>1, PlacesAre DEF CallRecords
  <2> HIDE DEF x
  <2>3. Proceeds(call[t], x)
    BY <1>2, <2>2 DEF Proceeds, Going, Sent
  <2> QED
    BY <1>1, <2>1, <2>2, <2>3, FreshMove
<1>3. CASE \E place \in {"idle", "succeeded"} : End(t, place)
  <2>1. PICK place \in {"idle", "succeeded"} : End(t, place)
    BY <1>3
  <2>2. PICK x \in CallRecords : call' = [call EXCEPT ![t] = x] /\ x.at = place
    BY <2>1, EndLeaves
  <2>3. Proceeds(call[t], x)
    BY <2>2 DEF Proceeds, Going
  <2> QED
    BY <1>1, <2>2, <2>3, FreshMove
<1> QED
  BY <1>2, <1>3 DEF Failed

LEMMA FreshTyped ==
  ASSUME ClientInv
  PROVE  /\ call \in [Callers -> CallRecords] /\ wire \in SUBSET Requests
         /\ ran \in [Callers -> SUBSET (1..MaxAttempts)]
         /\ \A t \in Callers : call[t].attempt \in Nat
         /\ \A m \in wire : m.task \in Callers
  BY ClientAssumption DEF ClientInv, ClientTypeOK, CallRecords, Requests

LEMMA FreshLess ==
  ASSUME NEW w, NEW c, NEW r, NEW v \in SUBSET w, Fresh(w, c, r)
  PROVE  Fresh(v, c, r)
  BY DEF Fresh

LEMMA FreshCaller ==
  ASSUME ClientInv, FreshInv, NEW t \in Callers, Advance(t) \/ Cancel(t)
  PROVE  FreshInv'
<1>1. CASE Enter(t)
  <2>1. call[t].at = "entering" /\ ran' = ran /\ Going(call[t]) /\ ~Sent(call[t])
    BY <1>1 DEF Enter, Going, Sent
  <2>2. CASE Goto(t, "cloning") /\ wire' = wire
    BY <2>1, <2>2, GotoKeeps, PlacesAre DEF FreshInv
  <2>3. CASE Goto(t, "greeting") /\ wire' = wire \cup {Request(t, "initialize", NoSession)}
    <3> DEFINE q == Request(t, "initialize", NoSession)
    <3>1. Fresh(wire, call', ran) /\ call'[t].attempt = call[t].attempt
      BY <2>1, <2>3, GotoKeeps, PlacesAre
    <3>2. q.task = t /\ q.kind = "initialize" /\ q.attempt = call[t].attempt
      BY DEF Request
    <3> HIDE DEF q
    <3>3. FreshRequest(q, call'[q.task], ran[q.task])
      BY <3>1, <3>2, FreshTyped DEF FreshRequest
    <3>4. Fresh(wire \cup {q}, call', ran)
      BY <3>1, <3>3, FreshRequests
    <3> QED
      BY <2>1, <2>3, <3>4 DEF FreshInv, q
  <2> QED
    BY <1>1, <2>2, <2>3 DEF Enter
<1>2. CASE Clone(t)
  <2> DEFINE q == Request(t, "tools/call", session)
  <2>1. /\ call[t].at = "cloning" /\ ran' = ran /\ Going(call[t]) /\ ~Sent(call[t])
        /\ Goto(t, "calling") /\ wire' = wire \cup {q}
    BY <1>2 DEF Clone, Going, Sent
  <2>2. /\ Fresh(wire, call', ran) /\ call'[t].attempt = call[t].attempt
        /\ call'[t].at = "calling"
    BY <2>1, GotoKeeps, PlacesAre
  <2>3. q.task = t /\ q.attempt = call[t].attempt
    BY DEF Request
  <2> HIDE DEF q
  <2>4. call[t].attempt \notin ran[t]
    BY <2>1 DEF FreshInv, Fresh, FreshRuns
  <2>5. FreshRequest(q, call'[q.task], ran[q.task])
    BY <2>2, <2>3, <2>4, FreshTyped DEF FreshRequest, Sent
  <2>6. Fresh(wire \cup {q}, call', ran)
    BY <2>2, <2>5, FreshRequests
  <2> QED
    BY <2>1, <2>6 DEF FreshInv
<1>3. CASE Wake(t)
  <2> DEFINE x == [call[t] EXCEPT !.at = "entering", !.attempt = call[t].attempt + 1]
  <2>1. /\ call[t].at = "sleeping" /\ ran' = ran /\ wire' = wire
        /\ call' = [call EXCEPT ![t] = x]
    BY <1>3 DEF Wake
  <2>2. call[t].attempt < Attempts(t) /\ call[t] \in CallRecords
    BY <2>1, FreshTyped DEF ClientInv, AttemptsAreCounted
  <2>3. call[t].attempt + 1 \in 1..MaxAttempts
    BY <2>2, AttemptsRange, ClientAssumption DEF CallRecords
  <2>4. x \in CallRecords /\ x.at = "entering" /\ x.attempt = call[t].attempt + 1
    BY <2>2, <2>3, PlacesAre DEF CallRecords
  <2> HIDE DEF x
  <2>5. Proceeds(call[t], x)
    BY <2>1, <2>4, FreshTyped DEF Proceeds, Going
  <2> QED
    BY <2>1, <2>4, <2>5, FreshTyped, FreshMove DEF FreshInv
<1>4. CASE Timeout(t)
  <2>1. Failed(t, "transport") /\ Going(call[t]) /\ UNCHANGED <<wire, ran>>
    BY <1>4, WaitingIs DEF Timeout, Going
  <2> QED
    BY <2>1, FreshTyped, LeftKeeps DEF FreshInv
<1>5. CASE Cancel(t)
  BY <1>5, FreshTyped, LeftKeeps DEF FreshInv, Cancel
<1> QED
  BY <1>1, <1>2, <1>3, <1>4, <1>5 DEF Advance

LEMMA FreshServer ==
  ASSUME ClientInv, FreshInv, NEW m \in wire,
         \/ \E s \in Sessions \cup {NoSession} : Greet(m, s)
         \/ Confirm(m) \/ Run(m)
         \/ \E e \in Refusals : Reject(m, e)
  PROVE  FreshInv'
<1>1. m \in Requests /\ m.task \in Callers
  BY FreshTyped
<1>2. ASSUME NEW s \in Sessions \cup {NoSession}, Greet(m, s) PROVE FreshInv'
  <2>1. ran' = ran /\ m.kind = "initialize"
    BY <1>2 DEF Greet
  <2>2. CASE wire' = wire \ {m} /\ Unheard
    BY <2>1, <2>2, FreshLess DEF FreshInv, Unheard
  <2>3. CASE /\ Reaches(m) /\ Goto(m.task, "confirming")
             /\ wire' = (wire \ {m}) \cup {Request(m.task, "initialized", s)}
    <3> DEFINE q == Request(m.task, "initialized", s)
    <3>1. Going(call[m.task]) /\ ~Sent(call[m.task])
      BY <1>1, <2>1, <2>3, ReachesIs DEF Going, Sent
    <3>2. Fresh(wire, call', ran) /\ call'[m.task].attempt = call[m.task].attempt
      BY <1>1, <2>3, <3>1, GotoKeeps, PlacesAre
    <3>3. q.task = m.task /\ q.kind = "initialized" /\ q.attempt = call[m.task].attempt
      BY DEF Request
    <3> HIDE DEF q
    <3>4. FreshRequest(q, call'[q.task], ran[q.task])
      BY <1>1, <3>2, <3>3, FreshTyped DEF FreshRequest
    <3>5. Fresh(wire \ {m}, call', ran)
      BY <3>2, FreshLess
    <3>6. Fresh((wire \ {m}) \cup {q}, call', ran)
      BY <3>4, <3>5, FreshRequests
    <3> QED
      BY <2>1, <2>3, <3>6 DEF FreshInv, q
  <2> QED
    BY <1>2, <2>2, <2>3 DEF Greet
<1>3. ASSUME Confirm(m) PROVE FreshInv'
  <2>1. ran' = ran /\ m.kind = "initialized" /\ wire' = wire \ {m}
    BY <1>3 DEF Confirm
  <2>2. CASE Unheard
    BY <2>1, <2>2, FreshLess DEF FreshInv, Unheard
  <2>3. CASE Reaches(m) /\ Goto(m.task, "cloning")
    <3>1. Going(call[m.task]) /\ ~Sent(call[m.task])
      BY <1>1, <2>1, <2>3, ReachesIs DEF Going, Sent
    <3>2. Fresh(wire, call', ran)
      BY <1>1, <2>3, <3>1, GotoKeeps, PlacesAre
    <3> QED
      BY <2>1, <3>2, FreshLess DEF FreshInv
  <2> QED
    BY <1>3, <2>2, <2>3 DEF Confirm
<1>4. ASSUME Run(m) \/ \E e \in Refusals : Reject(m, e) PROVE FreshInv'
  <2>1. /\ wire' = wire \ {m} /\ ran' \in {ran, Executed(m)}
        /\ ran' # ran => m.kind = "tools/call"
    BY <1>4 DEF Run, Reject
  <2>2. Fresh(wire \ {m}, call, ran')
    BY <2>1, FreshExecuted, FreshLess DEF FreshInv
  <2>3. ran' \in [Callers -> SUBSET (1..MaxAttempts)] /\ wire \ {m} \in SUBSET Requests
    BY <2>1, ExecutedIs, FreshTyped
  <2>4. CASE Unheard
    BY <2>1, <2>2, <2>4 DEF FreshInv, Unheard
  <2>5. CASE Reaches(m) /\ (End(m.task, "succeeded") \/ \E e \in Refusals : Failed(m.task, e))
    <3>1. Going(call[m.task])
      BY <1>1, <2>5, ReachesIs DEF Going
    <3>2. Fresh(wire \ {m}, call', ran')
      BY <1>1, <2>2, <2>3, <2>5, <3>1, LeftKeeps
    <3> QED
      BY <2>1, <3>2 DEF FreshInv
  <2> QED
    BY <1>4, <2>4, <2>5 DEF Run, Reject
<1> QED
  BY <1>2, <1>3, <1>4

LEMMA FreshNext ==
  ASSUME ClientInv, FreshInv, [ClientNext]_vars
  PROVE  FreshInv'
<1>1. CASE \E t \in Callers : Ask(t) \/ Advance(t) \/ Cancel(t)
  BY <1>1, FreshAsk, FreshCaller
<1>2. CASE \E m \in wire : \/ \E s \in Sessions \cup {NoSession} : Greet(m, s)
                           \/ Confirm(m) \/ Run(m)
                           \/ \E e \in Refusals : Reject(m, e)
  BY <1>2, FreshServer
<1>3. CASE (\E s \in Sessions : Forget(s)) \/ UNCHANGED vars
  BY <1>3 DEF Forget, vars, FreshInv
<1> QED
  BY <1>1, <1>2, <1>3 DEF ClientNext

LEMMA FreshAlways == ClientSpec => [](ClientInv /\ FreshInv)
<1>1. ClientInit => FreshInv
  BY DEF ClientInit, FreshInv, Fresh, FreshRuns, Going
<1>2. ClientInv /\ FreshInv /\ [ClientNext]_vars => FreshInv'
  BY FreshNext
<1> QED
  BY <1>1, <1>2, InvAlways, PTL DEF ClientSpec

-----------------------------------------------------------------------------
(* Every step of the client is a step of ToolCalls, or none.                *)
View(x) == IF x.at = "idle" THEN "none"
           ELSE IF x.at = "succeeded" THEN "answered" ELSE "asked"

CallSteps == [Calls!CallsNext]_(Calls!callVars)

LEMMA StatusIs ==
  ASSUME NEW t \in Callers
  PROVE  /\ Status[t] = View(call[t]) /\ Tries[t] = call[t].attempt
         /\ Status[t] = "asked" <=> Going(call[t])
  BY DEF Status, Tries, View, Going

LEMMA StatusMoves ==
  ASSUME call \in [Callers -> CallRecords], NEW t \in Callers, NEW x,
         call' = [call EXCEPT ![t] = x]
  PROVE  /\ Status' = [Status EXCEPT ![t] = View(x)]
         /\ Tries' = [Tries EXCEPT ![t] = x.attempt]
<1>1. call'[t] = x /\ \A u \in Callers : u # t => call'[u] = call[u]
  OBVIOUS
<1>2. Status' = [u \in Callers |-> View(call'[u])] /\ Status = [u \in Callers |-> View(call[u])]
  BY DEF Status, View
<1>3. Tries' = [u \in Callers |-> call'[u].attempt] /\ Tries = [u \in Callers |-> call[u].attempt]
  BY DEF Tries
<1>4. Status' = [Status EXCEPT ![t] = View(x)]
  BY <1>1, <1>2
<1>5. Tries' = [Tries EXCEPT ![t] = x.attempt]
  BY <1>1, <1>3
<1> QED
  BY <1>4, <1>5

LEMMA StatusStays ==
  ASSUME call \in [Callers -> CallRecords], NEW t \in Callers, NEW x,
         call' = [call EXCEPT ![t] = x], View(x) = View(call[t]), x.attempt = call[t].attempt
  PROVE  Status' = Status /\ Tries' = Tries
<1>1. /\ Status' = [Status EXCEPT ![t] = View(x)]
      /\ Tries' = [Tries EXCEPT ![t] = x.attempt]
  BY StatusMoves
<1>2. Status = [u \in Callers |-> Status[u]] /\ Tries = [u \in Callers |-> Tries[u]]
  BY DEF Status, Tries
<1>3. Status[t] = View(x) /\ Tries[t] = x.attempt
  BY StatusIs
<1> QED
  BY <1>1, <1>2, <1>3

LEMMA GotoStays ==
  ASSUME ClientInv, NEW t \in Callers, NEW place, Goto(t, place), Going(call[t]),
         place \notin {"idle", "succeeded"}
  PROVE  Status' = Status /\ Tries' = Tries
<1> DEFINE x == [call[t] EXCEPT !.at = place]
<1>1. call' = [call EXCEPT ![t] = x] /\ call[t] \in CallRecords
  BY FreshTyped DEF Goto
<1>2. x.at = place /\ x.attempt = call[t].attempt
  BY <1>1 DEF CallRecords
<1> HIDE DEF x
<1>3. View(x) = View(call[t])
  BY <1>2 DEF View, Going
<1> QED
  BY <1>1, <1>2, <1>3, FreshTyped, StatusStays

(* An attempt that ends gives up its call, unless it is to be repeated.     *)
LEMMA EndGivesUp ==
  ASSUME ClientInv, NEW t \in Callers, Going(call[t]), NEW place \in {"idle", "succeeded"},
         End(t, place), UNCHANGED session
  PROVE  Calls!Over(t, IF place = "idle" THEN "none" ELSE "answered")
<1> DEFINE x == [at |-> place, attempt |-> 1]
<1>1. call' = [call EXCEPT ![t] = x] /\ x.attempt = 1
  BY DEF End
<1>2. View(x) = IF place = "idle" THEN "none" ELSE "answered"
  BY DEF View
<1> HIDE DEF x
<1>3. /\ Status' = [Status EXCEPT ![t] = View(x)]
      /\ Tries' = [Tries EXCEPT ![t] = 1]
  <2>1. call \in [Callers -> CallRecords]
    BY FreshTyped
  <2>2. /\ Status' = [Status EXCEPT ![t] = View(x)]
        /\ Tries' = [Tries EXCEPT ![t] = x.attempt]
    BY <1>1, <2>1, StatusMoves
  <2> QED
    BY <1>1, <2>2
<1> QED
  BY <1>2, <1>3, StatusIs DEF Calls!Over

LEMMA FailureGivesUp ==
  ASSUME ClientInv, NEW t \in Callers, Going(call[t]), NEW e, Failed(t, e), UNCHANGED session
  PROVE  Calls!Over(t, "none") \/ (Status' = Status /\ Tries' = Tries)
<1>1. CASE Goto(t, "sleeping")
  BY <1>1, GotoStays
<1>2. CASE End(t, "idle")
  BY <1>2, EndGivesUp
<1> QED
  BY <1>1, <1>2 DEF Failed

(* What is executed is an attempt that was made and not executed before.    *)
LEMMA ExecutionIsNew ==
  ASSUME ClientInv, FreshInv, NEW m \in wire, m.kind = "tools/call", m.attempt # 0
  PROVE  /\ m.attempt \in Calls!Made(m.task) \ ran[m.task]
         /\ m.attempt \in 1..Attempts(m.task)
         /\ Executed(m) = [ran EXCEPT ![m.task] = ran[m.task] \cup {m.attempt}]
<1>1. /\ m \in Requests /\ m.task \in Callers /\ m.attempt \in 1..MaxAttempts
      /\ m.attempt <= Attempts(m.task) /\ FreshRequest(m, call[m.task], ran[m.task])
  BY FreshTyped, ClientAssumption DEF ClientInv, WireIsSound, Requests, FreshInv, Fresh
<1>2. m.attempt \in 1..Attempts(m.task) /\ m.attempt \notin ran[m.task]
  BY <1>1, AttemptsRange DEF FreshRequest
<1>3. Executed(m) = [ran EXCEPT ![m.task] = ran[m.task] \cup {m.attempt}]
  BY DEF Executed
<1>4. m.attempt \in Calls!Made(m.task)
  <2>1. [t \in Callers |-> Attempts(t)][m.task] = Attempts(m.task)
    BY <1>1
  <2>2. CASE Status[m.task] = "asked"
    <3>1. m.attempt <= Tries[m.task] /\ Tries[m.task] \in Nat
      BY <1>1, <2>2, StatusIs, FreshTyped DEF FreshRequest
    <3> QED
      BY <1>1, <2>2, <3>1 DEF Calls!Made
  <2>3. CASE Status[m.task] # "asked"
    BY <1>2, <2>1, <2>3 DEF Calls!Made
  <2> QED
    BY <2>2, <2>3
<1> QED
  BY <1>2, <1>3, <1>4

LEMMA CallerRefines ==
  ASSUME ClientInv, FreshInv, NEW t \in Callers, Ask(t) \/ Advance(t) \/ Cancel(t)
  PROVE  CallSteps
<1>1. CASE Ask(t)
  <2> DEFINE x == [at |-> "entering", attempt |-> 1]
  <2>1. /\ call' = [call EXCEPT ![t] = x] /\ x.attempt = 1 /\ View(x) = "asked"
        /\ ~Going(call[t]) /\ session' = session /\ ran' = [ran EXCEPT ![t] = {}]
    BY <1>1 DEF Ask, InCall, Going, View
  <2> HIDE DEF x
  <2>2. /\ Status' = [Status EXCEPT ![t] = "asked"]
        /\ Tries' = [Tries EXCEPT ![t] = 1]
    <3>1. call \in [Callers -> CallRecords]
      BY FreshTyped
    <3>2. /\ Status' = [Status EXCEPT ![t] = View(x)]
          /\ Tries' = [Tries EXCEPT ![t] = x.attempt]
      BY <2>1, <3>1, StatusMoves
    <3> QED
      BY <2>1, <3>2
  <2>3. Calls!Begin(t)
    BY <2>1, <2>2, StatusIs DEF Calls!Begin
  <2> QED
    BY <2>3 DEF CallSteps, Calls!CallsNext
<1>2. CASE Enter(t) \/ Clone(t)
  <2>1. /\ Going(call[t]) /\ ran' = ran /\ session' = session
        /\ \E place \in {"greeting", "cloning", "calling"} : Goto(t, place)
    BY <1>2 DEF Enter, Clone, Going
  <2>2. Status' = Status /\ Tries' = Tries
    BY <2>1, GotoStays
  <2> QED
    BY <2>1, <2>2 DEF CallSteps, Calls!callVars
<1>3. CASE Wake(t)
  <2> DEFINE x == [call[t] EXCEPT !.at = "entering", !.attempt = call[t].attempt + 1]
  <2>1. /\ call[t].at = "sleeping" /\ ran' = ran /\ session' = session
        /\ call' = [call EXCEPT ![t] = x] /\ call[t] \in CallRecords
    BY <1>3, FreshTyped DEF Wake
  <2>2. x.at = "entering" /\ x.attempt = call[t].attempt + 1
    BY <2>1 DEF CallRecords
  <2> HIDE DEF x
  <2>3. call[t].attempt < Attempts(t)
    BY <2>1 DEF ClientInv, AttemptsAreCounted
  <2>4. View(x) = "asked" /\ Status[t] = "asked"
    BY <2>1, <2>2, StatusIs DEF View
  <2>5. /\ Status' = [Status EXCEPT ![t] = "asked"]
        /\ Tries' = [Tries EXCEPT ![t] = Tries[t] + 1]
    <3>1. /\ Status' = [Status EXCEPT ![t] = View(x)]
          /\ Tries' = [Tries EXCEPT ![t] = x.attempt]
      BY <2>1, FreshTyped, StatusMoves
    <3> QED
      BY <2>2, <2>4, <3>1, StatusIs
  <2>6. Status' = Status
    BY <2>4, <2>5 DEF Status
  <2>7. [u \in Callers |-> Attempts(u)][t] = Attempts(t)
    OBVIOUS
  <2>8. Calls!TryAgain(t)
    BY <2>1, <2>3, <2>4, <2>5, <2>6, <2>7, StatusIs DEF Calls!TryAgain
  <2> QED
    BY <2>8 DEF CallSteps, Calls!CallsNext
<1>4. CASE Timeout(t) \/ Cancel(t)
  <2>1. Going(call[t]) /\ ran' = ran /\ session' = session
    BY <1>4, WaitingIs DEF Timeout, Cancel, InCall, Going
  <2>2. Calls!Over(t, "none") \/ (Status' = Status /\ Tries' = Tries)
    BY <1>4, <2>1, FailureGivesUp, EndGivesUp DEF Timeout, Cancel
  <2>3. CASE Calls!Over(t, "none")
    BY <2>1, <2>3 DEF CallSteps, Calls!CallsNext, Calls!GiveUp
  <2>4. CASE Status' = Status /\ Tries' = Tries
    BY <2>1, <2>4 DEF CallSteps, Calls!callVars
  <2> QED
    BY <2>2, <2>3, <2>4
<1> QED
  BY <1>1, <1>2, <1>3, <1>4 DEF Advance

(* A request served: executed or not, noticed or not.                       *)
LEMMA ServedRefines ==
  ASSUME ClientInv, FreshInv, NEW m \in wire, Run(m) \/ \E e \in Refusals : Reject(m, e)
  PROVE  CallSteps
<1>1. /\ m \in Requests /\ m.task \in Callers /\ session' = session
      /\ ran' \in {ran, Executed(m)}
      /\ ran' # ran => m.kind = "tools/call"
  BY FreshTyped DEF Run, Reject, Unheard
<1>2. ASSUME Calls!Executes(m.task, m.attempt), m.attempt \in 1..Attempts(m.task),
             Status' = Status, Tries' = Tries
      PROVE  CallSteps
  <2>1. [t \in Callers |-> Attempts(t)][m.task] = Attempts(m.task)
    BY <1>1
  <2>2. Calls!Execute(m.task, m.attempt)
    BY <1>1, <1>2 DEF Calls!Execute
  <2> QED
    BY <1>1, <1>2, <2>1, <2>2 DEF CallSteps, Calls!CallsNext
<1>3. ran' = ran \/ (Calls!Executes(m.task, m.attempt) /\ m.attempt \in 1..Attempts(m.task))
  <2>1. CASE ran' # ran
    <3>1. m.attempt # 0 /\ ran' = Executed(m) /\ m.kind = "tools/call"
      BY <1>1, <2>1 DEF Executed
    <3>2. /\ m.attempt \in Calls!Made(m.task) \ ran[m.task]
          /\ m.attempt \in 1..Attempts(m.task)
          /\ ran' = [ran EXCEPT ![m.task] = ran[m.task] \cup {m.attempt}]
      BY <3>1, ExecutionIsNew
    <3> QED
      BY <3>2 DEF Calls!Executes
  <2> QED
    BY <2>1
<1>4. CASE Status' = Status /\ Tries' = Tries
  BY <1>1, <1>2, <1>3, <1>4 DEF CallSteps, Calls!callVars
<1>5. CASE Unheard
  <2>1. Status' = Status /\ Tries' = Tries
    BY <1>5 DEF Unheard, Status, Tries
  <2> QED
    BY <1>4, <2>1
<1>6. CASE Reaches(m) /\ ~Unheard
  <2>1. Going(call[m.task]) /\ m.attempt = Tries[m.task] /\ m.attempt # 0
    BY <1>1, <1>6, ReachesIs, StatusIs, FreshTyped DEF Going, CallRecords
  <2>2. CASE Run(m)
    <3>1. Calls!Over(m.task, "answered")
      BY <1>1, <1>6, <2>1, <2>2, EndGivesUp DEF Run
    <3>2. Calls!Executes(m.task, Tries[m.task])
      BY <2>1, <2>2, ExecutionIsNew DEF Run, Calls!Executes
    <3> QED
      BY <1>1, <3>1, <3>2 DEF CallSteps, Calls!CallsNext, Calls!Answer
  <2>3. CASE \E e \in Refusals : Reject(m, e)
    <3>1. Calls!Over(m.task, "none") \/ (Status' = Status /\ Tries' = Tries)
      BY <1>1, <1>6, <2>1, <2>3, FailureGivesUp DEF Reject
    <3>2. CASE Calls!Over(m.task, "none")
      BY <1>1, <1>3, <2>1, <3>2 DEF CallSteps, Calls!CallsNext, Calls!GiveUp
    <3> QED
      BY <1>4, <3>1, <3>2
  <2> QED
    BY <2>2, <2>3
<1> QED
  BY <1>5, <1>6 DEF Run, Reject

LEMMA HandshakeRefines ==
  ASSUME ClientInv, NEW m \in wire,
         (\E s \in Sessions \cup {NoSession} : Greet(m, s)) \/ Confirm(m)
  PROVE  CallSteps
<1>1. m \in Requests /\ m.task \in Callers /\ ran' = ran
  BY FreshTyped DEF Greet, Confirm
<1>2. CASE Unheard
  BY <1>1, <1>2 DEF Unheard, CallSteps, Calls!callVars, Status, Tries
<1>3. CASE Reaches(m) /\ ~Unheard
  <2>1. Going(call[m.task])
    BY <1>1, <1>3, ReachesIs DEF Going
  <2>2. \E place \in {"confirming", "cloning"} : Goto(m.task, place)
    BY <1>3 DEF Greet, Confirm, Unheard
  <2>3. Status' = Status /\ Tries' = Tries
    BY <1>1, <2>1, <2>2, GotoStays
  <2>4. CASE session' = session
    BY <1>1, <2>3, <2>4 DEF CallSteps, Calls!callVars
  <2>5. CASE session' # session
    <3>1. Confirm(m) /\ m.kind = "initialized" /\ session' = m.with
      BY <1>3, <2>5 DEF Greet, Confirm, Unheard
    <3>2. call[m.task].at = "confirming"
      BY <1>1, <1>3, <3>1, ReachesIs
    <3>3. holder = m.task /\ m.task # Nobody
      BY <1>1, <3>2, ClientAssumption DEF ClientInv, ClientTypeOK
    <3>4. session = NoSession
      BY <3>3 DEF ClientInv, StoredIsReady
    <3>5. session' \in Sessions
      BY <2>5, <3>1, <3>4 DEF ClientInv, WireIsSound
    <3>6. Calls!Connect(session')
      BY <1>1, <2>3, <3>4 DEF Calls!Connect
    <3> QED
      BY <3>5, <3>6 DEF CallSteps, Calls!CallsNext
  <2> QED
    BY <2>4, <2>5
<1> QED
  BY <1>2, <1>3 DEF Greet, Confirm, Unheard

LEMMA NextRefines ==
  ASSUME ClientInv, FreshInv, [ClientNext]_vars
  PROVE  CallSteps
<1>1. CASE \E t \in Callers : Ask(t) \/ Advance(t) \/ Cancel(t)
  BY <1>1, CallerRefines
<1>2. CASE \E m \in wire : \/ \E s \in Sessions \cup {NoSession} : Greet(m, s)
                           \/ Confirm(m) \/ Run(m)
                           \/ \E e \in Refusals : Reject(m, e)
  BY <1>2, ServedRefines, HandshakeRefines
<1>3. CASE (\E s \in Sessions : Forget(s)) \/ UNCHANGED vars
  BY <1>3 DEF Forget, vars, CallSteps, Calls!callVars, Status, Tries
<1> QED
  BY <1>1, <1>2, <1>3 DEF ClientNext

(* retry_mcp and call_tool, over the handshake, the mutex, lost answers,     *)
(* timeouts and dropped handlers, are the calls ToolCalls promises: each     *)
(* attempt is executed at most once and only after it was made, a result is  *)
(* of the attempt under way, and one session serves all.                    *)
THEOREM ClientImplementsToolCalls == ClientSpec => ImplementsToolCalls
<1>1. ClientInit => Calls!CallsInit
  BY DEF ClientInit, Calls!CallsInit, Status, Tries
<1>2. ClientInv /\ FreshInv /\ [ClientNext]_vars => [Calls!CallsNext]_(Calls!callVars)
  BY NextRefines DEF CallSteps
<1> QED
  BY <1>1, <1>2, FreshAlways, PTL DEF ClientSpec, ImplementsToolCalls, Calls!CallsSpec

-----------------------------------------------------------------------------
(* Steps a call has left at most, of its caller and of the server together. *)
Rank(place) ==
  CASE place = "entering" -> 6
    [] place = "greeting" -> 5
    [] place = "confirming" -> 4
    [] place = "cloning" -> 3
    [] place = "calling" -> 2
    [] place = "sleeping" -> 1
    [] OTHER -> 0
StepsLeft(x, allowed) == IF Going(x) THEN 6 * (allowed - x.attempt) + Rank(x.at) ELSE 0

CallRunsDown ==
  [][\A t \in Callers : InCall(t) =>
       \/ call'[t] = call[t]
       \/ StepsLeft(call'[t], Attempts(t)) < StepsLeft(call[t], Attempts(t))]_vars

LEMMA StepsLeftIs ==
  ASSUME NEW t \in Callers, NEW x \in CallRecords, x.attempt <= Attempts(t), Going(x)
  PROVE  /\ StepsLeft(x, Attempts(t)) = 6 * (Attempts(t) - x.attempt) + Rank(x.at)
         /\ Rank(x.at) \in 1..6
         /\ StepsLeft(x, Attempts(t)) \in 1..(6 * Attempts(t))
<1>1. Rank(x.at) \in 1..6
  BY PlacesAre DEF CallRecords, Going, Rank
<1>2. x.attempt \in Nat /\ x.attempt >= 1 /\ Attempts(t) \in Nat
  BY AttemptsRange, ClientAssumption DEF CallRecords
<1>3. StepsLeft(x, Attempts(t)) = 6 * (Attempts(t) - x.attempt) + Rank(x.at)
  BY DEF StepsLeft
<1> QED
  BY <1>1, <1>2, <1>3, ClientAssumption

(* A caller's record y turns into x.                                        *)
LEMMA StepLeaves ==
  ASSUME ClientInv, NEW t \in Callers, Going(call[t]), NEW x, call' = [call EXCEPT ![t] = x],
         \/ ~Going(x)
         \/ x.attempt = call[t].attempt /\ Rank(x.at) \in 0..(Rank(call[t].at) - 1)
         \/ x.attempt = call[t].attempt + 1 /\ Rank(x.at) \in 0..(Rank(call[t].at) + 5)
  PROVE  \A u \in Callers : InCall(u) =>
           \/ call'[u] = call[u]
           \/ StepsLeft(call'[u], Attempts(u)) < StepsLeft(call[u], Attempts(u))
<1>1. call \in [Callers -> CallRecords] /\ call[t] \in CallRecords
  BY FreshTyped
<1>2. call'[t] = x /\ \A u \in Callers : u # t => call'[u] = call[u]
  BY <1>1
<1>3. /\ call[t].attempt \in Nat /\ Attempts(t) \in Nat /\ call[t].attempt <= Attempts(t)
  BY <1>1, AttemptsRange, FreshTyped, ClientAssumption DEF ClientInv, AttemptsAreCounted
<1>4. /\ StepsLeft(call[t], Attempts(t)) = 6 * (Attempts(t) - call[t].attempt) + Rank(call[t].at)
      /\ Rank(call[t].at) \in 1..6 /\ StepsLeft(call[t], Attempts(t)) \in Nat \ {0}
  BY <1>1, <1>3, StepsLeftIs, ClientAssumption
<1>5. StepsLeft(x, Attempts(t)) < StepsLeft(call[t], Attempts(t))
  <2>1. CASE ~Going(x)
    BY <1>4, <2>1 DEF StepsLeft
  <2>2. CASE Going(x)
    <3>1. StepsLeft(x, Attempts(t)) = 6 * (Attempts(t) - x.attempt) + Rank(x.at)
      BY <2>2 DEF StepsLeft
    <3> QED
      BY <1>3, <1>4, <2>2, <3>1
  <2> QED
    BY <2>1, <2>2
<1> QED
  BY <1>2, <1>5

LEMMA GotoRunsDown ==
  ASSUME ClientInv, NEW t \in Callers, Going(call[t]), NEW place, Goto(t, place),
         Rank(place) \in 0..(Rank(call[t].at) - 1)
  PROVE  \A u \in Callers : InCall(u) =>
           \/ call'[u] = call[u]
           \/ StepsLeft(call'[u], Attempts(u)) < StepsLeft(call[u], Attempts(u))
<1> DEFINE x == [call[t] EXCEPT !.at = place]
<1>1. call' = [call EXCEPT ![t] = x] /\ call[t] \in CallRecords
  BY FreshTyped DEF Goto
<1>2. x.at = place /\ x.attempt = call[t].attempt
  BY <1>1 DEF CallRecords
<1> HIDE DEF x
<1> QED
  BY <1>1, <1>2, StepLeaves

LEMMA EndRunsDown ==
  ASSUME ClientInv, NEW t \in Callers, Going(call[t]), NEW place \in {"idle", "succeeded"},
         End(t, place)
  PROVE  \A u \in Callers : InCall(u) =>
           \/ call'[u] = call[u]
           \/ StepsLeft(call'[u], Attempts(u)) < StepsLeft(call[u], Attempts(u))
<1> DEFINE x == [at |-> place, attempt |-> 1]
<1>1. call' = [call EXCEPT ![t] = x] /\ ~Going(x)
  BY DEF End, Going
<1> HIDE DEF x
<1> QED
  BY <1>1, StepLeaves

LEMMA RunsDownNext ==
  ASSUME ClientInv, [ClientNext]_vars
  PROVE  \A u \in Callers : InCall(u) =>
           \/ call'[u] = call[u]
           \/ StepsLeft(call'[u], Attempts(u)) < StepsLeft(call[u], Attempts(u))
<1> DEFINE Down == \A u \in Callers : InCall(u) =>
                     \/ call'[u] = call[u]
                     \/ StepsLeft(call'[u], Attempts(u)) < StepsLeft(call[u], Attempts(u))
<1>1. ASSUME NEW t \in Callers, Ask(t) PROVE Down
  <2>1. call' = [call EXCEPT ![t] = [at |-> "entering", attempt |-> 1]] /\ ~InCall(t)
    BY <1>1 DEF Ask
  <2> QED
    BY <2>1, FreshTyped
<1>2. ASSUME NEW t \in Callers, Failed(t, "transport") \/ (\E e \in Refusals : Failed(t, e)),
             Waiting(t)
      PROVE  Down
  <2>1. call[t].at \in {"greeting", "confirming", "calling"} /\ Going(call[t])
    BY <1>2, WaitingIs DEF Going
  <2>2. CASE Goto(t, "sleeping")
    BY <2>1, <2>2, GotoRunsDown DEF Rank
  <2>3. CASE End(t, "idle")
    BY <2>1, <2>3, EndRunsDown
  <2> QED
    BY <1>2, <2>2, <2>3 DEF Failed
<1>3. ASSUME NEW t \in Callers, Advance(t) \/ Cancel(t) PROVE Down
  <2>1. CASE Enter(t)
    <3>1. call[t].at = "entering" /\ Going(call[t]) /\ (Goto(t, "cloning") \/ Goto(t, "greeting"))
      BY <2>1 DEF Enter, Going
    <3> QED
      BY <3>1, GotoRunsDown DEF Rank
  <2>2. CASE Clone(t)
    <3>1. call[t].at = "cloning" /\ Going(call[t]) /\ Goto(t, "calling")
      BY <2>2 DEF Clone, Going
    <3> QED
      BY <3>1, GotoRunsDown DEF Rank
  <2>3. CASE Wake(t)
    <3> DEFINE x == [call[t] EXCEPT !.at = "entering", !.attempt = call[t].attempt + 1]
    <3>1. /\ call[t].at = "sleeping" /\ call' = [call EXCEPT ![t] = x]
          /\ call[t] \in CallRecords
      BY <2>3, FreshTyped DEF Wake
    <3>2. x.at = "entering" /\ x.attempt = call[t].attempt + 1
      BY <3>1 DEF CallRecords
    <3> HIDE DEF x
    <3>3. Going(call[t]) /\ Rank(x.at) \in 0..(Rank(call[t].at) + 5)
      BY <3>1, <3>2 DEF Going, Rank
    <3> QED
      BY <3>1, <3>2, <3>3, StepLeaves
  <2>4. CASE Timeout(t)
    BY <1>2, <2>4 DEF Timeout
  <2>5. CASE Cancel(t)
    <3>1. Going(call[t]) /\ End(t, "idle")
      BY <2>5 DEF Cancel, InCall, Going
    <3> QED
      BY <3>1, EndRunsDown
  <2> QED
    BY <1>3, <2>1, <2>2, <2>3, <2>4, <2>5 DEF Advance
<1>4. ASSUME call' = call PROVE Down
  BY <1>4
<1>5. ASSUME NEW m \in wire,
             \/ \E s \in Sessions \cup {NoSession} : Greet(m, s)
             \/ Confirm(m) \/ Run(m)
             \/ \E e \in Refusals : Reject(m, e)
      PROVE  Down
  <2>1. m \in Requests /\ m.task \in Callers
    BY FreshTyped
  <2>2. CASE Unheard
    BY <1>4, <2>2 DEF Unheard
  <2>3. CASE Reaches(m) /\ ~Unheard
    <3>1. /\ Going(call[m.task]) /\ Waiting(m.task)
          /\ m.kind = "initialize" => call[m.task].at = "greeting"
          /\ m.kind = "initialized" => call[m.task].at = "confirming"
      BY <2>1, <2>3, ReachesIs DEF Going, Reaches
    <3>2. CASE \E s \in Sessions \cup {NoSession} : Greet(m, s)
      <4>1. Goto(m.task, "confirming") /\ call[m.task].at = "greeting"
        BY <2>3, <3>1, <3>2 DEF Greet
      <4> QED
        BY <2>1, <3>1, <4>1, GotoRunsDown DEF Rank
    <3>3. CASE Confirm(m)
      <4>1. Goto(m.task, "cloning") /\ call[m.task].at = "confirming"
        BY <2>3, <3>1, <3>3 DEF Confirm
      <4> QED
        BY <2>1, <3>1, <4>1, GotoRunsDown DEF Rank
    <3>4. CASE Run(m)
      BY <2>1, <2>3, <3>1, <3>4, EndRunsDown DEF Run
    <3>5. CASE \E e \in Refusals : Reject(m, e)
      BY <1>2, <2>1, <2>3, <3>1, <3>5 DEF Reject
    <3> QED
      BY <1>5, <3>2, <3>3, <3>4, <3>5
  <2> QED
    BY <1>5, <2>2, <2>3 DEF Greet, Confirm, Run, Reject
<1>6. CASE (\E s \in Sessions : Forget(s)) \/ UNCHANGED vars
  BY <1>4, <1>6 DEF Forget, vars
<1> QED
  BY <1>1, <1>3, <1>5, <1>6 DEF ClientNext

(* A call takes at most six steps an attempt, whoever waits for the mutex    *)
(* and whatever the server does: nothing turns a call back, not another      *)
(* caller's step either.                                                    *)
THEOREM CallsRunDown == ClientSpec => CallRunsDown
<1>1. ClientInv /\ [ClientNext]_vars =>
        [\A t \in Callers : InCall(t) =>
           \/ call'[t] = call[t]
           \/ StepsLeft(call'[t], Attempts(t)) < StepsLeft(call[t], Attempts(t))]_vars
  BY RunsDownNext
<1> QED
  BY <1>1, InvAlways, PTL DEF ClientSpec, CallRunsDown

(* A caller that waits for the mutex waits for one that does not: its        *)
(* handshake awaits an answer, which comes or times out.  So nobody is       *)
(* stuck, and the steps left of a call are at most six an attempt.          *)
NobodyIsStuck ==
  \A t \in Callers : InCall(t) =>
    /\ StepsLeft(call[t], Attempts(t)) \in 1..(6 * Attempts(t))
    /\ \/ Waiting(t) \/ call[t].at = "sleeping"
       \/ holder = Nobody
       \/ holder \in Callers /\ Waiting(holder)

THEOREM CallsAreNeverStuck == ClientSpec => []NobodyIsStuck
<1>1. ASSUME ClientInv, NEW t \in Callers, InCall(t)
      PROVE  /\ StepsLeft(call[t], Attempts(t)) \in 1..(6 * Attempts(t))
             /\ \/ Waiting(t) \/ call[t].at = "sleeping"
                \/ holder = Nobody
                \/ holder \in Callers /\ Waiting(holder)
  <2>1. StepsLeft(call[t], Attempts(t)) \in 1..(6 * Attempts(t))
    BY <1>1, FreshTyped, StepsLeftIs DEF InCall, Going, ClientInv, AttemptsAreCounted
  <2>2. ASSUME holder # Nobody PROVE holder \in Callers /\ Waiting(holder)
    BY <1>1, <2>2, WaitingIs DEF ClientInv, ClientTypeOK
  <2> QED
    BY <2>1, <2>2
<1>2. ClientInv => NobodyIsStuck
  BY <1>1 DEF NobodyIsStuck
<1> QED
  BY <1>2, InvAlways, PTL

-----------------------------------------------------------------------------
AnyReply(n) == [1..n -> [index: Nat, embedding: Vectors]]

(* Every item has a place of its own among the n places of the reply, and   *)
(* the items lie in the order of Before.                                    *)
LEMMA PositionsAreOrdered ==
  ASSUME NEW n \in Nat, NEW items \in AnyReply(n)
  PROVE  /\ \A i \in 1..n : Position(items, i) \in 1..n
         /\ \A i, j \in 1..n : Before(items, i, j) => Position(items, i) < Position(items, j)
<1> DEFINE Front(i) == {j \in DOMAIN items : Before(items, j, i)}
<1>1. DOMAIN items = 1..n /\ \A i \in 1..n : items[i].index \in Nat
  BY DEF AnyReply
<1>2. IsFiniteSet(1..n) /\ Cardinality(1..n) = n
  BY FS_Interval
<1>3. ASSUME NEW i \in 1..n
      PROVE  /\ IsFiniteSet(Front(i)) /\ Cardinality(Front(i)) \in Nat
             /\ Cardinality(Front(i)) <= n - 1
  <2>1. IsFiniteSet((1..n) \ {i}) /\ Cardinality((1..n) \ {i}) = n - 1
    BY <1>2, FS_RemoveElement
  <2>2. ~Before(items, i, i)
    BY <1>1 DEF Before
  <2>3. Front(i) \in SUBSET ((1..n) \ {i})
    BY <1>1, <2>2
  <2> QED
    BY <2>1, <2>3, FS_Subset, FS_CardinalityType
<1>4. ASSUME NEW i \in 1..n, NEW j \in 1..n, Before(items, i, j)
      PROVE  Cardinality(Front(i)) < Cardinality(Front(j))
  <2>1. ~Before(items, i, i)
    BY <1>1 DEF Before
  <2>2. Front(i) \cup {i} \in SUBSET Front(j)
    <3>1. ASSUME NEW h \in 1..n, Before(items, h, i)
          PROVE  Before(items, h, j)
      BY <1>1, <1>4, <3>1 DEF Before
    <3> QED
      BY <1>1, <1>4, <3>1
  <2>3. Cardinality(Front(i) \cup {i}) = Cardinality(Front(i)) + 1
    BY <1>3, <2>1, FS_AddElement
  <2>4. Cardinality(Front(i) \cup {i}) <= Cardinality(Front(j))
    BY <1>3, <2>2, FS_Subset
  <2>5. Cardinality(Front(i)) \in Nat /\ Cardinality(Front(j)) \in Nat
    BY <1>3
  <2> QED
    BY <2>3, <2>4, <2>5
<1>5. \A i : Position(items, i) = 1 + Cardinality(Front(i))
  BY DEF Position
<1> HIDE DEF Front
<1> QED
  BY <1>3, <1>4, <1>5

(* The sorted reply holds every item of the reply at its place.             *)
THEOREM SortIsPermutation ==
  ASSUME NEW n \in Nat, NEW items \in AnyReply(n)
  PROVE  /\ DOMAIN SortByIndex(items) = 1..n
         /\ \A i \in 1..n : SortByIndex(items)[Position(items, i)] = items[i]
         /\ \A k \in 1..n : \E i \in 1..n : Position(items, i) = k
         /\ \A k, l \in 1..n :
              k < l => SortByIndex(items)[k].index <= SortByIndex(items)[l].index
<1> DEFINE pos == [i \in 1..n |-> Position(items, i)]
<1>1. DOMAIN items = 1..n /\ \A i \in 1..n : items[i].index \in Nat
  BY DEF AnyReply
<1>2. IsFiniteSet(1..n) /\ Cardinality(1..n) = n
  BY FS_Interval
<1>3. \A i \in 1..n : Position(items, i) \in 1..n
  BY PositionsAreOrdered
<1>4. ASSUME NEW i \in 1..n, NEW j \in 1..n, i # j
      PROVE  Position(items, i) # Position(items, j)
  <2>1. Before(items, i, j) \/ Before(items, j, i)
    BY <1>1, <1>4 DEF Before
  <2>2. Position(items, i) < Position(items, j) \/ Position(items, j) < Position(items, i)
    BY <2>1, PositionsAreOrdered
  <2> QED
    BY <1>3, <2>2
<1>5. pos \in [1..n -> 1..n]
  BY <1>3
<1>6. pos \in Injection(1..n, 1..n)
  BY <1>4, <1>5, Fun_IsInj
<1>7. pos \in Surjection(1..n, 1..n)
  BY <1>2, <1>6, FS_Injection
<1>8. \A k \in 1..n : \E i \in 1..n : Position(items, i) = k
  BY <1>7 DEF Surjection
<1>9. \A i \in 1..n : SortByIndex(items)[Position(items, i)] = items[i]
  BY <1>1, <1>3, <1>4 DEF SortByIndex
<1>10. ASSUME NEW k \in 1..n, NEW l \in 1..n, k < l
       PROVE  SortByIndex(items)[k].index <= SortByIndex(items)[l].index
  <2>1. PICK i \in 1..n : Position(items, i) = k
    BY <1>8
  <2>2. PICK j \in 1..n : Position(items, j) = l
    BY <1>8
  <2>3. ~Before(items, j, i)
    BY <1>10, <2>1, <2>2, PositionsAreOrdered
  <2>4. items[i].index <= items[j].index
    BY <1>1, <2>3 DEF Before
  <2> QED
    BY <1>9, <2>1, <2>2, <2>4
<1>11. DOMAIN SortByIndex(items) = 1..n
  BY <1>1 DEF SortByIndex
<1> QED
  BY <1>8, <1>9, <1>10, <1>11

(* When every input has an item there is just one for each, and sorting puts *)
(* it at the place of its input.                                            *)
LEMMA EachAtItsInput ==
  ASSUME NEW n \in Nat, NEW items \in AnyReply(n),
         \A input \in 1..n : \E i \in 1..n : items[i].index = input - 1
  PROVE  \A i \in 1..n : Position(items, i) = items[i].index + 1
<1> DEFINE Item(input) == CHOOSE i \in 1..n : items[i].index = input - 1
           g == [input \in 1..n |-> Item(input)]
<1>1. DOMAIN items = 1..n /\ \A i \in 1..n : items[i].index \in Nat
  BY DEF AnyReply
<1>2. IsFiniteSet(1..n) /\ Cardinality(1..n) = n
  BY FS_Interval
<1>3. \A input \in 1..n : Item(input) \in 1..n /\ items[Item(input)].index = input - 1
  OBVIOUS
<1> HIDE DEF Item
<1>4. g \in [1..n -> 1..n] /\ \A input \in 1..n : items[g[input]].index = input - 1
  BY <1>3
<1> HIDE DEF g
<1>5. ASSUME NEW a \in 1..n, NEW b \in 1..n, g[a] = g[b]
      PROVE  a = b
  <2>1. items[g[a]].index = a - 1 /\ items[g[b]].index = b - 1
    BY <1>4
  <2>2. a - 1 = b - 1
    BY <1>5, <2>1
  <2> QED
    BY <2>2
<1>6. g \in Injection(1..n, 1..n)
  BY <1>4, <1>5, Fun_IsInj
<1>7. g \in Surjection(1..n, 1..n)
  BY <1>2, <1>6, FS_Injection
<1>8. \A i \in 1..n : \E input \in 1..n : g[input] = i
  BY <1>7 DEF Surjection
<1>9. \A i \in 1..n : items[i].index + 1 \in 1..n /\ g[items[i].index + 1] = i
  <2> TAKE i \in 1..n
  <2>1. PICK input \in 1..n : g[input] = i
    BY <1>8
  <2>2. items[i].index = input - 1
    BY <1>4, <2>1
  <2>3. items[i].index + 1 = input
    BY <2>2
  <2> QED
    BY <2>1, <2>3
<1> TAKE i \in 1..n
<1> DEFINE m == items[i].index
           Front == {j \in DOMAIN items : Before(items, j, i)}
           h == [a \in 1..m |-> g[a]]
<1>10. m \in Nat /\ m + 1 \in 1..n
  BY <1>1, <1>9
<1>11. 1..m \subseteq 1..n
  BY <1>10
<1>12. ASSUME NEW j \in 1..n
       PROVE  Before(items, j, i) <=> items[j].index < m
  BY <1>1, <1>9 DEF Before
<1>13. Front = {j \in 1..n : items[j].index < m}
  BY <1>1, <1>12
<1> HIDE DEF Front
<1>14. ASSUME NEW a \in 1..m
       PROVE  h[a] \in Front
  <2>1. a \in 1..n /\ h[a] = g[a]
    BY <1>11
  <2>2. g[a] \in 1..n /\ items[g[a]].index = a - 1
    BY <1>4, <2>1
  <2>3. a - 1 < m
    BY <1>10
  <2> QED
    BY <1>13, <2>1, <2>2, <2>3
<1>15. h \in [1..m -> Front]
  BY <1>14
<1>16. \A a, b \in 1..m : h[a] = h[b] => a = b
  BY <1>5, <1>11
<1>17. ASSUME NEW j \in Front
       PROVE  \E a \in 1..m : h[a] = j
  <2>1. j \in 1..n /\ items[j].index < m
    BY <1>13
  <2>2. items[j].index + 1 \in 1..m /\ g[items[j].index + 1] = j
    BY <1>1, <1>9, <1>10, <2>1
  <2> QED
    BY <2>2
<1>18. h \in Injection(1..m, Front)
  BY <1>15, <1>16, Fun_IsInj
<1>19. h \in Surjection(1..m, Front)
  BY <1>15, <1>17, Fun_IsSurj
<1>20. ExistsBijection(1..m, Front)
  BY <1>18, <1>19 DEF ExistsBijection, Bijection
<1>21. Cardinality(Front) = m
  BY <1>10, <1>20, FS_CountingElements
<1>22. Position(items, i) = 1 + Cardinality(Front)
  BY DEF Position, Front
<1> QED
  BY <1>10, <1>21, <1>22

(* Any reply at all, of whatever length and with whatever indices, is read  *)
(* right for any number of inputs.                                          *)
THEOREM RepliesAreReadRight ==
  ASSUME NEW n \in Nat, NEW items \in AnyReply(n), NEW expected \in Nat
  PROVE  ReadRight(items, expected)
<1> DEFINE ordered == SortByIndex(items)
           result == OrderedEmbeddings(items, expected)
           For(input) == {i \in DOMAIN items : items[i].index = input - 1}
           plain == [i \in DOMAIN items |-> items[i].embedding]
           Fits == \A i \in DOMAIN items : items[i].embedding \in Fitting
           Whole == \A input \in 1..expected : For(input) # {}
<1>1. DOMAIN items = 1..n /\ Len(items) = n /\ \A i \in 1..n : items[i].index \in Nat
  BY DEF AnyReply
<1>2. /\ DOMAIN ordered = 1..n
      /\ \A i \in 1..n : ordered[Position(items, i)] = items[i]
      /\ \A k \in 1..n : \E i \in 1..n : Position(items, i) = k
  BY SortIsPermutation
<1>3. result = IF \/ n # expected
                  \/ \E i \in 1..n : items[i].embedding \notin Fitting
                  \/ \E i \in 1..n : ordered[i].index # i - 1
               THEN InvalidResponse
               ELSE [i \in 1..n |-> ordered[i].embedding]
  BY <1>1, <1>2 DEF OrderedEmbeddings
<1> HIDE DEF ordered, result
<1>4. CASE n = expected /\ Fits /\ Whole
  <2>1. \A i \in 1..n : Position(items, i) = items[i].index + 1
    <3>1. \A input \in 1..n : \E i \in 1..n : items[i].index = input - 1
      BY <1>1, <1>4
    <3> QED
      BY <3>1, EachAtItsInput
  <2>2. \A k \in 1..n : \E i \in 1..n : items[i].index = k - 1 /\ ordered[k] = items[i]
    <3> TAKE k \in 1..n
    <3>1. PICK i \in 1..n : Position(items, i) = k
      BY <1>2
    <3>2. ordered[k] = items[i] /\ items[i].index + 1 = k
      BY <1>2, <2>1, <3>1
    <3>3. items[i].index = k - 1
      BY <1>1, <3>2
    <3> QED
      BY <3>2, <3>3
  <2>3. result = [i \in 1..n |-> ordered[i].embedding]
    BY <1>1, <1>3, <1>4, <2>2
  <2>4. \A input \in 1..n : \A i \in For(input) : result[input] = items[i].embedding
    <3> TAKE input \in 1..n
    <3> TAKE i \in For(input)
    <3>1. i \in 1..n /\ items[i].index = input - 1
      BY <1>1
    <3>2. Position(items, i) = input
      BY <2>1, <3>1
    <3>3. ordered[input] = items[i]
      BY <1>2, <3>1, <3>2
    <3> QED
      BY <2>3, <3>3
  <2>5. Len(result) = n
    BY <2>3
  <2>6. ASSUME \A i \in DOMAIN items : items[i].index = i - 1
        PROVE  result = PlainEmbeddings(plain, expected)
    <3>1. \A i \in 1..n : result[i] = plain[i]
      BY <1>1, <2>4, <2>6
    <3>2. result = plain
      BY <1>1, <2>3, <3>1
    <3>3. Len(plain) = n /\ DOMAIN plain = 1..n
      BY <1>1
    <3> QED
      BY <1>1, <1>4, <3>2, <3>3 DEF PlainEmbeddings
  <2> QED
    BY <1>1, <1>4, <2>4, <2>5, <2>6 DEF ReadRight, result
<1>5. CASE ~(n = expected /\ Fits /\ Whole)
  <2>1. CASE n # expected \/ ~Fits
    <3>1. result = InvalidResponse
      BY <1>1, <1>3, <2>1
    <3>2. Len(plain) = n /\ DOMAIN plain = 1..n /\ \A i \in 1..n : plain[i] = items[i].embedding
      BY <1>1
    <3>3. PlainEmbeddings(plain, expected) = InvalidResponse
      BY <1>1, <2>1, <3>2 DEF PlainEmbeddings
    <3> QED
      BY <1>1, <1>5, <3>1, <3>3 DEF ReadRight, result
  <2>2. CASE n = expected /\ Fits /\ ~Whole
    <3>1. PICK input \in 1..n : \A i \in 1..n : items[i].index # input - 1
      BY <1>1, <2>2
    <3>2. \E i \in 1..n : ordered[input] = items[i]
      BY <1>2
    <3>3. ordered[input].index # input - 1
      BY <3>1, <3>2
    <3>4. result = InvalidResponse
      BY <1>3, <3>3
    <3>5. ~ \A i \in DOMAIN items : items[i].index = i - 1
      BY <1>1, <3>1
    <3> QED
      BY <1>1, <1>5, <3>4, <3>5 DEF ReadRight, result
  <2> QED
    BY <1>5, <2>1, <2>2
<1> QED
  BY <1>4, <1>5

(* So no text is ever stored under the vector of another.                   *)
THEOREM EmbeddingsAlwaysMatch == ClientSpec => []EmbeddingsMatchInputs
<1>1. ASSUME NEW items \in Replies, NEW expected \in 0..MaxItems
      PROVE  ReadRight(items, expected)
  <2>1. PICK n \in 0..MaxItems : items \in [1..n -> Items]
    BY DEF Replies
  <2>2. n \in Nat /\ expected \in Nat
    BY <2>1
  <2>3. items \in AnyReply(n)
    BY <2>1 DEF AnyReply, Items
  <2> QED
    BY <2>2, <2>3, RepliesAreReadRight
<1>2. MisreadReplies = {}
  BY <1>1 DEF MisreadReplies
<1>3. EmbeddingsMatchInputs
  BY <1>2 DEF EmbeddingsMatchInputs
<1> QED
  BY <1>3, PTL
=============================================================================
