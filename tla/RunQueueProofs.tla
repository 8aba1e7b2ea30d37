--------------------------- MODULE RunQueueProofs ---------------------------
(* Proofs about RunQueue, for every set of runs, keys and workers, every    *)
(* lease duration and retention, and every value of the bounds.             *)
EXTENDS RunQueue, TLAPS

(* Everything the row, lease and key properties rest on; it is inductive.   *)
QueueInv == /\ TypeOK
            /\ RowConsistent
            /\ EpochsAreSpent
            /\ KeyNamesARun

-----------------------------------------------------------------------------
(* A fresh row is a queued row of epoch 0 with no lease.                    *)
LEMMA NewRunType ==
  ASSUME NEW sel \in Selectors, NEW now \in Nat
  PROVE  /\ NewRun(sel, now) \in RunRow
         /\ NewRun(sel, now).state = "queued"
         /\ NewRun(sel, now).status = "queued"
         /\ NewRun(sel, now).selector = sel
         /\ NewRun(sel, now).owner = NoOwner
         /\ NewRun(sel, now).epoch = 0
         /\ NewRun(sel, now).expiresAt = NoTime
  BY DEF NewRun, RunRow

LEMMA NoRunType ==
  /\ NoRun \in RunRow
  /\ NoRun.state = "absent" /\ NoRun.status = "queued"
  /\ NoRun.owner = NoOwner /\ NoRun.epoch = 0 /\ NoRun.expiresAt = NoTime
  BY RunQueueAssumption, NewRunType DEF NoRun, NewRun, RunRow

(* Pruning keeps a key's row or drops it.                                   *)
LEMMA UnexpiredType ==
  ASSUME TypeOK, NEW now \in Nat
  PROVE  /\ Unexpired(now) \in [Keys -> KeyRow \cup {NoKey}]
         /\ \A k \in Keys : Unexpired(now)[k] \in {key[k], NoKey}
         /\ \A k \in Keys : (key[k] # NoKey /\ Unexpired(now)[k] # key[k])
                              => key[k].expiresAt <= now
  BY DEF Unexpired, TypeOK

(* Remembering changes the named key only, pruning apart.                   *)
LEMMA RememberType ==
  ASSUME TypeOK, NEW now \in Nat, NEW k \in Keys \cup {NoKey},
         NEW request \in Selectors \cup {ResetOp},
         NEW r \in RunIds, NEW body \in RunIds
  PROVE  /\ Remember(k, request, r, body, now) \in [Keys -> KeyRow \cup {NoKey}]
         /\ \A j \in Keys : j # k =>
              Remember(k, request, r, body, now)[j] = Unexpired(now)[j]
         /\ k # NoKey => /\ Remember(k, request, r, body, now)[k] # NoKey
                         /\ Remember(k, request, r, body, now)[k].run = r
<1>1. now + IdempotencyTtl \in Nat
  BY RunQueueAssumption DEF IdempotencyTtl
<1> DEFINE row == [request |-> request, run |-> r, body |-> body,
                   createdAt |-> now, expiresAt |-> now + IdempotencyTtl]
<1>2. row \in KeyRow /\ row # NoKey /\ row.run = r
  BY <1>1, RunQueueAssumption DEF KeyRow
<1>3. CASE k = NoKey
  BY <1>3, UnexpiredType DEF Remember
<1>4. CASE k # NoKey
  <2>1. Remember(k, request, r, body, now) = [Unexpired(now) EXCEPT ![k] = row]
    BY <1>4 DEF Remember
  <2> QED BY <1>2, <1>4, <2>1, UnexpiredType
<1> QED BY <1>3, <1>4

(* Every remembered key refers to the run just answered or to the one it    *)
(* already referred to.                                                     *)
LEMMA RememberNamesRuns ==
  ASSUME TypeOK, KeyNamesARun, NEW now \in Nat, NEW k \in Keys \cup {NoKey},
         NEW request \in Selectors \cup {ResetOp},
         NEW r \in RunIds, NEW body \in RunIds,
         NEW j \in Keys, Remember(k, request, r, body, now)[j] # NoKey
  PROVE  \/ Remember(k, request, r, body, now)[j].run = r
         \/ run[Remember(k, request, r, body, now)[j].run].state # "absent"
<1>1. CASE j = k
  BY <1>1, RememberType, RunQueueAssumption
<1>2. CASE j # k
  <2>1. Remember(k, request, r, body, now)[j] = Unexpired(now)[j]
    BY <1>2, RememberType, SMTT(30)
  <2>2. Unexpired(now)[j] = key[j] /\ key[j] # NoKey
    BY <2>1, UnexpiredType
  <2> QED BY <2>1, <2>2 DEF KeyNamesARun
<1> QED BY <1>1, <1>2

(* A clock reading is a number that is not ahead of the clock.              *)
LEMMA ReadingType ==
  ASSUME TypeOK, NEW now \in Readings
  PROVE  now \in Nat /\ now <= clock
  BY RunQueueAssumption DEF TypeOK, Readings

LEMMA KnownIsLive ==
  ASSUME TypeOK, NEW k \in Keys \cup {NoKey}, NEW now \in Nat, ~Known(k, now)
  PROVE  k = NoKey \/ key[k] = NoKey \/ key[k].expiresAt <= now
  BY UnexpiredType DEF Known

-----------------------------------------------------------------------------
(* The invariant holds initially.                                           *)
LEMMA InitQueueInv == Init => QueueInv
<1> SUFFICES ASSUME Init PROVE QueueInv
  OBVIOUS
<1> USE DEF Init
<1>1. TypeOK
  BY NoRunType, RunQueueAssumption DEF TypeOK
<1>2. RowConsistent
  BY NoRunType DEF RowConsistent, Terminal
<1>3. EpochsAreSpent
  BY NoRunType DEF EpochsAreSpent
<1>4. KeyNamesARun
  BY DEF KeyNamesARun
<1> QED BY <1>1, <1>2, <1>3, <1>4 DEF QueueInv

-----------------------------------------------------------------------------
(* Requests: a step changes at most one absent row into a queued one, and   *)
(* the key table as Unexpired or Remember say.                              *)
LEMMA KeyOnlyPreserves ==
  ASSUME QueueInv, UNCHANGED <<clock, run, held, writer>>,
         key' \in [Keys -> KeyRow \cup {NoKey}],
         \A k \in Keys : key'[k] # NoKey => run[key'[k].run].state # "absent"
  PROVE  QueueInv'
<1> USE DEF QueueInv
<1>1. TypeOK'
  BY DEF TypeOK
<1>2. RowConsistent' /\ EpochsAreSpent'
  BY DEF RowConsistent, EpochsAreSpent
<1>3. KeyNamesARun'
  BY DEF KeyNamesARun
<1> QED BY <1>1, <1>2, <1>3

LEMMA InsertPreserves ==
  ASSUME QueueInv, NEW id \in RunIds, NEW sel \in Selectors,
         NEW now \in Nat, run[id].state = "absent", InState("queued") = {},
         run' = [run EXCEPT ![id] = NewRun(sel, now)],
         UNCHANGED <<clock, held, writer>>,
         key' \in [Keys -> KeyRow \cup {NoKey}],
         \A k \in Keys : key'[k] # NoKey =>
            key'[k].run = id \/ run[key'[k].run].state # "absent",
         \A k \in Keys : key'[k] # NoKey => key'[k].run \in RunIds
  PROVE  QueueInv'
<1> USE DEF QueueInv
<1>0. /\ run'[id] = NewRun(sel, now)
      /\ \A r \in RunIds : r # id => run'[r] = run[r]
      /\ run' \in [RunIds -> RunRow]
  BY NewRunType DEF TypeOK
<1>1. TypeOK'
  BY <1>0 DEF TypeOK
<1>2. RowConsistent'
  BY <1>0, NewRunType DEF RowConsistent, Terminal
<1>3. EpochsAreSpent'
  <2>1. run[id].epoch = 0 /\ run'[id].epoch = 0 /\ run'[id].state # "absent"
    BY <1>0, NewRunType DEF EpochsAreSpent
  <2>2. \A r \in RunIds : run'[r].epoch = run[r].epoch
    BY <1>0, <2>1
  <2>3. \A w \in Workers : held[w] # NoLease => held[w].run \in RunIds
    BY DEF TypeOK, Lease
  <2> QED BY <1>0, <2>1, <2>2, <2>3 DEF EpochsAreSpent
<1>4. KeyNamesARun'
  BY <1>0, NewRunType DEF KeyNamesARun
<1> QED BY <1>1, <1>2, <1>3, <1>4

-----------------------------------------------------------------------------
(* Each action preserves the invariant.                                     *)
LEMMA AnswerFromKeyInv ==
  ASSUME QueueInv, NEW now \in Readings, NEW k \in Keys \cup {NoKey},
         AnswerFromKey(k, now) \/ ResetConflict(k, now)
           \/ \E sel \in Selectors : EnqueueConflict(sel, k, now)
  PROVE  QueueInv'
<1>1. now \in Nat
  BY ReadingType DEF QueueInv
<1>2. key' = Unexpired(now) /\ UNCHANGED <<clock, run, held, writer>>
  BY DEF AnswerFromKey, ResetConflict, EnqueueConflict
<1>3. \A k1 \in Keys : key'[k1] # NoKey => run[key'[k1].run].state # "absent"
  BY <1>1, <1>2, UnexpiredType DEF QueueInv, KeyNamesARun
<1> QED BY <1>1, <1>2, <1>3, UnexpiredType, KeyOnlyPreserves DEF QueueInv

LEMMA EnqueueCoalescedInv ==
  ASSUME QueueInv, NEW now \in Readings, NEW k \in Keys \cup {NoKey},
         NEW id \in RunIds, NEW sel \in Selectors,
         EnqueueCoalesced(id, sel, k, now)
  PROVE  QueueInv'
<1>1. now \in Nat
  BY ReadingType DEF QueueInv
<1>2. PICK r \in Oldest(QueuedFor(sel)) : key' = Remember(k, sel, r, id, now)
  BY DEF EnqueueCoalesced
<1>3. r \in RunIds /\ run[r].state # "absent"
  BY <1>2 DEF Oldest, QueuedFor, InState
<1>4. \A j \in Keys : key'[j] # NoKey => run[key'[j].run].state # "absent"
  BY <1>1, <1>2, <1>3, RememberNamesRuns DEF QueueInv
<1>5. key' \in [Keys -> KeyRow \cup {NoKey}]
  BY <1>1, <1>2, <1>3, RememberType DEF QueueInv
<1> QED BY <1>4, <1>5, KeyOnlyPreserves DEF EnqueueCoalesced

LEMMA InsertedInv ==
  ASSUME QueueInv, NEW now \in Readings, NEW k \in Keys \cup {NoKey},
         NEW id \in RunIds, Fresh(id),
         \/ \E sel \in Selectors : EnqueueInserted(id, sel, k, now)
         \/ ResetAccepted(id, k, now)
  PROVE  QueueInv'
<1>1. now \in Nat
  BY ReadingType DEF QueueInv
<1>2. PICK sel \in Selectors, request \in Selectors \cup {ResetOp} :
        /\ InState("queued") = {}
        /\ run' = [run EXCEPT ![id] = NewRun(sel, now)]
        /\ key' = Remember(k, request, id, id, now)
        /\ UNCHANGED <<clock, held, writer>>
  BY RunQueueAssumption DEF EnqueueInserted, ResetAccepted
<1>3. key' \in [Keys -> KeyRow \cup {NoKey}]
  BY <1>1, <1>2, RememberType DEF QueueInv
<1>4. \A j \in Keys : key'[j] # NoKey =>
        key'[j].run = id \/ run[key'[j].run].state # "absent"
  BY <1>1, <1>2, RememberNamesRuns DEF QueueInv
<1>5. \A j \in Keys : key'[j] # NoKey => key'[j].run \in RunIds
  BY <1>3, RunQueueAssumption DEF KeyRow
<1> QED BY <1>1, <1>2, <1>3, <1>4, <1>5, InsertPreserves DEF Fresh

(* Facts about the lease a worker holds.                                    *)
LEMMA HeldType ==
  ASSUME QueueInv, NEW w \in Workers, held[w] # NoLease
  PROVE  /\ held[w].run \in RunIds /\ held[w].owner \in Owners
         /\ held[w].epoch \in Nat
         /\ run[held[w].run] \in RunRow
         /\ held[w].epoch <= run[held[w].run].epoch
  BY DEF QueueInv, TypeOK, Lease, EpochsAreSpent

LEMMA ClaimNextInv ==
  ASSUME QueueInv, NEW now \in Readings, NEW w \in Workers, ClaimNext(w, now)
  PROVE  QueueInv'
<1> USE DEF QueueInv
<1>1. now + LeaseDuration \in Nat /\ NoTime \notin Nat
  BY ReadingType, RunQueueAssumption
<1>2. PICK r \in RunIds :
        /\ run[r].state = "queued"
        /\ run' = [run EXCEPT ![r].state = "leased", ![r].status = "running",
                              ![r].owner = OwnerOf[w],
                              ![r].epoch = run[r].epoch + 1,
                              ![r].expiresAt = now + LeaseDuration]
        /\ held' = [held EXCEPT ![w] = [run |-> r, owner |-> OwnerOf[w],
                                        epoch |-> run[r].epoch + 1]]
  BY DEF ClaimNext, Oldest, InState
<1>3. OwnerOf[w] \in Owners /\ NoOwner \notin Owners
  BY RunQueueAssumption DEF Owners
<1>4. UNCHANGED <<clock, key, writer>> /\ held[w] = NoLease
  BY DEF ClaimNext
<1> DEFINE lease == [run |-> r, owner |-> OwnerOf[w], epoch |-> run[r].epoch + 1]
<1>5. /\ run[r] \in RunRow /\ run'[r] \in RunRow
      /\ run'[r].state = "leased" /\ run'[r].status = "running"
      /\ run'[r].owner = OwnerOf[w] /\ run'[r].epoch = run[r].epoch + 1
      /\ run'[r].selector = run[r].selector
      /\ run'[r].expiresAt = now + LeaseDuration
      /\ \A q \in RunIds : q # r => run'[q] = run[q]
      /\ run' \in [RunIds -> RunRow]
  BY <1>1, <1>2, <1>3 DEF TypeOK, RunRow
<1>6. lease \in Lease /\ lease # NoLease
  BY <1>3, <1>5, RunQueueAssumption DEF Lease, RunRow
<1>7. /\ held' \in [Workers -> Lease \cup {NoLease}]
      /\ held'[w] = lease
      /\ \A v \in Workers : v # w => held'[v] = held[v]
  BY <1>2, <1>6 DEF TypeOK
<1>8. TypeOK'
  BY <1>4, <1>5, <1>7 DEF TypeOK
<1>9. RowConsistent'
  BY <1>1, <1>3, <1>5 DEF RowConsistent, Terminal
<1>10. EpochsAreSpent'
  <2>1. \A q \in RunIds : run[q].epoch \in Nat /\ run[q].epoch <= run'[q].epoch
    BY <1>5 DEF TypeOK, RunRow
  <2>2. \A v \in Workers : held'[v] # NoLease =>
          held'[v].epoch <= run'[held'[v].run].epoch
    BY <1>5, <1>7, <2>1, HeldType DEF TypeOK
  <2>3. \A v \in Workers : (v # w /\ held[v] # NoLease /\ held[v].run = r)
          => held[v].epoch # lease.epoch
    BY <2>1, HeldType
  <2>4. \A u, v \in Workers :
          (/\ u # v /\ held'[u] # NoLease /\ held'[v] # NoLease
           /\ held'[u].run = held'[v].run) => held'[u].epoch # held'[v].epoch
    BY <1>7, <2>3 DEF EpochsAreSpent
  <2>5. \A q \in RunIds : /\ writer'[q] <= run'[q].epoch
                          /\ run'[q].state = "absent" => run'[q].epoch = 0
    BY <1>4, <1>5, <2>1 DEF EpochsAreSpent, TypeOK
  <2> QED BY <2>2, <2>4, <2>5 DEF EpochsAreSpent
<1>11. KeyNamesARun'
  BY <1>4, <1>5 DEF KeyNamesARun, TypeOK, KeyRow
<1> QED BY <1>8, <1>9, <1>10, <1>11

LEMMA RenewClaimInv ==
  ASSUME QueueInv, NEW now \in Readings, NEW w \in Workers, RenewClaim(w, now)
  PROVE  QueueInv'
<1> USE DEF QueueInv
<1>1. now + LeaseDuration \in Nat /\ NoTime \notin Nat
  BY ReadingType, RunQueueAssumption
<1> DEFINE r == held[w].run
<1>2. r \in RunIds /\ run[r].state = "leased"
  BY HeldType DEF RenewClaim, Current
<1>3. run' = [run EXCEPT ![r].expiresAt = now + LeaseDuration]
  BY DEF RenewClaim
<1>4. UNCHANGED <<clock, key, held, writer>>
  BY DEF RenewClaim
<1> HIDE DEF r
<1>5. /\ run' \in [RunIds -> RunRow]
      /\ \A q \in RunIds : /\ run'[q].state = run[q].state
                           /\ run'[q].status = run[q].status
                           /\ run'[q].owner = run[q].owner
                           /\ run'[q].epoch = run[q].epoch
                           /\ run'[q].selector = run[q].selector
                           /\ q # r => run'[q] = run[q]
      /\ run'[r].expiresAt # NoTime
  BY <1>1, <1>2, <1>3 DEF TypeOK, RunRow
<1>6. TypeOK'
  BY <1>4, <1>5 DEF TypeOK
<1>7. RowConsistent'
  BY <1>2, <1>5 DEF RowConsistent
<1>8. EpochsAreSpent'
  BY <1>4, <1>5, HeldType DEF EpochsAreSpent
<1>9. KeyNamesARun'
  BY <1>4, <1>5 DEF KeyNamesARun, TypeOK, KeyRow
<1> QED BY <1>6, <1>7, <1>8, <1>9

LEMMA GuardedWriteInv ==
  ASSUME QueueInv, NEW w \in Workers, GuardedWrite(w)
  PROVE  QueueInv'
<1> USE DEF QueueInv
<1>1. /\ held[w] # NoLease
      /\ writer' = [writer EXCEPT ![held[w].run] = held[w].epoch]
      /\ UNCHANGED <<clock, run, key, held>>
  BY DEF GuardedWrite, Current
<1>2. TypeOK'
  BY <1>1, HeldType DEF TypeOK
<1>3. EpochsAreSpent'
  BY <1>1, HeldType DEF EpochsAreSpent, TypeOK
<1>4. RowConsistent' /\ KeyNamesARun'
  BY <1>1 DEF RowConsistent, KeyNamesARun
<1> QED BY <1>2, <1>3, <1>4

LEMMA FinishRunInv ==
  ASSUME QueueInv, NEW w \in Workers, NEW status \in Terminal,
         FinishRun(w, status)
  PROVE  QueueInv'
<1> USE DEF QueueInv
<1> DEFINE r == held[w].run
<1>1. /\ held[w] # NoLease /\ r \in RunIds
      /\ run[r].state = "leased" /\ held[w].epoch <= run[r].epoch
  BY HeldType DEF FinishRun, Current
<1>2. /\ run' = [run EXCEPT ![r].state = "finished", ![r].status = status,
                            ![r].owner = NoOwner, ![r].expiresAt = NoTime]
      /\ writer' = [writer EXCEPT ![r] = held[w].epoch]
      /\ held' = [held EXCEPT ![w] = NoLease]
      /\ UNCHANGED <<clock, key>>
  BY DEF FinishRun
<1>3. held[w].epoch \in Nat
  BY <1>1, HeldType
<1> HIDE DEF r
<1>4. /\ run' \in [RunIds -> RunRow]
      /\ \A q \in RunIds : /\ run'[q].epoch = run[q].epoch
                           /\ q # r => run'[q] = run[q]
      /\ run'[r].state = "finished" /\ run'[r].status = status
      /\ run'[r].owner = NoOwner /\ run'[r].expiresAt = NoTime
  <2>1. run[r] \in RunRow
    BY <1>1 DEF TypeOK
  <2>2. [run[r] EXCEPT !.state = "finished", !.status = status,
                       !.owner = NoOwner, !.expiresAt = NoTime] \in RunRow
    BY <2>1 DEF RunRow
  <2>3. run'[r] = [run[r] EXCEPT !.state = "finished", !.status = status,
                                 !.owner = NoOwner, !.expiresAt = NoTime]
    BY <1>1, <1>2 DEF TypeOK
  <2>4. \A q \in RunIds : q # r => run'[q] = run[q]
    BY <1>2 DEF TypeOK
  <2>5. run' \in [RunIds -> RunRow]
    BY <1>1, <1>2, <2>2, <2>3, <2>4 DEF TypeOK
  <2>6. /\ run'[r].epoch = run[r].epoch
        /\ run'[r].state = "finished" /\ run'[r].status = status
        /\ run'[r].owner = NoOwner /\ run'[r].expiresAt = NoTime
    BY <2>1, <2>3 DEF RunRow
  <2>7. \A q \in RunIds : run'[q].epoch = run[q].epoch
    BY <2>4, <2>6
  <2> QED BY <2>4, <2>5, <2>6, <2>7
<1>5. TypeOK'
  BY <1>2, <1>3, <1>4 DEF TypeOK
<1>6. RowConsistent'
  BY <1>4 DEF RowConsistent, Terminal
<1>7. EpochsAreSpent'
  <2>1. \A v \in Workers : held'[v] # NoLease => v # w /\ held'[v] = held[v]
    BY <1>2 DEF TypeOK
  <2>2. \A v \in Workers : held[v] # NoLease => held[v].run \in RunIds
    BY HeldType
  <2>3. \A q \in RunIds : writer'[q] <= run[q].epoch
    BY <1>1, <1>2 DEF EpochsAreSpent, TypeOK
  <2> QED BY <1>4, <2>1, <2>2, <2>3 DEF EpochsAreSpent
<1>8. KeyNamesARun'
  BY <1>2, <1>4 DEF KeyNamesARun, TypeOK, KeyRow
<1> QED BY <1>5, <1>6, <1>7, <1>8

(* Dropping leases from memory is always safe.                              *)
LEMMA ForgetInv ==
  ASSUME QueueInv, UNCHANGED <<clock, run, key, writer>>,
         held' \in [Workers -> Lease \cup {NoLease}],
         \A w \in Workers : held'[w] \in {held[w], NoLease}
  PROVE  QueueInv'
<1> USE DEF QueueInv
<1>1. TypeOK'
  BY DEF TypeOK
<1>2. EpochsAreSpent'
  BY DEF EpochsAreSpent
<1>3. RowConsistent' /\ KeyNamesARun'
  BY DEF RowConsistent, KeyNamesARun
<1> QED BY <1>1, <1>2, <1>3

(* Recovery of any set of leased runs, whatever becomes of the workers.     *)
LEMMA RecoverLeasesInv ==
  ASSUME QueueInv, NEW now \in Readings, NEW S \in SUBSET InState("leased"),
         RecoverLeases(S, now),
         held' \in [Workers -> Lease \cup {NoLease}],
         \A w \in Workers : held'[w] \in {held[w], NoLease}
  PROVE  QueueInv'
<1> USE DEF QueueInv
<1>1. now \in Nat
  BY ReadingType
<1>2. run' = Requeued(S, now) /\ UNCHANGED <<clock, key, writer>>
  BY DEF RecoverLeases
<1>3. \A r \in S : r \in RunIds /\ run[r].state = "leased"
  BY DEF InState
<1>4. /\ run' \in [RunIds -> RunRow]
      /\ \A r \in RunIds : run'[r].epoch = run[r].epoch
      /\ \A r \in RunIds \ S : run'[r] = run[r]
      /\ \A r \in S : /\ run'[r].state = "queued" /\ run'[r].status = "queued"
                      /\ run'[r].owner = NoOwner /\ run'[r].expiresAt = NoTime
  <2> DEFINE back(r) == [run[r] EXCEPT !.state = "queued", !.status = "queued",
                                       !.owner = NoOwner, !.expiresAt = NoTime,
                                       !.notBefore = now]
  <2>1. \A r \in S : run'[r] = back(r)
    BY <1>2, <1>3 DEF Requeued
  <2>2. \A r \in RunIds \ S : run'[r] = run[r]
    BY <1>2 DEF Requeued
  <2>3. \A r \in S : /\ back(r) \in RunRow /\ back(r).epoch = run[r].epoch
                    /\ back(r).state = "queued" /\ back(r).status = "queued"
                    /\ back(r).owner = NoOwner /\ back(r).expiresAt = NoTime
    <3>1. ASSUME NEW row \in RunRow, NEW t \in Nat
          PROVE  LET new == [row EXCEPT !.state = "queued", !.status = "queued",
                                        !.owner = NoOwner, !.expiresAt = NoTime,
                                        !.notBefore = t] IN
                 /\ new \in RunRow /\ new.epoch = row.epoch
                 /\ new.state = "queued" /\ new.status = "queued"
                 /\ new.owner = NoOwner /\ new.expiresAt = NoTime
      BY DEF RunRow
    <3>2. \A r \in S : run[r] \in RunRow
      BY <1>3 DEF TypeOK
    <3> QED BY <1>1, <3>1, <3>2
  <2>4. run' = [r \in RunIds |-> run'[r]]
    BY <1>2 DEF Requeued
  <2> HIDE DEF back
  <2>5. \A r \in RunIds : run'[r] \in RunRow
    BY <2>1, <2>2, <2>3 DEF TypeOK
  <2> QED BY <1>3, <2>1, <2>2, <2>3, <2>4, <2>5
<1>5. TypeOK'
  BY <1>2, <1>4 DEF TypeOK
<1>6. RowConsistent'
  BY <1>4 DEF RowConsistent, Terminal
<1>7. EpochsAreSpent'
  <2>1. \A v \in Workers : held'[v] # NoLease => held'[v] = held[v]
    OBVIOUS
  <2>2. \A v \in Workers : held[v] # NoLease => held[v].run \in RunIds
    BY HeldType
  <2>3. \A r \in RunIds : run'[r].state = "absent" => run[r].state = "absent"
    BY <1>4
  <2> QED BY <1>2, <1>4, <2>1, <2>2, <2>3 DEF EpochsAreSpent
<1>8. KeyNamesARun'
  BY <1>2, <1>3, <1>4 DEF KeyNamesARun, TypeOK, KeyRow
<1> QED BY <1>5, <1>6, <1>7, <1>8

-----------------------------------------------------------------------------
(* Every step preserves the invariant.                                      *)
LEMMA NextQueueInv == QueueInv /\ [Next]_queueVars => QueueInv'
<1> SUFFICES ASSUME QueueInv, [Next]_queueVars PROVE QueueInv'
  OBVIOUS
<1>1. CASE UNCHANGED queueVars
  BY <1>1 DEF queueVars, QueueInv, TypeOK, RowConsistent, EpochsAreSpent,
              KeyNamesARun
<1>2. CASE Tick
  <2>1. clock' \in 0..MaxTime /\ UNCHANGED <<run, key, held, writer>>
    BY <1>2, RunQueueAssumption DEF Tick, QueueInv, TypeOK
  <2> QED BY <2>1 DEF QueueInv, TypeOK, RowConsistent, EpochsAreSpent,
              KeyNamesARun
<1>3. CASE \E now \in Readings : Enqueues(now)
  <2>1. PICK now \in Readings, k \in Keys \cup {NoKey}, id \in RunIds,
             sel \in Selectors : Fresh(id) /\ Enqueue(id, sel, k, now)
    BY <1>3 DEF Enqueues, FreshIds
  <2>2. CASE AnswerFromKey(k, now) \/ EnqueueConflict(sel, k, now)
    BY <2>2, AnswerFromKeyInv
  <2>3. CASE EnqueueCoalesced(id, sel, k, now)
    BY <2>3, EnqueueCoalescedInv
  <2>4. CASE EnqueueInserted(id, sel, k, now)
    BY <2>1, <2>4, InsertedInv
  <2> QED BY <2>1, <2>2, <2>3, <2>4 DEF Enqueue
<1>11. CASE \E now \in Readings, k \in Keys : ResetConflict(k, now)
  BY <1>11, AnswerFromKeyInv
<1>12. CASE \E now \in Readings, k \in Keys, id \in FreshIds :
              ResetAccepted(id, k, now)
  BY <1>12, InsertedInv DEF FreshIds
<1>4. CASE \E now \in Readings, w \in Workers : ClaimNext(w, now)
  BY <1>4, ClaimNextInv
<1>5. CASE \E now \in Readings, w \in Workers : RenewClaim(w, now)
  BY <1>5, RenewClaimInv
<1>6. CASE \E now \in Readings : RecoverExpiredClaims(now)
  BY <1>6, RecoverLeasesInv
     DEF RecoverExpiredClaims, ExpiredAt, QueueInv, TypeOK
<1>7. CASE \E now \in Readings : RecoverAfterExclusiveStart(now)
  BY <1>7, RecoverLeasesInv DEF RecoverAfterExclusiveStart
<1>8. CASE \E w \in Workers : GuardedWrite(w)
  BY <1>8, GuardedWriteInv
<1>9. CASE \E w \in Workers, status \in Terminal : FinishRun(w, status)
  BY <1>9, FinishRunInv
<1>10. CASE \E w \in Workers : Abandon(w)
  BY <1>10, ForgetInv DEF Abandon, QueueInv, TypeOK
<1> QED BY <1>1, <1>2, <1>3, <1>4, <1>5, <1>6, <1>7, <1>8, <1>9, <1>10, <1>11,
           <1>12 DEF Next, QueueStep

(* The invariant holds in every reachable state of the queue.               *)
THEOREM QueueInvariant == Spec => []QueueInv
<1>1. Init => QueueInv
  BY InitQueueInv
<1>2. QueueInv /\ [Next]_queueVars => QueueInv'
  BY NextQueueInv
<1> QED BY <1>1, <1>2, PTL DEF Spec

(* Type correctness of the queue tables and of the workers' leases.         *)
THEOREM TypeCorrect == Spec => []TypeOK
BY QueueInvariant, PTL DEF QueueInv

(* The two state columns and the lease columns of a row always agree.       *)
THEOREM RowsConsistent == Spec => []RowConsistent
BY QueueInvariant, PTL DEF QueueInv

(* Epochs are never reused: no lease is ahead of its row, no two claims of  *)
(* a run share an epoch.                                                    *)
THEOREM EpochsSpent == Spec => []EpochsAreSpent
BY QueueInvariant, PTL DEF QueueInv

(* The three together: what every other argument about the queue starts     *)
(* from.                                                                    *)
THEOREM TablesSound == Spec => []TablesOK
BY TypeCorrect, RowsConsistent, EpochsSpent, PTL DEF TablesOK

(* A remembered key refers to an inserted run.                              *)
THEOREM KeysNameRuns == Spec => []KeyNamesARun
BY QueueInvariant, PTL DEF QueueInv

(* At most one worker's lease on a run is current, for any assignment of    *)
(* owner names to workers, the service's single name included.              *)
THEOREM LeaseExclusive == Spec => []ExclusiveLease
<1>1. QueueInv => ExclusiveLease
  <2> SUFFICES ASSUME QueueInv, NEW v \in Workers, NEW w \in Workers,
                      Current(held[v]), Current(held[w]),
                      held[v].run = held[w].run
               PROVE  v = w
    BY DEF ExclusiveLease
  <2>1. held[v].epoch = held[w].epoch /\ held[v] # NoLease /\ held[w] # NoLease
    BY DEF Current
  <2> QED BY <2>1 DEF QueueInv, EpochsAreSpent
<1> QED BY <1>1, QueueInvariant, PTL

-----------------------------------------------------------------------------
(* A claim picks a queued run and changes no other.                         *)
LEMMA ClaimShape ==
  ASSUME NEW w, NEW now, ClaimNext(w, now)
  PROVE  \E q \in RunIds :
           /\ run[q].state = "queued" /\ UNCHANGED writer
           /\ run' = [run EXCEPT ![q].state = "leased", ![q].status = "running",
                                 ![q].owner = OwnerOf[w],
                                 ![q].epoch = run[q].epoch + 1,
                                 ![q].expiresAt = now + LeaseDuration]
<1>1. PICK q \in Oldest({p \in InState("queued") : run[p].notBefore <= now}) :
        run' = [run EXCEPT ![q].state = "leased", ![q].status = "running",
                           ![q].owner = OwnerOf[w],
                           ![q].epoch = run[q].epoch + 1,
                           ![q].expiresAt = now + LeaseDuration]
  BY DEF ClaimNext
<1>2. q \in RunIds /\ run[q].state = "queued"
  BY DEF Oldest, InState
<1>3. UNCHANGED writer
  BY DEF ClaimNext
<1> QED BY <1>1, <1>2, <1>3

(* How one step changes a row, in every reachable state.                    *)
LEMMA StepShape ==
  ASSUME QueueInv, Next, NEW r \in RunIds
  PROVE  /\ writer'[r] >= writer[r]
         /\ run[r].state = "finished" =>
              run'[r] = run[r] /\ writer'[r] = writer[r]
         /\ run'[r].epoch >= run[r].epoch
         /\ (run[r].state = "queued" /\ run'[r].state # "queued") =>
              run'[r].state = "leased" /\ run'[r].epoch > run[r].epoch
<1> USE DEF QueueInv
<1>1. run[r].epoch \in Nat /\ writer[r] \in Nat /\ writer[r] <= run[r].epoch
  BY DEF TypeOK, RunRow, EpochsAreSpent
<1>2. CASE UNCHANGED <<run, writer>>
  BY <1>1, <1>2
<1>3. CASE \E now \in Readings, sel \in Selectors, id \in RunIds :
             /\ run[id].state = "absent" /\ UNCHANGED writer
             /\ run' = [run EXCEPT ![id] = NewRun(sel, now)]
  <2>1. PICK now \in Readings, sel \in Selectors, id \in RunIds :
             /\ run[id].state = "absent" /\ UNCHANGED writer
             /\ run' = [run EXCEPT ![id] = NewRun(sel, now)]
    BY <1>3
  <2>2. run[id].epoch = 0 /\ run'[id].epoch = 0
    BY <2>1, ReadingType, NewRunType DEF EpochsAreSpent, TypeOK
  <2> QED BY <1>1, <2>1, <2>2 DEF TypeOK
<1>4. CASE \E now \in Readings, w \in Workers : ClaimNext(w, now)
  <2> PICK w \in Workers, now \in Readings : ClaimNext(w, now)
    BY <1>4
  <2>1. PICK q \in RunIds :
          /\ run[q].state = "queued" /\ UNCHANGED writer
          /\ run' = [run EXCEPT ![q].state = "leased", ![q].status = "running",
                                ![q].owner = OwnerOf[w],
                                ![q].epoch = run[q].epoch + 1,
                                ![q].expiresAt = now + LeaseDuration]
    BY ClaimShape
  <2>2. CASE q = r
    BY <1>1, <2>1, <2>2 DEF TypeOK, RunRow
  <2>3. CASE q # r
    BY <1>1, <2>1, <2>3 DEF TypeOK
  <2> QED BY <2>2, <2>3
<1>5. CASE \E now \in Readings, w \in Workers : RenewClaim(w, now)
  <2>1. PICK w \in Workers, now \in Readings : RenewClaim(w, now)
    BY <1>5
  <2>2. /\ held[w].run \in RunIds /\ run[held[w].run].state = "leased"
        /\ UNCHANGED writer
        /\ run' = [run EXCEPT ![held[w].run].expiresAt = now + LeaseDuration]
    BY <2>1, HeldType DEF RenewClaim, Current
  <2>3. CASE held[w].run = r
    BY <1>1, <2>2, <2>3 DEF TypeOK, RunRow
  <2>4. CASE held[w].run # r
    BY <1>1, <2>2, <2>4 DEF TypeOK
  <2> QED BY <2>3, <2>4
<1>6. CASE \E w \in Workers : GuardedWrite(w)
  <2>1. PICK w \in Workers : GuardedWrite(w)
    BY <1>6
  <2>2. /\ held[w].run \in RunIds /\ held[w].epoch \in Nat
        /\ run[held[w].run].state = "leased"
        /\ writer[held[w].run] <= held[w].epoch
    BY <2>1, HeldType DEF GuardedWrite, Current, EpochsAreSpent
  <2> QED BY <1>1, <2>1, <2>2 DEF GuardedWrite, TypeOK
<1>7. CASE \E w \in Workers, status \in Terminal : FinishRun(w, status)
  <2>1. PICK w \in Workers, status \in Terminal : FinishRun(w, status)
    BY <1>7
  <2>2. /\ held[w].run \in RunIds /\ held[w].epoch \in Nat
        /\ run[held[w].run].state = "leased"
        /\ writer[held[w].run] <= held[w].epoch
    BY <2>1, HeldType DEF FinishRun, Current, EpochsAreSpent
  <2>3. CASE held[w].run = r
    BY <1>1, <2>1, <2>2, <2>3 DEF FinishRun, TypeOK, RunRow
  <2>4. CASE held[w].run # r
    <3>1. run'[r] = run[r]
      BY <2>1, <2>4 DEF FinishRun, TypeOK
    <3>2. writer'[r] = writer[r]
      BY <2>1, <2>4 DEF FinishRun, TypeOK
    <3> QED BY <1>1, <3>1, <3>2
  <2> QED BY <2>3, <2>4
<1>8. CASE \E now \in Readings : \/ RecoverExpiredClaims(now)
                               \/ RecoverAfterExclusiveStart(now)
  <2>1. PICK now \in Readings : \/ RecoverExpiredClaims(now)
                               \/ RecoverAfterExclusiveStart(now)
    BY <1>8
  <2>2. PICK S \in SUBSET InState("leased") : RecoverLeases(S, now)
    <3>1. ExpiredAt(now) \in SUBSET InState("leased")
      BY DEF ExpiredAt
    <3> QED BY <2>1, <3>1 DEF RecoverExpiredClaims, RecoverAfterExclusiveStart
  <2>3. run' = Requeued(S, now) /\ UNCHANGED writer
    BY <2>2 DEF RecoverLeases
  <2>4. CASE r \in S
    <3>1. run[r].state = "leased"
      BY <2>4 DEF InState
    <3>2. run'[r].epoch = run[r].epoch
      <4>1. run[r] \in RunRow
        BY DEF TypeOK
      <4>2. run'[r] = [run[r] EXCEPT !.state = "queued", !.status = "queued",
                                     !.owner = NoOwner, !.expiresAt = NoTime,
                                     !.notBefore = now]
        BY <2>3, <2>4 DEF Requeued
      <4> QED BY <4>1, <4>2 DEF RunRow
    <3> QED BY <1>1, <2>3, <3>1, <3>2
  <2>5. CASE r \notin S
    <3>1. run'[r] = run[r]
      BY <2>3, <2>5 DEF Requeued
    <3> QED BY <1>1, <2>3, <3>1
  <2> QED BY <2>4, <2>5
<1> QED
  BY <1>2, <1>3, <1>4, <1>5, <1>6, <1>7, <1>8, RunQueueAssumption
     DEF Next, QueueStep, Tick, Enqueues, FreshIds, Fresh, Enqueue,
         AnswerFromKey, EnqueueCoalesced, EnqueueConflict, EnqueueInserted,
         ResetConflict, ResetAccepted, Abandon

(* Fencing: writes for a run take effect in the order of its claims.        *)
THEOREM Fencing == Spec => NoLateWriter
<1>1. QueueInv /\ [Next]_queueVars =>
        [\A r \in RunIds : writer'[r] >= writer[r]]_queueVars
  BY StepShape
<1> QED BY <1>1, QueueInvariant, PTL DEF Spec, NoLateWriter

(* Finished runs are immutable, whatever stale workers and recoveries do.   *)
THEOREM FinalityOfFinish == Spec => FinishedIsFinal
<1>1. QueueInv /\ [Next]_queueVars =>
        [\A r \in RunIds : run[r].state = "finished" =>
           run'[r] = run[r] /\ writer'[r] = writer[r]]_queueVars
  BY StepShape
<1> QED BY <1>1, QueueInvariant, PTL DEF Spec, FinishedIsFinal

(* Every way out of the queue is a claim with a higher epoch.               *)
THEOREM NumberedClaims == Spec => ClaimsAreNumbered
<1>1. QueueInv /\ [Next]_queueVars =>
        [\A r \in RunIds :
           /\ run'[r].epoch >= run[r].epoch
           /\ (run[r].state = "queued" /\ run'[r].state # "queued") =>
                run'[r].state = "leased" /\ run'[r].epoch > run[r].epoch]_queueVars
  BY StepShape
<1> QED BY <1>1, QueueInvariant, PTL DEF Spec, ClaimsAreNumbered

(* A key keeps its answer until it expires.                                 *)
THEOREM StableKeys == Spec => KeyIsStable
<1>1. ASSUME QueueInv, [Next]_queueVars, NEW k \in Keys,
             key[k] # NoKey, key'[k] # key[k]
      PROVE  key[k].expiresAt <= clock
  <2>1. clock \in Nat /\ key[k].expiresAt \in Nat
    BY <1>1, RunQueueAssumption DEF QueueInv, TypeOK, KeyRow
  <2>2. PICK now \in Readings :
          \/ Enqueues(now)
          \/ \E j \in Keys : ResetConflict(j, now)
          \/ \E j \in Keys, id \in FreshIds : ResetAccepted(id, j, now)
    BY <1>1 DEF Next, QueueStep, queueVars, Tick, ClaimNext, RenewClaim,
       RecoverExpiredClaims, RecoverAfterExclusiveStart, RecoverLeases,
       GuardedWrite, FinishRun, Abandon
  <2>3. now \in Nat /\ now <= clock
    BY <1>1, ReadingType DEF QueueInv
  <2>4. PICK j \in Keys \cup {NoKey}, request \in Selectors \cup {ResetOp},
             r \in RunIds, id \in RunIds :
          \/ key' = Unexpired(now)
          \/ ~Known(j, now) /\ key' = Remember(j, request, r, id, now)
    BY <2>2, RunQueueAssumption
       DEF Enqueues, FreshIds, Enqueue, AnswerFromKey, EnqueueCoalesced,
           EnqueueConflict, EnqueueInserted, ResetConflict, ResetAccepted,
           Oldest, QueuedFor, InState
  <2>5. CASE key'[k] = Unexpired(now)[k]
    BY <1>1, <2>1, <2>3, <2>5, UnexpiredType DEF QueueInv
  <2>6. CASE key'[k] # Unexpired(now)[k]
    <3>1. TypeOK
      BY <1>1 DEF QueueInv
    <3>2. ~Known(j, now) /\ key' = Remember(j, request, r, id, now)
      BY <2>4, <2>6
    <3>3. j = k
      BY <2>3, <2>6, <3>1, <3>2, RememberType
    <3>4. key[k].expiresAt <= now
      BY <1>1, <2>3, <3>1, <3>2, <3>3, KnownIsLive, RunQueueAssumption
    <3> QED BY <2>1, <2>3, <3>4
  <2> QED BY <2>5, <2>6
<1>2. QueueInv /\ [Next]_queueVars =>
        [\A k \in Keys : (key[k] # NoKey /\ key'[k] # key[k]) =>
           key[k].expiresAt <= clock]_queueVars
  BY <1>1
<1> QED BY <1>2, QueueInvariant, PTL DEF Spec, KeyIsStable
=============================================================================
