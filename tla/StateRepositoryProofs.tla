------------------------ MODULE StateRepositoryProofs ------------------------
(* Proofs about StateRepository, for every set of runs, entities, hashes,   *)
(* keys and workers: it implements the run queue, and its tables agree.     *)
EXTENDS StateRepository, RunQueueProofs

(* Nothing is staged or recorded under an id that is not in table run.      *)
WorkHasRun ==
  \A r \in RunIds : run[r].state = "absent" =>
    \A e \in Entities : work[<<r, e, "delete">>] = NoRow

(* The queue's invariant carries over through the refinement; the rest is   *)
(* inductive next to it.                                                    *)
TableInv == StateTypeOK /\ AuditMatchesWork /\ DeletionIsFull /\ WorkHasRun

-----------------------------------------------------------------------------
(* Every guarded operation is a guarded write of the queue.                 *)
LEMMA GuardedStepWrites ==
  ASSUME NEW w \in Workers, GuardedStep(w)
  PROVE  GuardedWrite(w)
BY DEF GuardedStep, RecordSnapshot, StageUpsert, StageDelete, CompleteUpsert,
       CompleteDelete, FailWork

LEMMA StateStepIsQueueStep == [StateNext]_stateVars => [Next]_queueVars
<1>1. CASE QueueStep
  BY <1>1 DEF Next
<1>2. CASE \E now \in Readings, k \in Keys, id \in FreshIds :
             ResetLocalIndexState(id, k, now)
  BY <1>2 DEF Next, ResetLocalIndexState
<1>3. CASE \E w \in Workers : GuardedStep(w)
  BY <1>3, GuardedStepWrites DEF Next
<1>4. CASE UNCHANGED stateVars
  BY <1>4 DEF stateVars
<1> QED BY <1>1, <1>2, <1>3, <1>4 DEF StateNext

(* The repository with all its tables implements the fenced run queue, so   *)
(* every theorem about the queue holds of it.                               *)
THEOREM ImplementsQueue == StateSpec => Spec
<1>1. StateInit => Init
  BY DEF StateInit
<1> QED BY <1>1, StateStepIsQueueStep, PTL DEF StateSpec, Spec

LEMMA StateQueueInv == StateSpec => []QueueInv
BY ImplementsQueue, QueueInvariant, PTL

-----------------------------------------------------------------------------
(* A run that exists keeps its selector and its existence.                  *)
LEMMA SelectorIsFixed ==
  ASSUME QueueInv, [Next]_queueVars, NEW r \in RunIds, run[r].state # "absent"
  PROVE  run'[r].selector = run[r].selector /\ run'[r].state # "absent"
<1> USE DEF QueueInv
<1>1. run[r] \in RunRow
  BY DEF TypeOK
<1>2. CASE UNCHANGED run
  BY <1>2
<1>3. CASE \E id \in RunIds, row \in RunRow :
             run[id].state = "absent" /\ run' = [run EXCEPT ![id] = row]
  BY <1>3 DEF TypeOK
<1>4. CASE \E now \in Readings, w \in Workers : ClaimNext(w, now)
  <2> PICK w \in Workers, now \in Readings : ClaimNext(w, now)
    BY <1>4
  <2>1. PICK q \in RunIds :
          /\ run[q].state = "queued" /\ UNCHANGED writer
          /\ run' = [run EXCEPT ![q].state = "leased", ![q].status = "running",
                                ![q].owner = OwnerOf[w],
                                ![q].epoch = run[q].epoch + 1,
                                ![q].expiresAt = now + LeaseDuration]
    BY ClaimShape
  <2>2. CASE q = r
    BY <1>1, <2>1, <2>2 DEF TypeOK, RunRow
  <2>3. CASE q # r
    BY <1>1, <2>1, <2>3 DEF TypeOK
  <2> QED BY <2>2, <2>3
<1>5. CASE \E now \in Readings, w \in Workers : RenewClaim(w, now)
  <2>1. PICK w \in Workers, now \in Readings :
          /\ held[w].run \in RunIds
          /\ run' = [run EXCEPT ![held[w].run].expiresAt = now + LeaseDuration]
    BY <1>5, HeldType DEF RenewClaim, Current
  <2>2. CASE held[w].run = r
    BY <1>1, <2>1, <2>2 DEF TypeOK, RunRow
  <2>3. CASE held[w].run # r
    BY <1>1, <2>1, <2>3 DEF TypeOK
  <2> QED BY <2>2, <2>3
<1>6. CASE \E w \in Workers, status \in Terminal : FinishRun(w, status)
  <2>1. PICK w \in Workers, status \in Terminal :
          /\ held[w].run \in RunIds
          /\ FinishRun(w, status)
    BY <1>6, HeldType DEF FinishRun, Current
  <2>2. CASE held[w].run = r
    BY <1>1, <2>1, <2>2 DEF FinishRun, TypeOK, RunRow
  <2>3. CASE held[w].run # r
    BY <1>1, <2>1, <2>3 DEF FinishRun, TypeOK
  <2> QED BY <2>2, <2>3
<1>7. CASE \E now \in Readings : \/ RecoverExpiredClaims(now)
                               \/ RecoverAfterExclusiveStart(now)
  <2>1. PICK now \in Readings, S \in SUBSET RunIds : run' = Requeued(S, now)
    BY <1>7 DEF RecoverExpiredClaims, RecoverAfterExclusiveStart, RecoverLeases,
                ExpiredAt, InState
  <2>2. CASE r \in S
    BY <1>1, <2>1, <2>2 DEF Requeued, RunRow
  <2>3. CASE r \notin S
    BY <2>1, <2>3 DEF Requeued
  <2> QED BY <2>2, <2>3
<1>8. ASSUME NEW now \in Readings, NEW sel \in Selectors
      PROVE  NewRun(sel, now) \in RunRow
  BY ReadingType, NewRunType
<1> QED
  BY <1>2, <1>3, <1>4, <1>5, <1>6, <1>7, <1>8, RunQueueAssumption
     DEF Next, QueueStep, Tick, Enqueues, FreshIds, Fresh, Enqueue,
         AnswerFromKey, EnqueueCoalesced, EnqueueConflict, EnqueueInserted,
         ResetConflict, ResetAccepted, GuardedWrite, Abandon, queueVars

(* Steps that leave the tables alone keep what the tables say of runs.      *)
LEMMA TablesUntouched ==
  ASSUME QueueInv, TableInv, [Next]_queueVars, UNCHANGED <<snapshot, work, audit>>,
         rows' \in [Entities -> Row \cup {NoRow}]
  PROVE  TableInv'
<1> USE DEF TableInv
<1>1. StateTypeOK' /\ AuditMatchesWork'
  BY DEF StateTypeOK, AuditMatchesWork
<1>2. ASSUME NEW r \in RunIds, NEW e \in Entities, work[<<r, e, "delete">>] # NoRow
      PROVE  run[r].state # "absent"
  BY <1>2 DEF WorkHasRun
<1>3. DeletionIsFull'
  BY <1>2, SelectorIsFixed DEF DeletionIsFull
<1>4. WorkHasRun'
  BY <1>2, SelectorIsFixed DEF WorkHasRun
<1> QED BY <1>1, <1>3, <1>4
-----------------------------------------------------------------------------
(* The run of a guarded write is a leased run, and the run table stays.     *)
LEMMA GuardedRun ==
  ASSUME QueueInv, NEW w \in Workers, GuardedWrite(w)
  PROVE  /\ held[w].run \in RunIds
         /\ run[held[w].run].state = "leased"
         /\ UNCHANGED <<clock, run, key, held>>
         /\ [Next]_queueVars
BY HeldType DEF GuardedWrite, Current, QueueInv, Next

(* Types of the items an operation names.                                   *)
LEMMA ItemTypes ==
  ASSUME NEW r \in RunIds, NEW e \in Entities, NEW a \in Actions
  PROVE  <<r, e, a>> \in Items /\ <<r, e>> \in RunIds \X Entities
BY DEF Items

LEMMA StagedType ==
  ASSUME StateTypeOK, NEW i \in Items, NEW h \in Hashes \cup {NoRow}
  PROVE  /\ Staged(i, h) \in WorkRow /\ Staged(i, h) # NoRow
         /\ Staged(i, h).status # "failed"
         /\ Staged(i, h).status = "succeeded" <=>
              (work[i] # NoRow /\ work[i].status = "succeeded")
BY StateAssumption DEF Staged, StateTypeOK, WorkRow

LEMMA SettleType ==
  ASSUME StateTypeOK, NEW i \in Items, NEW status \in {"succeeded", "failed"},
         Settle(i, status)
  PROVE  /\ work' \in [Items -> WorkRow \cup {NoRow}]
         /\ work[i] # NoRow /\ work'[i] # NoRow /\ work'[i].status = status
         /\ \A j \in Items : j # i => work'[j] = work[j]
<1>1. work[i] \in WorkRow
  BY DEF Settle, StateTypeOK
<1>2. [work[i] EXCEPT !.status = status] \in WorkRow
  BY <1>1 DEF WorkRow
<1>3. [work[i] EXCEPT !.status = status].status = status
  BY <1>1 DEF WorkRow
<1>4. work' = [work EXCEPT ![i] = [work[i] EXCEPT !.status = status]]
  BY DEF Settle
<1> QED BY <1>2, <1>3, <1>4, StateAssumption DEF Settle, StateTypeOK

-----------------------------------------------------------------------------
LEMMA RecordSnapshotInv ==
  ASSUME QueueInv, TableInv, NEW w \in Workers, NEW proof \in {"partial", "complete"},
         RecordSnapshot(w, proof)
  PROVE  TableInv'
<1> USE DEF TableInv
<1>1. held[w].run \in RunIds /\ UNCHANGED run
  BY GuardedRun DEF RecordSnapshot
<1>2. /\ \A r \in RunIds : snapshot'[r] # "none" \/ snapshot'[r] = snapshot[r]
      /\ snapshot' \in [RunIds -> {"none", "partial", "complete"}]
  BY <1>1 DEF RecordSnapshot, StateTypeOK
<1>3. StateTypeOK'
  BY <1>2 DEF StateTypeOK, RecordSnapshot
<1>4. AuditMatchesWork' /\ WorkHasRun'
  BY <1>1 DEF AuditMatchesWork, WorkHasRun, RecordSnapshot
<1>5. DeletionIsFull'
  BY <1>1, <1>2 DEF DeletionIsFull, RecordSnapshot
<1> QED BY <1>3, <1>4, <1>5

(* An operation on upsert items leaves every deletion as it was.            *)
LEMMA UpsertItemPreserves ==
  ASSUME QueueInv, TableInv, NEW w \in Workers, GuardedWrite(w),
         NEW e \in Entities, UNCHANGED <<snapshot, audit>>,
         rows' \in [Entities -> Row \cup {NoRow}],
         work' \in [Items -> WorkRow \cup {NoRow}],
         \A j \in Items : j # <<held[w].run, e, "upsert">> => work'[j] = work[j]
  PROVE  TableInv'
<1> USE DEF TableInv
<1>1. UNCHANGED run
  BY GuardedRun
<1>2. \A r \in RunIds, x \in Entities : work'[<<r, x, "delete">>] = work[<<r, x, "delete">>]
  BY ItemTypes DEF Actions
<1>3. StateTypeOK'
  BY DEF StateTypeOK
<1> QED BY <1>1, <1>2, <1>3 DEF AuditMatchesWork, DeletionIsFull, WorkHasRun

LEMMA StageUpsertInv ==
  ASSUME QueueInv, TableInv, NEW w \in Workers, NEW e \in Entities, NEW h \in Hashes,
         StageUpsert(w, e, h)
  PROVE  TableInv'
<1> DEFINE i == <<held[w].run, e, "upsert">>
<1>1. i \in Items /\ GuardedWrite(w) /\ StateTypeOK
  BY GuardedRun, ItemTypes DEF StageUpsert, TableInv, Actions
<1>2. Staged(i, h) \in WorkRow
  BY <1>1, StagedType
<1>3. work' = [work EXCEPT ![i] = Staged(i, h)] /\ UNCHANGED <<rows, snapshot, audit>>
  BY DEF StageUpsert
<1> HIDE DEF i
<1>4. /\ work' \in [Items -> WorkRow \cup {NoRow}]
      /\ \A j \in Items : j # i => work'[j] = work[j]
  BY <1>1, <1>2, <1>3 DEF StateTypeOK
<1>5. rows' \in [Entities -> Row \cup {NoRow}]
  BY <1>1, <1>3 DEF StateTypeOK
<1> QED BY <1>1, <1>3, <1>4, <1>5, UpsertItemPreserves DEF i

LEMMA CompleteUpsertInv ==
  ASSUME QueueInv, TableInv, NEW w \in Workers, NEW e \in Entities, NEW h \in Hashes,
         CompleteUpsert(w, e, h)
  PROVE  TableInv'
<1> DEFINE i == <<held[w].run, e, "upsert">>
<1>1. i \in Items /\ GuardedWrite(w) /\ StateTypeOK
  BY GuardedRun, ItemTypes DEF CompleteUpsert, TableInv, Actions
<1>2. Settle(i, "succeeded")
  BY DEF CompleteUpsert
<1>3. rows' \in [Entities -> Row \cup {NoRow}] /\ UNCHANGED <<snapshot, audit>>
  BY <1>1 DEF CompleteUpsert, StateTypeOK, Row
<1> HIDE DEF i
<1>4. /\ work' \in [Items -> WorkRow \cup {NoRow}]
      /\ \A j \in Items : j # i => work'[j] = work[j]
  BY <1>1, <1>2, SettleType
<1> QED BY <1>1, <1>3, <1>4, UpsertItemPreserves DEF i

(* An operation on one delete item of a run that may have it: the item and  *)
(* its audit row must agree afterwards, all others are as they were.        *)
LEMMA DeleteItemPreserves ==
  ASSUME QueueInv, TableInv, NEW w \in Workers, GuardedWrite(w),
         NEW e \in Entities, UNCHANGED snapshot,
         rows' \in [Entities -> Row \cup {NoRow}],
         work' \in [Items -> WorkRow \cup {NoRow}],
         audit' \in [RunIds \X Entities -> {"none", "pending", "deleted", "failed"}],
         \A j \in Items : j # <<held[w].run, e, "delete">> => work'[j] = work[j],
         \A j \in RunIds \X Entities : j # <<held[w].run, e>> => audit'[j] = audit[j],
         run[held[w].run].selector = Full /\ snapshot[held[w].run] # "none",
         work'[<<held[w].run, e, "delete">>] # NoRow,
         audit'[<<held[w].run, e>>] # "none",
         audit'[<<held[w].run, e>>] = "deleted" <=>
           work'[<<held[w].run, e, "delete">>].status = "succeeded",
         work'[<<held[w].run, e, "delete">>].status = "failed" =>
           audit'[<<held[w].run, e>>] = "failed"
  PROVE  TableInv'
<1> USE DEF TableInv
<1> DEFINE r == held[w].run
<1>1. UNCHANGED run /\ r \in RunIds /\ run[r].state = "leased"
  BY GuardedRun
<1>2. ASSUME NEW q \in RunIds, NEW x \in Entities, ~(q = r /\ x = e)
      PROVE  /\ work'[<<q, x, "delete">>] = work[<<q, x, "delete">>]
             /\ audit'[<<q, x>>] = audit[<<q, x>>]
  BY <1>2, ItemTypes DEF Actions
<1>3. StateTypeOK'
  BY DEF StateTypeOK
<1>4. AuditMatchesWork'
  <2> SUFFICES ASSUME NEW q \in RunIds, NEW x \in Entities
               PROVE  LET item == work'[<<q, x, "delete">>] IN
                      /\ (audit'[<<q, x>>] = "none") <=> (item = NoRow)
                      /\ item # NoRow =>
                           /\ (audit'[<<q, x>>] = "deleted") <=> (item.status = "succeeded")
                           /\ item.status = "failed" => audit'[<<q, x>>] = "failed"
    BY DEF AuditMatchesWork
  <2>1. CASE q = r /\ x = e
    BY <2>1
  <2>2. CASE ~(q = r /\ x = e)
    BY <1>2, <2>2 DEF AuditMatchesWork
  <2> QED BY <2>1, <2>2
<1>5. DeletionIsFull'
  <2> SUFFICES ASSUME NEW q \in RunIds, NEW x \in Entities,
                      work'[<<q, x, "delete">>] # NoRow
               PROVE  run[q].selector = Full /\ snapshot[q] # "none"
    BY <1>1 DEF DeletionIsFull
  <2>1. CASE q = r /\ x = e
    BY <2>1
  <2>2. CASE ~(q = r /\ x = e)
    <3>1. work[<<q, x, "delete">>] # NoRow
      BY <1>2, <2>2
    <3>2. UNCHANGED run /\ snapshot'[q] = snapshot[q]
      BY <1>1
    <3> QED BY <3>1, <3>2 DEF DeletionIsFull
  <2> QED BY <2>1, <2>2
<1>6. WorkHasRun'
  <2> USE DEF WorkHasRun
  <2> SUFFICES ASSUME NEW q \in RunIds, NEW x \in Entities,
                      run[q].state = "absent"
               PROVE  work'[<<q, x, "delete">>] = NoRow
    BY <1>1
  <2>1. q # r
    BY <1>1
  <2>2. work'[<<q, x, "delete">>] = work[<<q, x, "delete">>]
    BY <1>2, <2>1
  <2> QED BY <2>2
<1> QED BY <1>3, <1>4, <1>5, <1>6

LEMMA StageDeleteInv ==
  ASSUME QueueInv, TableInv, NEW w \in Workers, NEW e \in Entities, StageDelete(w, e)
  PROVE  TableInv'
<1> DEFINE r == held[w].run
           i == <<r, e, "delete">>
           a == <<r, e>>
<1>1. /\ GuardedWrite(w) /\ StateTypeOK /\ r \in RunIds
      /\ i \in Items /\ a \in RunIds \X Entities
  BY GuardedRun, ItemTypes DEF StageDelete, TableInv, Actions
<1>2. /\ run[r].selector = Full /\ snapshot[r] # "none"
      /\ UNCHANGED <<rows, snapshot>>
      /\ work' = [work EXCEPT ![i] = Staged(i, NoRow)]
      /\ audit' = [audit EXCEPT ![a] = IF audit[a] = "none" THEN "pending" ELSE audit[a]]
  BY DEF StageDelete, MayDelete
<1>3. /\ Staged(i, NoRow) \in WorkRow /\ Staged(i, NoRow) # NoRow
      /\ Staged(i, NoRow).status # "failed"
      /\ Staged(i, NoRow).status = "succeeded" <=>
           (work[i] # NoRow /\ work[i].status = "succeeded")
  BY <1>1, StagedType
<1>4. /\ (audit[a] = "none") <=> (work[i] = NoRow)
      /\ work[i] # NoRow => (audit[a] = "deleted" <=> work[i].status = "succeeded")
  BY <1>1 DEF TableInv, AuditMatchesWork
<1>5. rows' \in [Entities -> Row \cup {NoRow}]
  BY <1>1, <1>2 DEF StateTypeOK
<1> HIDE DEF i, a
<1>6. /\ work'[i] = Staged(i, NoRow)
      /\ audit'[a] = IF audit[a] = "none" THEN "pending" ELSE audit[a]
      /\ work' \in [Items -> WorkRow \cup {NoRow}]
      /\ audit' \in [RunIds \X Entities -> {"none", "pending", "deleted", "failed"}]
      /\ \A j \in Items : j # i => work'[j] = work[j]
      /\ \A j \in RunIds \X Entities : j # a => audit'[j] = audit[j]
  BY <1>1, <1>2, <1>3 DEF StateTypeOK
<1>7. /\ work'[i] # NoRow /\ audit'[a] # "none"
      /\ audit'[a] = "deleted" <=> work'[i].status = "succeeded"
      /\ work'[i].status = "failed" => audit'[a] = "failed"
  BY <1>3, <1>4, <1>6
<1>8. /\ \A j \in Items : j # <<held[w].run, e, "delete">> => work'[j] = work[j]
      /\ \A j \in RunIds \X Entities : j # <<held[w].run, e>> => audit'[j] = audit[j]
      /\ run[held[w].run].selector = Full /\ snapshot[held[w].run] # "none"
      /\ work'[<<held[w].run, e, "delete">>] # NoRow
      /\ audit'[<<held[w].run, e>>] # "none"
      /\ audit'[<<held[w].run, e>>] = "deleted" <=>
           work'[<<held[w].run, e, "delete">>].status = "succeeded"
      /\ work'[<<held[w].run, e, "delete">>].status = "failed" =>
           audit'[<<held[w].run, e>>] = "failed"
  BY <1>2, <1>6, <1>7 DEF i, a
<1>9. UNCHANGED snapshot /\ GuardedWrite(w)
  BY <1>1, <1>2
<1>10. /\ work' \in [Items -> WorkRow \cup {NoRow}]
       /\ audit' \in [RunIds \X Entities -> {"none", "pending", "deleted", "failed"}]
  BY <1>6
<1> HIDE DEF r
<1> QED BY <1>5, <1>8, <1>9, <1>10, DeleteItemPreserves

(* What completing or failing a staged delete item leaves behind.           *)
LEMMA SettleDeleteInv ==
  ASSUME QueueInv, TableInv, NEW w \in Workers, NEW e \in Entities, GuardedWrite(w),
         NEW status \in {"succeeded", "failed"},
         Settle(<<held[w].run, e, "delete">>, status),
         audit' = [audit EXCEPT ![<<held[w].run, e>>] =
                     IF status = "succeeded" THEN "deleted" ELSE "failed"],
         rows' \in [Entities -> Row \cup {NoRow}], UNCHANGED snapshot
  PROVE  TableInv'
<1> DEFINE r == held[w].run
           i == <<r, e, "delete">>
           a == <<r, e>>
           result == IF status = "succeeded" THEN "deleted" ELSE "failed"
<1>1. /\ StateTypeOK /\ r \in RunIds
      /\ i \in Items /\ a \in RunIds \X Entities
  BY GuardedRun, ItemTypes DEF TableInv, Actions
<1>2. /\ work' \in [Items -> WorkRow \cup {NoRow}]
      /\ work[i] # NoRow /\ work'[i] # NoRow /\ work'[i].status = status
      /\ \A j \in Items : j # i => work'[j] = work[j]
  BY <1>1, SettleType
<1>3. run[r].selector = Full /\ snapshot[r] # "none"
  BY <1>1, <1>2 DEF TableInv, DeletionIsFull
<1> HIDE DEF i, a
<1>4. /\ audit'[a] = result
      /\ audit' \in [RunIds \X Entities -> {"none", "pending", "deleted", "failed"}]
      /\ \A j \in RunIds \X Entities : j # a => audit'[j] = audit[j]
  BY <1>1 DEF StateTypeOK, a
<1>5. /\ work'[i] # NoRow /\ audit'[a] # "none"
      /\ audit'[a] = "deleted" <=> work'[i].status = "succeeded"
      /\ work'[i].status = "failed" => audit'[a] = "failed"
  BY <1>2, <1>4
<1> QED BY <1>1, <1>2, <1>3, <1>4, <1>5, DeleteItemPreserves DEF i, a

LEMMA CompleteDeleteInv ==
  ASSUME QueueInv, TableInv, NEW w \in Workers, NEW e \in Entities, CompleteDelete(w, e)
  PROVE  TableInv'
<1>1. rows' \in [Entities -> Row \cup {NoRow}]
  <2>1. ASSUME NEW x \in Entities, rows[x] # NoRow
        PROVE  [rows[x] EXCEPT !.status = "deleted"] \in Row
    BY <2>1 DEF TableInv, StateTypeOK, Row
  <2>2. \A x \in Entities : rows[x] \in Row \cup {NoRow}
    BY DEF TableInv, StateTypeOK
  <2> QED BY <2>1, <2>2 DEF CompleteDelete
<1> QED BY <1>1, SettleDeleteInv DEF CompleteDelete

LEMMA FailWorkInv ==
  ASSUME QueueInv, TableInv, NEW w \in Workers, NEW e \in Entities, NEW a \in Actions,
         FailWork(w, e, a)
  PROVE  TableInv'
<1>1. rows' \in [Entities -> Row \cup {NoRow}] /\ GuardedWrite(w) /\ UNCHANGED snapshot
  BY DEF TableInv, StateTypeOK, FailWork
<1>2. CASE a = "delete"
  BY <1>1, <1>2, SettleDeleteInv DEF FailWork
<1>3. CASE a = "upsert"
  <2> DEFINE i == <<held[w].run, e, "upsert">>
  <2>1. i \in Items /\ StateTypeOK
    BY <1>1, GuardedRun, ItemTypes DEF TableInv, Actions
  <2>2. Settle(i, "failed") /\ UNCHANGED audit
    BY <1>3 DEF FailWork
  <2> HIDE DEF i
  <2>3. /\ work' \in [Items -> WorkRow \cup {NoRow}]
        /\ \A j \in Items : j # i => work'[j] = work[j]
    BY <2>1, <2>2, SettleType
  <2> QED BY <1>1, <2>2, <2>3, UpsertItemPreserves DEF i
<1> QED BY <1>2, <1>3 DEF Actions

-----------------------------------------------------------------------------
(* The inductive step, one case per kind of step.                           *)
LEMMA NextTableInv == QueueInv /\ TableInv /\ [StateNext]_stateVars => TableInv'
<1> SUFFICES ASSUME QueueInv, TableInv, [StateNext]_stateVars PROVE TableInv'
  OBVIOUS
<1>1. [Next]_queueVars
  BY StateStepIsQueueStep
<1>2. CASE UNCHANGED tables
  BY <1>1, <1>2, TablesUntouched DEF tables, TableInv, StateTypeOK
<1>3. CASE \E now \in Readings, k \in Keys, id \in FreshIds :
             ResetLocalIndexState(id, k, now)
  BY <1>1, <1>3, TablesUntouched DEF ResetLocalIndexState
<1>4. CASE \E w \in Workers : GuardedStep(w)
  BY <1>4, RecordSnapshotInv, StageUpsertInv, CompleteUpsertInv, StageDeleteInv,
     CompleteDeleteInv, FailWorkInv DEF GuardedStep
<1> QED BY <1>2, <1>3, <1>4 DEF StateNext, stateVars, tables

LEMMA InitTableInv == StateInit => TableInv
<1> SUFFICES ASSUME StateInit PROVE TableInv
  OBVIOUS
<1>1. StateTypeOK
  BY DEF StateInit, StateTypeOK
<1>2. \A r \in RunIds, e \in Entities :
        work[<<r, e, "delete">>] = NoRow /\ audit[<<r, e>>] = "none"
  BY ItemTypes DEF StateInit, Actions
<1> QED BY <1>1, <1>2 DEF TableInv, AuditMatchesWork, DeletionIsFull, WorkHasRun

(* The table invariant holds in every reachable state of the repository.    *)
THEOREM TableInvariant == StateSpec => []TableInv
BY InitTableInv, NextTableInv, StateQueueInv, PTL DEF StateSpec

(* Types of the payload tables.                                             *)
THEOREM StateTypeCorrect == StateSpec => []StateTypeOK
BY TableInvariant, PTL DEF TableInv

(* The audit trail and the work table agree about every deletion, through   *)
(* restaging, retries in a later claim and failures.                        *)
THEOREM AuditAgrees == StateSpec => []AuditMatchesWork
BY TableInvariant, PTL DEF TableInv

(* Delete work exists only for full runs that recorded a snapshot.          *)
THEOREM DeletionsAreFull == StateSpec => []DeletionIsFull
BY TableInvariant, PTL DEF TableInv

(* Both together.                                                           *)
THEOREM StateTablesSound == StateSpec => []StateTablesOK
BY StateTypeCorrect, DeletionsAreFull, PTL DEF StateTablesOK

-----------------------------------------------------------------------------
(* Finished runs: a guarded step writes under the id of a leased run only.  *)
LEMMA GuardedStepFrame ==
  ASSUME QueueInv, TableInv, NEW w \in Workers, GuardedStep(w),
         NEW r \in RunIds, r # held[w].run
  PROVE  /\ snapshot'[r] = snapshot[r]
         /\ \A e \in Entities :
              /\ audit'[<<r, e>>] = audit[<<r, e>>]
              /\ \A a \in Actions : work'[<<r, e, a>>] = work[<<r, e, a>>]
<1> USE DEF TableInv, StateTypeOK
<1>1. ASSUME NEW e \in Entities, NEW x \in Entities, NEW a \in Actions, NEW b \in Actions
      PROVE  /\ <<r, e, a>> \in Items /\ <<r, e>> \in RunIds \X Entities
             /\ <<r, e, a>> # <<held[w].run, x, b>> /\ <<r, e>> # <<held[w].run, x>>
  BY ItemTypes
<1>2. ASSUME NEW x \in Entities, NEW b \in Actions, NEW s \in {"succeeded", "failed"},
             Settle(<<held[w].run, x, b>>, s)
      PROVE  \A e \in Entities, a \in Actions : work'[<<r, e, a>>] = work[<<r, e, a>>]
  BY <1>1, <1>2 DEF Settle
<1>3. CASE \E proof \in {"partial", "complete"} : RecordSnapshot(w, proof)
  BY <1>3 DEF RecordSnapshot
<1>4. CASE \E x \in Entities, h \in Hashes : StageUpsert(w, x, h)
  BY <1>1, <1>4 DEF StageUpsert, Actions
<1>5. CASE \E x \in Entities, h \in Hashes : CompleteUpsert(w, x, h)
  BY <1>2, <1>5 DEF CompleteUpsert, Actions
<1>6. CASE \E x \in Entities : StageDelete(w, x)
  BY <1>1, <1>6 DEF StageDelete, Actions
<1>7. CASE \E x \in Entities : CompleteDelete(w, x)
  BY <1>1, <1>2, <1>7 DEF CompleteDelete, Actions
<1>8. CASE \E x \in Entities, b \in Actions : FailWork(w, x, b)
  BY <1>1, <1>2, <1>8 DEF FailWork
<1> QED BY <1>3, <1>4, <1>5, <1>6, <1>7, <1>8 DEF GuardedStep

(* Nothing recorded for a finished run ever changes, whatever the workers   *)
(* that still hold a lease of it call.                                      *)
THEOREM FinishedTables == StateSpec => FinishedTablesFrozen
<1>1. ASSUME QueueInv, TableInv, [StateNext]_stateVars, NEW r \in RunIds,
             run[r].state = "finished"
      PROVE  /\ snapshot'[r] = snapshot[r]
             /\ \A e \in Entities :
                  /\ audit'[<<r, e>>] = audit[<<r, e>>]
                  /\ \A a \in Actions : work'[<<r, e, a>>] = work[<<r, e, a>>]
  <2>1. CASE \E w \in Workers : GuardedStep(w)
    <3>1. PICK w \in Workers : GuardedStep(w)
      BY <2>1
    <3>2. run[held[w].run].state = "leased"
      BY <1>1, <3>1, GuardedStepWrites, GuardedRun
    <3> QED BY <1>1, <3>1, <3>2, GuardedStepFrame
  <2> QED BY <1>1, <2>1 DEF StateNext, ResetLocalIndexState, stateVars, tables
<1>2. QueueInv /\ TableInv /\ [StateNext]_stateVars =>
        [\A r \in RunIds : run[r].state = "finished" =>
           /\ snapshot'[r] = snapshot[r]
           /\ \A e \in Entities :
                /\ audit'[<<r, e>>] = audit[<<r, e>>]
                /\ \A a \in Actions : work'[<<r, e, a>>] = work[<<r, e, a>>]]_stateVars
  BY <1>1
<1> QED
  BY <1>2, TableInvariant, StateQueueInv, ImplementsQueue, FinalityOfFinish, PTL
  DEF StateSpec, FinishedTablesFrozen

-----------------------------------------------------------------------------
(* The index table changes only with the success of an item of a leased     *)
(* run, or as a whole when no run is queued or leased.                      *)
THEOREM RowsHaveCauses == StateSpec => RowChangeHasCause
<1> DEFINE Forgotten ==
             /\ InState("queued") \cup InState("leased") = {}
             /\ \A x \in Entities : rows'[x] = NoRow
           Caused(e) ==
             \E r \in InState("leased"), a \in Actions :
               /\ work'[<<r, e, a>>] # NoRow
               /\ work'[<<r, e, a>>].status = "succeeded"
               /\ rows'[e] # NoRow
               /\ rows'[e].status = (IF a = "upsert" THEN "indexed" ELSE "deleted")
<1>1. ASSUME QueueInv, TableInv, [StateNext]_stateVars, NEW e \in Entities,
             rows'[e] # rows[e]
      PROVE  Forgotten \/ Caused(e)
  <2>1. CASE \E now \in Readings, k \in Keys, id \in FreshIds :
               ResetLocalIndexState(id, k, now)
    BY <2>1 DEF ResetLocalIndexState, ResetAccepted
  <2>2. CASE \E w \in Workers : GuardedStep(w)
    <3>1. PICK w \in Workers : GuardedStep(w)
      BY <2>2
    <3>2. held[w].run \in InState("leased")
      BY <1>1, <3>1, GuardedStepWrites, GuardedRun DEF InState
    <3>3. \/ \E h \in Hashes : CompleteUpsert(w, e, h)
          \/ CompleteDelete(w, e)
      <4>1. PICK x \in Entities :
              \/ \E h \in Hashes : CompleteUpsert(w, x, h)
              \/ CompleteDelete(w, x)
        BY <1>1, <3>1 DEF GuardedStep, RecordSnapshot, StageUpsert, StageDelete, FailWork
      <4>2. x = e
        BY <1>1, <4>1 DEF CompleteUpsert, CompleteDelete, TableInv, StateTypeOK
      <4> QED BY <4>1, <4>2
    <3>4. CASE \E h \in Hashes : CompleteUpsert(w, e, h)
      <4>1. rows'[e].status = "indexed" /\ rows'[e] # NoRow
        <5>1. PICK h \in Hashes : CompleteUpsert(w, e, h)
          BY <3>4
        <5>2. rows'[e] = [status |-> "indexed", hash |-> h]
          BY <1>1, <5>1 DEF CompleteUpsert, TableInv, StateTypeOK
        <5>3. rows'[e] \in Row
          BY <5>2 DEF Row
        <5> QED BY <5>2, <5>3, StateAssumption
      <4>2. /\ work'[<<held[w].run, e, "upsert">>] # NoRow
            /\ work'[<<held[w].run, e, "upsert">>].status = "succeeded"
        BY <1>1, <3>2, <3>4, SettleType, ItemTypes
           DEF CompleteUpsert, TableInv, InState, Actions
      <4> QED BY <3>2, <4>1, <4>2 DEF Actions
    <3>5. CASE CompleteDelete(w, e)
      <4>1. rows[e] # NoRow /\ rows[e] \in Row
        BY <1>1, <3>5 DEF CompleteDelete, TableInv, StateTypeOK
      <4>2. rows'[e].status = "deleted" /\ rows'[e] \in Row
        BY <3>5, <4>1 DEF CompleteDelete, Row
      <4>3. /\ work'[<<held[w].run, e, "delete">>] # NoRow
            /\ work'[<<held[w].run, e, "delete">>].status = "succeeded"
        BY <1>1, <3>2, <3>5, SettleType, ItemTypes
           DEF CompleteDelete, TableInv, InState, Actions
      <4> QED BY <3>2, <4>2, <4>3, StateAssumption DEF Actions
    <3> QED BY <3>3, <3>4, <3>5
  <2> QED BY <1>1, <2>1, <2>2 DEF StateNext, stateVars, tables
<1>2. QueueInv /\ TableInv /\ [StateNext]_stateVars =>
        [\A e \in Entities : rows'[e] # rows[e] =>
           \/ /\ InState("queued") \cup InState("leased") = {}
              /\ \A x \in Entities : rows'[x] = NoRow
           \/ \E r \in InState("leased"), a \in Actions :
                /\ work'[<<r, e, a>>] # NoRow
                /\ work'[<<r, e, a>>].status = "succeeded"
                /\ rows'[e] # NoRow
                /\ rows'[e].status = (IF a = "upsert" THEN "indexed" ELSE "deleted")
        ]_stateVars
  BY <1>1
<1> QED BY <1>2, TableInvariant, StateQueueInv, PTL DEF StateSpec, RowChangeHasCause

=============================================================================
