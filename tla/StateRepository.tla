-------------------------- MODULE StateRepository --------------------------
(***************************************************************************)
(* The SQLite state repository: the run queue together with the tables a   *)
(* lease protects.  entity_index_state says what the service believes is   *)
(* in the remote vector store, run_snapshot records what graph a run read, *)
(* run_work the staged items of a run, deletion_audit its deletions.       *)
(* Every guarded operation is a GuardedWrite of the queue (ensure_lease in *)
(* the same transaction) plus what it writes.  A work item is one of       *)
(* upsert or delete for one entity; an entity's vector address is its name.*)
(***************************************************************************)
EXTENDS RunQueue

CONSTANTS
  Entities,  \* exact entity names
  Hashes,    \* content hashes of canonical documents
  NoRow      \* absent row, NULL hash

VARIABLES
  rows,      \* entity_index_state: by entity
  snapshot,  \* run_snapshot: by run
  work,      \* run_work: by run, entity and action
  audit      \* deletion_audit: by run and entity

tables == <<rows, snapshot, work, audit>>
stateVars == <<queueVars, tables>>

Actions == {"upsert", "delete"}

Row == [status: {"indexed", "deleted"}, hash: Hashes]
WorkRow == [status: {"pending", "succeeded", "failed"}, hash: Hashes \cup {NoRow}]
Items == RunIds \X Entities \X Actions

ASSUME StateAssumption == NoRow \notin Row \cup WorkRow \cup Hashes

-----------------------------------------------------------------------------
StateInit == /\ Init
             /\ rows = [e \in Entities |-> NoRow]
             /\ snapshot = [r \in RunIds |-> "none"]
             /\ work = [i \in Items |-> NoRow]
             /\ audit = [i \in RunIds \X Entities |-> "none"]

(* list_indexed_entities: name and hash of the rows in status indexed.     *)
ListIndexed ==
  [e \in {x \in Entities : rows[x] # NoRow /\ rows[x].status = "indexed"} |->
     rows[e].hash]

(* Mutant: the snapshot is upserted without ensure_lease.                  *)
RecordSnapshotUnfenced(w, proof) ==
  /\ held[w] # NoLease
  /\ snapshot' = [snapshot EXCEPT ![held[w].run] = proof]
  /\ UNCHANGED <<queueVars, rows, work, audit>>

RecordSnapshot(w, proof) ==
  /\ GuardedWrite(w)
  /\ snapshot' = [snapshot EXCEPT ![held[w].run] = proof]
  /\ UNCHANGED <<rows, work, audit>>

(* Staging an item again updates its hash and makes it pending again       *)
(* unless it had succeeded.                                                *)
Staged(i, h) ==
  [status |-> IF work[i] # NoRow /\ work[i].status = "succeeded"
              THEN "succeeded" ELSE "pending",
   hash |-> h]

StageUpsert(w, e, h) ==
  /\ GuardedWrite(w)
  /\ LET i == <<held[w].run, e, "upsert">> IN work' = [work EXCEPT ![i] = Staged(i, h)]
  /\ UNCHANGED <<rows, snapshot, audit>>

(* Mutant: the trigger forgets the selector.                               *)
MayDeleteAnySelector(r) == snapshot[r] = "complete"

(* Trigger deletion_work_requires_complete_full_snapshot, before every     *)
(* insert of delete work.                                                  *)
MayDelete(r) == run[r].selector = Full /\ snapshot[r] = "complete"

StageDelete(w, e) ==
  /\ GuardedWrite(w)
  /\ MayDelete(held[w].run)
  /\ LET r == held[w].run
         i == <<r, e, "delete">>
     IN /\ work' = [work EXCEPT ![i] = Staged(i, NoRow)]
        /\ audit' = [audit EXCEPT ![<<r, e>>] = IF @ = "none" THEN "pending" ELSE @]
  /\ UNCHANGED <<rows, snapshot>>

(* complete_work and fail_work refuse an item that was not staged.         *)
Settle(i, status) ==
  /\ work[i] # NoRow
  /\ work' = [work EXCEPT ![i].status = status]

(* Mutant: a stale lease may commit.                                       *)
CompleteUpsertUnfenced(w, e, h) ==
  /\ held[w] # NoLease
  /\ Settle(<<held[w].run, e, "upsert">>, "succeeded")
  /\ rows' = [rows EXCEPT ![e] = [status |-> "indexed", hash |-> h]]
  /\ UNCHANGED <<queueVars, snapshot, audit>>

CompleteUpsert(w, e, h) ==
  /\ GuardedWrite(w)
  /\ Settle(<<held[w].run, e, "upsert">>, "succeeded")
  /\ rows' = [rows EXCEPT ![e] = [status |-> "indexed", hash |-> h]]
  /\ UNCHANGED <<snapshot, audit>>

CompleteDelete(w, e) ==
  /\ GuardedWrite(w)
  /\ Settle(<<held[w].run, e, "delete">>, "succeeded")
  /\ rows' = [x \in Entities |-> IF x = e /\ rows[x] # NoRow
                                 THEN [rows[x] EXCEPT !.status = "deleted"]
                                 ELSE rows[x]]
  /\ audit' = [audit EXCEPT ![<<held[w].run, e>>] = "deleted"]
  /\ UNCHANGED snapshot

(* Mutant: a failed deletion is not audited.                               *)
FailWorkUnaudited(w, e, a) ==
  /\ GuardedWrite(w)
  /\ Settle(<<held[w].run, e, a>>, "failed")
  /\ UNCHANGED <<rows, snapshot, audit>>

FailWork(w, e, a) ==
  /\ GuardedWrite(w)
  /\ Settle(<<held[w].run, e, a>>, "failed")
  /\ audit' = IF a = "delete"
              THEN [audit EXCEPT ![<<held[w].run, e>>] = "failed"] ELSE audit
  /\ UNCHANGED <<rows, snapshot>>

(* The reset forgets every row and queues a full run in one transaction.   *)
ResetLocalIndexState(id, k, now) ==
  /\ ResetAccepted(id, k, now)
  /\ rows' = [e \in Entities |-> NoRow]
  /\ UNCHANGED <<snapshot, work, audit>>

-----------------------------------------------------------------------------
(* A claim holder may call any guarded operation at any time, the ones of  *)
(* an earlier claim of the same run left behind included.                  *)
GuardedStep(w) ==
  \/ \E proof \in {"partial", "complete"} : RecordSnapshot(w, proof)
  \/ \E e \in Entities, h \in Hashes : StageUpsert(w, e, h) \/ CompleteUpsert(w, e, h)
  \/ \E e \in Entities : StageDelete(w, e) \/ CompleteDelete(w, e)
  \/ \E e \in Entities, a \in Actions : FailWork(w, e, a)

StateNext ==
  \/ QueueStep /\ UNCHANGED tables
  \/ \E now \in Readings, k \in Keys, id \in FreshIds : ResetLocalIndexState(id, k, now)
  \/ \E w \in Workers : GuardedStep(w)

StateSpec == StateInit /\ [][StateNext]_stateVars

-----------------------------------------------------------------------------
(* Types of the payload tables.                                            *)
StateTypeOK ==
  /\ rows \in [Entities -> Row \cup {NoRow}]
  /\ snapshot \in [RunIds -> {"none", "partial", "complete"}]
  /\ work \in [Items -> WorkRow \cup {NoRow}]
  /\ audit \in [RunIds \X Entities -> {"none", "pending", "deleted", "failed"}]

(* The audit trail and the work table tell one story about every deletion, *)
(* through restaging, retries in a later claim and failures: an item is    *)
(* audited from the moment it is staged, "deleted" exactly when its work   *)
(* succeeded, and "failed" only while its work failed or waits again.      *)
AuditMatchesWork ==
  \A r \in RunIds, e \in Entities :
    LET item == work[<<r, e, "delete">>] IN
    /\ (audit[<<r, e>>] = "none") <=> (item = NoRow)
    /\ item # NoRow =>
         /\ (audit[<<r, e>>] = "deleted") <=> (item.status = "succeeded")
         /\ item.status = "failed" => audit[<<r, e>>] = "failed"

(* Delete work exists only for full runs that have read a graph.           *)
DeletionIsFull ==
  \A r \in RunIds, e \in Entities :
    work[<<r, e, "delete">>] # NoRow => run[r].selector = Full /\ snapshot[r] # "none"

(* Payload tables are well typed, and work that removes an entity belongs   *)
(* to full runs only, through every restaging and every later claim.       *)
StateTablesOK == StateTypeOK /\ DeletionIsFull

(* Once a run is finished, nothing under its id changes in any table, its   *)
(* own row and the record of who wrote last included, even while an earlier *)
(* claimant of it is still executing or a start recovers leases.           *)
FinishedTablesFrozen ==
  FinishedIsFinal /\ [][\A r \in RunIds : run[r].state = "finished" =>
       /\ snapshot'[r] = snapshot[r]
       /\ \A e \in Entities :
            /\ audit'[<<r, e>>] = audit[<<r, e>>]
            /\ \A a \in Actions : work'[<<r, e, a>>] = work[<<r, e, a>>]]_stateVars

(* The index table changes for one of two reasons only: a leased run has   *)
(* just succeeded with that entity, or an idle service forgets everything. *)
RowChangeHasCause ==
  [][\A e \in Entities : rows'[e] # rows[e] =>
       \/ /\ InState("queued") \cup InState("leased") = {}
          /\ \A x \in Entities : rows'[x] = NoRow
       \/ \E r \in InState("leased"), a \in Actions :
            /\ work'[<<r, e, a>>] # NoRow
            /\ work'[<<r, e, a>>].status = "succeeded"
            /\ rows'[e] # NoRow
            /\ rows'[e].status = (IF a = "upsert" THEN "indexed" ELSE "deleted")
    ]_stateVars
=============================================================================
