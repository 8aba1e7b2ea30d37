------------------------------ MODULE RunQueue ------------------------------
(***************************************************************************)
(* The durable run queue: the tables `run` and `idempotency_key` of        *)
(* migrations/0001_state.sql and the operations adapters/sqlite/mod.rs     *)
(* offers on them.  Every operation is one BEGIN IMMEDIATE transaction, so  *)
(* it is one action; what interleaves is the callers: request handlers     *)
(* that read the clock before their transaction starts, and workers that   *)
(* keep a lease in memory while the row moves on without them.             *)
(*                                                                         *)
(* The payload tables a lease protects (snapshot, work, audit) are added   *)
(* by StateRepository; here a guarded write leaves only its trace in the   *)
(* history variable writer.                                                *)
(***************************************************************************)
EXTENDS Integers

CONSTANTS
  RunIds,        \* UUIDs the service may mint
  Selectors,     \* what a run may ask for
  Full,          \* the selector of a full scan (selector_value IS NULL)
  Keys,          \* Idempotency-Key header values
  ResetOp,       \* the request hash of a reset of the local index
  Workers,       \* loops that call process_once
  OwnerOf,       \* the lease owner name each worker uses
  NoOwner, NoTime, NoKey, NoLease,   \* SQL NULL, and "nothing"
  LeaseDuration, \* state.lease_seconds
  TtlHours,      \* api.idempotency_ttl_hours
  ReadLag,       \* bound: age of a clock reading when its transaction runs
  MaxTime,       \* bound: last instant of the clock
  MaxEpoch       \* bound: claims of one run

VARIABLES
  clock,   \* now, in seconds
  run,     \* table run: one row for each id, state "absent" if not inserted
  key,     \* table idempotency_key
  held,    \* the ClaimedRun each worker has in memory
  writer   \* history: epoch of the last lease-guarded write for each run

queueVars == <<clock, run, key, held, writer>>

(* config.rs: the configured number of hours becomes that many SECONDS.    *)
IdempotencyTtl == TtlHours

Owners == {OwnerOf[w] : w \in Workers}
Terminal == {"succeeded", "partial", "failed"}

RunRow == [state: {"absent", "queued", "leased", "finished"},
           status: {"queued", "running"} \cup Terminal,
           selector: Selectors,
           requestedAt: Nat,
           notBefore: Nat,
           owner: Owners \cup {NoOwner},
           epoch: Nat,
           expiresAt: Nat \cup {NoTime}]

KeyRow == [request: Selectors \cup {ResetOp},  \* request_hash
           run: RunIds,                        \* run_id
           body: RunIds,                       \* the runId in response_body_json
           createdAt: Nat,
           expiresAt: Nat]

Lease == [run: RunIds, owner: Owners, epoch: Nat]

ASSUME RunQueueAssumption ==
  /\ Full \in Selectors
  /\ ResetOp \notin Selectors
  /\ OwnerOf \in [Workers -> Owners]
  /\ NoOwner \notin Owners
  /\ NoTime \notin Nat
  /\ NoKey \notin KeyRow /\ NoKey \notin Keys
  /\ NoLease \notin Lease
  /\ LeaseDuration \in Nat \ {0} /\ TtlHours \in Nat \ {0}
  /\ ReadLag \in Nat /\ MaxTime \in Nat /\ MaxEpoch \in Nat

-----------------------------------------------------------------------------
(* Inserting a run: epoch 0, due at once, no lease.                        *)
NewRun(sel, now) ==
  [state |-> "queued", status |-> "queued", selector |-> sel,
   requestedAt |-> now, notBefore |-> now,
   owner |-> NoOwner, epoch |-> 0, expiresAt |-> NoTime]

NoRun == [NewRun(Full, 0) EXCEPT !.state = "absent"]

InState(s) == {r \in RunIds : run[r].state = s}

(* Mutant: a request joins a run that executes.                            *)
UnfinishedFor(sel) ==
  {r \in InState("queued") \cup InState("leased") : run[r].selector = sel}

QueuedFor(sel) == {r \in InState("queued") : run[r].selector = sel}

(* The rows of S with the earliest requested_at; ids are random UUIDs, so  *)
(* ORDER BY requested_at, id picks any of them.                            *)
Oldest(S) == {r \in S : \A q \in S : run[r].requestedAt <= run[q].requestedAt}

(* Unique index one_queued_selector; SQL NULLs are distinct, so it does    *)
(* not constrain full scans.                                               *)
OneQueuedSelector(rows) ==
  \A r, q \in RunIds :
    (/\ rows[r].state = "queued" /\ rows[q].state = "queued"
     /\ rows[r].selector = rows[q].selector
     /\ rows[r].selector # Full) => r = q

(* A UUID is fresh when no row and no stored response mentions it.         *)
Fresh(id) == /\ run[id].state = "absent"
             /\ \A k \in Keys : key[k] # NoKey => key[k].body # id

(* Clock readings a caller may still be carrying.                          *)
Readings == {t \in 0..clock : clock - t <= ReadLag}

(* Mutant: the owner alone is compared.                                    *)
CurrentByOwner(l) == /\ l # NoLease
                     /\ run[l.run].state = "leased"
                     /\ run[l.run].owner = l.owner

(* ensure_lease: the row is leased to exactly this owner and epoch.        *)
Current(l) == /\ l # NoLease
              /\ run[l.run].state = "leased"
              /\ run[l.run].owner = l.owner
              /\ run[l.run].epoch = l.epoch

Unexpired(now) ==
  [k \in Keys |-> IF key[k] # NoKey /\ key[k].expiresAt <= now
                  THEN NoKey ELSE key[k]]

(* The key table after a request that named key k (NoKey: it named none)   *)
(* was answered with run r; body is the id the handler minted.             *)
Remember(k, request, r, body, now) ==
  IF k = NoKey THEN Unexpired(now)
  ELSE [Unexpired(now) EXCEPT ![k] =
          [request |-> request, run |-> r, body |-> body,
           createdAt |-> now, expiresAt |-> now + IdempotencyTtl]]

Known(k, now) == k # NoKey /\ Unexpired(now)[k] # NoKey

-----------------------------------------------------------------------------
Init == /\ clock = 0
        /\ run = [r \in RunIds |-> NoRun]
        /\ key = [k \in Keys |-> NoKey]
        /\ held = [w \in Workers |-> NoLease]
        /\ writer = [r \in RunIds |-> 0]

Tick == /\ clock < MaxTime
        /\ clock' = clock + 1
        /\ UNCHANGED <<run, key, held, writer>>

(* A known key answers the request from the table (replay) or refuses it   *)
(* (other request): either way only expired keys change.                   *)
AnswerFromKey(k, now) ==
  /\ Known(k, now)
  /\ key' = Unexpired(now)
  /\ UNCHANGED <<clock, run, held, writer>>

(* Mutant: a live key is overwritten (INSERT OR REPLACE, no lookup).       *)
EnqueueCoalescedOverKey(id, sel, k, now) ==
  /\ \E r \in Oldest(QueuedFor(sel)) : key' = Remember(k, sel, r, id, now)
  /\ UNCHANGED <<clock, run, held, writer>>

EnqueueCoalesced(id, sel, k, now) ==
  /\ ~Known(k, now)
  /\ \E r \in Oldest(QueuedFor(sel)) : key' = Remember(k, sel, r, id, now)
  /\ UNCHANGED <<clock, run, held, writer>>

(* Mutant: the key is stored for a refused request too, naming no run.     *)
EnqueueConflictRemembered(sel, k, now) ==
  /\ ~Known(k, now)
  /\ QueuedFor(sel) = {} /\ InState("queued") # {}
  /\ \E id \in RunIds : Fresh(id) /\ key' = Remember(k, sel, id, id, now)
  /\ UNCHANGED <<clock, run, held, writer>>

EnqueueConflict(sel, k, now) ==
  /\ ~Known(k, now)
  /\ QueuedFor(sel) = {} /\ InState("queued") # {}
  /\ key' = Unexpired(now)
  /\ UNCHANGED <<clock, run, held, writer>>

EnqueueInserted(id, sel, k, now) ==
  /\ ~Known(k, now)
  /\ InState("queued") = {}
  /\ run' = [run EXCEPT ![id] = NewRun(sel, now)]
  /\ key' = Remember(k, sel, id, id, now)
  /\ UNCHANGED <<clock, held, writer>>

Enqueue(id, sel, k, now) ==
  \/ AnswerFromKey(k, now)
  \/ EnqueueCoalesced(id, sel, k, now)
  \/ EnqueueConflict(sel, k, now)
  \/ EnqueueInserted(id, sel, k, now)

(* Reset: the key first, then the queue must be idle.                      *)
ResetConflict(k, now) ==
  /\ ~Known(k, now)
  /\ InState("queued") \cup InState("leased") # {}
  /\ key' = Unexpired(now)
  /\ UNCHANGED <<clock, run, held, writer>>

ResetAccepted(id, k, now) ==
  /\ ~Known(k, now)
  /\ InState("queued") \cup InState("leased") = {}
  /\ run' = [run EXCEPT ![id] = NewRun(Full, now)]
  /\ key' = Remember(k, ResetOp, id, id, now)
  /\ UNCHANGED <<clock, held, writer>>

-----------------------------------------------------------------------------
(* Mutant: a claim does not take a new epoch.                              *)
ClaimNextSameEpoch(w, now) ==
  /\ held[w] = NoLease
  /\ \E r \in Oldest({q \in InState("queued") : run[q].notBefore <= now}) :
       /\ run' = [run EXCEPT ![r].state = "leased", ![r].status = "running",
                             ![r].owner = OwnerOf[w],
                             ![r].expiresAt = now + LeaseDuration]
       /\ held' = [held EXCEPT ![w] =
                     [run |-> r, owner |-> OwnerOf[w], epoch |-> run[r].epoch]]
  /\ UNCHANGED <<clock, key, writer>>

ClaimNext(w, now) ==
  /\ held[w] = NoLease
  /\ \E r \in Oldest({q \in InState("queued") : run[q].notBefore <= now}) :
       LET epoch == run[r].epoch + 1 IN
       /\ epoch <= MaxEpoch
       /\ run' = [run EXCEPT ![r].state = "leased", ![r].status = "running",
                             ![r].owner = OwnerOf[w], ![r].epoch = epoch,
                             ![r].expiresAt = now + LeaseDuration]
       /\ held' = [held EXCEPT ![w] =
                     [run |-> r, owner |-> OwnerOf[w], epoch |-> epoch]]
  /\ UNCHANGED <<clock, key, writer>>

RenewClaim(w, now) ==
  /\ Current(held[w])
  /\ run' = [run EXCEPT ![held[w].run].expiresAt = now + LeaseDuration]
  /\ UNCHANGED <<clock, key, held, writer>>

(* Any write of record_snapshot, stage_work, complete_work or fail_work:   *)
(* what it does to its table is StateRepository's.                         *)
GuardedWrite(w) ==
  /\ Current(held[w])
  /\ writer' = [writer EXCEPT ![held[w].run] = held[w].epoch]
  /\ UNCHANGED <<clock, run, key, held>>

FinishRun(w, status) ==
  /\ Current(held[w])
  /\ run' = [run EXCEPT ![held[w].run].state = "finished",
                        ![held[w].run].status = status,
                        ![held[w].run].owner = NoOwner,
                        ![held[w].run].expiresAt = NoTime]
  /\ writer' = [writer EXCEPT ![held[w].run] = held[w].epoch]
  /\ held' = [held EXCEPT ![w] = NoLease]
  /\ UNCHANGED <<clock, key>>

(* The executor returns early with an error, or shutdown drops its future: *)
(* the lease is forgotten and the row is not touched.                      *)
Abandon(w) ==
  /\ held[w] # NoLease
  /\ held' = [held EXCEPT ![w] = NoLease]
  /\ UNCHANGED <<clock, run, key, writer>>

-----------------------------------------------------------------------------
(* Mutant: recovery starts the epoch over.                                 *)
RequeuedFromEpochZero(S, now) ==
  [r \in RunIds |-> IF r \in S
                    THEN [NewRun(run[r].selector, run[r].requestedAt)
                            EXCEPT !.notBefore = now]
                    ELSE run[r]]

Requeued(S, now) ==
  [r \in RunIds |-> IF r \in S
                    THEN [run[r] EXCEPT !.state = "queued", !.status = "queued",
                                        !.owner = NoOwner, !.expiresAt = NoTime,
                                        !.notBefore = now]
                    ELSE run[r]]

(* recover_leases: one UPDATE over all of S, refused as a whole when it    *)
(* would break the unique index.                                           *)
RecoverLeases(S, now) ==
  /\ OneQueuedSelector(Requeued(S, now))
  /\ run' = Requeued(S, now)
  /\ UNCHANGED <<clock, key, writer>>

ExpiredAt(now) == {r \in InState("leased") : run[r].expiresAt <= now}

RecoverExpiredClaims(now) ==
  /\ RecoverLeases(ExpiredAt(now), now)
  /\ UNCHANGED held

(* Under the process lock no earlier process survives, so no lease does.   *)
RecoverAfterExclusiveStart(now) ==
  /\ RecoverLeases(InState("leased"), now)
  /\ held' = [w \in Workers |-> NoLease]

-----------------------------------------------------------------------------
FreshIds == {r \in RunIds : Fresh(r)}

Enqueues(now) ==
  \E k \in Keys \cup {NoKey}, id \in FreshIds, sel \in Selectors :
    Enqueue(id, sel, k, now)

(* Steps that touch none of the payload tables.                            *)
QueueStep ==
  \/ Tick
  \/ \E now \in Readings :
       \/ Enqueues(now)
       \/ \E k \in Keys : ResetConflict(k, now)
       \/ \E w \in Workers : ClaimNext(w, now) \/ RenewClaim(w, now)
       \/ RecoverExpiredClaims(now)
       \/ RecoverAfterExclusiveStart(now)
  \/ \E w \in Workers :
       \/ \E status \in Terminal : FinishRun(w, status)
       \/ Abandon(w)

Next ==
  \/ QueueStep
  \/ \E now \in Readings, k \in Keys, id \in FreshIds : ResetAccepted(id, k, now)
  \/ \E w \in Workers : GuardedWrite(w)

Spec == Init /\ [][Next]_queueVars
-----------------------------------------------------------------------------
(* Types of the tables and of what the workers hold.                       *)
TypeOK ==
  /\ clock \in 0..MaxTime
  /\ run \in [RunIds -> RunRow]
  /\ key \in [Keys -> KeyRow \cup {NoKey}]
  /\ held \in [Workers -> Lease \cup {NoLease}]
  /\ writer \in [RunIds -> Nat]

(* The two status columns and the lease columns of a row are rewritten by  *)
(* different statements (claim, recovery, finish) and always agree: the    *)
(* CHECK on leased rows, and status against queue_state.                   *)
RowConsistent ==
  \A r \in RunIds :
    /\ (run[r].state = "leased") <=> (run[r].owner # NoOwner)
    /\ (run[r].state = "leased") <=> (run[r].expiresAt # NoTime)
    /\ (run[r].state = "leased") <=> (run[r].status = "running")
    /\ (run[r].state = "finished") <=> (run[r].status \in Terminal)

(* No worker holds, and nothing was written under, an epoch the row has    *)
(* not reached, and no two claims of a run share one: what keeps an old    *)
(* lease from ever becoming current again.                                 *)
EpochsAreSpent ==
  /\ \A w \in Workers : held[w] # NoLease =>
       held[w].epoch <= run[held[w].run].epoch
  /\ \A v, w \in Workers :
       (/\ v # w /\ held[v] # NoLease /\ held[w] # NoLease
        /\ held[v].run = held[w].run) => held[v].epoch # held[w].epoch
  /\ \A r \in RunIds : /\ writer[r] <= run[r].epoch
                       /\ run[r].state = "absent" => run[r].epoch = 0

(* The run table is sound: its types, the agreement of its columns and the  *)
(* order of its epochs, through claims, recoveries, restarts and finishes.  *)
TablesOK == TypeOK /\ RowConsistent /\ EpochsAreSpent

(* At most one worker's lease on a run is current, although every worker   *)
(* of the service uses the same owner name and a recovered run is claimed  *)
(* again while its first claimant is still executing.                      *)
ExclusiveLease ==
  \A v, w \in Workers :
    (/\ Current(held[v]) /\ Current(held[w])
     /\ held[v].run = held[w].run) => v = w

(* A remembered idempotency key always refers to an inserted run, the      *)
(* coalesced answers included (foreign key of idempotency_key.run_id).     *)
KeyNamesARun ==
  \A k \in Keys : key[k] # NoKey => run[key[k].run].state # "absent"

(* Fencing: once a later claim has written for a run, no write of an       *)
(* earlier claim of that run ever takes effect.                            *)
NoLateWriter == [][\A r \in RunIds : writer'[r] >= writer[r]]_queueVars

(* A finished run is never changed, requeued or written for again, by any  *)
(* worker that still holds one of its leases or by any recovery.           *)
FinishedIsFinal ==
  [][\A r \in RunIds : run[r].state = "finished" =>
       run'[r] = run[r] /\ writer'[r] = writer[r]]_queueVars

(* A claim is the only way out of the queue, and every claim is fenced off *)
(* from the ones before it by a higher epoch.                              *)
ClaimsAreNumbered ==
  [][\A r \in RunIds :
       /\ run'[r].epoch >= run[r].epoch
       /\ (run[r].state = "queued" /\ run'[r].state # "queued") =>
            run'[r].state = "leased" /\ run'[r].epoch > run[r].epoch]_queueVars

(* Until it expires, a key keeps the run and the response it was first     *)
(* answered with, whatever other requests arrive in between.               *)
KeyIsStable ==
  [][\A k \in Keys : (key[k] # NoKey /\ key'[k] # key[k]) =>
       key[k].expiresAt <= clock]_queueVars

-----------------------------------------------------------------------------
(* What the documents say and the code does not do.                        *)

(* runbook.md: the next exclusive start recovers leased state.  Recovery   *)
(* must therefore be possible in every state.                              *)
StartCanRecover ==
  \A now \in Readings : OneQueuedSelector(Requeued(InState("leased"), now))

(* A replayed response names the run the first response named.             *)
ReplayNamesTheAnsweredRun ==
  \A k \in Keys : key[k] # NoKey => key[k].body = key[k].run
=============================================================================
