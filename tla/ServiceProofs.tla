---------------------------- MODULE ServiceProofs ----------------------------
(* Proofs about Service, for every set of processes, connections, runs and  *)
(* keys: under the lock the service implements the run queue, one process   *)
(* executes at a time, and it leaves no earlier lease behind.               *)
EXTENDS Service, RunQueueProofs

(* Only the holder of the lock is past the first step of its start.         *)
LockDiscipline == \A p \in Processes : stage[p] # "off" => lock = p

ServiceInv ==
  /\ QueueInv
  /\ ServiceTypeOK
  /\ LockDiscipline
  /\ SoleExecutor
  /\ RecoveredBeforeServing

-----------------------------------------------------------------------------
LEMMA InitServiceInv == ServiceInit => ServiceInv
<1> SUFFICES ASSUME ServiceInit PROVE ServiceInv
  OBVIOUS
<1>1. QueueInv
  BY InitQueueInv DEF ServiceInit
<1>2. ServiceTypeOK
  BY DEF ServiceInit, ServiceTypeOK, Stages
<1>3. LockDiscipline /\ SoleExecutor /\ RecoveredBeforeServing
  BY DEF ServiceInit, Init, LockDiscipline, SoleExecutor, RecoveredBeforeServing, Processes
<1> QED BY <1>1, <1>2, <1>3 DEF ServiceInv

(* An admitted request names a live process and what its transaction needs. *)
LEMMA HandlerType ==
  ASSUME ServiceInv, NEW c \in Clients, handler[c] # NoRequest
  PROVE  /\ handler[c].process \in Processes
         /\ handler[c].request # ResetOp => handler[c].request \in Selectors
         /\ handler[c].request = ResetOp => handler[c].key \in Keys
         /\ handler[c].key \in Keys \cup {NoKey}
<1>1. handler[c] \in Admitted
  BY DEF ServiceInv, ServiceTypeOK
<1> QED BY <1>1, RunQueueAssumption DEF Admitted

(* When a process recovers, nobody holds a lease.                           *)
LEMMA NobodyHolds ==
  ASSUME ServiceInv, NEW p \in Processes, stage[p] \in {"off", "locked", "recovered"},
         stage[p] # "off" \/ lock = NoProcess
  PROVE  held = [w \in Workers |-> NoLease]
<1>1. held \in [Workers -> Lease \cup {NoLease}]
  BY DEF ServiceInv, QueueInv, TypeOK
<1>2. ASSUME NEW w \in Workers, held[w] # NoLease PROVE FALSE
  <2>1. lock = w /\ w \in worker /\ Alive(w)
    BY <1>2 DEF ServiceInv, SoleExecutor, ServiceTypeOK, Processes
  <2>2. w # p
    BY <2>1 DEF Alive
  <2>3. lock = p
    BY <2>1, ServiceAssumption DEF ServiceInv, LockDiscipline
  <2> QED BY <2>1, <2>2, <2>3
<1> QED BY <1>1, <1>2

-----------------------------------------------------------------------------
(* Every step of the service is a step of the queue or leaves it alone.     *)
LEMMA LifecycleIsQueueStep ==
  ASSUME ServiceInv, NEW p \in Processes, LifecycleStep(p)
  PROVE  [Next]_queueVars
<1>1. CASE Acquire(p) \/ Serve(p) \/ Signal(p)
  BY <1>1 DEF Acquire, Serve, Signal
<1>2. CASE \E now \in Readings : Recover(p, now)
  <2>1. PICK now \in Readings : Recover(p, now)
    BY <1>2
  <2>2. held' = [w \in Workers |-> NoLease]
    BY <2>1, NobodyHolds DEF Recover
  <2>3. RecoverAfterExclusiveStart(now)
    BY <2>1, <2>2 DEF Recover, RecoverAfterExclusiveStart
  <2> QED BY <2>3 DEF Next, QueueStep
<1>3. CASE Drained(p) \/ Crash(p)
  <2>1. Ends(p)
    BY <1>3 DEF Drained, Crash
  <2>2. CASE held[p] = NoLease
    <3>1. held' = held
      BY <2>1, <2>2 DEF Ends, ServiceInv, QueueInv, TypeOK, Processes
    <3> QED BY <2>1, <3>1 DEF Ends, queueVars
  <2>3. CASE held[p] # NoLease
    BY <2>1, <2>3 DEF Ends, Abandon, Next, QueueStep, Processes
  <2> QED BY <2>2, <2>3
<1> QED BY <1>1, <1>2, <1>3 DEF LifecycleStep

LEMMA TaskIsQueueStep ==
  ASSUME ServiceInv, NEW p \in Processes, TaskStep(p)
  PROVE  [Next]_queueVars
<1>1. CASE PollBegins(p) \/ SchedulerCancelled(p)
  BY <1>1 DEF PollBegins, SchedulerCancelled
<1>2. CASE Write(p)
  BY <1>2 DEF Write, Next, QueueStep, Processes
<1>3. CASE ExecutionReturns(p)
  BY <1>3 DEF ExecutionReturns, Next, QueueStep, Processes
<1>4. CASE WorkerCancelled(p)
  <2>1. CASE held[p] = NoLease
    <3>1. held' = held
      BY <1>4, <2>1 DEF WorkerCancelled, ServiceInv, QueueInv, TypeOK, Processes
    <3> QED BY <1>4, <3>1 DEF WorkerCancelled, queueVars
  <2>2. CASE held[p] # NoLease
    BY <1>4, <2>2 DEF WorkerCancelled, Abandon, Next, QueueStep, Processes
  <2> QED BY <2>1, <2>2
<1>5. CASE \E now \in Readings : PollQueued(p, now)
  <2>1. PICK now \in Readings : PollQueued(p, now)
    BY <1>5
  <2>2. PICK id \in FreshIds : \/ EnqueueCoalesced(id, Full, NoKey, now)
                               \/ EnqueueInserted(id, Full, NoKey, now)
    BY <2>1 DEF PollQueued
  <2>3. Enqueues(now)
    BY <2>2, RunQueueAssumption DEF Enqueues, Enqueue
  <2> QED BY <2>3 DEF Next, QueueStep
<1>6. CASE \E now \in Readings : PollRefused(p, now)
  <2>1. PICK now \in Readings : PollRefused(p, now)
    BY <1>6
  <2>2. PICK id \in FreshIds : EnqueueConflict(Full, NoKey, now)
    BY <2>1 DEF PollRefused
  <2>3. Enqueues(now)
    BY <2>2, RunQueueAssumption DEF Enqueues, Enqueue
  <2> QED BY <2>3 DEF Next, QueueStep
<1>7. CASE \E now \in Readings : Claim(p, now)
  BY <1>7 DEF Claim, Next, QueueStep, Processes
<1> QED BY <1>1, <1>2, <1>3, <1>4, <1>5, <1>6, <1>7 DEF TaskStep

LEMMA HandlerIsQueueStep ==
  ASSUME ServiceInv, NEW c \in Clients, HandlerStep(c)
  PROVE  [Next]_queueVars
<1>1. CASE (\E request \in Admitted : Admit(c, request)) \/ Refuse(c)
  BY <1>1 DEF Admit, Refuse
<1>2. CASE \E now \in Readings : AnswerEnqueue(c, now)
  <2>1. PICK now \in Readings : AnswerEnqueue(c, now)
    BY <1>2
  <2>2. PICK id \in FreshIds : Enqueue(id, handler[c].request, handler[c].key, now)
    BY <2>1 DEF AnswerEnqueue
  <2>3. handler[c].request \in Selectors /\ handler[c].key \in Keys \cup {NoKey}
    BY <2>1, HandlerType DEF AnswerEnqueue
  <2>4. Enqueues(now)
    BY <2>2, <2>3 DEF Enqueues
  <2> QED BY <2>4 DEF Next, QueueStep
<1>3. CASE \E now \in Readings : AnswerReset(c, now)
  <2>1. PICK now \in Readings : AnswerReset(c, now)
    BY <1>3
  <2>2. PICK id \in FreshIds : \/ AnswerFromKey(handler[c].key, now)
                               \/ ResetConflict(handler[c].key, now)
                               \/ ResetAccepted(id, handler[c].key, now)
    BY <2>1 DEF AnswerReset
  <2>3. handler[c].key \in Keys
    BY <2>1, HandlerType DEF AnswerReset
  <2>4. CASE AnswerFromKey(handler[c].key, now)
    <3>1. Enqueue(id, Full, handler[c].key, now)
      BY <2>4 DEF Enqueue
    <3>2. Enqueues(now)
      BY <2>3, <3>1, RunQueueAssumption DEF Enqueues
    <3> QED BY <3>2 DEF Next, QueueStep
  <2>5. CASE ResetConflict(handler[c].key, now)
    BY <2>3, <2>5 DEF Next, QueueStep
  <2>6. CASE ResetAccepted(id, handler[c].key, now)
    BY <2>3, <2>6 DEF Next
  <2> QED BY <2>2, <2>4, <2>5, <2>6
<1> QED BY <1>1, <1>2, <1>3 DEF HandlerStep

LEMMA ServiceStepIsQueueStep == ServiceInv /\ [ServiceNext]_serviceVars => [Next]_queueVars
<1> SUFFICES ASSUME ServiceInv, [ServiceNext]_serviceVars PROVE [Next]_queueVars
  OBVIOUS
<1>1. CASE \E p \in Processes : LifecycleStep(p) \/ TaskStep(p)
  BY <1>1, LifecycleIsQueueStep, TaskIsQueueStep
<1>2. CASE \E c \in Clients : HandlerStep(c)
  BY <1>2, HandlerIsQueueStep
<1>3. CASE UNCHANGED serviceVars
  BY <1>3 DEF serviceVars
<1> QED BY <1>1, <1>2, <1>3 DEF ServiceNext

-----------------------------------------------------------------------------
(* A claim takes a queued run and leases it to the claimant.                *)
LEMMA ClaimTakes ==
  ASSUME ServiceInv, NEW p \in Processes, NEW now \in Readings, Claim(p, now)
  PROVE  /\ held'[p].run \in RunIds
         /\ Current(held[p])'
         /\ \A w \in Workers \ {p} : held'[w] = held[w]
         /\ \A r \in RunIds : r # held'[p].run => run'[r] = run[r]
<1> DEFINE lease(r) == [run |-> r, owner |-> OwnerOf[p], epoch |-> run[r].epoch + 1]
<1>1. PICK r \in RunIds :
        /\ run' = [run EXCEPT ![r].state = "leased", ![r].status = "running",
                              ![r].owner = OwnerOf[p], ![r].epoch = run[r].epoch + 1,
                              ![r].expiresAt = now + LeaseDuration]
        /\ held' = [held EXCEPT ![p] = lease(r)]
  BY DEF Claim, ClaimNext, Oldest, InState
<1>2. /\ run \in [RunIds -> RunRow]
      /\ held \in [Workers -> Lease \cup {NoLease}]
  BY DEF ServiceInv, QueueInv, TypeOK
<1>3. held'[p] = lease(r)
  BY <1>1, <1>2 DEF Processes
<1>4. /\ run'[r].state = "leased" /\ run'[r].owner = OwnerOf[p]
      /\ run'[r].epoch = run[r].epoch + 1
  BY <1>1, <1>2 DEF RunRow
<1>5. lease(r) # NoLease
  <2>1. run[r].epoch + 1 \in Nat
    BY <1>2 DEF RunRow
  <2>2. lease(r) \in Lease
    BY <2>1 DEF Lease, Owners, Processes
  <2> QED BY <2>2, RunQueueAssumption
<1>6. Current(held[p])'
  BY <1>3, <1>4, <1>5 DEF Current
<1> QED BY <1>1, <1>2, <1>3, <1>6 DEF Processes

-----------------------------------------------------------------------------
(* Types, and tasks and handlers only of live processes.                    *)
LEMMA LifecycleTypes ==
  ASSUME ServiceInv, NEW p \in Processes, LifecycleStep(p)
  PROVE  ServiceTypeOK'
<1>0. ServiceTypeOK
  BY DEF ServiceInv
<1>1. CASE Acquire(p)
  BY <1>0, <1>1 DEF ServiceTypeOK, Alive, Acquire, Stages, tasks
<1>2. CASE \E now \in Readings : Recover(p, now)
  BY <1>0, <1>2 DEF ServiceTypeOK, Alive, Recover, Stages, tasks
<1>3. CASE Serve(p)
  BY <1>0, <1>3 DEF ServiceTypeOK, Alive, Serve, Stages
<1>4. CASE Signal(p)
  BY <1>0, <1>4 DEF ServiceTypeOK, Alive, Signal, Stages, tasks
<1>5. CASE Drained(p) \/ Crash(p)
  <2>1. Ends(p)
    BY <1>5 DEF Drained, Crash
  <2>2. /\ handler' \in [Clients -> Admitted \cup {NoRequest}]
        /\ \A c \in Clients : handler'[c] # NoRequest =>
             handler'[c] = handler[c] /\ handler[c].process # p
    BY <1>0, <1>5 DEF ServiceTypeOK, Drained, Crash, HandlersOf
  <2>3. \A q \in Processes : q # p => stage'[q] = stage[q]
    BY <1>0, <2>1 DEF ServiceTypeOK, Ends
  <2>4. ASSUME NEW c \in Clients, handler'[c] # NoRequest
        PROVE  stage'[handler'[c].process] \in {"serving", "draining"}
    <3>1. handler'[c] = handler[c] /\ handler[c].process # p
      BY <2>2, <2>4
    <3>2. handler[c].process \in Processes /\ Alive(handler[c].process)
      BY <1>0, <2>4, <3>1, HandlerType DEF ServiceTypeOK
    <3> QED BY <2>3, <3>1, <3>2 DEF Alive
  <2>5. ASSUME NEW q \in Processes, q \in worker' \/ scheduler'[q] # "off"
        PROVE  stage'[q] \in {"serving", "draining"}
    <3>1. q # p /\ (q \in worker \/ scheduler[q] # "off")
      BY <1>0, <2>1, <2>5 DEF ServiceTypeOK, Ends
    <3> QED BY <1>0, <2>3, <3>1 DEF ServiceTypeOK, Alive
  <2>6. /\ lock' \in Processes \cup {NoProcess}
        /\ stage' \in [Processes -> Stages]
        /\ worker' \in SUBSET Processes
        /\ scheduler' \in [Processes -> {"off", "waiting", "polling"}]
        /\ claimed' \in [Processes -> SUBSET RunIds]
    BY <1>0, <2>1 DEF ServiceTypeOK, Ends, Stages
  <2> QED BY <2>2, <2>4, <2>5, <2>6 DEF ServiceTypeOK, Alive
<1> QED BY <1>1, <1>2, <1>3, <1>4, <1>5 DEF LifecycleStep

LEMMA TaskTypes ==
  ASSUME ServiceInv, NEW p \in Processes, TaskStep(p)
  PROVE  ServiceTypeOK'
<1>0. ServiceTypeOK
  BY DEF ServiceInv
<1>1. CASE PollBegins(p) \/ SchedulerCancelled(p)
  BY <1>0, <1>1 DEF ServiceTypeOK, Alive, PollBegins, SchedulerCancelled
<1>2. CASE \E now \in Readings : PollQueued(p, now) \/ PollRefused(p, now)
  BY <1>0, <1>2 DEF ServiceTypeOK, Alive, PollQueued, PollRefused
<1>3. CASE Write(p) \/ ExecutionReturns(p)
  BY <1>0, <1>3 DEF ServiceTypeOK, Alive, Write, ExecutionReturns, processes, tasks
<1>4. CASE WorkerCancelled(p)
  BY <1>0, <1>4 DEF ServiceTypeOK, Alive, WorkerCancelled
<1>5. CASE \E now \in Readings : Claim(p, now)
  <2>1. PICK now \in Readings : Claim(p, now)
    BY <1>5
  <2>2. held'[p].run \in RunIds
    BY <2>1, ClaimTakes
  <2>3. claimed' \in [Processes -> SUBSET RunIds]
    BY <1>0, <2>1, <2>2 DEF ServiceTypeOK, Claim
  <2> QED BY <1>0, <2>1, <2>3 DEF ServiceTypeOK, Alive, Claim, tasks
<1> QED BY <1>1, <1>2, <1>3, <1>4, <1>5 DEF TaskStep

LEMMA HandlerTypes ==
  ASSUME ServiceInv, NEW c \in Clients, HandlerStep(c)
  PROVE  ServiceTypeOK'
<1>0. ServiceTypeOK
  BY DEF ServiceInv
<1>1. UNCHANGED processes
  BY DEF HandlerStep, Admit, Refuse, AnswerEnqueue, AnswerReset
<1>2. CASE \E request \in Admitted : Admit(c, request)
  BY <1>0, <1>1, <1>2 DEF ServiceTypeOK, Alive, Admit, processes, tasks
<1>3. CASE handler' = [handler EXCEPT ![c] = NoRequest]
  BY <1>0, <1>1, <1>3 DEF ServiceTypeOK, Alive, processes, tasks
<1> QED BY <1>2, <1>3 DEF HandlerStep, Refuse, AnswerEnqueue, AnswerReset

-----------------------------------------------------------------------------
(* Steps other than claims and recoveries lease nothing and keep the lease  *)
(* of whoever still holds one.                                              *)
Quiet ==
  /\ InState("leased")' \subseteq InState("leased")
  /\ \A w \in Workers : held'[w] # NoLease =>
       held'[w] = held[w] /\ (Current(held[w]) => Current(held[w])')

(* A request changes at most a row no lease can name.                       *)
LEMMA RequestIsQuiet ==
  ASSUME ServiceInv, NEW now \in Readings, NEW k \in Keys \cup {NoKey}, NEW id \in FreshIds,
         \/ \E sel \in Selectors : Enqueue(id, sel, k, now)
         \/ AnswerFromKey(k, now) \/ ResetConflict(k, now) \/ ResetAccepted(id, k, now)
  PROVE  Quiet
<1>1. UNCHANGED held
  BY DEF Enqueue, AnswerFromKey, EnqueueCoalesced, EnqueueConflict, EnqueueInserted,
         ResetConflict, ResetAccepted
<1>2. CASE UNCHANGED run
  BY <1>1, <1>2 DEF Quiet, InState, Current
<1>3. CASE \E sel \in Selectors : run' = [run EXCEPT ![id] = NewRun(sel, now)]
  <2>1. PICK sel \in Selectors : run' = [run EXCEPT ![id] = NewRun(sel, now)]
    BY <1>3
  <2>2. run[id].state = "absent" /\ id \in RunIds /\ run \in [RunIds -> RunRow]
    BY DEF FreshIds, Fresh, ServiceInv, QueueInv, TypeOK
  <2>3. run'[id].state = "queued"
    BY <2>1, <2>2 DEF NewRun
  <2>4. \A r \in RunIds : r # id => run'[r] = run[r]
    BY <2>1, <2>2
  <2>5. InState("leased")' \subseteq InState("leased")
    BY <2>3, <2>4 DEF InState
  <2>6. ASSUME NEW w \in Workers, held[w] # NoLease, Current(held[w])
        PROVE  Current(held[w])'
    <3>1. held[w].run \in RunIds
      BY <2>6, HeldType DEF ServiceInv
    <3>2. held[w].run # id
      BY <2>2, <2>6 DEF Current
    <3> QED BY <1>1, <2>4, <2>6, <3>1, <3>2 DEF Current
  <2> QED BY <1>1, <2>5, <2>6 DEF Quiet
<1>4. UNCHANGED run \/ \E sel \in Selectors : run' = [run EXCEPT ![id] = NewRun(sel, now)]
  BY RunQueueAssumption
     DEF Enqueue, AnswerFromKey, EnqueueCoalesced, EnqueueConflict, EnqueueInserted,
         ResetConflict, ResetAccepted
<1> QED BY <1>2, <1>3, <1>4

(* So does the holder itself, whether it writes, renews, finishes or lets go. *)
LEMMA HolderIsQuiet ==
  ASSUME ServiceInv, NEW p \in Processes,
         \/ GuardedWrite(p) \/ Abandon(p)
         \/ \E now \in Readings : RenewClaim(p, now)
         \/ \E status \in Terminal : FinishRun(p, status)
  PROVE  Quiet
<1>1. /\ run \in [RunIds -> RunRow]
      /\ held \in [Workers -> Lease \cup {NoLease}]
  BY DEF ServiceInv, QueueInv, TypeOK
<1>2. CASE GuardedWrite(p) \/ Abandon(p)
  <2>1. UNCHANGED run
    BY <1>2 DEF GuardedWrite, Abandon
  <2>2. \A w \in Workers : held'[w] \in {held[w], NoLease}
    BY <1>1, <1>2 DEF GuardedWrite, Abandon, Processes
  <2> QED BY <2>1, <2>2 DEF Quiet, InState, Current
<1>3. CASE \E now \in Readings : RenewClaim(p, now)
  <2>1. PICK now \in Readings : RenewClaim(p, now)
    BY <1>3
  <2>2. UNCHANGED held
    BY <2>1 DEF RenewClaim
  <2>3. \A r \in RunIds : /\ run'[r].state = run[r].state
                          /\ run'[r].owner = run[r].owner
                          /\ run'[r].epoch = run[r].epoch
    BY <1>1, <2>1 DEF RenewClaim, RunRow
  <2>4. \A w \in Workers : held[w] # NoLease => held[w].run \in RunIds
    BY HeldType DEF ServiceInv
  <2> QED BY <2>2, <2>3, <2>4 DEF Quiet, InState, Current
<1>4. CASE \E status \in Terminal : FinishRun(p, status)
  <2>1. PICK status \in Terminal : FinishRun(p, status)
    BY <1>4
  <2>2. held[p] # NoLease /\ held[p].run \in RunIds
    BY <2>1, HeldType DEF FinishRun, Current, ServiceInv, Processes
  <2>3. /\ run'[held[p].run].state = "finished"
        /\ \A r \in RunIds : r # held[p].run => run'[r] = run[r]
    <3>1. run' = [run EXCEPT ![held[p].run].state = "finished",
                             ![held[p].run].status = status,
                             ![held[p].run].owner = NoOwner,
                             ![held[p].run].expiresAt = NoTime]
      BY <2>1 DEF FinishRun
    <3>2. run[held[p].run] \in RunRow
      BY <1>1, <2>2
    <3>3. run'[held[p].run].state = "finished"
      BY <1>1, <2>2, <3>1, <3>2 DEF RunRow
    <3>4. \A r \in RunIds : r # held[p].run => run'[r] = run[r]
      BY <1>1, <2>2, <3>1
    <3> QED BY <3>3, <3>4
  <2>4. InState("leased")' \subseteq InState("leased")
    BY <2>3 DEF InState
  <2>5. ASSUME NEW w \in Workers, held'[w] # NoLease
        PROVE  w # p /\ held'[w] = held[w]
    BY <1>1, <2>1, <2>5 DEF FinishRun, Processes
  <2>6. ASSUME NEW w \in Workers, held'[w] # NoLease PROVE Current(held[w])'
    <3>1. w # p /\ held'[w] = held[w] /\ held[w] # NoLease
      BY <2>5, <2>6
    <3>2. FALSE
      BY <2>2, <3>1 DEF ServiceInv, SoleExecutor, Processes
    <3> QED BY <3>2
  <2> QED BY <2>4, <2>5, <2>6 DEF Quiet
<1> QED BY <1>2, <1>3, <1>4

(* One executor under the lock, and nothing leased that it has not claimed: *)
(* kept by quiet steps that start or stop nobody, and by the others below.  *)
OneAtATime == LockDiscipline /\ SoleExecutor /\ RecoveredBeforeServing

LEMMA QuietPreserves ==
  ASSUME ServiceInv, Quiet, UNCHANGED <<lock, claimed>>,
         \A q \in Processes :
           /\ stage'[q] # "off" => stage[q] # "off"
           /\ stage'[q] \in {"recovered", "serving", "draining"} =>
                stage[q] \in {"recovered", "serving", "draining"}
           /\ held'[q] # NoLease => q \in worker \cap worker' \/ worker \subseteq worker'
  PROVE  OneAtATime'
<1>1. LockDiscipline'
  BY DEF ServiceInv, LockDiscipline
<1>2. RecoveredBeforeServing'
  BY DEF ServiceInv, RecoveredBeforeServing, Quiet
<1>3. ASSUME NEW q \in Processes, held'[q] # NoLease
      PROVE  lock' = q /\ q \in worker' /\ Current(held[q])'
  <2>1. held'[q] = held[q] /\ (Current(held[q]) => Current(held[q])')
    BY <1>3 DEF Quiet, Processes
  <2>2. lock = q /\ q \in worker /\ Current(held[q])
    BY <1>3, <2>1 DEF ServiceInv, SoleExecutor
  <2> QED BY <1>3, <2>1, <2>2
<1>4. SoleExecutor'
  BY <1>3 DEF SoleExecutor
<1> QED BY <1>1, <1>2, <1>4 DEF OneAtATime

LEMMA LifecycleOne ==
  ASSUME ServiceInv, NEW p \in Processes, LifecycleStep(p)
  PROVE  OneAtATime'
<1>0. stage \in [Processes -> Stages] /\ held \in [Processes -> Lease \cup {NoLease}]
      /\ claimed \in [Processes -> SUBSET RunIds]
  BY DEF ServiceInv, ServiceTypeOK, QueueInv, TypeOK, Processes
<1>1. CASE Acquire(p)
  <2>1. \A q \in Processes : held'[q] = NoLease
    BY <1>1, NobodyHolds DEF Acquire, queueVars, Processes
  <2>2. \A q \in Processes : q # p => stage'[q] = "off"
    BY <1>0, <1>1, ServiceAssumption DEF Acquire, ServiceInv, LockDiscipline, Processes
  <2>3. stage'[p] = "locked" /\ lock' = p
    BY <1>0, <1>1 DEF Acquire
  <2> QED
    BY <2>1, <2>2, <2>3 DEF OneAtATime, LockDiscipline, SoleExecutor, RecoveredBeforeServing
<1>2. CASE \E now \in Readings : Recover(p, now)
  <2>1. PICK now \in Readings : Recover(p, now)
    BY <1>2
  <2>2. \A q \in Processes : held'[q] = NoLease
    BY <2>1, NobodyHolds DEF Recover, Processes
  <2>3. InState("leased")' = {}
    <3>1. run' = Requeued(InState("leased"), now)
      BY <2>1 DEF Recover, RecoverLeases
    <3>2. run \in [RunIds -> RunRow]
      BY DEF ServiceInv, QueueInv, TypeOK
    <3>3. ASSUME NEW r \in RunIds PROVE run'[r].state # "leased"
      <4>1. CASE r \in InState("leased")
        BY <3>1, <3>2, <4>1 DEF Requeued, RunRow
      <4>2. CASE r \notin InState("leased")
        <5>1. run'[r] = run[r]
          BY <3>1, <4>2 DEF Requeued
        <5> QED BY <4>2, <5>1 DEF InState
      <4> QED BY <4>1, <4>2
    <3> QED BY <3>3 DEF InState
  <2>4. lock' = lock /\ \A q \in Processes : stage'[q] # "off" => stage[q] # "off"
    BY <1>0, <2>1 DEF Recover
  <2> QED
    BY <2>2, <2>3, <2>4
       DEF ServiceInv, OneAtATime, LockDiscipline, SoleExecutor, RecoveredBeforeServing
<1>3. CASE Serve(p) \/ Signal(p)
  <2>1. Quiet
    BY <1>3 DEF Serve, Signal, queueVars, Quiet, InState, Current
  <2>2. UNCHANGED <<lock, claimed>> /\ worker \subseteq worker'
    BY <1>3 DEF Serve, Signal, tasks
  <2>3. \A q \in Processes :
           /\ stage'[q] # "off" => stage[q] # "off"
           /\ stage'[q] \in {"recovered", "serving", "draining"} =>
                stage[q] \in {"recovered", "serving", "draining"}
    BY <1>0, <1>3 DEF Serve, Signal
  <2> QED BY <2>1, <2>2, <2>3, QuietPreserves
<1>4. CASE Drained(p) \/ Crash(p)
  <2>1. Ends(p)
    BY <1>4 DEF Drained, Crash
  <2>2. /\ stage'[p] = "off" /\ held'[p] = NoLease
        /\ \A q \in Processes : q # p =>
             /\ stage'[q] = stage[q] /\ held'[q] = held[q] /\ claimed'[q] = claimed[q]
             /\ q \in worker => q \in worker'
    BY <1>0, <2>1 DEF Ends
  <2>3. UNCHANGED run
    BY <2>1 DEF Ends
  <2>4. \A q \in Processes : q # p /\ lock = q => lock' = q
    BY <2>1 DEF Ends
  <2>5. LockDiscipline'
    BY <2>2, <2>4 DEF ServiceInv, LockDiscipline
  <2>6. RecoveredBeforeServing'
    BY <2>2, <2>3 DEF ServiceInv, RecoveredBeforeServing, InState
  <2>7. SoleExecutor'
    BY <2>2, <2>3, <2>4 DEF ServiceInv, SoleExecutor, Current
  <2> QED BY <2>5, <2>6, <2>7 DEF OneAtATime
<1> QED BY <1>1, <1>2, <1>3, <1>4 DEF LifecycleStep

LEMMA TaskOne ==
  ASSUME ServiceInv, NEW p \in Processes, TaskStep(p)
  PROVE  OneAtATime'
<1>0. held \in [Processes -> Lease \cup {NoLease}]
      /\ claimed \in [Processes -> SUBSET RunIds]
  BY DEF ServiceInv, ServiceTypeOK, QueueInv, TypeOK, Processes
<1>1. CASE PollBegins(p) \/ SchedulerCancelled(p)
  <2>1. Quiet /\ UNCHANGED <<lock, claimed, stage, worker>>
    BY <1>1 DEF PollBegins, SchedulerCancelled, queueVars, Quiet, InState, Current
  <2> QED BY <2>1, QuietPreserves
<1>2. CASE \E now \in Readings : PollQueued(p, now) \/ PollRefused(p, now)
  <2>1. PICK now \in Readings : PollQueued(p, now) \/ PollRefused(p, now)
    BY <1>2
  <2>2. PICK id \in FreshIds : Enqueue(id, Full, NoKey, now)
    BY <2>1 DEF PollQueued, PollRefused, Enqueue
  <2>3. Quiet
    BY <2>2, RequestIsQuiet, RunQueueAssumption
  <2>4. UNCHANGED <<lock, claimed, stage, worker>>
    BY <2>1 DEF PollQueued, PollRefused
  <2> QED BY <2>3, <2>4, QuietPreserves
<1>3. CASE Write(p) \/ ExecutionReturns(p)
  <2>1. Quiet
    BY <1>3, HolderIsQuiet DEF Write, ExecutionReturns
  <2>2. UNCHANGED <<lock, claimed, stage, worker>>
    BY <1>3 DEF Write, ExecutionReturns, processes, tasks
  <2> QED BY <2>1, <2>2, QuietPreserves
<1>4. CASE WorkerCancelled(p)
  <2>1. UNCHANGED <<run, lock, claimed, stage>>
    BY <1>4 DEF WorkerCancelled
  <2>2. \A q \in Processes : held'[q] # NoLease => q # p /\ held'[q] = held[q]
    BY <1>0, <1>4 DEF WorkerCancelled
  <2>3. Quiet
    BY <2>1, <2>2 DEF Quiet, InState, Current, Processes
  <2>4. \A q \in Processes : held'[q] # NoLease => q \in worker \cap worker'
    BY <1>4, <2>2 DEF WorkerCancelled, ServiceInv, SoleExecutor
  <2> QED BY <2>1, <2>3, <2>4, QuietPreserves
<1>5. CASE \E now \in Readings : Claim(p, now)
  <2>1. PICK now \in Readings : Claim(p, now)
    BY <1>5
  <2>2. UNCHANGED <<lock, stage, worker>> /\ p \in worker
    BY <2>1 DEF Claim, tasks
  <2>3. lock = p /\ \A q \in Processes : stage[q] # "off" => q = p
    BY <2>2 DEF ServiceInv, ServiceTypeOK, Alive, LockDiscipline
  <2>4. LockDiscipline'
    BY <2>2 DEF ServiceInv, LockDiscipline
  <2>5. SoleExecutor'
    <3>1. ASSUME NEW q \in Processes, held'[q] # NoLease PROVE q = p
      BY <2>1, <2>3, <3>1, ClaimTakes DEF ServiceInv, SoleExecutor, Processes
    <3> QED BY <2>1, <2>2, <2>3, <3>1, ClaimTakes DEF SoleExecutor
  <2>6. InState("leased")' \subseteq claimed'[p]
    <3>1. claimed'[p] = claimed[p] \cup {held'[p].run}
      BY <1>0, <2>1 DEF Claim
    <3>2. InState("leased") \subseteq claimed[p]
      BY <2>2 DEF ServiceInv, ServiceTypeOK, Alive, RecoveredBeforeServing
    <3>3. InState("leased")' \subseteq InState("leased") \cup {held'[p].run}
      BY <2>1, ClaimTakes DEF InState
    <3> QED BY <3>1, <3>2, <3>3
  <2>7. RecoveredBeforeServing'
    BY <2>2, <2>3, <2>6 DEF RecoveredBeforeServing
  <2> QED BY <2>4, <2>5, <2>7 DEF OneAtATime
<1> QED BY <1>1, <1>2, <1>3, <1>4, <1>5 DEF TaskStep

LEMMA HandlerOne ==
  ASSUME ServiceInv, NEW c \in Clients, HandlerStep(c)
  PROVE  OneAtATime'
<1>1. UNCHANGED <<lock, claimed, stage, worker>>
  BY DEF HandlerStep, Admit, Refuse, AnswerEnqueue, AnswerReset, processes, tasks
<1>2. Quiet
  <2>1. CASE UNCHANGED queueVars
    BY <2>1 DEF queueVars, Quiet, InState, Current
  <2>2. CASE \E now \in Readings : AnswerEnqueue(c, now)
    <3>1. PICK now \in Readings : AnswerEnqueue(c, now)
      BY <2>2
    <3>2. PICK id \in FreshIds : Enqueue(id, handler[c].request, handler[c].key, now)
      BY <3>1 DEF AnswerEnqueue
    <3>3. handler[c].request \in Selectors /\ handler[c].key \in Keys \cup {NoKey}
      BY <3>1, HandlerType DEF AnswerEnqueue
    <3> QED BY <3>2, <3>3, RequestIsQuiet
  <2>3. CASE \E now \in Readings : AnswerReset(c, now)
    <3>1. PICK now \in Readings : AnswerReset(c, now)
      BY <2>3
    <3>2. PICK id \in FreshIds : \/ AnswerFromKey(handler[c].key, now)
                                 \/ ResetConflict(handler[c].key, now)
                                 \/ ResetAccepted(id, handler[c].key, now)
      BY <3>1 DEF AnswerReset
    <3>3. handler[c].key \in Keys \cup {NoKey}
      BY <3>1, HandlerType DEF AnswerReset
    <3> QED BY <3>2, <3>3, RequestIsQuiet
  <2> QED BY <2>1, <2>2, <2>3 DEF HandlerStep, Admit, Refuse
<1> QED BY <1>1, <1>2, QuietPreserves

-----------------------------------------------------------------------------
LEMMA NextServiceInv == ServiceInv /\ [ServiceNext]_serviceVars => ServiceInv'
<1> SUFFICES ASSUME ServiceInv, [ServiceNext]_serviceVars PROVE ServiceInv'
  OBVIOUS
<1>1. QueueInv'
  BY ServiceStepIsQueueStep, NextQueueInv DEF ServiceInv
<1>2. ServiceTypeOK' /\ OneAtATime'
  <2>1. CASE \E p \in Processes : LifecycleStep(p) \/ TaskStep(p)
    BY <2>1, LifecycleTypes, TaskTypes, LifecycleOne, TaskOne
  <2>2. CASE \E c \in Clients : HandlerStep(c)
    BY <2>2, HandlerTypes, HandlerOne
  <2>3. CASE UNCHANGED serviceVars
    <3>1. UNCHANGED <<run, held, processes, handler>>
      BY <2>3 DEF serviceVars, queueVars
    <3>2. ServiceTypeOK'
      BY <3>1 DEF ServiceInv, ServiceTypeOK, Alive, processes, tasks
    <3>3. Quiet
      BY <3>1 DEF Quiet, InState, Current
    <3>4. OneAtATime'
      BY <3>1, <3>3, QuietPreserves DEF processes, tasks
    <3> QED BY <3>2, <3>4
  <2> QED BY <2>1, <2>2, <2>3 DEF ServiceNext
<1> QED BY <1>1, <1>2 DEF ServiceInv, OneAtATime

(* The inductive invariant of the service.                                  *)
THEOREM ServiceInvariant == ServiceSpec => []ServiceInv
<1>1. ServiceInit => ServiceInv
  BY InitServiceInv
<1>2. ServiceInv /\ [ServiceNext]_serviceVars => ServiceInv'
  BY NextServiceInv
<1> QED BY <1>1, <1>2, PTL DEF ServiceSpec

(* Processes that start, crash and drain around one state directory         *)
(* implement the run queue, whose recovery assumes that nobody executes: so *)
(* every theorem about the queue holds of them.                             *)
THEOREM ServiceImplementsQueue == ServiceSpec => Spec
<1>1. ServiceInit => Init
  BY DEF ServiceInit
<1>2. ServiceInv /\ [ServiceNext]_serviceVars => [Next]_queueVars
  BY ServiceStepIsQueueStep
<1> QED BY <1>1, <1>2, ServiceInvariant, PTL DEF ServiceSpec, Spec

(* Types, and a process that exits leaves no request without an answer.     *)
THEOREM ServiceTypeCorrect == ServiceSpec => []ServiceTypeOK
BY ServiceInvariant, PTL DEF ServiceInv

(* Only the holder of the lock executes, and under a current lease.         *)
THEOREM OneExecutor == ServiceSpec => []SoleExecutor
BY ServiceInvariant, PTL DEF ServiceInv

(* What is leased while a process serves was claimed by that process.       *)
THEOREM NothingLeftLeased == ServiceSpec => []RecoveredBeforeServing
BY ServiceInvariant, PTL DEF ServiceInv

(* So the queue is right in every history of processes: no remembered key    *)
(* without its run, one current lease for a run, no write of an older        *)
(* claimant after a newer one's, no change to a finished run or to a live    *)
(* key.                                                                      *)
THEOREM QueueIsRightInService ==
  ServiceSpec => /\ [](KeyNamesARun /\ ExclusiveLease)
                 /\ NoLateWriter /\ FinishedIsFinal /\ ClaimsAreNumbered /\ KeyIsStable
<1>1. ServiceSpec => [](KeyNamesARun /\ ExclusiveLease)
  BY ServiceImplementsQueue, KeysNameRuns, LeaseExclusive, PTL
<1>2. ServiceSpec => NoLateWriter /\ FinishedIsFinal /\ ClaimsAreNumbered /\ KeyIsStable
  BY ServiceImplementsQueue, Fencing, FinalityOfFinish, NumberedClaims, StableKeys
<1> QED BY <1>1, <1>2

-----------------------------------------------------------------------------
(* What is left of a process that drains: the requests it has to answer and *)
(* the tasks it aborts.                                                     *)
Shrinks(p) ==
  \/ stage'[p] = "off"
  \/ /\ stage'[p] = "draining"
     /\ HandlersOf(p)' \subseteq HandlersOf(p)
     /\ p \in worker' => p \in worker
     /\ scheduler[p] = "off" => scheduler'[p] = "off"

DrainOnlyShrinks == [][\A p \in Processes : stage[p] = "draining" => Shrinks(p)]_serviceVars

LEMMA DrainStep ==
  ASSUME ServiceInv, [ServiceNext]_serviceVars, NEW p \in Processes, stage[p] = "draining"
  PROVE  Shrinks(p)
<1>1. /\ stage \in [Processes -> Stages]
      /\ scheduler \in [Processes -> {"off", "waiting", "polling"}]
      /\ handler \in [Clients -> Admitted \cup {NoRequest}]
      /\ worker \in SUBSET Processes
  BY DEF ServiceInv, ServiceTypeOK
<1>2. ASSUME NEW q \in Processes, LifecycleStep(q) PROVE Shrinks(p)
  <2>1. CASE Acquire(q) \/ Serve(q) \/ Signal(q) \/ \E now \in Readings : Recover(q, now)
    <3>1. q # p /\ handler' = handler
      BY <2>1 DEF Acquire, Serve, Signal, Recover
    <3>2. stage'[p] = "draining"
      BY <1>1, <2>1, <3>1 DEF Acquire, Serve, Signal, Recover
    <3>3. (p \in worker' => p \in worker) /\ scheduler'[p] = scheduler[p]
      BY <1>1, <2>1, <3>1 DEF Acquire, Serve, Signal, Recover, tasks
    <3> QED BY <3>1, <3>2, <3>3 DEF Shrinks, HandlersOf
  <2>2. CASE Drained(q) \/ Crash(q)
    <3>1. Ends(q) /\ \A c \in Clients : handler'[c] \in {handler[c], NoRequest}
      BY <1>1, <2>2 DEF Drained, Crash
    <3>2. CASE q = p
      BY <1>1, <3>1, <3>2 DEF Ends, Shrinks
    <3>3. CASE q # p
      <4>1. stage'[p] = "draining" /\ worker' \subseteq worker /\ scheduler'[p] = scheduler[p]
        BY <1>1, <3>1, <3>3 DEF Ends
      <4>2. HandlersOf(p)' \subseteq HandlersOf(p)
        BY <3>1 DEF HandlersOf
      <4> QED BY <4>1, <4>2 DEF Shrinks
    <3> QED BY <3>2, <3>3
  <2> QED BY <1>2, <2>1, <2>2 DEF LifecycleStep
<1>3. ASSUME NEW q \in Processes, TaskStep(q) PROVE Shrinks(p)
  <2>1. stage' = stage /\ handler' = handler /\ worker' \subseteq worker
    BY <1>3 DEF TaskStep, PollBegins, SchedulerCancelled, Write, ExecutionReturns,
       WorkerCancelled, PollQueued, PollRefused, Claim, processes, tasks
  <2>2. scheduler[p] = "off" => scheduler'[p] = "off"
    <3>1. CASE PollBegins(q)
      BY <1>1, <3>1 DEF PollBegins
    <3>2. CASE SchedulerCancelled(q)
      BY <1>1, <3>2 DEF SchedulerCancelled
    <3>3. CASE \E now \in Readings : PollQueued(q, now) \/ PollRefused(q, now)
      BY <1>1, <3>3 DEF PollQueued, PollRefused
    <3>4. CASE \/ Write(q) \/ ExecutionReturns(q) \/ WorkerCancelled(q)
               \/ \E now \in Readings : Claim(q, now)
      BY <3>4 DEF Write, ExecutionReturns, WorkerCancelled, Claim, processes, tasks
    <3> QED BY <1>3, <3>1, <3>2, <3>3, <3>4 DEF TaskStep
  <2> QED BY <2>1, <2>2 DEF Shrinks, HandlersOf
<1>4. ASSUME NEW c \in Clients, HandlerStep(c) PROVE Shrinks(p)
  <2>1. UNCHANGED <<stage, worker, scheduler>>
    BY <1>4 DEF HandlerStep, Admit, Refuse, AnswerEnqueue, AnswerReset, processes, tasks
  <2>2. HandlersOf(p)' \subseteq HandlersOf(p)
    <3>1. CASE \E request \in Admitted : Admit(c, request)
      <4>1. PICK request \in Admitted : stage[request.process] = "serving"
                                        /\ handler' = [handler EXCEPT ![c] = request]
        BY <3>1 DEF Admit
      <4>2. request.process # p
        BY <4>1
      <4> QED BY <1>1, <4>1, <4>2 DEF HandlersOf
    <3>2. CASE ~\E request \in Admitted : Admit(c, request)
      <4>1. handler' = [handler EXCEPT ![c] = NoRequest]
        BY <1>4, <3>2 DEF HandlerStep, Refuse, AnswerEnqueue, AnswerReset
      <4> QED BY <1>1, <4>1 DEF HandlersOf
    <3> QED BY <3>1, <3>2
  <2> QED BY <2>1, <2>2 DEF Shrinks
<1>5. CASE UNCHANGED serviceVars
  BY <1>5 DEF serviceVars, processes, tasks, Shrinks, HandlersOf
<1> QED BY <1>2, <1>3, <1>4, <1>5 DEF ServiceNext

(* Once signalled, a process admits nothing and starts no task: what it      *)
(* waits for before it exits only shrinks, although the accepting flag is    *)
(* read before an await, and no other process changes that.                 *)
THEOREM DrainsRunDown == ServiceSpec => DrainOnlyShrinks
<1>1. ServiceInv /\ [ServiceNext]_serviceVars =>
        [\A p \in Processes : stage[p] = "draining" => Shrinks(p)]_serviceVars
  BY DrainStep
<1> QED BY <1>1, ServiceInvariant, PTL DEF ServiceSpec, DrainOnlyShrinks
=============================================================================
