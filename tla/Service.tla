------------------------------ MODULE Service ------------------------------
(***************************************************************************)
(* The service around the run queue: processes that compete for the lock   *)
(* file, start, serve and stop (main.rs, runtime/), each with its worker    *)
(* loop, its poll scheduler and its request handlers (http/mod.rs,         *)
(* indexer_mcp.rs).  An execution is any sequence of guarded writes and     *)
(* renewals of its claim; IndexRun is the detailed one.                    *)
(*                                                                         *)
(* What interleaves: a handler checks that the service accepts requests    *)
(* and then awaits the knowledge graph before its transaction; shutdown    *)
(* begins between any two steps; a process may stop at any time.  Storage  *)
(* errors are left out: a request that meets one changes nothing.  So is   *)
(* time, which no step of the lifecycle waits for: what it does to keys    *)
(* and leases is RunQueue's.                                               *)
(***************************************************************************)
EXTENDS RunQueue

CONSTANTS
  Clients,    \* connections with a request in progress
  NoProcess, NoRequest

VARIABLES
  lock,       \* process that holds the lock file, or NoProcess
  stage,      \* how far each process has come
  worker,     \* processes whose worker loop runs
  scheduler,  \* the polling task of each process
  handler,    \* admitted request each connection is working on
  claimed     \* history: runs each process has claimed since it started

tasks == <<worker, scheduler>>
processes == <<lock, stage, tasks, claimed>>
serviceVars == <<queueVars, processes, handler>>

(* A worker of the queue is a process: each has one loop.                  *)
Processes == Workers
Stages == {"off", "locked", "recovered", "serving", "draining"}

(* What a handler carries past the accepting check; a reset needs a key.   *)
Admitted == [process: Processes, request: Selectors, key: Keys \cup {NoKey}]
            \cup [process: Processes, request: {ResetOp}, key: Keys]

ASSUME ServiceAssumption == NoProcess \notin Workers /\ NoRequest \notin Admitted

-----------------------------------------------------------------------------
ServiceInit ==
  /\ Init
  /\ lock = NoProcess
  /\ stage = [p \in Processes |-> "off"]
  /\ worker = {}
  /\ scheduler = [p \in Processes |-> "off"]
  /\ handler = [c \in Clients |-> NoRequest]
  /\ claimed = [p \in Processes |-> {}]

HandlersOf(p) == {c \in Clients : handler[c] # NoRequest /\ handler[c].process = p}
Alive(p) == stage[p] \in {"serving", "draining"}

-----------------------------------------------------------------------------
(* Mutant: the lock file is opened but not locked.                         *)
AcquireUnlocked(p) ==
  /\ stage[p] = "off"
  /\ lock' = p
  /\ stage' = [stage EXCEPT ![p] = "locked"]
  /\ UNCHANGED <<queueVars, tasks, claimed, handler>>

Acquire(p) ==
  /\ stage[p] = "off" /\ lock = NoProcess
  /\ lock' = p
  /\ stage' = [stage EXCEPT ![p] = "locked"]
  /\ UNCHANGED <<queueVars, tasks, claimed, handler>>

(* Mutant: only expired leases are recovered.                              *)
RecoverExpiredOnly(p, now) ==
  /\ stage[p] = "locked"
  /\ RecoverLeases(ExpiredAt(now), now)
  /\ stage' = [stage EXCEPT ![p] = "recovered"]
  /\ UNCHANGED <<held, lock, tasks, claimed, handler>>

Recover(p, now) ==
  /\ stage[p] = "locked"
  /\ RecoverLeases(InState("leased"), now)
  /\ stage' = [stage EXCEPT ![p] = "recovered"]
  /\ UNCHANGED <<held, lock, tasks, claimed, handler>>

(* The store's dimension is right, the embedding probe succeeded and the   *)
(* address is bound: the worker, the scheduler and the server start.       *)
Serve(p) ==
  /\ stage[p] = "recovered"
  /\ stage' = [stage EXCEPT ![p] = "serving"]
  /\ worker' = worker \cup {p}
  /\ scheduler' = [scheduler EXCEPT ![p] = "waiting"]
  /\ UNCHANGED <<queueVars, lock, claimed, handler>>

-----------------------------------------------------------------------------
(* A request that the accepting flag lets in.                              *)
Admit(c, request) ==
  /\ handler[c] = NoRequest /\ stage[request.process] = "serving"
  /\ handler' = [handler EXCEPT ![c] = request]
  /\ UNCHANGED <<queueVars, processes>>

(* The target or the body is refused: nothing is stored.                   *)
Refuse(c) ==
  /\ handler[c] # NoRequest
  /\ handler' = [handler EXCEPT ![c] = NoRequest]
  /\ UNCHANGED <<queueVars, processes>>

(* The clock is read after the awaits, then one transaction answers.       *)
AnswerEnqueue(c, now) ==
  /\ handler[c] # NoRequest /\ handler[c].request # ResetOp
  /\ \E id \in FreshIds : Enqueue(id, handler[c].request, handler[c].key, now)
  /\ handler' = [handler EXCEPT ![c] = NoRequest]
  /\ UNCHANGED processes

AnswerReset(c, now) ==
  /\ handler[c] # NoRequest /\ handler[c].request = ResetOp
  /\ \E id \in FreshIds : \/ AnswerFromKey(handler[c].key, now)
                          \/ ResetConflict(handler[c].key, now)
                          \/ ResetAccepted(id, handler[c].key, now)
  /\ handler' = [handler EXCEPT ![c] = NoRequest]
  /\ UNCHANGED processes

-----------------------------------------------------------------------------
(* PollScheduler: the flag is checked, an id is minted, then a full run is *)
(* queued; a refusal (a narrow run is queued) ends the task for good.      *)
PollBegins(p) ==
  /\ stage[p] = "serving" /\ scheduler[p] = "waiting"
  /\ scheduler' = [scheduler EXCEPT ![p] = "polling"]
  /\ UNCHANGED <<queueVars, lock, stage, worker, claimed, handler>>

PollQueued(p, now) ==
  /\ scheduler[p] = "polling"
  /\ \E id \in FreshIds : EnqueueCoalesced(id, Full, NoKey, now)
                          \/ EnqueueInserted(id, Full, NoKey, now)
  /\ scheduler' = [scheduler EXCEPT ![p] = "waiting"]
  /\ UNCHANGED <<lock, stage, worker, claimed, handler>>

PollRefused(p, now) ==
  /\ scheduler[p] = "polling" /\ FreshIds # {}
  /\ EnqueueConflict(Full, NoKey, now)
  /\ scheduler' = [scheduler EXCEPT ![p] = "off"]
  /\ UNCHANGED <<lock, stage, worker, claimed, handler>>

-----------------------------------------------------------------------------
(* Mutant: a run is claimed only if none is leased.                        *)
ClaimWhenNoneLeased(p, now) ==
  /\ p \in worker /\ InState("leased") = {}
  /\ ClaimNext(p, now)
  /\ claimed' = [claimed EXCEPT ![p] = @ \cup {held'[p].run}]
  /\ UNCHANGED <<lock, stage, tasks, handler>>

Claim(p, now) ==
  /\ p \in worker
  /\ ClaimNext(p, now)
  /\ claimed' = [claimed EXCEPT ![p] = @ \cup {held'[p].run}]
  /\ UNCHANGED <<lock, stage, tasks, handler>>

Write(p) ==
  /\ p \in worker
  /\ GuardedWrite(p) \/ \E now \in Readings : RenewClaim(p, now)
  /\ UNCHANGED <<processes, handler>>

(* The execution finishes its run, or returns an error and leaves it.      *)
ExecutionReturns(p) ==
  /\ p \in worker
  /\ (\E status \in Terminal : FinishRun(p, status)) \/ Abandon(p)
  /\ UNCHANGED <<processes, handler>>

-----------------------------------------------------------------------------
(* A signal: the flag is cleared.                                          *)
Signal(p) ==
  /\ stage[p] = "serving"
  /\ stage' = [stage EXCEPT ![p] = "draining"]
  /\ UNCHANGED <<queueVars, lock, tasks, claimed, handler>>

(* The worker's select notices and drops the execution wherever it is, a   *)
(* claim that was just committed included.                                 *)
WorkerCancelled(p) ==
  /\ stage[p] = "draining" /\ p \in worker
  /\ worker' = worker \ {p}
  /\ held' = [held EXCEPT ![p] = NoLease]
  /\ UNCHANGED <<clock, run, key, writer, lock, stage, scheduler, claimed, handler>>

SchedulerCancelled(p) ==
  /\ stage[p] = "draining" /\ scheduler[p] = "waiting"
  /\ scheduler' = [scheduler EXCEPT ![p] = "off"]
  /\ UNCHANGED <<queueVars, lock, stage, worker, claimed, handler>>

(* The process is gone: its tasks, its lease in memory and its lock.       *)
Ends(p) ==
  /\ held' = [held EXCEPT ![p] = NoLease]
  /\ stage' = [stage EXCEPT ![p] = "off"]
  /\ worker' = worker \ {p}
  /\ scheduler' = [scheduler EXCEPT ![p] = "off"]
  /\ lock' = IF lock = p THEN NoProcess ELSE lock
  /\ claimed' = [claimed EXCEPT ![p] = {}]
  /\ UNCHANGED <<clock, run, key, writer>>

(* Mutants: the server is not waited for; the exit waits for the queue.    *)
DrainedEarly(p) ==
  /\ stage[p] = "draining"
  /\ Ends(p)
  /\ UNCHANGED handler
DrainedWhenQueueEmpty(p) ==
  /\ stage[p] = "draining" /\ HandlersOf(p) = {} /\ InState("queued") = {}
  /\ Ends(p)
  /\ UNCHANGED handler

(* The server has answered what it had admitted; the tasks are aborted.    *)
Drained(p) ==
  /\ stage[p] = "draining" /\ HandlersOf(p) = {}
  /\ Ends(p)
  /\ UNCHANGED handler

(* A crash, or a start-up that fails: recovery refused, store or embedding *)
(* provider not as configured, address in use.                             *)
Crash(p) ==
  /\ stage[p] # "off"
  /\ Ends(p)
  /\ handler' = [c \in Clients |-> IF c \in HandlersOf(p) THEN NoRequest ELSE handler[c]]

-----------------------------------------------------------------------------
LifecycleStep(p) ==
  \/ Acquire(p) \/ Serve(p) \/ Signal(p) \/ Drained(p) \/ Crash(p)
  \/ \E now \in Readings : Recover(p, now)

TaskStep(p) ==
  \/ PollBegins(p) \/ SchedulerCancelled(p)
  \/ Write(p) \/ ExecutionReturns(p) \/ WorkerCancelled(p)
  \/ \E now \in Readings : PollQueued(p, now) \/ PollRefused(p, now) \/ Claim(p, now)

HandlerStep(c) ==
  \/ \E request \in Admitted : Admit(c, request)
  \/ Refuse(c)
  \/ \E now \in Readings : AnswerEnqueue(c, now) \/ AnswerReset(c, now)

ServiceNext ==
  \/ \E p \in Processes : LifecycleStep(p) \/ TaskStep(p)
  \/ \E c \in Clients : HandlerStep(c)

ServiceSpec == ServiceInit /\ [][ServiceNext]_serviceVars

(* The runtime polls the tasks of a process; executions end (IndexRun), so *)
(* the worker comes back to its queue; admitted requests are answered,     *)
(* because calls to the graph time out (and clients finish their bodies).  *)
Fairness ==
  /\ \A p \in Processes :
       /\ WF_serviceVars(\E now \in Readings : Claim(p, now))
       /\ WF_serviceVars(ExecutionReturns(p))
       /\ WF_serviceVars(Drained(p))
  /\ \A c \in Clients :
       WF_serviceVars(\/ Refuse(c)
                      \/ \E now \in Readings : AnswerEnqueue(c, now) \/ AnswerReset(c, now))

FairServiceSpec == ServiceSpec /\ Fairness

-----------------------------------------------------------------------------
(* Types, and the tasks of a process exist only while it does: a process   *)
(* that exits has answered every request it admitted.                      *)
ServiceTypeOK ==
  /\ lock \in Processes \cup {NoProcess}
  /\ stage \in [Processes -> Stages]
  /\ worker \in SUBSET Processes
  /\ scheduler \in [Processes -> {"off", "waiting", "polling"}]
  /\ handler \in [Clients -> Admitted \cup {NoRequest}]
  /\ claimed \in [Processes -> SUBSET RunIds]
  /\ \A p \in Processes : (p \in worker \/ scheduler[p] # "off") => Alive(p)
  /\ \A c \in Clients : handler[c] # NoRequest => Alive(handler[c].process)

(* Of all processes started on one state directory only the one that holds *)
(* the lock executes, and its lease is current: no recovery by another     *)
(* start takes a run from under an execution.                              *)
SoleExecutor ==
  \A p \in Processes : held[p] # NoLease =>
    lock = p /\ p \in worker /\ Current(held[p])

(* runbook.md: leased state is recovered before work is accepted.  Whatever *)
(* earlier processes left, a run that is leased while a process serves was *)
(* claimed by that process.                                                *)
RecoveredBeforeServing ==
  \A p \in Processes : stage[p] \in {"recovered", "serving", "draining"} =>
    InState("leased") \subseteq claimed[p]

(* Executions that fail and leave their run leased do not block the queue: *)
(* as long as the process serves, every queued run is claimed (or a run in *)
(* the queue has reached the bound on claims).                             *)
ClaimsSpent == \E q \in InState("queued") : run[q].epoch >= MaxEpoch
QueuedRunsAreClaimed ==
  \A p \in Processes, r \in RunIds :
    (stage[p] = "serving" /\ run[r].state = "queued")
      ~> (stage[p] # "serving" \/ run[r].state # "queued" \/ ClaimsSpent)

(* A signalled process exits, whatever is queued, claimed or admitted.     *)
SignalledProcessExits ==
  \A p \in Processes : (stage[p] = "draining") ~> (stage[p] = "off")

-----------------------------------------------------------------------------
(* What the documents say and the code does not do.                        *)

(* low-level-design-v0.1.md: the scheduler submits Full at the configured  *)
(* interval, so a serving process has a scheduler.                         *)
SchedulerKeepsPolling ==
  \A p \in Processes : stage[p] = "serving" => scheduler[p] # "off"
=============================================================================
