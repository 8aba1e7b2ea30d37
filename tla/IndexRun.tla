------------------------------ MODULE IndexRun ------------------------------
(***************************************************************************)
(* One service process executing runs (application/execute_run.rs) against *)
(* the state repository, the knowledge graph and the remote vector store.  *)
(* The graph changes at any time.  A call to the store may take effect     *)
(* although its response is lost, and a request that timed out may still   *)
(* arrive later.  The process may stop between any two steps and recovers  *)
(* leases when it starts again.                                            *)
(*                                                                         *)
(* A vector is known by the content hash of the document it was computed   *)
(* from.  Entities are handled in name order by the code; here in any.     *)
(*                                                                         *)
(* The variables of sight record what the runs have read: what the service *)
(* can know of the graph is what it read of it.                            *)
(***************************************************************************)
EXTENDS StateRepository, Sequences, FiniteSets

CONSTANTS
  worker,       \* the one worker loop of the process
  Selects,      \* entities a selector covers
  ShortOf,      \* what is rendered of a content when relations are left out
  BatchSize,    \* mcp.batch_size
  MaxAttempts,  \* retry.max_attempts
  Edits,        \* bound: from which to which content the graph changes
  MaxLate       \* bound: requests under way after their caller gave up

VARIABLES
  exec,      \* what the executor keeps in memory
  graph,     \* content hash of each entity in the knowledge graph, or NoRow
  remote,    \* content hash of each entity's vector, or NoRow
  wire,      \* requests given up by the client that may still arrive
  blurred,   \* history: entities whose vector was last set by a late request
  reading,   \* history: what the last run that covers an entity read of it
  past,      \* history: what earlier runs read of it and a later one did not
  owed       \* history: runs that answered a request since they read the graph

outside == <<graph, remote, wire, blurred>>
sight == <<reading, past>>
world == <<outside, sight, owed>>
indexVars == <<stateVars, exec, world>>

Content == Hashes \cup {NoRow}
Call == [op: Actions, batch: SUBSET Entities]
Work == Entities \X Actions
Request == [op: Actions, entity: Entities, hash: Content]

ASSUME IndexAssumption ==
  /\ Workers = {worker}
  /\ Selects \in [Selectors -> SUBSET Entities] /\ Selects[Full] = Entities
  /\ ShortOf \in [Hashes -> SUBSET Hashes]
  /\ IsFiniteSet(Entities)
  /\ BatchSize \in Nat \ {0} /\ MaxAttempts \in Nat \ {0}
  /\ Edits \subseteq (Hashes \cup {NoRow}) \X (Hashes \cup {NoRow}) /\ MaxLate \in Nat

-----------------------------------------------------------------------------
Resting == [pc |-> "idle", attempt |-> 1,
            seen |-> [e \in Entities |-> NoRow], proof |-> "partial",
            listed |-> [e \in {} |-> NoRow],
            plan |-> [upsert |-> {}, delete |-> {}],
            toStage |-> {}, toDelete |-> {}, toEmbed |-> {},
            calls |-> <<>>, done |-> {}, lost |-> {},
            indexed |-> 0, skipped |-> 0, deleted |-> 0, failed |-> 0]

IndexInit ==
  /\ StateInit
  /\ exec = Resting
  /\ graph \in [Entities -> Content]
  /\ remote = [e \in Entities |-> NoRow]
  /\ wire = {}
  /\ blurred = {}
  /\ reading = [e \in Entities |-> NoRow]
  /\ past = [e \in Entities |-> {}]
  /\ owed = {}

Claimed == held[worker].run
Scope == Selects[run[Claimed].selector]
Present == {e \in Entities : exec.seen[e] # NoRow}

(* planner::plan: entities of the scope whose indexed hash is not the one   *)
(* seen, and, for a full run of a complete snapshot, indexed names that     *)
(* were not seen.                                                           *)
(* Mutant: an indexed name is skipped whatever its hash.                    *)
UnchangedByName == Scope \cap Present \cap DOMAIN exec.listed
Unchanged == {e \in Scope \cap Present \cap DOMAIN exec.listed :
                exec.listed[e] = exec.seen[e]}
PermitsDeletion == exec.proof = "complete" /\ run[Claimed].selector = Full
Plan == [upsert |-> (Scope \cap Present) \ Unchanged,
         delete |-> IF PermitsDeletion THEN (DOMAIN exec.listed) \ Present ELSE {}]

Executing == exec.pc = "execute"
Unsettled == exec.done # {} \/ exec.lost # {}

-----------------------------------------------------------------------------
Claim(now) ==
  /\ exec.pc = "idle"
  /\ ClaimNext(worker, now)
  /\ exec' = [exec EXCEPT !.pc = "dimension"]
  /\ UNCHANGED <<tables, world>>

DimensionVerified ==
  /\ exec.pc = "dimension"
  /\ exec' = [exec EXCEPT !.pc = "read"]
  /\ UNCHANGED <<stateVars, world>>

DimensionMismatch ==
  /\ exec.pc = "dimension"
  /\ FinishRun(worker, "failed")
  /\ exec' = Resting
  /\ UNCHANGED <<tables, world>>

(* A graph that does not prove itself complete may leave out entities and   *)
(* relations: an entity is missed, or its document is short of some of its  *)
(* lines and has another hash.                                              *)
SeenAs(e) ==
  {graph[e], NoRow} \cup (IF graph[e] = NoRow THEN {} ELSE ShortOf[graph[e]])

(* The entities a run may act upon after it has read this.                  *)
Covered(proof, seen) ==
  {e \in Scope : seen[e] # NoRow}
    \cup {e \in Entities : /\ seen[e] = NoRow /\ proof = "complete"
                           /\ run[Claimed].selector = Full}

Sighted(proof, seen) ==
  /\ reading' = [e \in Entities |-> IF e \in Covered(proof, seen)
                                    THEN seen[e] ELSE reading[e]]
  /\ past' = [e \in Entities |->
                IF reading'[e] = reading[e] THEN past[e]
                ELSE past[e] \cup ({reading[e]} \ {NoRow})]

ReadGraph(proof, seen) ==
  /\ exec.pc = "read"
  /\ \A e \in Entities : seen[e] \in SeenAs(e)
  /\ proof = "complete" => seen = graph
  /\ exec' = [exec EXCEPT !.pc = "list", !.proof = proof, !.seen = seen]
  /\ Sighted(proof, seen)
  /\ owed' = owed \ {Claimed}
  /\ UNCHANGED <<stateVars, outside>>

ListIndexedEntities ==
  /\ exec.pc = "list"
  /\ exec' = [exec EXCEPT !.pc = "record", !.listed = ListIndexed]
  /\ UNCHANGED <<stateVars, world>>

RecordAndPlan ==
  /\ exec.pc = "record"
  /\ RecordSnapshot(worker, exec.proof)
  /\ exec' = [exec EXCEPT !.pc = "execute", !.plan = Plan,
                          !.toStage = Plan.upsert, !.toEmbed = Plan.upsert,
                          !.toDelete = Plan.delete,
                          !.skipped = Cardinality(Unchanged)]
  /\ UNCHANGED world

(* All upserts are staged before anything is deleted or embedded.           *)
StageNextUpsert(e) ==
  /\ Executing /\ e \in exec.toStage
  /\ StageUpsert(worker, e, exec.seen[e])
  /\ exec' = [exec EXCEPT !.toStage = @ \ {e}]
  /\ UNCHANGED world

(* Mutant: the deletion is staged only after the store has done it.         *)
NextDeleteUnstaged(e) ==
  /\ Executing /\ exec.toStage = {} /\ exec.calls = <<>> /\ ~Unsettled
  /\ e \in exec.toDelete
  /\ exec' = [exec EXCEPT !.toDelete = @ \ {e}, !.attempt = 1,
                          !.calls = <<[op |-> "delete", batch |-> {e}]>>]
  /\ UNCHANGED <<stateVars, world>>

StageNextDelete(e) ==
  /\ Executing /\ exec.toStage = {} /\ exec.calls = <<>> /\ ~Unsettled
  /\ e \in exec.toDelete
  /\ StageDelete(worker, e)
  /\ exec' = [exec EXCEPT !.toDelete = @ \ {e}, !.attempt = 1,
                          !.calls = <<[op |-> "delete", batch |-> {e}]>>]
  /\ UNCHANGED world

(* The next chunk: its texts are embedded together, and if that fails all   *)
(* of them fail.                                                            *)
Chunk(B) ==
  /\ Executing /\ exec.toStage = {} /\ exec.toDelete = {}
  /\ exec.calls = <<>> /\ ~Unsettled /\ B # {}
  /\ \/ Cardinality(B) = BatchSize
     \/ Cardinality(B) < BatchSize /\ B = exec.toEmbed

EmbedChunk(B) ==
  /\ Chunk(B)
  /\ exec' = [exec EXCEPT !.toEmbed = @ \ B, !.attempt = 1,
                          !.calls = <<[op |-> "upsert", batch |-> B]>>]
  /\ UNCHANGED <<stateVars, world>>

EmbedChunkFailed(B) ==
  /\ Chunk(B)
  /\ exec' = [exec EXCEPT !.toEmbed = @ \ B, !.lost = B \X {"upsert"}]
  /\ UNCHANGED <<stateVars, world>>

-----------------------------------------------------------------------------
(* Calls to the vector store.                                               *)
Calling == Executing /\ ~Unsettled /\ exec.calls # <<>>
op == Head(exec.calls).op
batch == Head(exec.calls).batch

(* The store carries out the head call for the entities in A.               *)
Apply(A) ==
  /\ remote' = [e \in Entities |->
                  IF e \notin A THEN remote[e]
                  ELSE IF op = "upsert" THEN exec.seen[e] ELSE NoRow]
  /\ blurred' = blurred \ A
  /\ UNCHANGED <<graph, sight, owed>>

(* Halves of a batch that failed in part are written again on their own.    *)
Halves(F) ==
  LET left == {L \in SUBSET F : Cardinality(L) = Cardinality(F) \div 2}
  IN {<<[op |-> "upsert", batch |-> L], [op |-> "upsert", batch |-> F \ L]>> : L \in left}

(* Mutant: split at zero.                                                   *)
CallAnsweredSplitAtZero(F) ==
  /\ Calling
  /\ F \subseteq batch /\ (op = "delete" => F = {})
  /\ Apply(batch \ F)
  /\ \E again \in IF Cardinality(F) < 2 THEN {<<>>}
                  ELSE {<<[op |-> "upsert", batch |-> F]>>} :
       exec' = [exec EXCEPT !.calls = again \o Tail(@), !.attempt = 1,
                            !.done = (batch \ F) \X {op},
                            !.lost = IF Cardinality(F) = 1 THEN F \X {op} ELSE {}]
  /\ UNCHANGED <<stateVars, wire>>
(* Mutant: every item of an answered batch is taken as written.             *)
CallAnsweredAllDone(F) ==
  /\ Calling
  /\ F \subseteq batch /\ (op = "delete" => F = {})
  /\ Apply(batch \ F)
  /\ exec' = [exec EXCEPT !.calls = Tail(@), !.done = batch \X {op}, !.attempt = 1]
  /\ UNCHANGED <<stateVars, wire>>
(* Mutant: the second half is forgotten.                                    *)
CallAnsweredLeftOnly(F) ==
  /\ Calling
  /\ F \subseteq batch /\ (op = "delete" => F = {})
  /\ Apply(batch \ F)
  /\ \E again \in IF Cardinality(F) < 2 THEN {<<>>} ELSE {<<Head(h)>> : h \in Halves(F)} :
       exec' = [exec EXCEPT !.calls = again \o Tail(@), !.attempt = 1,
                            !.done = (batch \ F) \X {op},
                            !.lost = IF Cardinality(F) = 1 THEN F \X {op} ELSE {}]
  /\ UNCHANGED <<stateVars, wire>>

(* Answered: the items in F were refused.  One refused item fails, several  *)
(* are split.                                                               *)
CallAnswered(F) ==
  /\ Calling
  /\ F \subseteq batch /\ (op = "delete" => F = {})
  /\ Apply(batch \ F)
  /\ \E again \in IF Cardinality(F) < 2 THEN {<<>>} ELSE Halves(F) :
       exec' = [exec EXCEPT !.calls = again \o Tail(@), !.attempt = 1,
                            !.done = (batch \ F) \X {op},
                            !.lost = IF Cardinality(F) = 1 THEN F \X {op} ELSE {}]
  /\ UNCHANGED <<stateVars, wire>>

(* The caller sees an error: the store did A, and L is still under way.     *)
NoAnswer(A, L) ==
  /\ Calling
  /\ A \subseteq batch /\ L \subseteq batch \ A
  /\ Apply(A)
  /\ wire' = wire \cup {[op |-> op, entity |-> e, hash |-> exec.seen[e]] : e \in L}
  /\ Cardinality(wire') <= MaxLate
  /\ UNCHANGED stateVars

(* Mutant: the attempts are not counted.                                    *)
CallRetriedUncounted(A, L) ==
  /\ NoAnswer(A, L)
  /\ exec.attempt < MaxAttempts
  /\ UNCHANGED exec

CallRetried(A, L) ==
  /\ NoAnswer(A, L)
  /\ exec.attempt < MaxAttempts
  /\ exec' = [exec EXCEPT !.attempt = @ + 1]

(* A permanent error, or the last attempt: the whole batch fails.           *)
CallFailed(A, L) ==
  /\ NoAnswer(A, L)
  /\ exec' = [exec EXCEPT !.calls = Tail(@), !.attempt = 1, !.lost = batch \X {op}]

(* The store did A but its answer does not name the batch: the execution    *)
(* ends.                                                                    *)
CallMisanswered(A) ==
  /\ Calling /\ op = "upsert"
  /\ A \subseteq batch
  /\ Apply(A)
  /\ Abandon(worker)
  /\ exec' = Resting
  /\ UNCHANGED <<tables, wire>>

-----------------------------------------------------------------------------
(* One transaction for each item that was written, then for each that was   *)
(* not.                                                                     *)
(* Mutant: the hash stored is the graph's current one.                      *)
CompleteWithCurrent(e, a) ==
  /\ Executing /\ <<e, a>> \in exec.done
  /\ \/ /\ a = "upsert"
        /\ CompleteUpsert(worker, e, IF graph[e] = NoRow THEN exec.seen[e] ELSE graph[e])
        /\ exec' = [exec EXCEPT !.done = @ \ {<<e, a>>}, !.indexed = @ + 1]
     \/ /\ a = "delete"
        /\ CompleteDelete(worker, e)
        /\ exec' = [exec EXCEPT !.done = @ \ {<<e, a>>}, !.deleted = @ + 1]
  /\ UNCHANGED world

Complete(e, a) ==
  /\ Executing /\ <<e, a>> \in exec.done
  /\ \/ /\ a = "upsert"
        /\ CompleteUpsert(worker, e, exec.seen[e])
        /\ exec' = [exec EXCEPT !.done = @ \ {<<e, a>>}, !.indexed = @ + 1]
     \/ /\ a = "delete"
        /\ CompleteDelete(worker, e)
        /\ exec' = [exec EXCEPT !.done = @ \ {<<e, a>>}, !.deleted = @ + 1]
  /\ UNCHANGED world

(* Mutant: a failed item is only counted.                                   *)
FailUnrecorded(e, a) ==
  /\ Executing /\ exec.done = {} /\ <<e, a>> \in exec.lost
  /\ exec' = [exec EXCEPT !.lost = @ \ {<<e, a>>}, !.failed = @ + 1]
  /\ UNCHANGED <<stateVars, world>>

Fail(e, a) ==
  /\ Executing /\ exec.done = {} /\ <<e, a>> \in exec.lost
  /\ FailWork(worker, e, a)
  /\ exec' = [exec EXCEPT !.lost = @ \ {<<e, a>>}, !.failed = @ + 1]
  /\ UNCHANGED world

Outcome == IF exec.failed = 0 THEN "succeeded"
           ELSE IF exec.indexed + exec.deleted + exec.skipped = 0 THEN "failed"
           ELSE "partial"

Finish ==
  /\ Executing /\ ~Unsettled /\ exec.calls = <<>>
  /\ exec.toStage = {} /\ exec.toDelete = {} /\ exec.toEmbed = {}
  /\ FinishRun(worker, Outcome)
  /\ exec' = Resting
  /\ UNCHANGED <<tables, world>>

(* Any await may end the execution with an error: a storage error, an       *)
(* unreachable graph, an invalid snapshot, embeddings or a batch result     *)
(* that do not match their inputs.  The run keeps its lease.                *)
Abort ==
  /\ exec.pc \notin {"idle", "down"}
  /\ Abandon(worker)
  /\ exec' = Resting
  /\ UNCHANGED <<tables, world>>

Step ==
  \/ DimensionVerified \/ DimensionMismatch
  \/ \E proof \in {"partial", "complete"}, seen \in [Entities -> Content] :
       ReadGraph(proof, seen)
  \/ ListIndexedEntities \/ RecordAndPlan
  \/ \E e \in exec.toStage : StageNextUpsert(e)
  \/ \E e \in exec.toDelete : StageNextDelete(e)
  \/ \E B \in SUBSET exec.toEmbed : EmbedChunk(B) \/ EmbedChunkFailed(B)
  \/ \E F \in SUBSET Entities : CallAnswered(F)
  \/ \E A, L \in SUBSET Entities : CallRetried(A, L) \/ CallFailed(A, L)
  \/ \E A \in SUBSET Entities : CallMisanswered(A)
  \/ \E e \in Entities, a \in Actions : Complete(e, a) \/ Fail(e, a)
  \/ Finish

-----------------------------------------------------------------------------
(* Stop: a crash, or a shutdown, which drops the executor's future.         *)
Stop ==
  /\ exec.pc # "down"
  /\ held' = [held EXCEPT ![worker] = NoLease]
  /\ exec' = [Resting EXCEPT !.pc = "down"]
  /\ UNCHANGED <<clock, run, key, writer, tables, world>>

(* Mutant: a second process recovers leases while the first executes.       *)
StartUnlocked(now) ==
  /\ RecoverLeases(InState("leased"), now)
  /\ exec' = IF exec.pc = "down" THEN Resting ELSE exec
  /\ UNCHANGED <<held, tables, world>>

Start(now) ==
  /\ exec.pc = "down"
  /\ RecoverAfterExclusiveStart(now)
  /\ exec' = Resting
  /\ UNCHANGED <<tables, world>>

(* Requests over HTTP, MCP or from the scheduler.  An accepted one is        *)
(* answered with a run, its own or the queued one it joins.                  *)
Requested(now) ==
  /\ exec.pc # "down"
  /\ \/ /\ \E k \in Keys : ResetConflict(k, now)
        /\ UNCHANGED <<tables, owed>>
     \/ \E k \in Keys \cup {NoKey}, id \in FreshIds, sel \in Selectors :
          \/ /\ AnswerFromKey(k, now) \/ EnqueueConflict(sel, k, now)
             /\ UNCHANGED <<tables, owed>>
          \/ /\ EnqueueInserted(id, sel, k, now)
             /\ owed' = owed \cup {id}
             /\ UNCHANGED tables
          \/ \E r \in Oldest(QueuedFor(sel)) :
               /\ EnqueueCoalesced(id, sel, k, now)
               /\ k # NoKey => key'[k].run = r
               /\ owed' = owed \cup {r}
               /\ UNCHANGED tables
     \/ \E k \in Keys, id \in FreshIds :
          /\ ResetLocalIndexState(id, k, now)
          /\ owed' = owed \cup {id}
  /\ UNCHANGED <<exec, outside, sight>>

(* The graph belongs to other programs.                                     *)
GraphChanges(e, h) ==
  /\ <<graph[e], h>> \in Edits
  /\ graph' = [graph EXCEPT ![e] = h]
  /\ UNCHANGED <<stateVars, exec, remote, wire, blurred, sight, owed>>

(* A request whose caller gave up takes effect after all.                   *)
ArrivesLate(m) ==
  /\ wire' = wire \ {m}
  /\ remote' = [remote EXCEPT ![m.entity] = IF m.op = "upsert" THEN m.hash ELSE NoRow]
  /\ blurred' = blurred \cup {m.entity}
  /\ UNCHANGED <<stateVars, exec, graph, sight, owed>>

IndexNext ==
  \/ \E now \in Readings : Claim(now) \/ Start(now) \/ Requested(now)
  \/ Step \/ Abort \/ Stop
  \/ \E e \in Entities, h \in Content : GraphChanges(e, h)
  \/ \E m \in wire : ArrivesLate(m)

IndexSpec == IndexInit /\ [][IndexNext]_indexVars

(* The runtime polls a claimed run's future until it ends.                  *)
FairIndexSpec == IndexSpec /\ WF_indexVars(Step)

-----------------------------------------------------------------------------
(* Types of the executor's memory and of the world.                         *)
IndexTypeOK ==
  /\ exec.pc \in {"down", "idle", "dimension", "read", "list", "record", "execute"}
  /\ exec.attempt \in 1..MaxAttempts
  /\ exec.seen \in [Entities -> Content]
  /\ exec.proof \in {"partial", "complete"}
  /\ DOMAIN exec.listed \subseteq Entities
  /\ \A e \in DOMAIN exec.listed : exec.listed[e] \in Hashes
  /\ exec.plan \in [upsert: SUBSET Entities, delete: SUBSET Entities]
  /\ exec.toStage \subseteq exec.toEmbed
  /\ exec.toEmbed \subseteq exec.plan.upsert /\ exec.toDelete \subseteq exec.plan.delete
  /\ exec.calls \in Seq(Call)
  /\ exec.done \subseteq Work /\ exec.lost \subseteq Work
  /\ \A n \in {exec.indexed, exec.skipped, exec.deleted, exec.failed} : n \in Nat
  /\ graph \in [Entities -> Content] /\ remote \in [Entities -> Content]
  /\ wire \subseteq Request
  /\ reading \in [Entities -> Content] /\ past \in [Entities -> SUBSET Hashes]
  /\ owed \subseteq RunIds

(* The process lock: from claim to finish an execution holds a current      *)
(* lease, since recovery runs only when no execution is under way; and a    *)
(* process that executes nothing holds none.                                *)
LeaseHeldWhileExecuting ==
  IF exec.pc \in {"idle", "down"} THEN held[worker] = NoLease ELSE Current(held[worker])

(* So between two steps the executor's memory is well typed and covered by   *)
(* a lease.                                                                 *)
ExecutorOK == IndexTypeOK /\ LeaseHeldWhileExecuting

InCalls == UNION {exec.calls[i].batch \X {exec.calls[i].op} : i \in DOMAIN exec.calls}
Pending == (exec.toEmbed \X {"upsert"}) \cup (exec.toDelete \X {"delete"})
             \cup InCalls \cup exec.done \cup exec.lost
Handled == ((exec.plan.upsert \X {"upsert"}) \cup (exec.plan.delete \X {"delete"}))
             \ Pending
StatusOf(i) == work[<<Claimed, i[1], i[2]>>].status

(* Through chunks, retries, partial refusals and splits, every planned item *)
(* is either still to be done or has been recorded exactly once, as what    *)
(* the report counts it as; so when nothing is left, the status of the run  *)
(* and its counters agree with the work table.                              *)
ReportMatchesWork ==
  Executing =>
    /\ \A i \in Handled : StatusOf(i) \in {"succeeded", "failed"}
    /\ exec.failed = Cardinality({i \in Handled : StatusOf(i) = "failed"})
    /\ exec.indexed + exec.deleted =
         Cardinality({i \in Handled : StatusOf(i) = "succeeded"})

(* The index is updated last: when a row says indexed or deleted, the store *)
(* has done exactly that, unless a request its caller had given up          *)
(* overtook it.                                                             *)
CommittedIsWritten ==
  [][\A e \in Entities : (rows'[e] # rows[e] /\ rows'[e] # NoRow /\ e \notin blurred) =>
       remote[e] = (IF rows'[e].status = "indexed" THEN rows'[e].hash ELSE NoRow)
    ]_indexVars

(* No vector disappears without an audit row of a full run that recorded a  *)
(* snapshot, and a call in time removes only what its run did not see in a  *)
(* complete graph.                                                          *)
RemovalIsAudited ==
  [][\A e \in Entities : (remote[e] # NoRow /\ remote'[e] = NoRow) =>
       /\ \E r \in RunIds : /\ run[r].selector = Full /\ snapshot[r] # "none"
                            /\ audit[<<r, e>>] # "none"
       /\ e \notin blurred' => exec.seen[e] = NoRow /\ exec.proof = "complete"
    ]_indexVars

(* A row that lost touch with its vector (the store did a call, the process *)
(* stopped before the commit) names a content that a later run read         *)
(* differently.  So the entity is taken for unchanged only by a run that    *)
(* reads a content of the past again: because the graph returned to it, or  *)
(* because a read without proof, short of a relation, lay between.  It      *)
(* takes no overtaking request.                                             *)
StaleRowIsSuperseded ==
  \A e \in Entities \ blurred :
    (rows[e] # NoRow /\ rows[e].status = "indexed" /\ remote[e] # rows[e].hash) =>
      rows[e].hash \in past[e]

(* A request that was accepted is answered by a scan that begins after it:   *)
(* no run has ended with a result that did not read the graph after the last *)
(* request it stands for, through coalescing, stops, recovery and new claims *)
(* of the run.                                                               *)
RequestsAreRead ==
  \A r \in owed : run[r].status \notin {"succeeded", "partial"}

SucceedsNow == Executing /\ exec'.pc = "idle" /\ run'[Claimed].status = "succeeded"

(* Whatever stopped half-way before, whatever incomplete reads embedded:     *)
(* when a run succeeds, every entity it covers has the vector of the content *)
(* the run saw, and what it listed but did not see is gone.  It takes a      *)
(* content that was not read before another one was, and no overtaking       *)
(* request.                                                                  *)
SuccessConverges ==
  [][SucceedsNow => \A e \in Entities \ blurred :
       /\ (e \in Scope \cap Present /\ exec.seen[e] \notin past[e]) =>
            /\ remote[e] = exec.seen[e]
            /\ rows[e] = [status |-> "indexed", hash |-> exec.seen[e]]
       /\ (e \in (DOMAIN exec.listed) \ Present /\ PermitsDeletion) =>
            /\ remote[e] = NoRow
            /\ rows[e].status = "deleted"]_indexVars

(* An execution that has started ends: retries and splits run out.          *)
Busy == exec.pc \notin {"idle", "down"}
ExecutionEnds == Busy ~> ~Busy

(* What an execution still has before it, the weightiest first.             *)
PhasesLeft == [dimension |-> 5, read |-> 4, list |-> 3, record |-> 2, execute |-> 1,
               idle |-> 0, down |-> 0]
Remaining ==
  <<PhasesLeft[exec.pc], Cardinality(exec.toStage), Cardinality(exec.toDelete),
    Cardinality(exec.toEmbed), Cardinality(InCalls),
    IF exec.calls = <<>> THEN 0 ELSE Cardinality(batch), MaxAttempts - exec.attempt,
    Cardinality(exec.done), Cardinality(exec.lost)>>
LessRemains(new, old) ==
  \E i \in DOMAIN old : new[i] < old[i] /\ \A j \in 1..(i - 1) : new[j] = old[j]

(* It gets nearer to its end with every step of its own, and nothing the     *)
(* others do, requests, late answers or a new graph, takes it back: a chunk  *)
(* that keeps failing is split and retried only so often.                   *)
ExecutionRunsDown ==
  [][Busy => LessRemains(Remaining', Remaining) \/ (exec' = exec /\ ~Step)]_indexVars

-----------------------------------------------------------------------------
(* What the documents say and the code does not do.                         *)

(* spec-v0.1.md acceptance 11: after a restart the next run makes the index *)
(* consistent, contents that recur included.                                *)
RestartConverges ==
  [][SucceedsNow => \A e \in Scope \cap Present : remote[e] = exec.seen[e]]_indexVars
=============================================================================
