---------------------------- MODULE IndexRunProofs ----------------------------
(* Proofs about IndexRun, for every set of runs, entities and hashes, every  *)
(* batch size and number of attempts: the process uses the repository as its *)
(* specification allows, holds its lease while it executes, and commits only *)
(* what the store has done, whatever the store, the graph and crashes do.    *)
EXTENDS IndexRun, StateRepositoryProofs, FiniteSetTheorems

Pcs == {"down", "idle", "dimension", "read", "list", "record", "execute"}
Listing == UNION {[S -> Hashes] : S \in SUBSET Entities}

ExecRecord ==
  [pc: Pcs, attempt: Nat, seen: [Entities -> Content],
   proof: {"partial", "complete"}, listed: Listing,
   plan: [upsert: SUBSET Entities, delete: SUBSET Entities],
   toStage: SUBSET Entities, toDelete: SUBSET Entities, toEmbed: SUBSET Entities,
   calls: Seq(Call), done: SUBSET Work, lost: SUBSET Work,
   indexed: Nat, skipped: Nat, deleted: Nat, failed: Nat]

(* What is to be staged, embedded, written or completed was seen.           *)
SeenInv ==
  /\ exec.toStage \subseteq Present /\ exec.toEmbed \subseteq Present
  /\ \A i \in 1..Len(exec.calls) :
       exec.calls[i].op = "upsert" => exec.calls[i].batch \subseteq Present
  /\ \A e \in Entities : <<e, "upsert">> \in exec.done => e \in Present
  /\ exec.pc # "execute" => /\ exec.toStage = {} /\ exec.toEmbed = {}
                            /\ exec.calls = <<>> /\ exec.done = {}

(* What is to be completed has been done by the store.                      *)
DoneIsWritten ==
  \A e \in Entities, a \in Actions :
    (<<e, a>> \in exec.done /\ e \notin blurred) =>
      remote[e] = (IF a = "upsert" THEN exec.seen[e] ELSE NoRow)

ExecTypeOK == /\ exec \in ExecRecord
              /\ graph \in [Entities -> Content]
              /\ remote \in [Entities -> Content]
              /\ wire \subseteq Request

ExecInv == ExecTypeOK /\ SeenInv /\ DoneIsWritten /\ LeaseHeldWhileExecuting

IndexInv == QueueInv /\ TableInv /\ ExecInv

-----------------------------------------------------------------------------
LEMMA WorkerIsOne == worker \in Workers /\ \A w \in Workers : w = worker
BY IndexAssumption

LEMMA RestingType == Resting \in ExecRecord /\ Resting.pc = "idle"
                     /\ Resting.toStage = {} /\ Resting.toEmbed = {}
                     /\ Resting.calls = <<>> /\ Resting.done = {}
<1>1. [e \in {} |-> NoRow] \in Listing
  <2>1. [e \in {} |-> NoRow] \in [{} -> Hashes]
    OBVIOUS
  <2> QED BY <2>1 DEF Listing
<1>2. [e \in Entities |-> NoRow] \in [Entities -> Content]
  BY DEF Content
<1>3. <<>> \in Seq(Call)
  OBVIOUS
<1> QED BY <1>1, <1>2, <1>3 DEF Resting, ExecRecord, Pcs

(* A resting or stopped executor satisfies the invariant.                    *)
LEMMA RestInv ==
  ASSUME exec' = Resting \/ exec' = [Resting EXCEPT !.pc = "down"],
         held'[worker] = NoLease, graph' \in [Entities -> Content],
         remote' \in [Entities -> Content], wire' \subseteq Request
  PROVE  ExecInv'
<1>1. /\ exec' \in ExecRecord /\ exec'.pc \in {"idle", "down"}
      /\ exec'.toStage = {} /\ exec'.toEmbed = {}
      /\ exec'.calls = <<>> /\ exec'.done = {}
  BY RestingType DEF ExecRecord, Pcs
<1>2. SeenInv' /\ DoneIsWritten'
  BY <1>1 DEF SeenInv, DoneIsWritten
<1> QED BY <1>1, <1>2 DEF ExecInv, ExecTypeOK, LeaseHeldWhileExecuting

-----------------------------------------------------------------------------
(* Sequences of calls whose upserts are confined to P.                      *)
GoodCalls(s, P) ==
  s \in Seq(Call) /\ \A i \in 1..Len(s) : s[i].op = "upsert" => s[i].batch \subseteq P

LEMMA GoodTail ==
  ASSUME NEW P, NEW s, GoodCalls(s, P), s # <<>>
  PROVE  /\ GoodCalls(Tail(s), P) /\ Head(s) \in Call
         /\ Head(s).op = "upsert" => Head(s).batch \subseteq P
<1>1. Len(s) \in Nat /\ Len(s) > 0 /\ Head(s) = s[1] /\ s[1] \in Call
  BY DEF GoodCalls
<1>2. Tail(s) \in Seq(Call) /\ Len(Tail(s)) = Len(s) - 1
  BY DEF GoodCalls
<1>3. \A i \in 1..Len(Tail(s)) : Tail(s)[i] = s[i + 1]
  BY <1>1, <1>2 DEF GoodCalls
<1>4. \A i \in 1..Len(Tail(s)) : i + 1 \in 1..Len(s)
  BY <1>1, <1>2
<1> QED BY <1>1, <1>2, <1>3, <1>4 DEF GoodCalls

LEMMA GoodOne ==
  ASSUME NEW P, NEW c \in Call, c.op = "upsert" => c.batch \subseteq P
  PROVE  GoodCalls(<<c>>, P)
<1>1. <<c>> \in Seq(Call) /\ Len(<<c>>) = 1 /\ <<c>>[1] = c
  OBVIOUS
<1> QED BY <1>1 DEF GoodCalls

LEMMA GoodConcat ==
  ASSUME NEW P, NEW s, NEW t, GoodCalls(s, P), GoodCalls(t, P)
  PROVE  GoodCalls(s \o t, P)
<1>1. s \o t \in Seq(Call) /\ Len(s \o t) = Len(s) + Len(t)
      /\ Len(s) \in Nat /\ Len(t) \in Nat
  BY DEF GoodCalls
<1>2. \A i \in 1..Len(s \o t) :
        \/ i \in 1..Len(s) /\ (s \o t)[i] = s[i]
        \/ i - Len(s) \in 1..Len(t) /\ (s \o t)[i] = t[i - Len(s)]
  BY <1>1 DEF GoodCalls
<1>3. ASSUME NEW i \in 1..Len(s \o t), (s \o t)[i].op = "upsert"
      PROVE  (s \o t)[i].batch \subseteq P
  <2>1. CASE i \in 1..Len(s) /\ (s \o t)[i] = s[i]
    BY <1>3, <2>1 DEF GoodCalls
  <2>2. CASE i - Len(s) \in 1..Len(t) /\ (s \o t)[i] = t[i - Len(s)]
    <3> DEFINE j == i - Len(s)
    <3>1. j \in 1..Len(t) /\ t[j].op = "upsert"
      BY <1>3, <2>2
    <3>2. t[j].batch \subseteq P
      BY <3>1 DEF GoodCalls
    <3> QED BY <2>2, <3>2
  <2> QED BY <1>2, <2>1, <2>2
<1> QED BY <1>1, <1>3 DEF GoodCalls

LEMMA GoodTwo ==
  ASSUME NEW P, NEW c \in Call, NEW d \in Call,
         c.op = "upsert" => c.batch \subseteq P, d.op = "upsert" => d.batch \subseteq P
  PROVE  GoodCalls(<<c, d>>, P)
<1>1. <<c, d>> \in Seq(Call) /\ Len(<<c, d>>) = 2
      /\ <<c, d>>[1] = c /\ <<c, d>>[2] = d
  OBVIOUS
<1>2. \A i \in 1..2 : i = 1 \/ i = 2
  OBVIOUS
<1> QED BY <1>1, <1>2 DEF GoodCalls

LEMMA GoodNone == ASSUME NEW P PROVE GoodCalls(<<>>, P)
BY DEF GoodCalls

(* What remains to be called after some items were refused.                 *)
LEMMA GoodAgain ==
  ASSUME NEW P, NEW F, F \subseteq P, F \subseteq Entities,
         NEW s, GoodCalls(s, P),
         NEW again \in IF Cardinality(F) < 2 THEN {<<>>} ELSE Halves(F)
  PROVE  GoodCalls(again \o s, P)
<1>1. CASE again = <<>>
  BY <1>1, GoodNone, GoodConcat
<1>2. CASE again \in Halves(F)
  <2>1. PICK L \in SUBSET F :
          again = <<[op |-> "upsert", batch |-> L], [op |-> "upsert", batch |-> F \ L]>>
    BY <1>2 DEF Halves
  <2>2. /\ [op |-> "upsert", batch |-> L] \in Call
        /\ [op |-> "upsert", batch |-> F \ L] \in Call
    BY DEF Call, Actions
  <2>3. GoodCalls(again, P)
    BY <2>1, <2>2, GoodTwo
  <2> QED BY <2>3, GoodConcat
<1> QED BY <1>1, <1>2

-----------------------------------------------------------------------------
(* The lease stays current while the repository's run rows are not touched. *)
LEMMA LeaseKept ==
  ASSUME LeaseHeldWhileExecuting, UNCHANGED <<run, held>>,
         exec.pc \notin {"idle", "down"}, exec'.pc \notin {"idle", "down"}
  PROVE  LeaseHeldWhileExecuting'
BY DEF LeaseHeldWhileExecuting, Current

LEMMA ClaimInv ==
  ASSUME IndexInv, NEW now \in Readings, Claim(now)
  PROVE  ExecInv'
<1> USE DEF IndexInv, ExecInv
<1>1. exec.pc = "idle" /\ exec' = [exec EXCEPT !.pc = "dimension"] /\ UNCHANGED world
  BY DEF Claim
<1>2. exec' \in ExecRecord /\ exec'.pc = "dimension"
  BY <1>1 DEF ExecTypeOK, ExecRecord, Pcs
<1>3. /\ exec'.toStage = exec.toStage /\ exec'.toEmbed = exec.toEmbed
      /\ exec'.calls = exec.calls /\ exec'.done = exec.done /\ exec'.seen = exec.seen
  BY <1>1 DEF ExecTypeOK, ExecRecord
<1>4. SeenInv' /\ DoneIsWritten' /\ ExecTypeOK'
  BY <1>1, <1>2, <1>3 DEF SeenInv, DoneIsWritten, Present, ExecTypeOK, world, outside
<1>5. Current(held[worker])'
  <2>1. PICK r \in RunIds :
          /\ run' = [run EXCEPT ![r].state = "leased", ![r].status = "running",
                                ![r].owner = OwnerOf[worker],
                                ![r].epoch = run[r].epoch + 1,
                                ![r].expiresAt = now + LeaseDuration]
          /\ held' = [held EXCEPT ![worker] =
                        [run |-> r, owner |-> OwnerOf[worker], epoch |-> run[r].epoch + 1]]
    BY DEF Claim, ClaimNext, Oldest, InState
  <2>2. held'[worker] = [run |-> r, owner |-> OwnerOf[worker], epoch |-> run[r].epoch + 1]
    BY <2>1, WorkerIsOne DEF QueueInv, TypeOK
  <2>3. /\ run'[r].state = "leased" /\ run'[r].owner = OwnerOf[worker]
        /\ run'[r].epoch = run[r].epoch + 1
    BY <2>1 DEF QueueInv, TypeOK, RunRow
  <2>4. held'[worker] # NoLease
    <3>1. held' \in [Workers -> Lease \cup {NoLease}] /\ OwnerOf[worker] \in Owners
      BY <2>1, WorkerIsOne, RunQueueAssumption DEF QueueInv, TypeOK, Lease, Owners, RunRow
    <3> QED BY <2>1, <2>2, <3>1, WorkerIsOne, RunQueueAssumption
            DEF Lease, QueueInv, TypeOK, RunRow
  <2> QED BY <2>2, <2>3, <2>4 DEF Current
<1> QED BY <1>2, <1>4, <1>5 DEF LeaseHeldWhileExecuting

(* Steps in front of the plan's execution.                                  *)
LEMMA DimensionVerifiedInv ==
  ASSUME IndexInv, DimensionVerified
  PROVE  ExecInv'
<1> USE DEF IndexInv, ExecInv
<1>1. /\ exec.pc = "dimension" /\ exec' = [exec EXCEPT !.pc = "read"]
      /\ UNCHANGED <<stateVars, world>>
  BY DEF DimensionVerified
<1>2. /\ exec' \in ExecRecord /\ exec'.pc = "read"
      /\ exec'.toStage = exec.toStage /\ exec'.toEmbed = exec.toEmbed
      /\ exec'.calls = exec.calls /\ exec'.done = exec.done /\ exec'.seen = exec.seen
  BY <1>1 DEF ExecTypeOK, ExecRecord, Pcs
<1>3. SeenInv' /\ DoneIsWritten' /\ ExecTypeOK'
  BY <1>1, <1>2 DEF SeenInv, DoneIsWritten, Present, ExecTypeOK, world, outside
<1>4. LeaseHeldWhileExecuting'
  BY <1>1, <1>2, LeaseKept DEF stateVars, queueVars
<1> QED BY <1>3, <1>4

LEMMA ReadGraphInv ==
  ASSUME IndexInv, NEW proof \in {"partial", "complete"}, NEW seen \in [Entities -> Content],
         ReadGraph(proof, seen)
  PROVE  ExecInv'
<1> USE DEF IndexInv, ExecInv
<1>1. /\ exec.pc = "read" /\ UNCHANGED <<stateVars, outside>>
      /\ exec' = [exec EXCEPT !.pc = "list", !.proof = proof, !.seen = seen]
  BY DEF ReadGraph
<1>2. /\ exec' \in ExecRecord /\ exec'.pc = "list"
      /\ exec'.toStage = exec.toStage /\ exec'.toEmbed = exec.toEmbed
      /\ exec'.calls = exec.calls /\ exec'.done = exec.done
  BY <1>1 DEF ExecTypeOK, ExecRecord, Pcs
<1>3. SeenInv' /\ DoneIsWritten' /\ ExecTypeOK'
  BY <1>1, <1>2 DEF SeenInv, DoneIsWritten, ExecTypeOK, outside
<1>4. LeaseHeldWhileExecuting'
  BY <1>1, <1>2, LeaseKept DEF stateVars, queueVars
<1> QED BY <1>3, <1>4

LEMMA ListIndexedType ==
  ASSUME StateTypeOK PROVE ListIndexed \in Listing
<1> DEFINE S == {x \in Entities : rows[x] # NoRow /\ rows[x].status = "indexed"}
<1>1. S \in SUBSET Entities
  OBVIOUS
<1>2. \A x \in S : rows[x].hash \in Hashes
  BY DEF StateTypeOK, Row
<1>3. ListIndexed \in [S -> Hashes]
  BY <1>2 DEF ListIndexed
<1> HIDE DEF S
<1> QED BY <1>1, <1>3 DEF Listing

LEMMA ListIndexedEntitiesInv ==
  ASSUME IndexInv, ListIndexedEntities
  PROVE  ExecInv'
<1> USE DEF IndexInv, ExecInv
<1>1. /\ exec.pc = "list" /\ UNCHANGED <<stateVars, world>>
      /\ exec' = [exec EXCEPT !.pc = "record", !.listed = ListIndexed]
  BY DEF ListIndexedEntities
<1>2. /\ exec' \in ExecRecord /\ exec'.pc = "record"
      /\ exec'.toStage = exec.toStage /\ exec'.toEmbed = exec.toEmbed
      /\ exec'.calls = exec.calls /\ exec'.done = exec.done /\ exec'.seen = exec.seen
  BY <1>1, ListIndexedType DEF ExecTypeOK, ExecRecord, Pcs, TableInv
<1>3. SeenInv' /\ DoneIsWritten' /\ ExecTypeOK'
  BY <1>1, <1>2 DEF SeenInv, DoneIsWritten, Present, ExecTypeOK, world, outside
<1>4. LeaseHeldWhileExecuting'
  BY <1>1, <1>2, LeaseKept DEF stateVars, queueVars
<1> QED BY <1>3, <1>4

(* The plan upserts what was seen and deletes what was listed.              *)
LEMMA PlanType ==
  ASSUME ExecTypeOK
  PROVE  /\ Plan \in [upsert: SUBSET Entities, delete: SUBSET Entities]
         /\ Plan.upsert \subseteq Present /\ Plan.upsert \in SUBSET Entities
         /\ Plan.delete \in SUBSET Entities
         /\ Cardinality(Unchanged) \in Nat
<1>1. DOMAIN exec.listed \subseteq Entities
  BY DEF ExecTypeOK, ExecRecord, Listing
<1>2. Present \subseteq Entities
  BY DEF Present
<1>3. Unchanged \subseteq Entities
  BY <1>2 DEF Unchanged
<1>4. Cardinality(Unchanged) \in Nat
  BY <1>3, IndexAssumption, FS_Subset, FS_CardinalityType
<1> QED BY <1>1, <1>2, <1>4 DEF Plan

LEMMA RecordAndPlanInv ==
  ASSUME IndexInv, RecordAndPlan
  PROVE  ExecInv'
<1> USE DEF IndexInv, ExecInv
<1>1. /\ exec.pc = "record" /\ RecordSnapshot(worker, exec.proof) /\ UNCHANGED world
      /\ exec' = [exec EXCEPT !.pc = "execute", !.plan = Plan,
                          !.toStage = Plan.upsert, !.toEmbed = Plan.upsert,
                          !.toDelete = Plan.delete,
                          !.skipped = Cardinality(Unchanged)]
  BY DEF RecordAndPlan
<1>2. UNCHANGED <<run, held>>
  BY <1>1, WorkerIsOne, GuardedRun DEF RecordSnapshot
<1> HIDE DEF Plan
<1>3. /\ exec' \in ExecRecord /\ exec'.pc = "execute"
      /\ exec'.toStage = Plan.upsert /\ exec'.toEmbed = Plan.upsert
      /\ exec'.calls = exec.calls /\ exec'.done = exec.done /\ exec'.seen = exec.seen
  BY <1>1, PlanType DEF ExecTypeOK, ExecRecord, Pcs
<1>4. Plan.upsert \subseteq Present /\ Present' = Present
  BY <1>3, PlanType DEF Present
<1>5. SeenInv' /\ DoneIsWritten' /\ ExecTypeOK'
  BY <1>1, <1>3, <1>4 DEF SeenInv, DoneIsWritten, ExecTypeOK, world, outside
<1>6. LeaseHeldWhileExecuting'
  BY <1>1, <1>2, <1>3, LeaseKept
<1> QED BY <1>5, <1>6

-----------------------------------------------------------------------------
(* Steps of the plan's execution that leave the world alone: what is pending *)
(* shrinks, or moves to the calls.                                           *)
LEMMA ExecuteStepInv ==
  ASSUME IndexInv, UNCHANGED <<run, held, world>>, exec.pc = "execute",
         exec' \in ExecRecord, exec'.pc = "execute", exec'.seen = exec.seen,
         exec'.toStage \subseteq exec.toStage, exec'.toEmbed \subseteq exec.toEmbed,
         exec'.done \subseteq exec.done, GoodCalls(exec'.calls, Present)
  PROVE  ExecInv'
<1> USE DEF IndexInv, ExecInv
<1>1. Present' = Present
  BY DEF Present
<1>2. SeenInv'
  BY <1>1 DEF SeenInv, GoodCalls
<1>3. DoneIsWritten' /\ ExecTypeOK'
  BY DEF DoneIsWritten, ExecTypeOK, world, outside
<1> QED BY <1>2, <1>3, LeaseKept

LEMMA CallsGood == ASSUME ExecTypeOK, SeenInv PROVE GoodCalls(exec.calls, Present)
BY DEF ExecTypeOK, ExecRecord, SeenInv, GoodCalls

LEMMA StageNextUpsertInv ==
  ASSUME IndexInv, NEW e \in exec.toStage, StageNextUpsert(e)
  PROVE  ExecInv'
<1>1. UNCHANGED <<run, held>>
  BY WorkerIsOne, GuardedRun DEF StageNextUpsert, StageUpsert, IndexInv
<1>2. /\ exec' \in ExecRecord /\ exec'.pc = exec.pc /\ exec'.seen = exec.seen
      /\ exec'.toStage = exec.toStage \ {e} /\ exec'.toEmbed = exec.toEmbed
      /\ exec'.done = exec.done /\ exec'.calls = exec.calls
  BY DEF StageNextUpsert, IndexInv, ExecInv, ExecTypeOK, ExecRecord
<1> QED BY <1>1, <1>2, ExecuteStepInv, CallsGood
        DEF StageNextUpsert, Executing, IndexInv, ExecInv

LEMMA StageNextDeleteInv ==
  ASSUME IndexInv, NEW e \in exec.toDelete, StageNextDelete(e)
  PROVE  ExecInv'
<1> DEFINE c == [op |-> "delete", batch |-> {e}]
<1>1. UNCHANGED <<run, held>>
  BY WorkerIsOne, GuardedRun DEF StageNextDelete, StageDelete, IndexInv
<1>2. e \in Entities /\ c \in Call /\ c.op # "upsert" /\ exec \in ExecRecord
  BY DEF IndexInv, ExecInv, ExecTypeOK, ExecRecord, Call, Actions
<1>3. exec' = [exec EXCEPT !.toDelete = exec.toDelete \ {e}, !.attempt = 1, !.calls = <<c>>]
  BY DEF StageNextDelete
<1> HIDE DEF c
<1>4. <<c>> \in Seq(Call) /\ GoodCalls(<<c>>, Present)
  BY <1>2, GoodOne
<1>5. /\ exec' \in ExecRecord /\ exec'.pc = exec.pc /\ exec'.seen = exec.seen
      /\ exec'.toStage = exec.toStage /\ exec'.toEmbed = exec.toEmbed
      /\ exec'.done = exec.done /\ exec'.calls = <<c>>
  BY <1>2, <1>3, <1>4 DEF ExecRecord
<1> QED BY <1>1, <1>4, <1>5, ExecuteStepInv DEF StageNextDelete, Executing

LEMMA EmbedChunkInv ==
  ASSUME IndexInv, NEW B \in SUBSET exec.toEmbed, EmbedChunk(B)
  PROVE  ExecInv'
<1> DEFINE c == [op |-> "upsert", batch |-> B]
<1>1. exec \in ExecRecord /\ B \subseteq Present /\ B \subseteq Entities
  BY DEF IndexInv, ExecInv, ExecTypeOK, SeenInv, ExecRecord
<1>2. c \in Call /\ (c.op = "upsert" => c.batch \subseteq Present)
  BY <1>1 DEF Call, Actions
<1>3. exec' = [exec EXCEPT !.toEmbed = exec.toEmbed \ B, !.attempt = 1, !.calls = <<c>>]
  BY DEF EmbedChunk
<1> HIDE DEF c
<1>4. <<c>> \in Seq(Call) /\ GoodCalls(<<c>>, Present)
  BY <1>2, GoodOne
<1>5. /\ exec' \in ExecRecord /\ exec'.pc = exec.pc /\ exec'.seen = exec.seen
      /\ exec'.toStage = exec.toStage /\ exec'.toEmbed = exec.toEmbed \ B
      /\ exec'.done = exec.done /\ exec'.calls = <<c>>
  BY <1>1, <1>3, <1>4 DEF ExecRecord
<1> QED BY <1>4, <1>5, ExecuteStepInv DEF EmbedChunk, Chunk, Executing, stateVars, queueVars

LEMMA EmbedChunkFailedInv ==
  ASSUME IndexInv, NEW B \in SUBSET exec.toEmbed, EmbedChunkFailed(B)
  PROVE  ExecInv'
<1>1. exec \in ExecRecord /\ B \X {"upsert"} \subseteq Work
  BY DEF IndexInv, ExecInv, ExecTypeOK, ExecRecord, Work, Actions
<1>2. /\ exec' \in ExecRecord /\ exec'.pc = exec.pc /\ exec'.seen = exec.seen
      /\ exec'.toStage = exec.toStage /\ exec'.toEmbed = exec.toEmbed \ B
      /\ exec'.done = exec.done /\ exec'.calls = exec.calls
  BY <1>1 DEF EmbedChunkFailed, ExecRecord
<1> QED BY <1>2, ExecuteStepInv, CallsGood
        DEF EmbedChunkFailed, Chunk, Executing, stateVars, queueVars, IndexInv, ExecInv

LEMMA CompleteInv ==
  ASSUME IndexInv, NEW e \in Entities, NEW a \in Actions, Complete(e, a)
  PROVE  ExecInv'
<1>1. UNCHANGED <<run, held>>
  BY WorkerIsOne, GuardedRun DEF Complete, CompleteUpsert, CompleteDelete, IndexInv
<1>2. exec \in ExecRecord
  BY DEF IndexInv, ExecInv, ExecTypeOK
<1>3. \/ exec' = [exec EXCEPT !.done = exec.done \ {<<e, a>>}, !.indexed = exec.indexed + 1]
      \/ exec' = [exec EXCEPT !.done = exec.done \ {<<e, a>>}, !.deleted = exec.deleted + 1]
  BY DEF Complete
<1>4. /\ exec' \in ExecRecord /\ exec'.pc = exec.pc /\ exec'.seen = exec.seen
      /\ exec'.toStage = exec.toStage /\ exec'.toEmbed = exec.toEmbed
      /\ exec'.done = exec.done \ {<<e, a>>} /\ exec'.calls = exec.calls
  <2>1. ASSUME NEW n \in Nat, NEW D \in SUBSET Work
        PROVE  /\ [exec EXCEPT !.done = D, !.indexed = n] \in ExecRecord
               /\ [exec EXCEPT !.done = D, !.deleted = n] \in ExecRecord
    BY <1>2 DEF ExecRecord
  <2>2. exec.indexed + 1 \in Nat /\ exec.deleted + 1 \in Nat
        /\ exec.done \ {<<e, a>>} \in SUBSET Work
    BY <1>2 DEF ExecRecord
  <2>3. exec' \in ExecRecord
    BY <1>3, <2>1, <2>2
  <2>4. exec'.pc = exec.pc /\ exec'.seen = exec.seen /\ exec'.calls = exec.calls
    BY <1>2, <1>3 DEF ExecRecord
  <2>5. exec'.toStage = exec.toStage /\ exec'.toEmbed = exec.toEmbed
    BY <1>2, <1>3 DEF ExecRecord
  <2>6. exec'.done = exec.done \ {<<e, a>>}
    BY <1>2, <1>3 DEF ExecRecord
  <2> QED BY <2>3, <2>4, <2>5, <2>6
<1> QED BY <1>1, <1>4, ExecuteStepInv, CallsGood
        DEF Complete, Executing, IndexInv, ExecInv

LEMMA FailInv ==
  ASSUME IndexInv, NEW e \in Entities, NEW a \in Actions, Fail(e, a)
  PROVE  ExecInv'
<1>1. UNCHANGED <<run, held>>
  BY WorkerIsOne, GuardedRun DEF Fail, FailWork, IndexInv
<1>2. exec \in ExecRecord
  BY DEF IndexInv, ExecInv, ExecTypeOK
<1>3. exec' = [exec EXCEPT !.lost = exec.lost \ {<<e, a>>}, !.failed = exec.failed + 1]
  BY DEF Fail
<1>4. /\ exec' \in ExecRecord /\ exec'.pc = exec.pc /\ exec'.seen = exec.seen
      /\ exec'.toStage = exec.toStage /\ exec'.toEmbed = exec.toEmbed
      /\ exec'.done = exec.done /\ exec'.calls = exec.calls
  <2>1. ASSUME NEW n \in Nat, NEW L \in SUBSET Work
        PROVE  [exec EXCEPT !.lost = L, !.failed = n] \in ExecRecord
    BY <1>2 DEF ExecRecord
  <2>2. exec.failed + 1 \in Nat /\ exec.lost \ {<<e, a>>} \in SUBSET Work
    BY <1>2 DEF ExecRecord
  <2>3. exec' \in ExecRecord
    BY <1>3, <2>1, <2>2
  <2> QED BY <1>2, <1>3, <2>3 DEF ExecRecord
<1> QED BY <1>1, <1>4, ExecuteStepInv, CallsGood
        DEF Fail, Executing, IndexInv, ExecInv

-----------------------------------------------------------------------------
(* Calls to the store.                                                      *)
LEMMA HeadCall ==
  ASSUME ExecTypeOK, SeenInv, Calling
  PROVE  /\ op \in Actions /\ batch \subseteq Entities
         /\ op = "upsert" => batch \subseteq Present
         /\ GoodCalls(Tail(exec.calls), Present)
<1>1. GoodCalls(exec.calls, Present) /\ exec.calls # <<>>
  BY CallsGood DEF Calling
<1>2. Head(exec.calls) \in Call
  BY <1>1, GoodTail
<1>3. Head(exec.calls).op = "upsert" => Head(exec.calls).batch \subseteq Present
  BY <1>1, GoodTail
<1>4. GoodCalls(Tail(exec.calls), Present)
  BY <1>1, GoodTail
<1> QED BY <1>2, <1>3, <1>4 DEF op, batch, Call

LEMMA ApplyType ==
  ASSUME ExecTypeOK, NEW A \in SUBSET Entities, Apply(A)
  PROVE  /\ remote' \in [Entities -> Content]
         /\ graph' \in [Entities -> Content]
         /\ \A e \in A : remote'[e] = (IF op = "upsert" THEN exec.seen[e] ELSE NoRow)
         /\ \A e \in Entities \ A : remote'[e] = remote[e]
         /\ blurred' = blurred \ A
<1>1. \A e \in Entities : exec.seen[e] \in Content
  BY DEF ExecTypeOK, ExecRecord
<1> QED BY <1>1 DEF Apply, ExecTypeOK, Content

LEMMA CallAnsweredInv ==
  ASSUME IndexInv, NEW F \in SUBSET Entities, CallAnswered(F)
  PROVE  ExecInv'
<1> USE DEF IndexInv, ExecInv
<1>1. /\ Calling /\ F \subseteq batch /\ (op = "delete" => F = {})
      /\ Apply(batch \ F) /\ UNCHANGED <<stateVars, wire>>
  BY DEF CallAnswered
<1>2. PICK again \in IF Cardinality(F) < 2 THEN {<<>>} ELSE Halves(F) :
         exec' = [exec EXCEPT !.calls = again \o Tail(exec.calls), !.attempt = 1,
                              !.done = (batch \ F) \X {op},
                              !.lost = IF Cardinality(F) = 1 THEN F \X {op} ELSE {}]
  BY DEF CallAnswered
<1>3. /\ op \in Actions /\ batch \subseteq Entities
      /\ op = "upsert" => batch \subseteq Present
      /\ GoodCalls(Tail(exec.calls), Present)
  BY <1>1, HeadCall
<1>4. F \subseteq Present
  BY <1>1, <1>3 DEF Actions
<1>5. GoodCalls(again \o Tail(exec.calls), Present)
  BY <1>3, <1>4, GoodAgain
<1>6. /\ (batch \ F) \X {op} \in SUBSET Work
      /\ (IF Cardinality(F) = 1 THEN F \X {op} ELSE {}) \in SUBSET Work
  BY <1>1, <1>3 DEF Work
<1>7. /\ exec' \in ExecRecord /\ exec'.pc = exec.pc /\ exec'.seen = exec.seen
      /\ exec'.toStage = exec.toStage /\ exec'.toEmbed = exec.toEmbed
      /\ exec'.calls = again \o Tail(exec.calls)
      /\ exec'.done = (batch \ F) \X {op}
  <2>1. ASSUME NEW c \in Seq(Call), NEW D \in SUBSET Work, NEW L \in SUBSET Work
        PROVE  [exec EXCEPT !.calls = c, !.attempt = 1, !.done = D, !.lost = L]
                 \in ExecRecord
    BY DEF ExecTypeOK, ExecRecord
  <2>2. again \o Tail(exec.calls) \in Seq(Call)
    BY <1>5 DEF GoodCalls
  <2>3. exec' \in ExecRecord
    BY <1>2, <1>6, <2>1, <2>2
  <2>4. exec'.pc = exec.pc /\ exec'.seen = exec.seen
    BY <1>2 DEF ExecTypeOK, ExecRecord
  <2>5. exec'.toStage = exec.toStage /\ exec'.toEmbed = exec.toEmbed
    BY <1>2 DEF ExecTypeOK, ExecRecord
  <2>6. exec'.calls = again \o Tail(exec.calls)
    BY <1>2 DEF ExecTypeOK, ExecRecord
  <2>7. exec'.done = (batch \ F) \X {op}
    BY <1>2 DEF ExecTypeOK, ExecRecord
  <2> QED BY <2>3, <2>4, <2>5, <2>6, <2>7
<1>8. Present' = Present /\ exec.pc = "execute"
  BY <1>1, <1>7 DEF Present, Calling, Executing
<1>9. SeenInv'
  <2>1. \A e \in Entities : <<e, "upsert">> \in exec'.done => e \in Present
    BY <1>3, <1>7
  <2>2. \A k \in 1..Len(exec'.calls) :
          exec'.calls[k].op = "upsert" => exec'.calls[k].batch \subseteq Present
    BY <1>5, <1>7 DEF GoodCalls
  <2> QED BY <1>7, <1>8, <2>1, <2>2 DEF SeenInv
<1>10. DoneIsWritten'
  <2> SUFFICES ASSUME NEW e \in Entities, NEW a \in Actions, <<e, a>> \in exec'.done
               PROVE  remote'[e] = (IF a = "upsert" THEN exec'.seen[e] ELSE NoRow)
    BY DEF DoneIsWritten
  <2>1. e \in batch \ F /\ a = op
    BY <1>7
  <2> QED BY <1>1, <1>3, <1>7, <2>1, ApplyType
<1>11. ExecTypeOK'
  <2>1. (batch \ F) \in SUBSET Entities
    BY <1>3
  <2> QED BY <1>1, <1>7, <2>1, ApplyType DEF ExecTypeOK
<1>12. LeaseHeldWhileExecuting'
  BY <1>1, <1>7, <1>8, LeaseKept DEF stateVars, queueVars
<1> QED BY <1>9, <1>10, <1>11, <1>12

(* An unanswered call completes nothing.                                    *)
LEMMA NoAnswerInv ==
  ASSUME IndexInv, NEW A \in SUBSET Entities, NEW L \in SUBSET Entities, NoAnswer(A, L),
         exec' \in ExecRecord, exec'.pc = exec.pc, exec'.seen = exec.seen,
         exec'.toStage = exec.toStage, exec'.toEmbed = exec.toEmbed,
         exec'.done = exec.done, GoodCalls(exec'.calls, Present)
  PROVE  ExecInv'
<1> USE DEF IndexInv, ExecInv
<1>1. /\ Calling /\ Apply(A) /\ UNCHANGED stateVars /\ exec.done = {}
      /\ wire' = wire \cup {[op |-> op, entity |-> e, hash |-> exec.seen[e]] : e \in L}
  BY DEF NoAnswer, Calling, Unsettled
<1>2. exec.pc = "execute" /\ Present' = Present
  BY <1>1 DEF Calling, Executing, Present
<1>3. SeenInv'
  BY <1>2 DEF SeenInv, GoodCalls
<1>4. DoneIsWritten'
  BY <1>1 DEF DoneIsWritten
<1>5. wire' \subseteq Request
  <2>1. op \in Actions
    BY <1>1, HeadCall
  <2>2. \A e \in L : exec.seen[e] \in Content
    BY DEF ExecTypeOK, ExecRecord
  <2>3. \A e \in L : [op |-> op, entity |-> e, hash |-> exec.seen[e]] \in Request
    BY <2>1, <2>2 DEF Request
  <2> QED BY <1>1, <2>3 DEF ExecTypeOK
<1>6. ExecTypeOK'
  BY <1>1, <1>5, ApplyType DEF ExecTypeOK
<1>7. LeaseHeldWhileExecuting'
  BY <1>1, <1>2, LeaseKept DEF stateVars, queueVars
<1> QED BY <1>3, <1>4, <1>6, <1>7

LEMMA CallRetriedInv ==
  ASSUME IndexInv, NEW A \in SUBSET Entities, NEW L \in SUBSET Entities, CallRetried(A, L)
  PROVE  ExecInv'
<1>1. exec \in ExecRecord /\ exec.attempt + 1 \in Nat
  BY DEF IndexInv, ExecInv, ExecTypeOK, ExecRecord
<1>2. NoAnswer(A, L) /\ exec' = [exec EXCEPT !.attempt = exec.attempt + 1]
  BY DEF CallRetried
<1>3. /\ exec' \in ExecRecord /\ exec'.pc = exec.pc /\ exec'.seen = exec.seen
      /\ exec'.toStage = exec.toStage /\ exec'.toEmbed = exec.toEmbed
      /\ exec'.done = exec.done /\ exec'.calls = exec.calls
  BY <1>1, <1>2 DEF ExecRecord
<1> QED BY <1>2, <1>3, NoAnswerInv, CallsGood DEF IndexInv, ExecInv

LEMMA CallFailedInv ==
  ASSUME IndexInv, NEW A \in SUBSET Entities, NEW L \in SUBSET Entities, CallFailed(A, L)
  PROVE  ExecInv'
<1>1. exec \in ExecRecord
  BY DEF IndexInv, ExecInv, ExecTypeOK
<1>2. /\ NoAnswer(A, L)
      /\ exec' = [exec EXCEPT !.calls = Tail(exec.calls), !.attempt = 1,
                              !.lost = batch \X {op}]
  BY DEF CallFailed
<1>3. Calling
  BY <1>2 DEF NoAnswer
<1>4. GoodCalls(Tail(exec.calls), Present) /\ batch \X {op} \in SUBSET Work
  BY <1>3, HeadCall DEF IndexInv, ExecInv, Work
<1>5. Tail(exec.calls) \in Seq(Call)
  BY <1>4 DEF GoodCalls
<1>6. /\ exec' \in ExecRecord /\ exec'.pc = exec.pc /\ exec'.seen = exec.seen
      /\ exec'.toStage = exec.toStage /\ exec'.toEmbed = exec.toEmbed
      /\ exec'.done = exec.done /\ exec'.calls = Tail(exec.calls)
  BY <1>1, <1>2, <1>4, <1>5 DEF ExecRecord
<1> QED BY <1>2, <1>4, <1>6, NoAnswerInv

-----------------------------------------------------------------------------
(* The end of an execution, stop and start.                                 *)
LEMMA RestingStepInv ==
  ASSUME IndexInv,
         \/ DimensionMismatch \/ Finish \/ Abort \/ Stop
         \/ \E now \in Readings : Start(now)
         \/ \E A \in SUBSET Entities : CallMisanswered(A)
  PROVE  ExecInv'
<1> USE DEF IndexInv, ExecInv
<1>1. held'[worker] = NoLease
  BY WorkerIsOne DEF DimensionMismatch, Finish, FinishRun, Abort, Abandon, Stop, Start,
     RecoverAfterExclusiveStart, CallMisanswered, QueueInv, TypeOK
<1>2. exec' = Resting \/ exec' = [Resting EXCEPT !.pc = "down"]
  BY DEF DimensionMismatch, Finish, Abort, Stop, Start, CallMisanswered
<1>3. /\ graph' \in [Entities -> Content] /\ remote' \in [Entities -> Content]
      /\ wire' \subseteq Request
  BY ApplyType DEF DimensionMismatch, Finish, Abort, Stop, Start, CallMisanswered,
     ExecTypeOK, world, outside
<1> QED BY <1>1, <1>2, <1>3, RestInv

(* A request is one of the queue's steps or a reset.                         *)
LEMMA RequestedSteps ==
  ASSUME NEW now \in Readings, Requested(now)
  PROVE  /\ \/ Enqueues(now) /\ UNCHANGED tables
            \/ \E k \in Keys : ResetConflict(k, now) /\ UNCHANGED tables
            \/ \E k \in Keys, id \in FreshIds : ResetLocalIndexState(id, k, now)
         /\ UNCHANGED <<exec, outside, sight>>
BY DEF Requested, Enqueues, Enqueue

(* Requests insert rows; the row of a held lease is not one of them.        *)
LEMMA RequestedFrame ==
  ASSUME NEW now \in Readings, Requested(now), QueueInv
  PROVE  /\ UNCHANGED <<held, exec, outside, sight>>
         /\ \A r \in RunIds : run[r].state = "leased" => run'[r] = run[r]
<1>1. UNCHANGED <<held, exec, outside, sight>>
  BY RequestedSteps DEF Enqueues, Enqueue, AnswerFromKey, EnqueueCoalesced,
     EnqueueConflict, EnqueueInserted, ResetConflict, ResetLocalIndexState, ResetAccepted
<1>2. \/ UNCHANGED run
      \/ \E id \in RunIds, row \in RunRow :
           run[id].state = "absent" /\ run' = [run EXCEPT ![id] = row]
  <2>1. \A sel \in Selectors : NewRun(sel, now) \in RunRow
    BY ReadingType, NewRunType DEF QueueInv
  <2> QED BY <2>1, RequestedSteps, RunQueueAssumption DEF Enqueues, FreshIds, Fresh,
          Enqueue, AnswerFromKey, EnqueueCoalesced, EnqueueConflict, EnqueueInserted,
          ResetConflict, ResetLocalIndexState, ResetAccepted
<1>3. \A r \in RunIds : run[r].state = "leased" => run'[r] = run[r]
  BY <1>2 DEF QueueInv, TypeOK
<1> QED BY <1>1, <1>3

LEMMA RequestedInv ==
  ASSUME IndexInv, NEW now \in Readings, Requested(now)
  PROVE  ExecInv'
<1> USE DEF IndexInv, ExecInv
<1>1. UNCHANGED <<held, exec, outside>>
  BY RequestedFrame
<1>2. ASSUME Current(held[worker]) PROVE Current(held[worker])'
  <2>1. held[worker].run \in RunIds
    BY <1>2, WorkerIsOne, HeldType DEF Current
  <2>2. run'[held[worker].run] = run[held[worker].run]
    BY <1>2, <2>1, RequestedFrame DEF Current
  <2> QED BY <1>1, <1>2, <2>2 DEF Current
<1>3. LeaseHeldWhileExecuting'
  BY <1>1, <1>2 DEF LeaseHeldWhileExecuting
<1>4. SeenInv' /\ DoneIsWritten' /\ ExecTypeOK'
  BY <1>1 DEF SeenInv, DoneIsWritten, Present, ExecTypeOK, world, outside
<1> QED BY <1>3, <1>4

(* The world outside.                                                       *)
LEMMA WorldInv ==
  ASSUME IndexInv,
         \/ \E e \in Entities, h \in Content : GraphChanges(e, h)
         \/ \E m \in wire : ArrivesLate(m)
  PROVE  ExecInv'
<1> USE DEF IndexInv, ExecInv
<1>1. UNCHANGED <<run, held, exec>>
  BY DEF GraphChanges, ArrivesLate, stateVars, queueVars
<1>2. LeaseHeldWhileExecuting' /\ SeenInv'
  BY <1>1 DEF LeaseHeldWhileExecuting, Current, SeenInv, Present
<1>3. CASE \E e \in Entities, h \in Content : GraphChanges(e, h)
  BY <1>1, <1>2, <1>3 DEF GraphChanges, DoneIsWritten, ExecTypeOK
<1>4. CASE \E m \in wire : ArrivesLate(m)
  <2>1. PICK m \in wire : ArrivesLate(m)
    BY <1>4
  <2>2. m.entity \in Entities /\ m.hash \in Content
    BY <2>1 DEF ExecTypeOK, Request
  <2>3. /\ UNCHANGED graph /\ wire' \subseteq wire /\ blurred' = blurred \cup {m.entity}
        /\ remote' = [remote EXCEPT ![m.entity] =
                        IF m.op = "upsert" THEN m.hash ELSE NoRow]
    BY <2>1 DEF ArrivesLate
  <2>4. remote' \in [Entities -> Content] /\ \A e \in Entities : e # m.entity => remote'[e] = remote[e]
    BY <2>2, <2>3 DEF ExecTypeOK, Content
  <2> QED BY <1>1, <1>2, <2>2, <2>3, <2>4 DEF DoneIsWritten, ExecTypeOK
<1> QED BY <1>3, <1>4

-----------------------------------------------------------------------------
(* Every step of the process is a step of the repository or leaves it as    *)
(* it is.                                                                   *)
LEMMA IndexStepIsStateStep ==
  ASSUME IndexInv, [IndexNext]_indexVars
  PROVE  [StateNext]_stateVars
<1> USE DEF IndexInv, ExecInv
<1>1. \A e \in Present : e \in Entities /\ exec.seen[e] \in Hashes
  BY DEF Present, ExecTypeOK, ExecRecord, Content
<1>2. CASE \E w \in Workers : GuardedStep(w)
  BY <1>2 DEF StateNext
<1>3. CASE QueueStep /\ UNCHANGED tables
  BY <1>3 DEF StateNext
<1>4. CASE RecordAndPlan
  BY <1>2, <1>4, WorkerIsOne DEF RecordAndPlan, GuardedStep, ExecTypeOK, ExecRecord
<1>5. CASE \E e \in exec.toStage : StageNextUpsert(e)
  BY <1>1, <1>2, <1>5, WorkerIsOne DEF StageNextUpsert, GuardedStep, SeenInv
<1>6. CASE \E e \in exec.toDelete : StageNextDelete(e)
  <2>1. exec.toDelete \subseteq Entities
    BY DEF ExecTypeOK, ExecRecord
  <2> QED BY <1>2, <1>6, <2>1, WorkerIsOne DEF StageNextDelete, GuardedStep
<1>7. CASE \E e \in Entities, a \in Actions : Complete(e, a)
  BY <1>1, <1>2, <1>7, WorkerIsOne DEF Complete, GuardedStep, SeenInv
<1>8. CASE \E e \in Entities, a \in Actions : Fail(e, a)
  BY <1>2, <1>8, WorkerIsOne DEF Fail, GuardedStep
<1>9. CASE Finish \/ DimensionMismatch
  <2>1. Outcome \in Terminal
    BY DEF Outcome, Terminal
  <2> QED BY <1>3, <1>9, <2>1, WorkerIsOne DEF Finish, DimensionMismatch, QueueStep, Terminal
<1>10. CASE Abort \/ \E A \in SUBSET Entities : CallMisanswered(A)
  BY <1>3, <1>10, WorkerIsOne DEF Abort, CallMisanswered, QueueStep
<1>11. CASE Stop
  <2>1. CASE held[worker] = NoLease
    <3>1. held' = held
      BY <1>11, <2>1, WorkerIsOne DEF Stop, QueueInv, TypeOK
    <3> QED BY <1>11, <3>1 DEF Stop, stateVars, queueVars, tables
  <2>2. CASE held[worker] # NoLease
    <3>1. Abandon(worker) /\ UNCHANGED tables
      BY <1>11, <2>2 DEF Stop, Abandon
    <3> QED BY <1>3, <3>1, WorkerIsOne DEF QueueStep
  <2> QED BY <2>1, <2>2
<1>12. CASE \E now \in Readings : Claim(now) \/ Start(now)
  BY <1>3, <1>12, WorkerIsOne DEF Claim, Start, QueueStep
<1>13. CASE \E now \in Readings : Requested(now)
  BY <1>3, <1>13, RequestedSteps DEF QueueStep, StateNext
<1>14. CASE UNCHANGED stateVars
  BY <1>14
<1>15. CASE Step
  BY <1>4, <1>5, <1>6, <1>7, <1>8, <1>9, <1>10, <1>14, <1>15
     DEF Step, DimensionVerified, ReadGraph, ListIndexedEntities, EmbedChunk,
         EmbedChunkFailed, CallAnswered, CallRetried, CallFailed, NoAnswer
<1>16. CASE \/ \E e \in Entities, h \in Content : GraphChanges(e, h)
           \/ \E m \in wire : ArrivesLate(m)
  BY <1>14, <1>16 DEF GraphChanges, ArrivesLate
<1> QED BY <1>10, <1>11, <1>12, <1>13, <1>14, <1>15, <1>16 DEF IndexNext, indexVars

LEMMA NextExecInv == ASSUME IndexInv, [IndexNext]_indexVars PROVE ExecInv'
<1>1. CASE Step
  BY <1>1, DimensionVerifiedInv, ReadGraphInv, ListIndexedEntitiesInv, RecordAndPlanInv,
     StageNextUpsertInv, StageNextDeleteInv, EmbedChunkInv, EmbedChunkFailedInv,
     CallAnsweredInv, CallRetriedInv, CallFailedInv, CompleteInv, FailInv, RestingStepInv
     DEF Step
<1>2. CASE \E now \in Readings : Claim(now) \/ Start(now) \/ Requested(now)
  BY <1>2, ClaimInv, RestingStepInv, RequestedInv
<1>3. CASE Abort \/ Stop
  BY <1>3, RestingStepInv
<1>4. CASE \/ \E e \in Entities, h \in Content : GraphChanges(e, h)
          \/ \E m \in wire : ArrivesLate(m)
  BY <1>4, WorldInv
<1>5. CASE UNCHANGED indexVars
  BY <1>5 DEF indexVars, world, outside, stateVars, queueVars, IndexInv, ExecInv, ExecTypeOK,
     SeenInv, DoneIsWritten, LeaseHeldWhileExecuting, Present, Current
<1> QED BY <1>1, <1>2, <1>3, <1>4, <1>5 DEF IndexNext

LEMMA InitIndexInv == IndexInit => IndexInv
<1> SUFFICES ASSUME IndexInit PROVE IndexInv
  OBVIOUS
<1>1. QueueInv /\ TableInv
  BY InitQueueInv, InitTableInv DEF IndexInit, StateInit
<1>2. ExecTypeOK /\ SeenInv /\ DoneIsWritten
  BY RestingType DEF IndexInit, ExecTypeOK, SeenInv, DoneIsWritten, Content, Request
<1>3. LeaseHeldWhileExecuting
  BY WorkerIsOne, RestingType DEF IndexInit, StateInit, Init, LeaseHeldWhileExecuting
<1> QED BY <1>1, <1>2, <1>3 DEF IndexInv, ExecInv

(* The invariant of the process: its own memory, the tables and the queue.  *)
THEOREM IndexInvariant == IndexSpec => []IndexInv
<1>1. IndexInv /\ [IndexNext]_indexVars => IndexInv'
  <2> SUFFICES ASSUME IndexInv, [IndexNext]_indexVars PROVE IndexInv'
    OBVIOUS
  <2>1. [StateNext]_stateVars /\ [Next]_queueVars
    BY IndexStepIsStateStep, StateStepIsQueueStep
  <2> QED BY <2>1, NextQueueInv, NextTableInv, NextExecInv DEF IndexInv
<1> QED BY <1>1, InitIndexInv, PTL DEF IndexSpec

(* The executor uses the repository as the repository's specification       *)
(* allows, through crashes, restarts and lost answers; what is proved of    *)
(* the repository and of the queue holds of the running process.            *)
THEOREM ImplementsRepository == IndexSpec => StateSpec
<1>1. IndexInit => StateInit
  BY DEF IndexInit
<1>2. IndexInv /\ [IndexNext]_indexVars => [StateNext]_stateVars
  BY IndexStepIsStateStep
<1> QED BY <1>1, <1>2, IndexInvariant, PTL DEF IndexSpec, StateSpec

(* So the tables are right under the executor: audit and work agree, work    *)
(* deletes only for full runs, what belongs to a finished run is frozen,     *)
(* index rows change only with settled work or a reset, and writes made      *)
(* under leases take effect in claim order.                                 *)
THEOREM TablesAreRightInRuns ==
  IndexSpec => /\ [](AuditMatchesWork /\ DeletionIsFull /\ ExclusiveLease)
               /\ FinishedTablesFrozen /\ RowChangeHasCause /\ NoLateWriter
<1>1. IndexSpec => [](AuditMatchesWork /\ DeletionIsFull /\ ExclusiveLease)
  BY ImplementsRepository, ImplementsQueue, AuditAgrees, DeletionsAreFull, LeaseExclusive, PTL
<1>2. IndexSpec => FinishedTablesFrozen /\ RowChangeHasCause /\ NoLateWriter
  BY ImplementsRepository, ImplementsQueue, FinishedTables, RowsHaveCauses, Fencing
<1> QED BY <1>1, <1>2

(* From claim to finish the executor's lease is the current one.            *)
THEOREM LeaseHeld == IndexSpec => []LeaseHeldWhileExecuting
BY IndexInvariant, PTL DEF IndexInv, ExecInv

-----------------------------------------------------------------------------
LEMMA RowsChangeByComplete ==
  ASSUME IndexInv, [IndexNext]_indexVars
  PROVE  \/ UNCHANGED rows
         \/ rows' = [e \in Entities |-> NoRow]
         \/ \E e \in Entities, a \in Actions : Complete(e, a)
<1>1. CASE Step
  BY <1>1 DEF Step, DimensionVerified, DimensionMismatch, ReadGraph, ListIndexedEntities,
     RecordAndPlan, RecordSnapshot, StageNextUpsert, StageUpsert, StageNextDelete,
     StageDelete, EmbedChunk, EmbedChunkFailed, CallAnswered, CallRetried, CallFailed,
     NoAnswer, CallMisanswered, Fail, FailWork, Finish, stateVars, tables
<1>2. CASE \E now \in Readings : Claim(now) \/ Start(now) \/ Requested(now)
  BY <1>2, RequestedSteps DEF Claim, Start, ResetLocalIndexState, tables
<1>3. CASE Abort \/ Stop
  BY <1>3 DEF Abort, Stop, tables
<1>4. CASE \/ \E e \in Entities, h \in Content : GraphChanges(e, h)
          \/ \E m \in wire : ArrivesLate(m)
  BY <1>4 DEF GraphChanges, ArrivesLate, stateVars, tables
<1>5. CASE UNCHANGED indexVars
  BY <1>5 DEF indexVars, stateVars, tables
<1> QED BY <1>1, <1>2, <1>3, <1>4, <1>5 DEF IndexNext

LEMMA CommitFollowsWrite ==
  ASSUME IndexInv, [IndexNext]_indexVars, NEW e \in Entities,
         rows'[e] # rows[e], rows'[e] # NoRow, e \notin blurred
  PROVE  remote[e] = IF rows'[e].status = "indexed" THEN rows'[e].hash ELSE NoRow
<1> USE DEF IndexInv, ExecInv
<1>1. PICK x \in Entities, a \in Actions : Complete(x, a)
  BY RowsChangeByComplete
<1>2. rows \in [Entities -> Row \cup {NoRow}]
  BY DEF TableInv, StateTypeOK
<1>3. CASE /\ a = "upsert" /\ <<x, a>> \in exec.done
           /\ rows' = [rows EXCEPT ![x] = [status |-> "indexed", hash |-> exec.seen[x]]]
  <2>1. e = x /\ rows'[e] = [status |-> "indexed", hash |-> exec.seen[x]]
    BY <1>2, <1>3
  <2>2. remote[e] = exec.seen[e]
    BY <1>3, <2>1 DEF DoneIsWritten
  <2> QED BY <2>1, <2>2
<1>4. CASE /\ a = "delete" /\ <<x, a>> \in exec.done
           /\ rows' = [y \in Entities |-> IF y = x /\ rows[y] # NoRow
                                         THEN [rows[y] EXCEPT !.status = "deleted"]
                                         ELSE rows[y]]
  <2>1. e = x /\ rows[e] \in Row /\ rows'[e] = [rows[e] EXCEPT !.status = "deleted"]
    BY <1>2, <1>4
  <2>2. rows'[e].status = "deleted"
    BY <2>1 DEF Row
  <2>3. remote[e] = NoRow
    BY <1>4, <2>1 DEF DoneIsWritten
  <2> QED BY <2>2, <2>3
<1> QED BY <1>1, <1>3, <1>4 DEF Complete, CompleteUpsert, CompleteDelete

(* A row never runs ahead of the vector store: what a commit says has been   *)
(* done was done, whatever answers were lost and wherever the process        *)
(* stopped.                                                                  *)
THEOREM CommitsFollowWrites == IndexSpec => CommittedIsWritten
<1>1. ASSUME IndexInv, [IndexNext]_indexVars
      PROVE  [\A e \in Entities : (rows'[e] # rows[e] /\ rows'[e] # NoRow /\ e \notin blurred) =>
                remote[e] = (IF rows'[e].status = "indexed" THEN rows'[e].hash ELSE NoRow)
             ]_indexVars
  BY <1>1, CommitFollowsWrite
<1> QED BY <1>1, IndexInvariant, PTL DEF IndexSpec, CommittedIsWritten
=============================================================================
