-------------------------- MODULE ConvergenceProofs --------------------------
(* Proofs about IndexRun, continued: the executor's books agree with the     *)
(* work table, vectors disappear for a recorded reason only, a row that lost *)
(* its vector is superseded, and a run that succeeds has converged, whatever *)
(* was lost, delayed, refused or cut off before.                             *)
EXTENDS IndexRunProofs

-----------------------------------------------------------------------------
(* What a step does to the executor's memory.                               *)
Mind == <<exec.seen, exec.proof, exec.listed, exec.plan>>
Counts == <<exec.indexed, exec.skipped, exec.deleted, exec.failed>>
Todo == <<exec.toStage, exec.toDelete, exec.toEmbed>>
Under == <<exec.calls, exec.done, exec.lost, exec.attempt>>

Rests == exec' = Resting \/ exec' = [Resting EXCEPT !.pc = "down"]

Prepares == /\ exec.pc # "execute" /\ exec'.pc # "execute"
            /\ exec'.plan = exec.plan
            /\ Counts' = Counts /\ Todo' = Todo /\ Under' = Under

Executes ==
  \/ \E e \in exec.toStage : StageNextUpsert(e)
  \/ \E e \in exec.toDelete : StageNextDelete(e)
  \/ \E B \in SUBSET exec.toEmbed : EmbedChunk(B) \/ EmbedChunkFailed(B)
  \/ \E F \in SUBSET Entities : CallAnswered(F)
  \/ \E A, L \in SUBSET Entities : CallRetried(A, L) \/ CallFailed(A, L)
  \/ \E e \in Entities, a \in Actions : Complete(e, a) \/ Fail(e, a)

LEMMA PreparesFields ==
  ASSUME IndexInv,
         \/ \E now \in Readings : Claim(now)
         \/ DimensionVerified \/ ListIndexedEntities
         \/ \E proof \in {"partial", "complete"}, seen \in [Entities -> Content] :
              ReadGraph(proof, seen)
  PROVE  Prepares
<1>1. exec \in ExecRecord
  BY DEF IndexInv, ExecInv, ExecTypeOK
<1>2. CASE \E now \in Readings : Claim(now)
  BY <1>1, <1>2 DEF Claim, Prepares, Counts, Todo, Under, ExecRecord
<1>3. CASE DimensionVerified
  BY <1>1, <1>3 DEF DimensionVerified, Prepares, Counts, Todo, Under, ExecRecord
<1>4. CASE ListIndexedEntities
  <2> DEFINE l == ListIndexed
  <2>1. exec.pc = "list" /\ exec' = [exec EXCEPT !.pc = "record", !.listed = l]
    BY <1>4 DEF ListIndexedEntities
  <2> HIDE DEF l
  <2> QED BY <1>1, <2>1 DEF Prepares, Counts, Todo, Under, ExecRecord
<1>5. ASSUME NEW proof \in {"partial", "complete"}, NEW seen \in [Entities -> Content],
             ReadGraph(proof, seen)
      PROVE  Prepares
  <2>1. exec.pc = "read" /\ exec' = [exec EXCEPT !.pc = "list", !.proof = proof, !.seen = seen]
    BY <1>5 DEF ReadGraph
  <2> QED BY <1>1, <2>1 DEF Prepares, Counts, Todo, Under, ExecRecord
<1> QED BY <1>2, <1>3, <1>4, <1>5

(* A step rests, waits, prepares, plans or executes.                        *)
LEMMA ExecSteps ==
  ASSUME IndexInv, [IndexNext]_indexVars
  PROVE  \/ Rests
         \/ UNCHANGED <<exec, held, work>>
         \/ Prepares
         \/ RecordAndPlan
         \/ Executes
<1>1. CASE \/ DimensionMismatch \/ Finish \/ Abort \/ Stop
           \/ \E now \in Readings : Start(now)
           \/ \E A \in SUBSET Entities : CallMisanswered(A)
  BY <1>1 DEF Rests, DimensionMismatch, Finish, Abort, Stop, Start, CallMisanswered
<1>2. CASE Step
  BY <1>1, <1>2, PreparesFields DEF Step, Executes
<1>3. CASE \E now \in Readings : Claim(now)
  BY <1>3, PreparesFields
<1>4. CASE \E now \in Readings : Requested(now)
  <2>1. UNCHANGED <<held, exec>>
    BY <1>4, RequestedFrame DEF IndexInv
  <2>2. UNCHANGED work
    BY <1>4, RequestedSteps DEF ResetLocalIndexState, tables
  <2> QED BY <2>1, <2>2
<1>5. CASE \/ \E e \in Entities, h \in Content : GraphChanges(e, h)
           \/ \E m \in wire : ArrivesLate(m)
           \/ UNCHANGED indexVars
  BY <1>5 DEF GraphChanges, ArrivesLate, indexVars, stateVars, queueVars, tables
<1> QED BY <1>1, <1>2, <1>3, <1>4, <1>5 DEF IndexNext

-----------------------------------------------------------------------------
(* The fields each step of the plan's execution changes.                    *)
LEMMA PlanFields ==
  ASSUME IndexInv, RecordAndPlan
  PROVE  /\ exec.pc = "record" /\ exec'.pc = "execute"
         /\ exec'.plan = Plan /\ exec'.seen = exec.seen /\ exec'.proof = exec.proof
         /\ exec'.listed = exec.listed
         /\ exec'.toStage = Plan.upsert /\ exec'.toEmbed = Plan.upsert
         /\ exec'.toDelete = Plan.delete /\ Under' = Under
         /\ exec'.indexed = exec.indexed /\ exec'.deleted = exec.deleted
         /\ exec'.failed = exec.failed
<1> DEFINE p == Plan
           n == Cardinality(Unchanged)
<1>1. exec \in ExecRecord
  BY DEF IndexInv, ExecInv, ExecTypeOK
<1>2. /\ exec.pc = "record"
      /\ exec' = [exec EXCEPT !.pc = "execute", !.plan = p, !.toStage = p.upsert,
                              !.toEmbed = p.upsert, !.toDelete = p.delete, !.skipped = n]
  BY DEF RecordAndPlan
<1> HIDE DEF p, n
<1>3. /\ exec.pc = "record" /\ exec'.pc = "execute"
      /\ exec'.plan = p /\ exec'.seen = exec.seen /\ exec'.proof = exec.proof
      /\ exec'.listed = exec.listed
  BY <1>1, <1>2 DEF ExecRecord
<1>4. /\ exec'.toStage = p.upsert /\ exec'.toEmbed = p.upsert
      /\ exec'.toDelete = p.delete
  BY <1>1, <1>2 DEF ExecRecord
<1>5. Under' = Under
  BY <1>1, <1>2 DEF ExecRecord, Under
<1>6. /\ exec'.indexed = exec.indexed /\ exec'.deleted = exec.deleted
      /\ exec'.failed = exec.failed
  BY <1>1, <1>2 DEF ExecRecord
<1> QED BY <1>3, <1>4, <1>5, <1>6 DEF p

Stays == exec.pc = "execute" /\ exec'.pc = "execute" /\ Mind' = Mind

LEMMA StageNextUpsertFields ==
  ASSUME IndexInv, NEW e, StageNextUpsert(e)
  PROVE  /\ Stays /\ Counts' = Counts /\ Under' = Under
         /\ exec'.toStage = exec.toStage \ {e}
         /\ exec'.toEmbed = exec.toEmbed /\ exec'.toDelete = exec.toDelete
<1>1. exec \in ExecRecord
  BY DEF IndexInv, ExecInv, ExecTypeOK
<1>2. exec.pc = "execute" /\ exec' = [exec EXCEPT !.toStage = exec.toStage \ {e}]
  BY DEF StageNextUpsert, Executing
<1>3. Stays
  BY <1>1, <1>2 DEF ExecRecord, Stays, Mind
<1>4. Counts' = Counts /\ Under' = Under
  BY <1>1, <1>2 DEF ExecRecord, Counts, Under
<1> QED BY <1>1, <1>2, <1>3, <1>4 DEF ExecRecord

LEMMA StageNextDeleteFields ==
  ASSUME IndexInv, NEW e, StageNextDelete(e)
  PROVE  /\ Stays /\ Counts' = Counts
         /\ exec.toStage = {} /\ exec.calls = <<>> /\ exec.done = {} /\ exec.lost = {}
         /\ exec'.toStage = exec.toStage /\ exec'.toEmbed = exec.toEmbed
         /\ exec'.toDelete = exec.toDelete \ {e} /\ exec'.attempt = 1
         /\ exec'.calls = <<[op |-> "delete", batch |-> {e}]>>
         /\ exec'.done = exec.done /\ exec'.lost = exec.lost
<1> DEFINE c == <<[op |-> "delete", batch |-> {e}]>>
<1>1. exec \in ExecRecord
  BY DEF IndexInv, ExecInv, ExecTypeOK
<1>2. /\ exec.pc = "execute" /\ exec.toStage = {} /\ exec.calls = <<>>
      /\ exec.done = {} /\ exec.lost = {}
      /\ exec' = [exec EXCEPT !.toDelete = exec.toDelete \ {e}, !.attempt = 1, !.calls = c]
  BY DEF StageNextDelete, Executing, Unsettled
<1> HIDE DEF c
<1>3. Stays
  BY <1>1, <1>2 DEF ExecRecord, Stays, Mind
<1>4. Counts' = Counts
  BY <1>1, <1>2 DEF ExecRecord, Counts
<1>5. /\ exec'.toStage = exec.toStage /\ exec'.toEmbed = exec.toEmbed
      /\ exec'.toDelete = exec.toDelete \ {e} /\ exec'.attempt = 1
  BY <1>1, <1>2 DEF ExecRecord
<1>6. exec'.calls = c /\ exec'.done = exec.done /\ exec'.lost = exec.lost
  BY <1>1, <1>2 DEF ExecRecord
<1> QED BY <1>2, <1>3, <1>4, <1>5, <1>6 DEF c

LEMMA EmbedChunkFields ==
  ASSUME IndexInv, NEW B, EmbedChunk(B)
  PROVE  /\ Stays /\ Counts' = Counts
         /\ exec.toStage = {} /\ exec.calls = <<>> /\ exec.done = {} /\ exec.lost = {}
         /\ exec'.toStage = exec.toStage /\ exec'.toDelete = exec.toDelete
         /\ exec'.toEmbed = exec.toEmbed \ B /\ exec'.attempt = 1
         /\ exec'.calls = <<[op |-> "upsert", batch |-> B]>>
         /\ exec'.done = exec.done /\ exec'.lost = exec.lost
<1> DEFINE c == <<[op |-> "upsert", batch |-> B]>>
<1>1. exec \in ExecRecord
  BY DEF IndexInv, ExecInv, ExecTypeOK
<1>2. /\ exec.pc = "execute" /\ exec.toStage = {} /\ exec.calls = <<>>
      /\ exec.done = {} /\ exec.lost = {}
      /\ exec' = [exec EXCEPT !.toEmbed = exec.toEmbed \ B, !.attempt = 1, !.calls = c]
  BY DEF EmbedChunk, Chunk, Executing, Unsettled
<1> HIDE DEF c
<1>3. Stays
  BY <1>1, <1>2 DEF ExecRecord, Stays, Mind
<1>4. Counts' = Counts
  BY <1>1, <1>2 DEF ExecRecord, Counts
<1>5. /\ exec'.toStage = exec.toStage /\ exec'.toDelete = exec.toDelete
      /\ exec'.toEmbed = exec.toEmbed \ B /\ exec'.attempt = 1
  BY <1>1, <1>2 DEF ExecRecord
<1>6. exec'.calls = c /\ exec'.done = exec.done /\ exec'.lost = exec.lost
  BY <1>1, <1>2 DEF ExecRecord
<1> QED BY <1>2, <1>3, <1>4, <1>5, <1>6 DEF c

LEMMA EmbedChunkFailedFields ==
  ASSUME IndexInv, NEW B, EmbedChunkFailed(B)
  PROVE  /\ Stays /\ Counts' = Counts
         /\ exec.toStage = {} /\ exec.calls = <<>> /\ exec.done = {} /\ exec.lost = {}
         /\ exec'.toStage = exec.toStage /\ exec'.toDelete = exec.toDelete
         /\ exec'.toEmbed = exec.toEmbed \ B /\ exec'.attempt = exec.attempt
         /\ exec'.calls = exec.calls
         /\ exec'.done = exec.done /\ exec'.lost = B \X {"upsert"}
<1> DEFINE l == B \X {"upsert"}
<1>1. exec \in ExecRecord
  BY DEF IndexInv, ExecInv, ExecTypeOK
<1>2. /\ exec.pc = "execute" /\ exec.toStage = {} /\ exec.calls = <<>>
      /\ exec.done = {} /\ exec.lost = {}
      /\ exec' = [exec EXCEPT !.toEmbed = exec.toEmbed \ B, !.lost = l]
  BY DEF EmbedChunkFailed, Chunk, Executing, Unsettled
<1> HIDE DEF l
<1>3. Stays
  BY <1>1, <1>2 DEF ExecRecord, Stays, Mind
<1>4. Counts' = Counts
  BY <1>1, <1>2 DEF ExecRecord, Counts
<1>5. /\ exec'.toStage = exec.toStage /\ exec'.toDelete = exec.toDelete
      /\ exec'.toEmbed = exec.toEmbed \ B /\ exec'.attempt = exec.attempt
  BY <1>1, <1>2 DEF ExecRecord
<1>6. exec'.calls = exec.calls /\ exec'.done = exec.done /\ exec'.lost = l
  BY <1>1, <1>2 DEF ExecRecord
<1> QED BY <1>2, <1>3, <1>4, <1>5, <1>6 DEF l

LEMMA CallAnsweredFields ==
  ASSUME IndexInv, NEW F \in SUBSET Entities, CallAnswered(F)
  PROVE  /\ Stays /\ Counts' = Counts /\ Todo' = Todo
         /\ Calling /\ exec.done = {} /\ exec.lost = {} /\ exec.calls # <<>>
         /\ exec'.done = (batch \ F) \X {op} /\ exec'.attempt = 1
         /\ exec'.lost = IF Cardinality(F) = 1 THEN F \X {op} ELSE {}
         /\ \E again \in IF Cardinality(F) < 2 THEN {<<>>} ELSE Halves(F) :
              exec'.calls = again \o Tail(exec.calls)
<1> DEFINE d == (batch \ F) \X {op}
           l == IF Cardinality(F) = 1 THEN F \X {op} ELSE {}
<1>1. exec \in ExecRecord
  BY DEF IndexInv, ExecInv, ExecTypeOK
<1>2. /\ Calling /\ exec.pc = "execute" /\ exec.done = {} /\ exec.lost = {}
      /\ exec.calls # <<>>
  BY DEF CallAnswered, Calling, Executing, Unsettled
<1>3. PICK again \in IF Cardinality(F) < 2 THEN {<<>>} ELSE Halves(F) :
         exec' = [exec EXCEPT !.calls = again \o Tail(exec.calls), !.attempt = 1,
                              !.done = d, !.lost = l]
  BY DEF CallAnswered
<1> HIDE DEF d, l
<1> DEFINE c == again \o Tail(exec.calls)
<1>4. exec' = [exec EXCEPT !.calls = c, !.attempt = 1, !.done = d, !.lost = l]
  BY <1>3
<1> HIDE DEF c
<1>5. Stays
  BY <1>1, <1>2, <1>4 DEF ExecRecord, Stays, Mind
<1>6. Counts' = Counts
  BY <1>1, <1>4 DEF ExecRecord, Counts
<1>7. Todo' = Todo
  BY <1>1, <1>4 DEF ExecRecord, Todo
<1>8. exec'.calls = c /\ exec'.done = d /\ exec'.lost = l /\ exec'.attempt = 1
  BY <1>1, <1>4 DEF ExecRecord
<1>9. exec'.calls = again \o Tail(exec.calls)
  BY <1>8 DEF c
<1> QED BY <1>2, <1>5, <1>6, <1>7, <1>8, <1>9 DEF d, l

LEMMA CallRetriedFields ==
  ASSUME IndexInv, NEW A, NEW L, CallRetried(A, L)
  PROVE  /\ Stays /\ Counts' = Counts /\ Todo' = Todo
         /\ exec.attempt < MaxAttempts /\ exec'.attempt = exec.attempt + 1
         /\ exec'.calls = exec.calls /\ exec'.done = exec.done /\ exec'.lost = exec.lost
<1> DEFINE n == exec.attempt + 1
<1>1. exec \in ExecRecord
  BY DEF IndexInv, ExecInv, ExecTypeOK
<1>2. exec.pc = "execute" /\ exec' = [exec EXCEPT !.attempt = n]
  BY DEF CallRetried, NoAnswer, Calling, Executing
<1> HIDE DEF n
<1>3. Stays
  BY <1>1, <1>2 DEF ExecRecord, Stays, Mind
<1>4. Counts' = Counts /\ Todo' = Todo
  BY <1>1, <1>2 DEF ExecRecord, Counts, Todo
<1>5. /\ exec'.calls = exec.calls /\ exec'.done = exec.done /\ exec'.lost = exec.lost
      /\ exec'.attempt = n
  BY <1>1, <1>2 DEF ExecRecord
<1>6. exec.attempt < MaxAttempts
  BY DEF CallRetried
<1> QED BY <1>3, <1>4, <1>5, <1>6 DEF n

LEMMA CallFailedFields ==
  ASSUME IndexInv, NEW A, NEW L, CallFailed(A, L)
  PROVE  /\ Stays /\ Counts' = Counts /\ Todo' = Todo
         /\ Calling /\ exec.done = {} /\ exec.lost = {} /\ exec.calls # <<>>
         /\ exec'.calls = Tail(exec.calls) /\ exec'.attempt = 1
         /\ exec'.done = exec.done /\ exec'.lost = batch \X {op}
<1> DEFINE l == batch \X {op}
           c == Tail(exec.calls)
<1>1. exec \in ExecRecord
  BY DEF IndexInv, ExecInv, ExecTypeOK
<1>2. /\ Calling /\ exec.pc = "execute" /\ exec.done = {} /\ exec.lost = {}
      /\ exec.calls # <<>>
      /\ exec' = [exec EXCEPT !.calls = c, !.attempt = 1, !.lost = l]
  BY DEF CallFailed, NoAnswer, Calling, Executing, Unsettled
<1> HIDE DEF l, c
<1>3. Stays
  BY <1>1, <1>2 DEF ExecRecord, Stays, Mind
<1>4. Counts' = Counts /\ Todo' = Todo
  BY <1>1, <1>2 DEF ExecRecord, Counts, Todo
<1>5. exec'.calls = c /\ exec'.done = exec.done /\ exec'.lost = l /\ exec'.attempt = 1
  BY <1>1, <1>2 DEF ExecRecord
<1> QED BY <1>2, <1>3, <1>4, <1>5 DEF l, c

LEMMA CompleteFields ==
  ASSUME IndexInv, NEW e, NEW a, Complete(e, a)
  PROVE  /\ Stays /\ Todo' = Todo
         /\ <<e, a>> \in exec.done
         /\ exec'.calls = exec.calls /\ exec'.lost = exec.lost
         /\ exec'.attempt = exec.attempt
         /\ exec'.done = exec.done \ {<<e, a>>}
         /\ exec'.failed = exec.failed
         /\ exec'.indexed + exec'.deleted = exec.indexed + exec.deleted + 1
<1> DEFINE d == exec.done \ {<<e, a>>}
<1>1. exec \in ExecRecord /\ exec.indexed \in Nat /\ exec.deleted \in Nat
  BY DEF IndexInv, ExecInv, ExecTypeOK, ExecRecord
<1>2. /\ exec.pc = "execute" /\ <<e, a>> \in exec.done
      /\ \/ exec' = [exec EXCEPT !.done = d, !.indexed = exec.indexed + 1]
         \/ exec' = [exec EXCEPT !.done = d, !.deleted = exec.deleted + 1]
  BY DEF Complete, Executing
<1> HIDE DEF d
<1>3. Stays
  BY <1>1, <1>2 DEF ExecRecord, Stays, Mind
<1>4. Todo' = Todo /\ exec'.attempt = exec.attempt
  BY <1>1, <1>2 DEF ExecRecord, Todo
<1>5. exec'.calls = exec.calls /\ exec'.done = d /\ exec'.lost = exec.lost
  BY <1>1, <1>2 DEF ExecRecord
<1>6. exec'.failed = exec.failed
  BY <1>1, <1>2 DEF ExecRecord
<1>7. \/ exec'.indexed = exec.indexed + 1 /\ exec'.deleted = exec.deleted
      \/ exec'.indexed = exec.indexed /\ exec'.deleted = exec.deleted + 1
  BY <1>1, <1>2 DEF ExecRecord
<1>8. exec'.indexed + exec'.deleted = exec.indexed + exec.deleted + 1
  BY <1>1, <1>7
<1> QED BY <1>2, <1>3, <1>4, <1>5, <1>6, <1>8 DEF d

LEMMA FailFields ==
  ASSUME IndexInv, NEW e, NEW a, Fail(e, a)
  PROVE  /\ Stays /\ Todo' = Todo
         /\ <<e, a>> \in exec.lost /\ exec.done = {}
         /\ exec'.calls = exec.calls /\ exec'.done = exec.done
         /\ exec'.attempt = exec.attempt
         /\ exec'.lost = exec.lost \ {<<e, a>>}
         /\ exec'.failed = exec.failed + 1
         /\ exec'.indexed = exec.indexed /\ exec'.deleted = exec.deleted
<1> DEFINE l == exec.lost \ {<<e, a>>}
           n == exec.failed + 1
<1>1. exec \in ExecRecord
  BY DEF IndexInv, ExecInv, ExecTypeOK
<1>2. /\ exec.pc = "execute" /\ <<e, a>> \in exec.lost /\ exec.done = {}
      /\ exec' = [exec EXCEPT !.lost = l, !.failed = n]
  BY DEF Fail, Executing
<1> HIDE DEF l, n
<1>3. Stays
  BY <1>1, <1>2 DEF ExecRecord, Stays, Mind
<1>4. Todo' = Todo /\ exec'.attempt = exec.attempt
  BY <1>1, <1>2 DEF ExecRecord, Todo
<1>5. exec'.calls = exec.calls /\ exec'.done = exec.done /\ exec'.lost = l
  BY <1>1, <1>2 DEF ExecRecord
<1>6. exec'.failed = n /\ exec'.indexed = exec.indexed /\ exec'.deleted = exec.deleted
  BY <1>1, <1>2 DEF ExecRecord
<1> QED BY <1>2, <1>3, <1>4, <1>5, <1>6 DEF l, n

-----------------------------------------------------------------------------
(* The executor's memory is well typed: outside the execution of a plan      *)
(* nothing is under way, and in it only planned work is.                    *)
PlanInv ==
  /\ exec.attempt \in 1..MaxAttempts
  /\ exec.toStage \subseteq exec.toEmbed
  /\ exec.toEmbed \subseteq exec.plan.upsert /\ exec.toDelete \subseteq exec.plan.delete

QuietInv ==
  exec.pc # "execute" =>
    /\ exec.toStage = {} /\ exec.toEmbed = {} /\ exec.toDelete = {}
    /\ exec.calls = <<>> /\ exec.done = {} /\ exec.lost = {}
    /\ exec.indexed = 0 /\ exec.deleted = 0 /\ exec.failed = 0

LEMMA RestingPlan ==
  ASSUME exec = Resting \/ exec = [Resting EXCEPT !.pc = "down"]
  PROVE  PlanInv /\ QuietInv /\ exec.pc # "execute"
BY IndexAssumption DEF Resting, PlanInv, QuietInv

LEMMA RestsPlan ==
  ASSUME Rests PROVE PlanInv' /\ QuietInv' /\ exec'.pc # "execute"
BY IndexAssumption DEF Rests, Resting, PlanInv, QuietInv

LEMMA ExecutesPlan ==
  ASSUME IndexInv, PlanInv, Executes
  PROVE  Stays /\ PlanInv'
<1>0. 1 \in 1..MaxAttempts
  BY IndexAssumption
<1>1. ASSUME NEW e \in exec.toStage, StageNextUpsert(e) PROVE Stays /\ PlanInv'
  BY <1>1, StageNextUpsertFields DEF PlanInv, Stays, Mind, Under
<1>2. ASSUME NEW e \in exec.toDelete, StageNextDelete(e) PROVE Stays /\ PlanInv'
  BY <1>0, <1>2, StageNextDeleteFields DEF PlanInv, Stays, Mind
<1>3. ASSUME NEW B \in SUBSET exec.toEmbed, EmbedChunk(B) PROVE Stays /\ PlanInv'
  BY <1>0, <1>3, EmbedChunkFields DEF PlanInv, Stays, Mind
<1>4. ASSUME NEW B \in SUBSET exec.toEmbed, EmbedChunkFailed(B) PROVE Stays /\ PlanInv'
  BY <1>4, EmbedChunkFailedFields DEF PlanInv, Stays, Mind
<1>5. ASSUME NEW F \in SUBSET Entities, CallAnswered(F) PROVE Stays /\ PlanInv'
  BY <1>0, <1>5, CallAnsweredFields DEF PlanInv, Stays, Mind, Todo
<1>6. ASSUME NEW A, NEW L, CallRetried(A, L) PROVE Stays /\ PlanInv'
  <2>1. exec'.attempt \in 1..MaxAttempts
    BY <1>6, CallRetriedFields, IndexAssumption DEF PlanInv
  <2> QED BY <1>6, <2>1, CallRetriedFields DEF PlanInv, Stays, Mind, Todo
<1>7. ASSUME NEW A, NEW L, CallFailed(A, L) PROVE Stays /\ PlanInv'
  BY <1>0, <1>7, CallFailedFields DEF PlanInv, Stays, Mind, Todo
<1>8. ASSUME NEW e, NEW a, Complete(e, a) PROVE Stays /\ PlanInv'
  BY <1>8, CompleteFields DEF PlanInv, Stays, Mind, Todo
<1>9. ASSUME NEW e, NEW a, Fail(e, a) PROVE Stays /\ PlanInv'
  BY <1>9, FailFields DEF PlanInv, Stays, Mind, Todo
<1> QED BY <1>1, <1>2, <1>3, <1>4, <1>5, <1>6, <1>7, <1>8, <1>9 DEF Executes

LEMMA PlanNext ==
  ASSUME IndexInv, PlanInv, QuietInv, [IndexNext]_indexVars
  PROVE  PlanInv' /\ QuietInv'
<1>1. CASE Rests
  BY <1>1, RestsPlan
<1>2. CASE UNCHANGED <<exec, held, work>>
  BY <1>2 DEF PlanInv, QuietInv
<1>3. CASE Prepares
  BY <1>3 DEF Prepares, Counts, Todo, Under, PlanInv, QuietInv
<1>4. CASE RecordAndPlan
  BY <1>4, PlanFields DEF PlanInv, QuietInv, Under
<1>5. CASE Executes
  BY <1>5, ExecutesPlan DEF QuietInv, Stays
<1> QED BY <1>1, <1>2, <1>3, <1>4, <1>5, ExecSteps

LEMMA PlanAlways == IndexSpec => [](IndexInv /\ PlanInv /\ QuietInv)
<1>1. IndexInit => PlanInv /\ QuietInv
  BY RestingPlan DEF IndexInit
<1>2. IndexInv /\ PlanInv /\ QuietInv /\ [IndexNext]_indexVars => PlanInv' /\ QuietInv'
  BY PlanNext
<1> QED BY <1>1, <1>2, IndexInvariant, PTL DEF IndexSpec

-----------------------------------------------------------------------------
(* The items of a sequence of calls.                                        *)
ItemsOf(c) == c.batch \X {c.op}
CallItems(s) == UNION {ItemsOf(s[i]) : i \in 1..Len(s)}
Apart(s) == \A i, j \in 1..Len(s) : i # j => ItemsOf(s[i]) \cap ItemsOf(s[j]) = {}

LEMMA NoItems == CallItems(<<>>) = {} /\ Apart(<<>>) /\ <<>> \in Seq(Call)
BY DEF CallItems, Apart

LEMMA OneItem ==
  ASSUME NEW c \in Call
  PROVE  CallItems(<<c>>) = ItemsOf(c) /\ Apart(<<c>>) /\ <<c>> \in Seq(Call)
<1>1. <<c>> \in Seq(Call) /\ Len(<<c>>) = 1 /\ <<c>>[1] = c
  OBVIOUS
<1>2. 1..1 = {1}
  OBVIOUS
<1> QED BY <1>1, <1>2 DEF CallItems, Apart

LEMMA TwoItems ==
  ASSUME NEW c \in Call, NEW d \in Call, ItemsOf(c) \cap ItemsOf(d) = {}
  PROVE  /\ CallItems(<<c, d>>) = ItemsOf(c) \cup ItemsOf(d)
         /\ Apart(<<c, d>>) /\ <<c, d>> \in Seq(Call)
<1>1. <<c, d>> \in Seq(Call) /\ Len(<<c, d>>) = 2 /\ <<c, d>>[1] = c /\ <<c, d>>[2] = d
  OBVIOUS
<1>2. 1..2 = {1, 2}
  OBVIOUS
<1> QED BY <1>1, <1>2 DEF CallItems, Apart

LEMMA ItemsConcat ==
  ASSUME NEW s \in Seq(Call), NEW t \in Seq(Call)
  PROVE  /\ CallItems(s \o t) = CallItems(s) \cup CallItems(t)
         /\ (Apart(s) /\ Apart(t) /\ CallItems(s) \cap CallItems(t) = {}) => Apart(s \o t)
<1> DEFINE m == Len(s)
           n == Len(t)
           u == s \o t
<1>1. m \in Nat /\ n \in Nat /\ Len(u) = m + n
  OBVIOUS
<1>2. \A i \in 1..m : i \in 1..Len(u) /\ u[i] = s[i]
  OBVIOUS
<1>3. \A i \in 1..n : m + i \in 1..Len(u) /\ u[m + i] = t[i]
  OBVIOUS
<1>4. \A i \in 1..Len(u) : i \in 1..m \/ \E j \in 1..n : i = m + j
  <2> SUFFICES ASSUME NEW i \in 1..Len(u), i \notin 1..m
               PROVE  \E j \in 1..n : i = m + j
    OBVIOUS
  <2>1. i - m \in 1..n /\ i = m + (i - m)
    BY <1>1
  <2> QED BY <2>1
<1> HIDE DEF u, m, n
<1>5. CallItems(u) = CallItems(s) \cup CallItems(t)
  <2>1. ASSUME NEW x \in CallItems(u) PROVE x \in CallItems(s) \cup CallItems(t)
    <3>1. PICK i \in 1..Len(u) : x \in ItemsOf(u[i])
      BY <2>1 DEF CallItems
    <3>2. CASE i \in 1..m
      BY <1>2, <3>1, <3>2 DEF CallItems, m
    <3>3. CASE \E j \in 1..n : i = m + j
      BY <1>3, <3>1, <3>3 DEF CallItems, n
    <3> QED BY <1>4, <3>2, <3>3
  <2>2. ASSUME NEW x \in CallItems(s) PROVE x \in CallItems(u)
    BY <1>2, <2>2 DEF CallItems, m
  <2>3. ASSUME NEW x \in CallItems(t) PROVE x \in CallItems(u)
    BY <1>3, <2>3 DEF CallItems, n
  <2> QED BY <2>1, <2>2, <2>3
<1>6. ASSUME Apart(s), Apart(t), CallItems(s) \cap CallItems(t) = {}
      PROVE  Apart(u)
  <2> SUFFICES ASSUME NEW i \in 1..Len(u), NEW j \in 1..Len(u), i # j
               PROVE  ItemsOf(u[i]) \cap ItemsOf(u[j]) = {}
    BY DEF Apart
  <2>1. CASE i \in 1..m /\ j \in 1..m
    BY <1>2, <1>6, <2>1 DEF Apart, m
  <2>2. CASE i \in 1..m /\ \E k \in 1..n : j = m + k
    <3>1. ItemsOf(u[i]) \subseteq CallItems(s) /\ ItemsOf(u[j]) \subseteq CallItems(t)
      BY <1>2, <1>3, <2>2 DEF CallItems, m, n
    <3> QED BY <1>6, <3>1
  <2>3. CASE j \in 1..m /\ \E k \in 1..n : i = m + k
    <3>1. ItemsOf(u[j]) \subseteq CallItems(s) /\ ItemsOf(u[i]) \subseteq CallItems(t)
      BY <1>2, <1>3, <2>3 DEF CallItems, m, n
    <3> QED BY <1>6, <3>1
  <2>4. CASE (\E k \in 1..n : i = m + k) /\ (\E k \in 1..n : j = m + k)
    <3>1. PICK k \in 1..n, l \in 1..n : i = m + k /\ j = m + l
      BY <2>4
    <3>2. k # l
      BY <3>1
    <3> QED BY <1>3, <1>6, <3>1, <3>2 DEF Apart, n
  <2> QED BY <1>4, <2>1, <2>2, <2>3, <2>4
<1> QED BY <1>5, <1>6 DEF u

LEMMA ItemsTail ==
  ASSUME NEW s \in Seq(Call), s # <<>>
  PROVE  /\ CallItems(s) = ItemsOf(Head(s)) \cup CallItems(Tail(s))
         /\ Tail(s) \in Seq(Call) /\ Head(s) \in Call
         /\ Apart(s) => /\ Apart(Tail(s))
                        /\ ItemsOf(Head(s)) \cap CallItems(Tail(s)) = {}
<1> DEFINE t == Tail(s)
           n == Len(t)
<1>1. Head(s) = s[1] /\ s[1] \in Call /\ t \in Seq(Call) /\ n \in Nat /\ Len(s) = n + 1
  OBVIOUS
<1>2. \A i \in 1..n : i + 1 \in 1..Len(s) /\ t[i] = s[i + 1]
  OBVIOUS
<1> HIDE DEF t, n
<1>3. /\ 1 \in 1..Len(s)
      /\ \A i \in 1..Len(s) : i = 1 \/ (i - 1 \in 1..n /\ t[i - 1] = s[i])
  <2>1. 1 \in 1..Len(s)
    BY <1>1
  <2>2. ASSUME NEW i \in 1..Len(s), i # 1
        PROVE  i - 1 \in 1..n /\ t[i - 1] = s[i]
    <3>1. i - 1 \in 1..n /\ (i - 1) + 1 = i
      BY <1>1, <2>2
    <3> QED BY <1>2, <3>1
  <2> QED BY <2>1, <2>2
<1>4. CallItems(s) = ItemsOf(s[1]) \cup CallItems(t)
  <2>1. ASSUME NEW x \in CallItems(s) PROVE x \in ItemsOf(s[1]) \cup CallItems(t)
    <3>1. PICK i \in 1..Len(s) : x \in ItemsOf(s[i])
      BY <2>1 DEF CallItems
    <3> QED BY <1>3, <3>1 DEF CallItems, n
  <2>2. ASSUME NEW x \in ItemsOf(s[1]) PROVE x \in CallItems(s)
    BY <1>3, <2>2 DEF CallItems
  <2>3. ASSUME NEW x \in CallItems(t) PROVE x \in CallItems(s)
    BY <1>2, <2>3 DEF CallItems, n
  <2> QED BY <2>1, <2>2, <2>3
<1>5. ASSUME Apart(s) PROVE Apart(t) /\ ItemsOf(s[1]) \cap CallItems(t) = {}
  <2>1. \A i, j \in 1..n : i # j => ItemsOf(t[i]) \cap ItemsOf(t[j]) = {}
    <3> SUFFICES ASSUME NEW i \in 1..n, NEW j \in 1..n, i # j
                 PROVE  ItemsOf(t[i]) \cap ItemsOf(t[j]) = {}
      OBVIOUS
    <3>1. i + 1 # j + 1
      BY <1>1
    <3> QED BY <1>2, <1>5, <3>1 DEF Apart
  <2>2. \A i \in 1..n : ItemsOf(s[1]) \cap ItemsOf(t[i]) = {}
    <3> SUFFICES ASSUME NEW i \in 1..n PROVE ItemsOf(s[1]) \cap ItemsOf(t[i]) = {}
      OBVIOUS
    <3>1. i + 1 # 1
      BY <1>1
    <3> QED BY <1>2, <1>3, <1>5, <3>1 DEF Apart
  <2>3. Apart(t)
    BY <2>1 DEF Apart, n
  <2>4. \A x \in CallItems(t) : x \notin ItemsOf(s[1])
    BY <2>2 DEF CallItems, n
  <2> QED BY <2>3, <2>4
<1>6. Head(s) = s[1] /\ Head(s) \in Call /\ t \in Seq(Call)
  BY <1>1
<1>7. CallItems(s) = ItemsOf(Head(s)) \cup CallItems(t)
  BY <1>4, <1>6
<1>8. Apart(s) => Apart(t) /\ ItemsOf(Head(s)) \cap CallItems(t) = {}
  BY <1>5, <1>6
<1> QED BY <1>6, <1>7, <1>8 DEF t

(* A batch that was refused in part is written again by halves.              *)
LEMMA ItemsAgain ==
  ASSUME NEW F \in SUBSET Entities,
         NEW again \in IF Cardinality(F) < 2 THEN {<<>>} ELSE Halves(F)
  PROVE  /\ again \in Seq(Call) /\ Apart(again)
         /\ CallItems(again) = IF Cardinality(F) < 2 THEN {} ELSE F \X {"upsert"}
<1>1. CASE Cardinality(F) < 2
  BY <1>1, NoItems
<1>2. CASE ~(Cardinality(F) < 2)
  <2>1. PICK L \in SUBSET F :
          again = <<[op |-> "upsert", batch |-> L], [op |-> "upsert", batch |-> F \ L]>>
    BY <1>2 DEF Halves
  <2> DEFINE c == [op |-> "upsert", batch |-> L]
             d == [op |-> "upsert", batch |-> F \ L]
  <2>2. c \in Call /\ d \in Call
    BY DEF Call, Actions
  <2>3. ItemsOf(c) = L \X {"upsert"} /\ ItemsOf(d) = (F \ L) \X {"upsert"}
    BY DEF ItemsOf
  <2>4. ItemsOf(c) \cap ItemsOf(d) = {}
    BY <2>3
  <2>5. ItemsOf(c) \cup ItemsOf(d) = F \X {"upsert"}
    BY <2>3
  <2> HIDE DEF c, d
  <2>6. again = <<c, d>>
    BY <2>1 DEF c, d
  <2> QED BY <1>2, <2>2, <2>4, <2>5, <2>6, TwoItems
<1> QED BY <1>1, <1>2

-----------------------------------------------------------------------------
(* The books.  What is still to be done is planned and is in one place only: *)
(* ahead, in one call, done or lost; the rest is counted as what its work    *)
(* row says.                                                                *)
Planned == (exec.plan.upsert \X {"upsert"}) \cup (exec.plan.delete \X {"delete"})
Ahead == (exec.toEmbed \X {"upsert"}) \cup (exec.toDelete \X {"delete"})

OnePlace(a, c, d, l) ==
  /\ a \cap c = {} /\ a \cap d = {} /\ a \cap l = {}
  /\ c \cap d = {} /\ c \cap l = {} /\ d \cap l = {}

Recorded(status) == {i \in Handled : StatusOf(i) = status}

Books == /\ \A i \in Handled : StatusOf(i) \in {"succeeded", "failed"}
         /\ exec.failed = Cardinality(Recorded("failed"))
         /\ exec.indexed + exec.deleted = Cardinality(Recorded("succeeded"))

Places == /\ Apart(exec.calls)
          /\ OnePlace(Ahead, CallItems(exec.calls), exec.done, exec.lost)
          /\ Pending \subseteq Planned

AccountInv == Executing => Places /\ Books

LEMMA PendingIs ==
  ASSUME IndexInv
  PROVE  Pending = Ahead \cup CallItems(exec.calls) \cup exec.done \cup exec.lost
<1>1. exec.calls \in Seq(Call)
  BY DEF IndexInv, ExecInv, ExecTypeOK, ExecRecord
<1>2. DOMAIN exec.calls = 1..Len(exec.calls)
  BY <1>1
<1> QED BY <1>2 DEF Pending, InCalls, CallItems, ItemsOf, Ahead

LEMMA PendingNextIs ==
  ASSUME IndexInv'
  PROVE  Pending' = Ahead' \cup CallItems(exec'.calls) \cup exec'.done \cup exec'.lost
<1>1. exec'.calls \in Seq(Call)
  BY DEF IndexInv, ExecInv, ExecTypeOK, ExecRecord
<1>2. DOMAIN exec'.calls = 1..Len(exec'.calls)
  BY <1>1
<1> QED BY <1>2 DEF Pending, InCalls, CallItems, ItemsOf, Ahead

LEMMA PlannedFinite ==
  ASSUME IndexInv
  PROVE  Planned \subseteq Work /\ IsFiniteSet(Planned)
<1>1. exec.plan.upsert \subseteq Entities /\ exec.plan.delete \subseteq Entities
  BY DEF IndexInv, ExecInv, ExecTypeOK, ExecRecord
<1>2. Planned \subseteq Work
  BY <1>1 DEF Planned, Work, Actions
<1>3. IsFiniteSet(Actions)
  <2>1. IsFiniteSet({} \cup {"upsert"}) /\ {} \cup {"upsert"} = {"upsert"}
    BY FS_EmptySet, FS_AddElement
  <2>2. IsFiniteSet({"upsert"} \cup {"delete"})
    BY <2>1, FS_AddElement
  <2> QED BY <2>2 DEF Actions
<1>4. IsFiniteSet(Work)
  BY <1>3, IndexAssumption, FS_Product DEF Work
<1> QED BY <1>2, <1>4, FS_Subset

(* Steps that move pending work between places leave the books alone.       *)
Moves == /\ Stays /\ UNCHANGED held /\ Pending' = Pending
         /\ \A i \in Handled :
              work'[<<Claimed, i[1], i[2]>>] = work[<<Claimed, i[1], i[2]>>]

LEMMA SameBooks ==
  ASSUME Moves, Books, exec'.failed = exec.failed,
         exec'.indexed + exec'.deleted = exec.indexed + exec.deleted
  PROVE  Books'
<1> USE DEF Moves
<1>1. Planned' = Planned /\ Claimed' = Claimed
  BY DEF Stays, Mind, Planned, Claimed
<1>2. Handled' = Handled
  BY <1>1 DEF Handled, Planned
<1>3. \A i \in Handled : StatusOf(i)' = StatusOf(i)
  BY <1>1 DEF StatusOf
<1>4. Recorded("failed")' = Recorded("failed") /\ Recorded("succeeded")' = Recorded("succeeded")
  BY <1>2, <1>3 DEF Recorded
<1> QED BY <1>2, <1>3, <1>4 DEF Books

(* An item that was done or lost is recorded and counted in one step.        *)
LEMMA NewEntry ==
  ASSUME IndexInv, Stays, Books, UNCHANGED held,
         NEW x \in Pending, x \in Planned, Pending' = Pending \ {x},
         NEW status \in {"succeeded", "failed"},
         work'[<<Claimed, x[1], x[2]>>].status = status,
         \A i \in Work : i # x =>
           work'[<<Claimed, i[1], i[2]>>] = work[<<Claimed, i[1], i[2]>>],
         exec'.failed = exec.failed + (IF status = "failed" THEN 1 ELSE 0),
         exec'.indexed + exec'.deleted =
           exec.indexed + exec.deleted + (IF status = "succeeded" THEN 1 ELSE 0)
  PROVE  Books'
<1>1. Planned' = Planned /\ Claimed' = Claimed
  BY DEF Stays, Mind, Planned, Claimed
<1>2. Handled' = Handled \cup {x} /\ x \notin Handled /\ Handled \subseteq Planned
  BY <1>1 DEF Handled, Planned
<1>3. Planned \subseteq Work /\ IsFiniteSet(Planned)
  BY PlannedFinite
<1>4. \A i \in Handled : StatusOf(i)' = StatusOf(i)
  BY <1>1, <1>2, <1>3 DEF StatusOf
<1>5. StatusOf(x)' = status
  BY <1>1 DEF StatusOf
<1>6. Recorded(status)' = Recorded(status) \cup {x} /\ x \notin Recorded(status)
  BY <1>2, <1>4, <1>5 DEF Recorded
<1>7. \A other \in {"succeeded", "failed"} :
        other # status => Recorded(other)' = Recorded(other)
  BY <1>2, <1>4, <1>5 DEF Recorded
<1>8. \A s \in {"succeeded", "failed"} : IsFiniteSet(Recorded(s))
  <2>1. \A s \in {"succeeded", "failed"} : Recorded(s) \in SUBSET Planned
    BY <1>2 DEF Recorded
  <2> QED BY <1>3, <2>1, FS_Subset
<1>9. Cardinality(Recorded(status)') = Cardinality(Recorded(status)) + 1
  <2> DEFINE old == Recorded(status)
  <2>1. IsFiniteSet(old)
    BY <1>8
  <2>2. x \notin old /\ Recorded(status)' = old \cup {x}
    BY <1>6
  <2> HIDE DEF old
  <2>3. Cardinality(old \cup {x}) = Cardinality(old) + 1
    BY <2>1, <2>2, FS_AddElement
  <2>4. Cardinality(Recorded(status)') = Cardinality(old) + 1
    BY <2>2, <2>3
  <2> QED BY <2>4 DEF old
<1>10. \A i \in Handled' : StatusOf(i)' \in {"succeeded", "failed"}
  BY <1>2, <1>4, <1>5 DEF Books
<1>11. CASE status = "failed"
  <2>1. Recorded("succeeded")' = Recorded("succeeded")
    BY <1>7, <1>11
  <2>2. exec'.failed = Cardinality(Recorded("failed"))'
    BY <1>9, <1>11 DEF Books
  <2>3. Cardinality(Recorded("succeeded")) \in Nat
    BY <1>8, FS_CardinalityType
  <2>4. exec'.indexed + exec'.deleted = Cardinality(Recorded("succeeded"))'
    BY <1>11, <2>1, <2>3 DEF Books
  <2> QED BY <1>10, <2>2, <2>4 DEF Books
<1>12. CASE status = "succeeded"
  <2>1. Recorded("failed")' = Recorded("failed")
    BY <1>7, <1>12
  <2>2. exec'.indexed + exec'.deleted = Cardinality(Recorded("succeeded"))'
    BY <1>9, <1>12 DEF Books
  <2>3. Cardinality(Recorded("failed")) \in Nat
    BY <1>8, FS_CardinalityType
  <2>4. exec'.failed = Cardinality(Recorded("failed"))'
    BY <1>12, <2>1, <2>3 DEF Books
  <2> QED BY <1>10, <2>2, <2>4 DEF Books
<1> QED BY <1>11, <1>12

LEMMA WorkFrame ==
  ASSUME IndexInv, NEW e \in Entities, NEW a \in Actions, NEW v,
         work' = [work EXCEPT ![<<Claimed, e, a>>] = v]
  PROVE  \A i \in Work : i # <<e, a>> =>
           work'[<<Claimed, i[1], i[2]>>] = work[<<Claimed, i[1], i[2]>>]
<1> SUFFICES ASSUME NEW x \in Entities, NEW b \in Actions, <<x, b>> # <<e, a>>
             PROVE  work'[<<Claimed, x, b>>] = work[<<Claimed, x, b>>]
  BY DEF Work
<1>1. <<Claimed, x, b>> # <<Claimed, e, a>>
  OBVIOUS
<1> QED BY <1>1 DEF IndexInv, TableInv, StateTypeOK

LEMMA ExecTypes ==
  ASSUME IndexInv
  PROVE  /\ exec.calls \in Seq(Call) /\ exec.toStage \subseteq Entities
         /\ exec.toEmbed \subseteq Entities /\ exec.toDelete \subseteq Entities
         /\ exec.done \subseteq Work /\ exec.lost \subseteq Work
BY DEF IndexInv, ExecInv, ExecTypeOK, ExecRecord

LEMMA PlanAccount ==
  ASSUME IndexInv, PlanInv, QuietInv, RecordAndPlan
  PROVE  AccountInv' /\ Handled' = {}
<1>1. /\ exec'.plan = Plan /\ exec'.toEmbed = Plan.upsert /\ exec'.toDelete = Plan.delete
      /\ exec'.calls = <<>> /\ exec'.done = {} /\ exec'.lost = {}
      /\ exec'.indexed = 0 /\ exec'.deleted = 0 /\ exec'.failed = 0
  BY PlanFields DEF QuietInv, Under
<1>2. Pending' = Planned' /\ Ahead' = Planned'
  <2>1. InCalls' = {}
    BY <1>1 DEF InCalls
  <2> QED BY <1>1, <2>1 DEF Pending, Planned, Ahead
<1>3. Places'
  BY <1>1, <1>2, NoItems DEF Places, OnePlace
<1>4. Handled' = {}
  BY <1>2 DEF Handled, Planned
<1>5. Books'
  <2>1. Recorded("failed")' = {} /\ Recorded("succeeded")' = {}
    BY <1>4 DEF Recorded
  <2>2. Cardinality(Recorded("failed"))' = 0 /\ Cardinality(Recorded("succeeded"))' = 0
    BY <2>1, FS_EmptySet
  <2> QED BY <1>1, <1>4, <2>2 DEF Books
<1> QED BY <1>3, <1>4, <1>5 DEF AccountInv

LEMMA StageNextUpsertAccount ==
  ASSUME IndexInv, IndexInv', PlanInv, AccountInv, NEW e \in exec.toStage, StageNextUpsert(e)
  PROVE  AccountInv' /\ Moves
<1>1. /\ Stays /\ exec'.toEmbed = exec.toEmbed /\ exec'.toDelete = exec.toDelete
      /\ exec'.calls = exec.calls /\ exec'.done = exec.done /\ exec'.lost = exec.lost
      /\ exec'.failed = exec.failed
      /\ exec'.indexed = exec.indexed /\ exec'.deleted = exec.deleted
  BY StageNextUpsertFields DEF Under, Counts
<1>2. Places /\ Books
  BY <1>1 DEF AccountInv, Executing, Stays
<1>3. Pending' = Pending /\ Ahead' = Ahead /\ Planned' = Planned
  BY <1>1 DEF Pending, InCalls, Ahead, Planned, Stays, Mind
<1>4. Places'
  BY <1>1, <1>2, <1>3 DEF Places
<1>5. UNCHANGED held
  BY WorkerIsOne, GuardedRun DEF StageNextUpsert, StageUpsert, IndexInv
<1>6. e \in Entities /\ <<e, "upsert">> \in Pending /\ "upsert" \in Actions
  BY ExecTypes DEF PlanInv, Pending, Actions
<1>7. \A i \in Work : i # <<e, "upsert">> =>
        work'[<<Claimed, i[1], i[2]>>] = work[<<Claimed, i[1], i[2]>>]
  BY <1>6, WorkFrame DEF StageNextUpsert, StageUpsert, Claimed
<1>8. \A i \in Handled : i \in Work /\ i # <<e, "upsert">>
  BY <1>6, PlannedFinite DEF Handled, Planned
<1>9. Moves
  BY <1>1, <1>3, <1>5, <1>7, <1>8 DEF Moves
<1>10. Books'
  BY <1>1, <1>2, <1>9, SameBooks
<1> QED BY <1>4, <1>9, <1>10 DEF AccountInv

LEMMA StageNextDeleteAccount ==
  ASSUME IndexInv, IndexInv', AccountInv, NEW e \in exec.toDelete, StageNextDelete(e)
  PROVE  AccountInv' /\ Moves
<1> DEFINE c == [op |-> "delete", batch |-> {e}]
<1>1. /\ Stays /\ exec'.toEmbed = exec.toEmbed /\ exec'.toDelete = exec.toDelete \ {e}
      /\ exec.calls = <<>> /\ exec.done = {} /\ exec.lost = {}
      /\ exec'.calls = <<c>> /\ exec'.done = {} /\ exec'.lost = {}
      /\ exec'.failed = exec.failed
      /\ exec'.indexed = exec.indexed /\ exec'.deleted = exec.deleted
  BY StageNextDeleteFields DEF Counts
<1>2. Places /\ Books
  BY <1>1 DEF AccountInv, Executing, Stays
<1>3. e \in Entities /\ "delete" \in Actions /\ c \in Call /\ ItemsOf(c) = {<<e, "delete">>}
  BY ExecTypes DEF Actions, Call, ItemsOf
<1> HIDE DEF c
<1>4. CallItems(exec'.calls) = {<<e, "delete">>} /\ Apart(exec'.calls)
  BY <1>1, <1>3, OneItem
<1>5. <<e, "delete">> \in Ahead /\ Ahead' = Ahead \ {<<e, "delete">>}
  BY <1>1 DEF Ahead
<1>6. Pending = Ahead /\ Pending' = Ahead
  <2>1. Pending = Ahead
    BY <1>1, PendingIs, NoItems
  <2>2. Pending' = Ahead' \cup CallItems(exec'.calls)
    BY <1>1, PendingNextIs
  <2> QED BY <1>4, <1>5, <2>1, <2>2
<1>7. Planned' = Planned
  BY <1>1 DEF Stays, Mind, Planned
<1>8. Places'
  BY <1>1, <1>2, <1>4, <1>5, <1>6, <1>7 DEF Places, OnePlace
<1>9. UNCHANGED held
  BY WorkerIsOne, GuardedRun DEF StageNextDelete, StageDelete, IndexInv
<1>10. \A i \in Work : i # <<e, "delete">> =>
         work'[<<Claimed, i[1], i[2]>>] = work[<<Claimed, i[1], i[2]>>]
  BY <1>3, WorkFrame DEF StageNextDelete, StageDelete, Claimed
<1>11. \A i \in Handled : i \in Work /\ i # <<e, "delete">>
  BY <1>5, <1>6, PlannedFinite DEF Handled, Planned
<1>12. Moves
  BY <1>1, <1>6, <1>9, <1>10, <1>11 DEF Moves
<1>13. Books'
  BY <1>1, <1>2, <1>12, SameBooks
<1> QED BY <1>8, <1>12, <1>13 DEF AccountInv

(* Steps that leave the repository alone.                                    *)
LEMMA MovedAccount ==
  ASSUME Stays, Counts' = Counts, UNCHANGED <<held, work>>, AccountInv,
         Pending' = Pending, Apart(exec.calls)',
         OnePlace(Ahead, CallItems(exec.calls), exec.done, exec.lost)'
  PROVE  AccountInv' /\ Moves
<1>1. Places /\ Books
  BY DEF AccountInv, Executing, Stays
<1>2. Planned' = Planned
  BY DEF Stays, Mind, Planned
<1>3. Places'
  BY <1>1, <1>2 DEF Places
<1>4. Moves
  BY DEF Moves
<1>5. Books'
  BY <1>1, <1>4, SameBooks DEF Counts
<1> QED BY <1>3, <1>4, <1>5 DEF AccountInv

LEMMA EmbedChunkAccount ==
  ASSUME IndexInv, IndexInv', AccountInv, NEW B \in SUBSET exec.toEmbed, EmbedChunk(B)
  PROVE  AccountInv' /\ Moves
<1> DEFINE c == [op |-> "upsert", batch |-> B]
<1>1. /\ Stays /\ Counts' = Counts
      /\ exec'.toEmbed = exec.toEmbed \ B /\ exec'.toDelete = exec.toDelete
      /\ exec.calls = <<>> /\ exec.done = {} /\ exec.lost = {}
      /\ exec'.calls = <<c>> /\ exec'.done = {} /\ exec'.lost = {}
  BY EmbedChunkFields
<1>2. B \subseteq Entities /\ c \in Call /\ ItemsOf(c) = B \X {"upsert"}
  BY ExecTypes DEF Actions, Call, ItemsOf
<1> HIDE DEF c
<1>3. CallItems(exec'.calls) = B \X {"upsert"} /\ Apart(exec'.calls)
  BY <1>1, <1>2, OneItem
<1>4. B \X {"upsert"} \subseteq Ahead /\ Ahead' = Ahead \ (B \X {"upsert"})
  BY <1>1 DEF Ahead
<1>5. Pending' = Pending
  <2>1. Pending = Ahead
    BY <1>1, PendingIs, NoItems
  <2>2. Pending' = Ahead' \cup CallItems(exec'.calls)
    BY <1>1, PendingNextIs
  <2> QED BY <1>3, <1>4, <2>1, <2>2
<1>6. OnePlace(Ahead, CallItems(exec.calls), exec.done, exec.lost)'
  BY <1>1, <1>3, <1>4 DEF OnePlace
<1>7. UNCHANGED <<held, work>>
  BY DEF EmbedChunk, stateVars, queueVars, tables
<1> QED BY <1>1, <1>3, <1>5, <1>6, <1>7, MovedAccount

LEMMA EmbedChunkFailedAccount ==
  ASSUME IndexInv, IndexInv', AccountInv, NEW B \in SUBSET exec.toEmbed, EmbedChunkFailed(B)
  PROVE  AccountInv' /\ Moves
<1>1. /\ Stays /\ Counts' = Counts
      /\ exec'.toEmbed = exec.toEmbed \ B /\ exec'.toDelete = exec.toDelete
      /\ exec.calls = <<>> /\ exec.done = {} /\ exec.lost = {}
      /\ exec'.calls = <<>> /\ exec'.done = {} /\ exec'.lost = B \X {"upsert"}
  BY EmbedChunkFailedFields
<1>2. B \X {"upsert"} \subseteq Ahead /\ Ahead' = Ahead \ (B \X {"upsert"})
  BY <1>1 DEF Ahead
<1>3. Pending' = Pending
  <2>1. Pending = Ahead
    BY <1>1, PendingIs, NoItems
  <2>2. Pending' = Ahead' \cup (B \X {"upsert"})
    BY <1>1, PendingNextIs, NoItems
  <2> QED BY <1>2, <2>1, <2>2
<1>4. OnePlace(Ahead, CallItems(exec.calls), exec.done, exec.lost)'
  BY <1>1, <1>2, NoItems DEF OnePlace
<1>5. UNCHANGED <<held, work>>
  BY DEF EmbedChunkFailed, stateVars, queueVars, tables
<1> QED BY <1>1, <1>3, <1>4, <1>5, NoItems, MovedAccount

LEMMA HeadItems ==
  ASSUME IndexInv, Calling
  PROVE  /\ CallItems(exec.calls) = (batch \X {op}) \cup CallItems(Tail(exec.calls))
         /\ Tail(exec.calls) \in Seq(Call) /\ batch \subseteq Entities /\ op \in Actions
         /\ Apart(exec.calls) => /\ Apart(Tail(exec.calls))
                                 /\ (batch \X {op}) \cap CallItems(Tail(exec.calls)) = {}
<1>1. exec.calls \in Seq(Call) /\ exec.calls # <<>>
  BY ExecTypes DEF Calling
<1>2. ItemsOf(Head(exec.calls)) = batch \X {op}
  BY DEF ItemsOf, batch, op
<1>3. Head(exec.calls) \in Call
  BY <1>1, ItemsTail
<1> QED BY <1>1, <1>2, <1>3, ItemsTail DEF batch, op, Call

LEMMA CallFailedAccount ==
  ASSUME IndexInv, IndexInv', AccountInv, NEW A, NEW L, CallFailed(A, L)
  PROVE  AccountInv' /\ Moves
<1> DEFINE b == batch \X {op}
           t == CallItems(Tail(exec.calls))
<1>1. /\ Stays /\ Counts' = Counts /\ Ahead' = Ahead
      /\ Calling /\ exec.done = {} /\ exec.lost = {}
      /\ exec'.calls = Tail(exec.calls) /\ exec'.done = {} /\ exec'.lost = b
  BY CallFailedFields DEF Todo, Ahead
<1>2. Places
  BY <1>1 DEF AccountInv, Executing, Stays
<1>3. /\ CallItems(exec.calls) = b \cup t /\ b \cap t = {}
      /\ Apart(exec'.calls) /\ CallItems(exec'.calls) = t
  BY <1>1, <1>2, HeadItems DEF Places
<1>4. Pending' = Pending
  <2>1. Pending = Ahead \cup b \cup t
    BY <1>1, <1>3, PendingIs
  <2>2. Pending' = Ahead \cup t \cup b
    BY <1>1, <1>3, PendingNextIs
  <2> QED BY <2>1, <2>2
<1>5. OnePlace(Ahead, CallItems(exec.calls), exec.done, exec.lost)'
  <2>1. Ahead \cap (b \cup t) = {}
    BY <1>2, <1>3 DEF Places, OnePlace
  <2> QED BY <1>1, <1>3, <2>1 DEF OnePlace
<1>6. UNCHANGED <<held, work>>
  BY DEF CallFailed, NoAnswer, stateVars, queueVars, tables
<1> QED BY <1>1, <1>3, <1>4, <1>5, <1>6, MovedAccount

LEMMA CallAnsweredAccount ==
  ASSUME IndexInv, IndexInv', AccountInv, NEW F \in SUBSET Entities, CallAnswered(F)
  PROVE  AccountInv' /\ Moves
<1> DEFINE b == batch \X {op}
           t == CallItems(Tail(exec.calls))
           g == IF Cardinality(F) < 2 THEN {} ELSE F \X {op}
<1>1. /\ Stays /\ Counts' = Counts /\ Ahead' = Ahead
      /\ Calling /\ exec.done = {} /\ exec.lost = {}
      /\ exec'.done = (batch \ F) \X {op}
      /\ exec'.lost = (IF Cardinality(F) = 1 THEN F \X {op} ELSE {})
  BY CallAnsweredFields DEF Todo, Ahead
<1>2. PICK again \in IF Cardinality(F) < 2 THEN {<<>>} ELSE Halves(F) :
         exec'.calls = again \o Tail(exec.calls)
  BY CallAnsweredFields
<1>3. Places
  BY <1>1 DEF AccountInv, Executing, Stays
<1>4. /\ CallItems(exec.calls) = b \cup t /\ b \cap t = {}
      /\ Tail(exec.calls) \in Seq(Call) /\ Apart(Tail(exec.calls)) /\ op \in Actions
  BY <1>1, <1>3, HeadItems DEF Places
<1>5. F \subseteq batch /\ (op = "delete" => F = {})
  BY DEF CallAnswered
<1>6. IsFiniteSet(F) /\ Cardinality(F) \in Nat /\ (Cardinality(F) = 0 <=> F = {})
  BY IndexAssumption, FS_Subset, FS_CardinalityType, FS_EmptySet
<1>7. F # {} => op = "upsert"
  BY <1>4, <1>5 DEF Actions
<1>8. again \in Seq(Call) /\ Apart(again) /\ CallItems(again) = g
  <2>1. (IF Cardinality(F) < 2 THEN {} ELSE F \X {"upsert"}) = g
    BY <1>6, <1>7
  <2> QED BY <1>2, <2>1, ItemsAgain
<1>9. g \subseteq b
  BY <1>5
<1>10. CallItems(exec'.calls) = g \cup t /\ Apart(exec'.calls)
  <2>1. g \cap t = {}
    BY <1>4, <1>9
  <2>2. CallItems(again) \cap CallItems(Tail(exec.calls)) = {}
    BY <1>8, <2>1
  <2>3. /\ CallItems(again \o Tail(exec.calls)) =
             CallItems(again) \cup CallItems(Tail(exec.calls))
        /\ Apart(again \o Tail(exec.calls))
    BY <1>4, <1>8, <2>2, ItemsConcat
  <2> QED BY <1>2, <1>8, <2>3
<1>11. exec'.done \cup exec'.lost \cup g = b
  <2>1. CASE Cardinality(F) = 0
    BY <1>1, <1>6, <2>1
  <2>2. CASE Cardinality(F) = 1
    BY <1>1, <1>5, <2>2
  <2>3. CASE Cardinality(F) >= 2
    <3>1. g = F \X {op} /\ exec'.lost = {}
      BY <1>1, <1>6, <2>3
    <3> QED BY <1>1, <1>5, <3>1
  <2> QED BY <1>6, <2>1, <2>2, <2>3
<1>12. exec'.done \cap exec'.lost = {} /\ exec'.done \cap g = {} /\ exec'.lost \cap g = {}
  <2>1. exec'.done \cap (F \X {op}) = {}
    BY <1>1
  <2>2. exec'.lost \subseteq F \X {op} /\ g \subseteq F \X {op}
    BY <1>1
  <2>3. exec'.lost = {} \/ g = {}
    BY <1>1, <1>6
  <2> QED BY <2>1, <2>2, <2>3
<1> HIDE DEF b, t, g
<1>13. Pending' = Pending
  <2>1. Pending = Ahead \cup b \cup t
    BY <1>1, <1>4, PendingIs
  <2>2. Pending' = Ahead \cup (g \cup t) \cup exec'.done \cup exec'.lost
    BY <1>1, <1>10, PendingNextIs
  <2> QED BY <1>11, <2>1, <2>2
<1>14. OnePlace(Ahead, CallItems(exec.calls), exec.done, exec.lost)'
  <2>1. Ahead \cap (b \cup t) = {}
    BY <1>3, <1>4 DEF Places, OnePlace
  <2>2. OnePlace(Ahead, g \cup t, exec'.done, exec'.lost)
    BY <1>4, <1>11, <1>12, <2>1 DEF OnePlace
  <2> QED BY <1>1, <1>10, <2>2
<1>15. UNCHANGED <<held, work>>
  BY DEF CallAnswered, stateVars, queueVars, tables
<1> QED BY <1>1, <1>10, <1>13, <1>14, <1>15, MovedAccount

(* Settling a work item of the claimed run.                                  *)
LEMMA SettledItem ==
  ASSUME IndexInv, NEW e \in Entities, NEW a \in Actions,
         NEW status \in {"succeeded", "failed"}, GuardedWrite(worker),
         Settle(<<Claimed, e, a>>, status)
  PROVE  /\ UNCHANGED held
         /\ work'[<<Claimed, e, a>>].status = status
         /\ \A i \in Work : i # <<e, a>> =>
              work'[<<Claimed, i[1], i[2]>>] = work[<<Claimed, i[1], i[2]>>]
<1>1. Claimed \in RunIds /\ UNCHANGED held
  BY WorkerIsOne, GuardedRun DEF IndexInv, Claimed
<1>2. <<Claimed, e, a>> \in Items
  BY <1>1, ItemTypes
<1>3. work'[<<Claimed, e, a>>].status = status
  BY <1>2, SettleType DEF IndexInv, TableInv
<1>4. work' = [work EXCEPT ![<<Claimed, e, a>>] =
                 [work[<<Claimed, e, a>>] EXCEPT !.status = status]]
  BY DEF Settle
<1> DEFINE settled == [work[<<Claimed, e, a>>] EXCEPT !.status = status]
<1>5. work' = [work EXCEPT ![<<Claimed, e, a>>] = settled]
  BY <1>4
<1> HIDE DEF settled
<1>6. \A i \in Work : i # <<e, a>> =>
        work'[<<Claimed, i[1], i[2]>>] = work[<<Claimed, i[1], i[2]>>]
  BY <1>1, <1>5, WorkFrame
<1> QED BY <1>1, <1>3, <1>6

Settles(x, status) ==
  /\ Stays /\ UNCHANGED held /\ x \in Planned /\ Pending' = Pending \ {x}
  /\ work'[<<Claimed, x[1], x[2]>>].status = status
  /\ \A i \in Work : i # x =>
       work'[<<Claimed, i[1], i[2]>>] = work[<<Claimed, i[1], i[2]>>]

LEMMA SettledAccount ==
  ASSUME IndexInv, IndexInv', AccountInv, Stays, Ahead' = Ahead,
         NEW e \in Entities, NEW a \in Actions, NEW status \in {"succeeded", "failed"},
         GuardedWrite(worker), Settle(<<Claimed, e, a>>, status),
         exec'.calls = exec.calls,
         exec'.done \cup exec'.lost = (exec.done \cup exec.lost) \ {<<e, a>>},
         exec'.done \subseteq exec.done, exec'.lost \subseteq exec.lost,
         <<e, a>> \in exec.done \cup exec.lost,
         exec'.failed = exec.failed + (IF status = "failed" THEN 1 ELSE 0),
         exec'.indexed + exec'.deleted =
           exec.indexed + exec.deleted + (IF status = "succeeded" THEN 1 ELSE 0)
  PROVE  AccountInv' /\ Settles(<<e, a>>, status)
<1> DEFINE x == <<e, a>>
<1>1. Places /\ Books
  BY DEF AccountInv, Executing, Stays
<1>2. x \in Pending /\ x \in Planned /\ x \notin Ahead /\ x \notin CallItems(exec.calls)
  BY <1>1, PendingIs DEF Places, OnePlace
<1>3. Pending' = Pending \ {x}
  <2>1. Pending = Ahead \cup CallItems(exec.calls) \cup (exec.done \cup exec.lost)
    BY PendingIs
  <2>2. Pending' = Ahead \cup CallItems(exec.calls) \cup (exec'.done \cup exec'.lost)
    BY PendingNextIs
  <2> QED BY <1>2, <2>1, <2>2
<1>4. Planned' = Planned
  BY DEF Stays, Mind, Planned
<1>5. Places'
  BY <1>1, <1>3, <1>4 DEF Places, OnePlace
<1>6. /\ UNCHANGED held
      /\ work'[<<Claimed, x[1], x[2]>>].status = status
      /\ \A i \in Work : i # x =>
           work'[<<Claimed, i[1], i[2]>>] = work[<<Claimed, i[1], i[2]>>]
  BY SettledItem
<1> HIDE DEF x
<1>7. Books'
  BY <1>1, <1>2, <1>3, <1>6, NewEntry
<1>8. Settles(x, status)
  BY <1>2, <1>3, <1>6 DEF Settles
<1> QED BY <1>5, <1>7, <1>8 DEF AccountInv, x

LEMMA CompleteAccount ==
  ASSUME IndexInv, IndexInv', AccountInv, NEW e \in Entities, NEW a \in Actions, Complete(e, a)
  PROVE  AccountInv' /\ Settles(<<e, a>>, "succeeded")
<1>1. /\ Stays /\ Ahead' = Ahead /\ <<e, a>> \in exec.done
      /\ exec'.calls = exec.calls /\ exec'.lost = exec.lost
      /\ exec'.done = exec.done \ {<<e, a>>} /\ exec'.failed = exec.failed
      /\ exec'.indexed + exec'.deleted = exec.indexed + exec.deleted + 1
  BY CompleteFields DEF Todo, Ahead
<1>2. <<e, a>> \notin exec.lost
  BY <1>1 DEF AccountInv, Executing, Stays, Places, OnePlace
<1>3. GuardedWrite(worker) /\ Settle(<<Claimed, e, a>>, "succeeded")
  BY DEF Complete, CompleteUpsert, CompleteDelete, Claimed
<1>4. exec'.done \cup exec'.lost = (exec.done \cup exec.lost) \ {<<e, a>>}
  BY <1>1, <1>2
<1>5. exec'.failed = exec.failed + 0
  BY <1>1 DEF IndexInv, ExecInv, ExecTypeOK, ExecRecord
<1> QED BY <1>1, <1>3, <1>4, <1>5, SettledAccount

LEMMA FailAccount ==
  ASSUME IndexInv, IndexInv', AccountInv, NEW e \in Entities, NEW a \in Actions, Fail(e, a)
  PROVE  AccountInv' /\ Settles(<<e, a>>, "failed")
<1>1. /\ Stays /\ Ahead' = Ahead /\ <<e, a>> \in exec.lost /\ exec.done = {}
      /\ exec'.calls = exec.calls /\ exec'.done = exec.done
      /\ exec'.lost = exec.lost \ {<<e, a>>} /\ exec'.failed = exec.failed + 1
      /\ exec'.indexed = exec.indexed /\ exec'.deleted = exec.deleted
  BY FailFields DEF Todo, Ahead
<1>2. GuardedWrite(worker) /\ Settle(<<Claimed, e, a>>, "failed")
  BY DEF Fail, FailWork, Claimed
<1>3. exec'.done \cup exec'.lost = (exec.done \cup exec.lost) \ {<<e, a>>}
  BY <1>1
<1>4. exec'.indexed + exec'.deleted = exec.indexed + exec.deleted + 0
  BY <1>1 DEF IndexInv, ExecInv, ExecTypeOK, ExecRecord
<1> QED BY <1>1, <1>2, <1>3, <1>4, SettledAccount

LEMMA CallRetriedAccount ==
  ASSUME IndexInv, AccountInv, NEW A, NEW L, CallRetried(A, L)
  PROVE  AccountInv' /\ Moves
<1>1. /\ Stays /\ Counts' = Counts /\ Todo' = Todo
      /\ exec'.calls = exec.calls /\ exec'.done = exec.done /\ exec'.lost = exec.lost
  BY CallRetriedFields
<1>2. Pending' = Pending /\ Ahead' = Ahead
  BY <1>1 DEF Pending, InCalls, Ahead, Todo
<1>3. UNCHANGED <<held, work>>
  BY DEF CallRetried, NoAnswer, stateVars, queueVars, tables
<1>4. Places
  BY <1>1 DEF AccountInv, Executing, Stays
<1>5. Apart(exec.calls)' /\ OnePlace(Ahead, CallItems(exec.calls), exec.done, exec.lost)'
  BY <1>1, <1>2, <1>4 DEF Places
<1> QED BY <1>1, <1>2, <1>3, <1>5, MovedAccount

LEMMA AccountNext ==
  ASSUME IndexInv, IndexInv', PlanInv, QuietInv, AccountInv, [IndexNext]_indexVars
  PROVE  AccountInv'
<1>1. CASE Rests
  BY <1>1, RestsPlan DEF AccountInv, Executing
<1>2. CASE UNCHANGED <<exec, held, work>>
  <2>1. Executing' = Executing /\ Claimed' = Claimed /\ Planned' = Planned
    BY <1>2 DEF Executing, Claimed, Planned
  <2>2. Pending' = Pending /\ Ahead' = Ahead
    BY <1>2 DEF Pending, InCalls, Ahead
  <2>3. Places => Places'
    BY <1>2, <2>1, <2>2 DEF Places, OnePlace, Apart, CallItems, ItemsOf
  <2>4. \A i : StatusOf(i)' = StatusOf(i)
    BY <1>2, <2>1 DEF StatusOf
  <2>5. Handled' = Handled
    BY <1>2, <2>2 DEF Handled
  <2>6. ASSUME NEW s PROVE Recorded(s)' = Recorded(s)
    <3>1. \A i : i \in Recorded(s)' <=> i \in Recorded(s)
      BY <2>4, <2>5 DEF Recorded
    <3> QED BY <3>1
  <2>7. Books => Books'
    BY <1>2, <2>4, <2>5, <2>6 DEF Books
  <2> QED BY <2>1, <2>3, <2>7 DEF AccountInv
<1>3. CASE Prepares
  BY <1>3 DEF Prepares, AccountInv, Executing
<1>4. CASE RecordAndPlan
  BY <1>4, PlanAccount
<1>5. CASE Executes
  BY <1>5, StageNextUpsertAccount, StageNextDeleteAccount, EmbedChunkAccount,
     EmbedChunkFailedAccount, CallAnsweredAccount, CallRetriedAccount, CallFailedAccount,
     CompleteAccount, FailAccount DEF Executes
<1> QED BY <1>1, <1>2, <1>3, <1>4, <1>5, ExecSteps

LEMMA AccountAlways == IndexSpec => [](IndexInv /\ PlanInv /\ QuietInv /\ AccountInv)
<1>1. IndexInit => AccountInv
  BY RestingPlan DEF IndexInit, AccountInv, Executing
<1>2. IndexInv /\ PlanInv /\ QuietInv /\ AccountInv /\ [IndexNext]_indexVars /\ IndexInv'
        => AccountInv'
  BY AccountNext
<1> QED BY <1>1, <1>2, PlanAlways, PTL DEF IndexSpec

(* Every planned item is still to be done or has been recorded once, as what *)
(* the counters of the report count it as; for any number of entities, batch *)
(* size and number of attempts, through every split and restart.             *)
THEOREM ReportIsAccount == IndexSpec => []ReportMatchesWork
<1>1. AccountInv => ReportMatchesWork
  BY DEF AccountInv, Books, Recorded, ReportMatchesWork
<1> QED BY <1>1, AccountAlways, PTL

-----------------------------------------------------------------------------
(* The plan in memory is the plan of what was read, for as long as it is     *)
(* carried out: its run stays leased and keeps its selector.                *)
LookedAt == exec.pc \in {"list", "record", "execute"}

PlanIsCurrent == Executing => exec.plan = Plan

LEMMA LeasedRun ==
  ASSUME IndexInv, exec.pc \notin {"idle", "down"}
  PROVE  Claimed \in RunIds /\ run[Claimed].state = "leased"
<1>1. Current(held[worker])
  BY DEF IndexInv, ExecInv, LeaseHeldWhileExecuting
<1>2. Claimed \in RunIds
  BY <1>1, WorkerIsOne, HeldType DEF IndexInv, Current, Claimed
<1> QED BY <1>1, <1>2 DEF Current, Claimed

LEMMA SelectorKept ==
  ASSUME IndexInv, [IndexNext]_indexVars, UNCHANGED held, exec.pc \notin {"idle", "down"}
  PROVE  Claimed' = Claimed /\ Scope' = Scope /\ run'[Claimed].selector = run[Claimed].selector
<1>1. Claimed \in RunIds /\ run[Claimed].state = "leased"
  BY LeasedRun
<1>2. [Next]_queueVars
  BY IndexStepIsStateStep, StateStepIsQueueStep
<1>3. run'[Claimed].selector = run[Claimed].selector
  BY <1>1, <1>2, SelectorIsFixed DEF IndexInv
<1>4. Claimed' = Claimed
  BY DEF Claimed
<1> QED BY <1>3, <1>4 DEF Scope

LEMMA ExecutesFrame ==
  ASSUME IndexInv, Executes
  PROVE  UNCHANGED <<run, held, graph, sight, owed>>
<1>1. ASSUME NEW e \in exec.toStage, StageNextUpsert(e)
      PROVE  UNCHANGED <<run, held, graph, sight, owed>>
  BY <1>1 DEF StageNextUpsert, StageUpsert, GuardedWrite, world, outside
<1>2. ASSUME NEW e \in exec.toDelete, StageNextDelete(e)
      PROVE  UNCHANGED <<run, held, graph, sight, owed>>
  BY <1>2 DEF StageNextDelete, StageDelete, GuardedWrite, world, outside
<1>3. ASSUME NEW B \in SUBSET exec.toEmbed, EmbedChunk(B) \/ EmbedChunkFailed(B)
      PROVE  UNCHANGED <<run, held, graph, sight, owed>>
  BY <1>3 DEF EmbedChunk, EmbedChunkFailed, stateVars, queueVars, world, outside
<1>4. ASSUME NEW F \in SUBSET Entities, CallAnswered(F)
      PROVE  UNCHANGED <<run, held, graph, sight, owed>>
  BY <1>4 DEF CallAnswered, Apply, stateVars, queueVars
<1>5. ASSUME NEW A \in SUBSET Entities, NEW L \in SUBSET Entities,
             CallRetried(A, L) \/ CallFailed(A, L)
      PROVE  UNCHANGED <<run, held, graph, sight, owed>>
  BY <1>5 DEF CallRetried, CallFailed, NoAnswer, Apply, stateVars, queueVars
<1>6. ASSUME NEW e \in Entities, NEW a \in Actions, Complete(e, a)
      PROVE  UNCHANGED <<run, held, graph, sight, owed>>
  BY <1>6 DEF Complete, CompleteUpsert, CompleteDelete, GuardedWrite, world, outside
<1>7. ASSUME NEW e \in Entities, NEW a \in Actions, Fail(e, a)
      PROVE  UNCHANGED <<run, held, graph, sight, owed>>
  BY <1>7 DEF Fail, FailWork, GuardedWrite, world, outside
<1> QED BY <1>1, <1>2, <1>3, <1>4, <1>5, <1>6, <1>7 DEF Executes

LEMMA SamePlan ==
  ASSUME IndexInv, [IndexNext]_indexVars, UNCHANGED held, exec.pc \notin {"idle", "down"},
         exec'.seen = exec.seen, exec'.proof = exec.proof, exec'.listed = exec.listed
  PROVE  /\ Plan' = Plan /\ Present' = Present /\ Unchanged' = Unchanged
         /\ Scope' = Scope /\ PermitsDeletion' = PermitsDeletion
<1>1. Claimed' = Claimed /\ Scope' = Scope /\ run'[Claimed].selector = run[Claimed].selector
  BY SelectorKept
<1>2. Present' = Present
  BY DEF Present
<1>3. Unchanged' = Unchanged
  BY <1>1, <1>2 DEF Unchanged
<1>4. PermitsDeletion' = PermitsDeletion
  BY <1>1 DEF PermitsDeletion
<1> QED BY <1>1, <1>2, <1>3, <1>4 DEF Plan

LEMMA PlanIsCurrentNext ==
  ASSUME IndexInv, PlanInv, PlanIsCurrent, [IndexNext]_indexVars
  PROVE  PlanIsCurrent'
<1>1. CASE Rests
  BY <1>1, RestsPlan DEF PlanIsCurrent, Executing
<1>2. CASE UNCHANGED <<exec, held, work>>
  BY <1>2, SamePlan DEF PlanIsCurrent, Executing
<1>3. CASE Prepares
  BY <1>3 DEF Prepares, PlanIsCurrent, Executing
<1>4. CASE RecordAndPlan
  <2>1. UNCHANGED held
    BY <1>4 DEF RecordAndPlan, RecordSnapshot, GuardedWrite
  <2> QED BY <1>4, <2>1, PlanFields, SamePlan DEF PlanIsCurrent
<1>5. CASE Executes
  BY <1>5, ExecutesPlan, ExecutesFrame, SamePlan DEF Stays, Mind, PlanIsCurrent, Executing
<1> QED BY <1>1, <1>2, <1>3, <1>4, <1>5, ExecSteps

LEMMA PlanIsCurrentAlways ==
  IndexSpec => [](IndexInv /\ PlanInv /\ QuietInv /\ AccountInv /\ PlanIsCurrent)
<1>1. IndexInit => PlanIsCurrent
  BY RestingPlan DEF IndexInit, PlanIsCurrent, Executing
<1>2. IndexInv /\ PlanInv /\ PlanIsCurrent /\ [IndexNext]_indexVars => PlanIsCurrent'
  BY PlanIsCurrentNext
<1> QED BY <1>1, <1>2, AccountAlways, PTL DEF IndexSpec

(* What is under way for an entity is what the plan says of it.              *)
LEMMA PlannedItem ==
  ASSUME IndexInv, AccountInv, PlanIsCurrent, Executing,
         NEW e, NEW a, <<e, a>> \in Planned
  PROVE  \/ a = "upsert" /\ e \in Scope \cap Present /\ e \notin Unchanged
         \/ a = "delete" /\ e \in DOMAIN exec.listed /\ e \notin Present /\ PermitsDeletion
<1>1. Planned = (Plan.upsert \X {"upsert"}) \cup (Plan.delete \X {"delete"})
  BY DEF PlanIsCurrent, Planned
<1> QED BY <1>1 DEF Plan

LEMMA CalledItem ==
  ASSUME IndexInv, AccountInv, PlanIsCurrent, Calling, NEW e \in batch
  PROVE  /\ e \in Entities /\ op \in Actions
         /\ <<e, op>> \in Planned /\ <<e, op>> \in Pending
         /\ op = "upsert" => e \in Scope \cap Present
         /\ op = "delete" => e \in DOMAIN exec.listed /\ e \notin Present /\ PermitsDeletion
<1>1. Executing
  BY DEF Calling
<1>2. e \in Entities /\ op \in Actions /\ <<e, op>> \in CallItems(exec.calls)
  BY HeadItems
<1>3. <<e, op>> \in Pending /\ Pending \subseteq Planned
  BY <1>1, <1>2, PendingIs DEF AccountInv, Places
<1> QED BY <1>1, <1>2, <1>3, PlannedItem

-----------------------------------------------------------------------------
(* One entity in one step: how its vector, its content in the graph, what    *)
(* the run has seen of it and its row may change.                           *)
Settled(e) == remote'[e] = remote[e] /\ (e \in blurred' <=> e \in blurred)
Written(e) == /\ Executing /\ e \in Scope \cap Present /\ remote'[e] = exec.seen[e] /\ e \notin blurred'
              /\ UNCHANGED <<run, rows, graph, sight, owed>>
Removed(e) == /\ Calling /\ op = "delete" /\ e \in batch
              /\ remote'[e] = NoRow /\ e \notin blurred'
              /\ UNCHANGED <<run, rows, audit, graph, sight, owed>>
Overtaken(e) == \E m \in wire : ArrivesLate(m) /\ m.entity = e

LEMMA ApplySteps ==
  ASSUME IndexInv, AccountInv, PlanIsCurrent, Calling, NEW A \in SUBSET batch, Apply(A),
         UNCHANGED <<run, tables>>, NEW e \in Entities
  PROVE  Settled(e) \/ Written(e) \/ Removed(e)
<1>1. A \in SUBSET Entities
  BY CalledItem
<1>2. /\ \A x \in A : remote'[x] = (IF op = "upsert" THEN exec.seen[x] ELSE NoRow)
      /\ \A x \in Entities \ A : remote'[x] = remote[x]
      /\ blurred' = blurred \ A
  BY <1>1, ApplyType DEF IndexInv, ExecInv
<1>3. UNCHANGED <<run, rows, audit, graph, sight, owed>>
  BY DEF Apply, tables
<1>4. CASE e \notin A
  BY <1>2, <1>4 DEF Settled
<1>5. CASE e \in A
  <2>1. e \in batch /\ op \in Actions /\ (op = "upsert" => e \in Scope \cap Present) /\ Executing
    BY <1>5, CalledItem DEF Calling
  <2>2. CASE op = "upsert"
    BY <1>2, <1>3, <1>5, <2>1, <2>2 DEF Written
  <2>3. CASE op = "delete"
    BY <1>2, <1>3, <1>5, <2>1, <2>3 DEF Removed
  <2> QED BY <2>1, <2>2, <2>3 DEF Actions
<1> QED BY <1>4, <1>5

LEMMA VectorSteps ==
  ASSUME IndexInv, AccountInv, PlanIsCurrent, [IndexNext]_indexVars, NEW e \in Entities
  PROVE  Settled(e) \/ Written(e) \/ Removed(e) \/ Overtaken(e)
<1>1. ASSUME NEW F \in SUBSET Entities, CallAnswered(F)
      PROVE  Settled(e) \/ Written(e) \/ Removed(e)
  <2>1. Calling /\ Apply(batch \ F) /\ UNCHANGED <<run, tables>>
    BY <1>1 DEF CallAnswered, stateVars, queueVars
  <2> QED BY <2>1, ApplySteps
<1>2. ASSUME NEW A \in SUBSET Entities, NEW L \in SUBSET Entities, NoAnswer(A, L)
      PROVE  Settled(e) \/ Written(e) \/ Removed(e)
  <2>1. Calling /\ A \in SUBSET batch /\ Apply(A) /\ UNCHANGED <<run, tables>>
    BY <1>2 DEF NoAnswer, stateVars, queueVars
  <2> QED BY <2>1, ApplySteps
<1>3. ASSUME NEW A \in SUBSET Entities, CallMisanswered(A)
      PROVE  Settled(e) \/ Written(e) \/ Removed(e)
  <2>1. Calling /\ A \in SUBSET batch /\ Apply(A) /\ UNCHANGED <<run, tables>>
    BY <1>3 DEF CallMisanswered, Abandon
  <2> QED BY <2>1, ApplySteps
<1>4. ASSUME NEW m \in wire, ArrivesLate(m)
      PROVE  Settled(e) \/ Overtaken(e)
  <2>1. /\ remote \in [Entities -> Content]
        /\ remote' = [remote EXCEPT ![m.entity] = IF m.op = "upsert" THEN m.hash ELSE NoRow]
        /\ blurred' = blurred \cup {m.entity}
    BY <1>4 DEF ArrivesLate, IndexInv, ExecInv, ExecTypeOK
  <2>2. CASE m.entity # e
    BY <2>1, <2>2 DEF Settled
  <2>3. CASE m.entity = e
    BY <1>4, <2>3 DEF Overtaken
  <2> QED BY <2>2, <2>3
<1>5. CASE UNCHANGED <<remote, blurred>>
  BY <1>5 DEF Settled
<1>6. CASE Step
  BY <1>1, <1>2, <1>3, <1>5, <1>6 DEF Step, DimensionVerified, DimensionMismatch, ReadGraph,
     ListIndexedEntities, RecordAndPlan, StageNextUpsert, StageNextDelete, EmbedChunk,
     EmbedChunkFailed, CallRetried, CallFailed, Complete, Fail, Finish, world, outside
<1>7. CASE \E now \in Readings : Claim(now) \/ Start(now) \/ Requested(now)
  BY <1>5, <1>7, RequestedSteps DEF Claim, Start, world, outside
<1>8. CASE Abort \/ Stop
  BY <1>5, <1>8 DEF Abort, Stop, world, outside
<1>9. CASE \E x \in Entities, h \in Content : GraphChanges(x, h)
  BY <1>5, <1>9 DEF GraphChanges
<1>10. CASE UNCHANGED indexVars
  BY <1>5, <1>10 DEF indexVars, world, outside
<1> QED BY <1>4, <1>6, <1>7, <1>8, <1>9, <1>10 DEF IndexNext

SightTypeOK == /\ reading \in [Entities -> Content] /\ past \in [Entities -> SUBSET Hashes]
               /\ owed \subseteq RunIds

(* What a run may act upon after its read is what it has looked at.          *)
Judged(e) == /\ LookedAt
             /\ exec.seen[e] # NoRow => e \in Scope
             /\ exec.seen[e] = NoRow => PermitsDeletion

Forgets == ~LookedAt' /\ UNCHANGED sight
Remembers == /\ exec'.seen = exec.seen /\ exec'.proof = exec.proof
             /\ LookedAt /\ LookedAt' /\ UNCHANGED <<held, sight>>
Looks(e) == /\ Judged(e)' => exec'.seen[e] = reading'[e]
            /\ \/ reading'[e] = reading[e] /\ past'[e] = past[e]
               \/ past'[e] = past[e] \cup ({reading[e]} \ {NoRow})
            /\ UNCHANGED <<stateVars, outside>>

LEMMA ReadFields ==
  ASSUME IndexInv, SightTypeOK, NEW proof \in {"partial", "complete"},
         NEW seen \in [Entities -> Content], ReadGraph(proof, seen), NEW e \in Entities
  PROVE  Looks(e)
<1>1. exec \in ExecRecord
  BY DEF IndexInv, ExecInv, ExecTypeOK
<1>2. /\ exec' = [exec EXCEPT !.pc = "list", !.proof = proof, !.seen = seen]
      /\ Sighted(proof, seen) /\ UNCHANGED <<stateVars, outside>>
  BY DEF ReadGraph
<1>3. exec'.seen = seen /\ exec'.proof = proof
  BY <1>1, <1>2 DEF ExecRecord
<1>4. /\ reading'[e] = IF e \in Covered(proof, seen) THEN seen[e] ELSE reading[e]
      /\ past'[e] = IF reading'[e] = reading[e] THEN past[e]
                    ELSE past[e] \cup ({reading[e]} \ {NoRow})
  BY <1>2 DEF Sighted
<1>5. Claimed' = Claimed /\ run' = run
  BY <1>2 DEF Claimed, stateVars, queueVars
<1>6. Judged(e)' => e \in Covered(proof, seen)
  BY <1>3, <1>5 DEF Judged, Covered, Scope, PermitsDeletion
<1> QED BY <1>2, <1>3, <1>4, <1>6 DEF Looks

LEMMA SightTypeNext ==
  ASSUME IndexInv, SightTypeOK, [IndexNext]_indexVars
  PROVE  SightTypeOK'
<1>1. ASSUME NEW proof \in {"partial", "complete"}, NEW seen \in [Entities -> Content],
             ReadGraph(proof, seen)
      PROVE  SightTypeOK'
  <2>1. Sighted(proof, seen) /\ owed' \subseteq owed
    BY <1>1 DEF ReadGraph
  <2>2. reading' \in [Entities -> Content]
    BY <2>1 DEF Sighted, SightTypeOK
  <2>3. \A e \in Entities : past[e] \cup ({reading[e]} \ {NoRow}) \in SUBSET Hashes
    BY DEF SightTypeOK, Content
  <2>4. past' \in [Entities -> SUBSET Hashes]
    BY <2>1, <2>3 DEF Sighted, SightTypeOK
  <2> QED BY <2>1, <2>2, <2>4 DEF SightTypeOK
<1>2. CASE UNCHANGED <<sight, owed>>
  BY <1>2 DEF SightTypeOK, sight
<1>3. CASE Executes
  BY <1>2, <1>3, ExecutesFrame
<1>4. CASE Step
  BY <1>1, <1>2, <1>3, <1>4 DEF Step, Executes, DimensionVerified, DimensionMismatch,
     ListIndexedEntities, RecordAndPlan, CallMisanswered, Apply, Finish, world
<1>5. CASE \E now \in Readings : Requested(now)
  <2>1. owed' \subseteq RunIds
    BY <1>5 DEF Requested, SightTypeOK, FreshIds, Oldest, QueuedFor, InState
  <2> QED BY <1>5, <2>1, RequestedSteps DEF SightTypeOK, sight
<1>6. CASE \/ \E now \in Readings : Claim(now) \/ Start(now)
           \/ Abort \/ Stop
           \/ \E x \in Entities, h \in Content : GraphChanges(x, h)
           \/ \E m \in wire : ArrivesLate(m)
           \/ UNCHANGED indexVars
  BY <1>2, <1>6 DEF Claim, Start, Abort, Stop, GraphChanges, ArrivesLate, indexVars, world
<1> QED BY <1>4, <1>5, <1>6 DEF IndexNext

LEMMA ListFields ==
  ASSUME IndexInv, ListIndexedEntities
  PROVE  /\ exec.pc = "list" /\ exec'.pc = "record" /\ exec'.listed = ListIndexed
         /\ exec'.seen = exec.seen /\ exec'.proof = exec.proof
<1> DEFINE l == ListIndexed
<1>1. exec \in ExecRecord
  BY DEF IndexInv, ExecInv, ExecTypeOK
<1>2. exec.pc = "list" /\ exec' = [exec EXCEPT !.pc = "record", !.listed = l]
  BY DEF ListIndexedEntities
<1> HIDE DEF l
<1>3. exec'.listed = l /\ exec'.seen = exec.seen /\ exec'.proof = exec.proof
  BY <1>1, <1>2 DEF ExecRecord
<1>4. exec'.pc = "record"
  BY <1>1, <1>2 DEF ExecRecord
<1> QED BY <1>2, <1>3, <1>4 DEF l

LEMMA SightSteps ==
  ASSUME IndexInv, PlanInv, SightTypeOK, [IndexNext]_indexVars, NEW e \in Entities
  PROVE  Forgets \/ Remembers \/ Looks(e)
<1>1. exec \in ExecRecord
  BY DEF IndexInv, ExecInv, ExecTypeOK
<1>2. ASSUME Rests, UNCHANGED sight PROVE Forgets
  BY <1>2 DEF Rests, Resting, Forgets, LookedAt
<1>3. ASSUME UNCHANGED <<exec, held, sight>> PROVE Forgets \/ Remembers
  BY <1>3 DEF Forgets, Remembers, LookedAt
<1>4. CASE RecordAndPlan
  <2>1. UNCHANGED <<held, sight>>
    BY <1>4 DEF RecordAndPlan, RecordSnapshot, GuardedWrite, world
  <2> QED BY <1>4, <2>1, PlanFields DEF Remembers, LookedAt
<1>5. CASE Executes
  BY <1>5, ExecutesPlan, ExecutesFrame DEF Stays, Mind, Remembers, LookedAt
<1>6. CASE \E now \in Readings : Claim(now)
  BY <1>1, <1>6 DEF Claim, ExecRecord, Forgets, LookedAt, world
<1>7. CASE DimensionVerified
  BY <1>1, <1>7 DEF DimensionVerified, ExecRecord, Forgets, LookedAt, world
<1>8. CASE ListIndexedEntities
  <2>1. UNCHANGED <<held, sight>>
    BY <1>8 DEF ListIndexedEntities, stateVars, queueVars, world
  <2> QED BY <1>8, <2>1, ListFields DEF Remembers, LookedAt
<1>9. CASE \E proof \in {"partial", "complete"}, seen \in [Entities -> Content] :
             ReadGraph(proof, seen)
  BY <1>9, ReadFields
<1>10. CASE \/ DimensionMismatch \/ Finish \/ Abort \/ Stop
            \/ \E now \in Readings : Start(now)
            \/ \E A \in SUBSET Entities : CallMisanswered(A)
  BY <1>2, <1>10 DEF Rests, DimensionMismatch, Finish, Abort, Stop, Start, CallMisanswered,
     Apply, world
<1>11. CASE Step
  BY <1>4, <1>5, <1>7, <1>8, <1>9, <1>10, <1>11 DEF Step, Executes
<1>12. CASE \E now \in Readings : Requested(now)
  BY <1>3, <1>12, RequestedFrame DEF IndexInv
<1>13. CASE \/ \E x \in Entities, h \in Content : GraphChanges(x, h)
            \/ \E m \in wire : ArrivesLate(m)
            \/ UNCHANGED indexVars
  BY <1>3, <1>13 DEF GraphChanges, ArrivesLate, indexVars, stateVars, queueVars, world
<1> QED BY <1>6, <1>10, <1>11, <1>12, <1>13 DEF IndexNext

Indexed(e) == rows[e] # NoRow /\ rows[e].status = "indexed"
Committed(e) == /\ Stays /\ <<e, "upsert">> \in exec.done /\ Indexed(e)'
                /\ rows'[e].hash = exec.seen[e] /\ exec.seen[e] # NoRow
                /\ UNCHANGED world

LEMMA IndexedSteps ==
  ASSUME IndexInv, [IndexNext]_indexVars, NEW e \in Entities, Indexed(e)'
  PROVE  (Indexed(e) /\ rows'[e] = rows[e]) \/ Committed(e)
<1>1. rows \in [Entities -> Row \cup {NoRow}]
  BY DEF IndexInv, TableInv, StateTypeOK
<1>2. CASE UNCHANGED rows
  BY <1>2 DEF Indexed
<1>3. CASE rows' = [x \in Entities |-> NoRow]
  BY <1>3 DEF Indexed
<1>4. ASSUME NEW x \in Entities, NEW a \in Actions, Complete(x, a)
      PROVE  (Indexed(e) /\ rows'[e] = rows[e]) \/ Committed(e)
  <2>1. Stays /\ <<x, a>> \in exec.done
    BY <1>4, CompleteFields
  <2>2. UNCHANGED world
    BY <1>4 DEF Complete
  <2>3. CASE a = "upsert"
    <3>1. rows' = [rows EXCEPT ![x] = [status |-> "indexed", hash |-> exec.seen[x]]]
      BY <1>4, <2>3 DEF Complete, CompleteUpsert
    <3>2. CASE x = e
      <4>1. exec.seen[e] # NoRow
        BY <2>1, <2>3, <3>2 DEF IndexInv, ExecInv, SeenInv, Present
      <4> QED BY <1>1, <2>1, <2>2, <2>3, <3>1, <3>2, <4>1 DEF Committed
    <3>3. CASE x # e
      BY <1>1, <3>1, <3>3 DEF Indexed
    <3> QED BY <3>2, <3>3
  <2>4. CASE a = "delete"
    <3>1. rows'[e] = IF e = x /\ rows[e] # NoRow
                     THEN [rows[e] EXCEPT !.status = "deleted"] ELSE rows[e]
      BY <1>4, <2>4 DEF Complete, CompleteDelete
    <3>2. e = x /\ rows[e] # NoRow => rows'[e].status = "deleted"
      BY <1>1, <3>1 DEF Row
    <3> QED BY <3>1, <3>2 DEF Indexed
  <2> QED BY <2>3, <2>4 DEF Actions
<1> QED BY <1>2, <1>3, <1>4, RowsChangeByComplete

-----------------------------------------------------------------------------
(* The history of one entity.  What a run may act upon is the last reading   *)
(* of it; what a row says of it was once read; and a row that is out of touch *)
(* with its vector names a content that a later run read differently.        *)
History(e) ==
  /\ Judged(e) => exec.seen[e] = reading[e]
  /\ Indexed(e) => rows[e].hash \in past[e] \cup {reading[e]}
  /\ Indexed(e) /\ e \notin blurred /\ remote[e] # rows[e].hash => rows[e].hash \in past[e]

HistoryInv == SightTypeOK /\ \A e \in Entities : History(e)

LEMMA HistoryNext ==
  ASSUME IndexInv, PlanInv, AccountInv, PlanIsCurrent, HistoryInv, [IndexNext]_indexVars,
         NEW e \in Entities
  PROVE  History(e)'
<1>1. History(e)
  BY DEF HistoryInv
<1>2. Forgets \/ Remembers \/ Looks(e)
  BY SightSteps DEF HistoryInv
<1>3. /\ past[e] \subseteq past'[e]
      /\ reading[e] # NoRow => reading[e] \in past'[e] \cup {reading'[e]}
  BY <1>2 DEF Forgets, Remembers, Looks, sight
<1>4. Settled(e) \/ Written(e) \/ Removed(e) \/ Overtaken(e)
  BY VectorSteps
<1>5. Indexed(e)' => (Indexed(e) /\ rows'[e] = rows[e]) \/ Committed(e)
  BY IndexedSteps
<1>6. Indexed(e) => rows[e].hash # NoRow
  BY StateAssumption DEF IndexInv, TableInv, StateTypeOK, Row, Indexed
<1>7. ASSUME Executing, e \in Scope \cap Present
      PROVE  exec.seen[e] = reading[e]
  BY <1>1, <1>7 DEF History, Judged, LookedAt, Executing, Present
<1>8. ASSUME Committed(e)
      PROVE  /\ rows'[e].hash = reading'[e]
             /\ e \notin blurred' => remote'[e] = rows'[e].hash
  <2>1. /\ Executing /\ <<e, "upsert">> \in exec.done /\ rows'[e].hash = exec.seen[e]
        /\ UNCHANGED <<remote, blurred, reading>>
    BY <1>8 DEF Committed, Stays, Executing, world, outside, sight
  <2>2. <<e, "upsert">> \in Planned
    BY <2>1 DEF AccountInv, Places, Pending
  <2>3. e \in Scope \cap Present
    BY <2>1, <2>2, PlannedItem
  <2>4. e \notin blurred => remote[e] = exec.seen[e]
    BY <2>1 DEF IndexInv, ExecInv, DoneIsWritten, Actions
  <2> QED BY <1>7, <2>1, <2>3, <2>4
<1>9. (Judged(e) => exec.seen[e] = reading[e])'
  <2>1. CASE Forgets
    BY <2>1 DEF Forgets, Judged
  <2>2. CASE Remembers
    <3>1. Scope' = Scope /\ PermitsDeletion' = PermitsDeletion
      BY <2>2, SelectorKept DEF Remembers, LookedAt, PermitsDeletion
    <3> QED BY <1>1, <2>2, <3>1 DEF Remembers, Judged, History, sight
  <2>3. CASE Looks(e)
    BY <2>3 DEF Looks
  <2> QED BY <1>2, <2>1, <2>2, <2>3
<1>10. (Indexed(e) => rows[e].hash \in past[e] \cup {reading[e]})'
  <2>1. CASE Indexed(e) /\ rows'[e] = rows[e]
    BY <1>1, <1>3, <1>6, <2>1 DEF History
  <2>2. CASE Committed(e)
    BY <1>8, <2>2
  <2> QED BY <1>5, <2>1, <2>2
<1>11. (Indexed(e) /\ e \notin blurred /\ remote[e] # rows[e].hash => rows[e].hash \in past[e])'
  <2> SUFFICES ASSUME Indexed(e)', e \notin blurred', remote'[e] # rows'[e].hash
               PROVE  rows'[e].hash \in past'[e]
    OBVIOUS
  <2>1. CASE Committed(e)
    BY <1>8, <2>1
  <2>2. CASE Indexed(e) /\ rows'[e] = rows[e] /\ Settled(e)
    BY <1>1, <1>3, <2>2 DEF Settled, History
  <2>3. CASE Indexed(e) /\ rows'[e] = rows[e] /\ Written(e)
    <3>1. remote'[e] = reading[e]
      BY <1>7, <2>3 DEF Written
    <3> QED BY <1>1, <1>3, <2>3, <3>1 DEF History
  <2>4. CASE Indexed(e) /\ rows'[e] = rows[e] /\ Removed(e)
    <3>1. e \notin Present /\ PermitsDeletion /\ Executing
      BY <2>4, CalledItem DEF Removed, Calling
    <3>2. reading[e] = NoRow
      BY <1>1, <3>1 DEF History, Judged, LookedAt, Executing, Present
    <3> QED BY <1>1, <1>3, <1>6, <2>4, <3>2 DEF History
  <2>5. CASE Overtaken(e)
    BY <2>5 DEF Overtaken, ArrivesLate
  <2> QED BY <1>4, <1>5, <2>1, <2>2, <2>3, <2>4, <2>5
<1> QED BY <1>9, <1>10, <1>11 DEF History

WholeInv == /\ IndexInv /\ PlanInv /\ QuietInv /\ AccountInv /\ PlanIsCurrent /\ HistoryInv

LEMMA WholeAlways == IndexSpec => []WholeInv
<1>1. IndexInit => HistoryInv
  BY DEF IndexInit, StateInit, HistoryInv, History, SightTypeOK, Content, Judged, LookedAt,
     Indexed, Resting
<1>2. IndexInv /\ PlanInv /\ AccountInv /\ PlanIsCurrent /\ HistoryInv
        /\ [IndexNext]_indexVars => HistoryInv'
  BY HistoryNext, SightTypeNext DEF HistoryInv
<1> QED BY <1>1, <1>2, PlanIsCurrentAlways, PTL DEF WholeInv, IndexSpec

(* Between any two steps the executor's memory is well typed, it deletes and *)
(* embeds only what it planned, and from claim to finish its lease is the    *)
(* current one.                                                              *)
THEOREM ExecutorSound == IndexSpec => []ExecutorOK
<1>1. WholeInv => ExecutorOK
  <2> SUFFICES ASSUME IndexInv, PlanInv, SightTypeOK PROVE ExecutorOK
    BY DEF WholeInv, HistoryInv
  <2>1. exec \in ExecRecord
    BY DEF IndexInv, ExecInv, ExecTypeOK
  <2>2. /\ DOMAIN exec.listed \subseteq Entities
        /\ \A e \in DOMAIN exec.listed : exec.listed[e] \in Hashes
    BY <2>1 DEF ExecRecord, Listing
  <2>3. IndexTypeOK
    BY <2>1, <2>2 DEF IndexTypeOK, PlanInv, IndexInv, ExecInv, ExecTypeOK, ExecRecord, Pcs,
       SightTypeOK
  <2> QED BY <2>3 DEF ExecutorOK, IndexInv, ExecInv
<1> QED BY <1>1, WholeAlways, PTL

(* A row out of touch with its vector, because the store did a call and the  *)
(* process stopped before the commit, names a content that a later run read  *)
(* differently.                                                             *)
THEOREM StaleRowsAreSeen == IndexSpec => []StaleRowIsSuperseded
<1>1. WholeInv => StaleRowIsSuperseded
  BY DEF WholeInv, HistoryInv, History, StaleRowIsSuperseded, Indexed
<1> QED BY <1>1, WholeAlways, PTL

-----------------------------------------------------------------------------
(* What is owed to the requests.  A run that stands for a request it has not *)
(* read the graph after has no result, and is not past its read.             *)
Unread(r) == /\ run[r].status \notin {"succeeded", "partial"}
             /\ LookedAt => r # Claimed
OwedInv == \A r \in owed : Unread(r)

(* A run that is answered with is queued, so it is not the one executing.   *)
LEMMA RequestedOwed ==
  ASSUME WholeInv, OwedInv, NEW now \in Readings, Requested(now)
  PROVE  OwedInv'
<1>1. /\ UNCHANGED <<held, exec>>
      /\ \A r \in RunIds : run[r].state = "leased" => run'[r] = run[r]
  BY RequestedFrame DEF WholeInv, IndexInv
<1>2. QueueInv /\ run \in [RunIds -> RunRow] /\ owed \subseteq RunIds
  BY DEF WholeInv, IndexInv, HistoryInv, SightTypeOK, QueueInv, TypeOK
<1>3. LookedAt => Claimed \in RunIds /\ run[Claimed].state = "leased"
  BY LeasedRun DEF LookedAt, WholeInv
<1>4. LookedAt' = LookedAt /\ Claimed' = Claimed
  BY <1>1 DEF LookedAt, Claimed
<1>5. ASSUME NEW r \in owed, run'[r] = run[r] PROVE Unread(r)'
  BY <1>4, <1>5 DEF OwedInv, Unread
<1>6. ASSUME NEW r \in RunIds, run'[r].status = "queued", run[r].state # "leased"
      PROVE  Unread(r)'
  BY <1>3, <1>4, <1>6 DEF Unread
<1>7. ASSUME UNCHANGED run, owed' = owed PROVE OwedInv'
  BY <1>5, <1>7 DEF OwedInv
<1>8. ASSUME NEW id \in FreshIds, NEW sel, run' = [run EXCEPT ![id] = NewRun(sel, now)],
             owed' = owed \cup {id}
      PROVE  OwedInv'
  <2>1. id \in RunIds /\ run[id].state = "absent"
    BY DEF FreshIds, Fresh
  <2>2. Unread(id)'
    BY <1>2, <1>6, <1>8, <2>1 DEF NewRun
  <2>3. \A r \in owed : r # id => run'[r] = run[r]
    BY <1>2, <1>8
  <2> QED BY <1>5, <1>8, <2>2, <2>3 DEF OwedInv
<1>9. ASSUME NEW r \in RunIds, run[r].state = "queued", UNCHANGED run,
             owed' = owed \cup {r}
      PROVE  OwedInv'
  <2>1. run'[r].status = "queued"
    BY <1>2, <1>9 DEF QueueInv, RowConsistent, RunRow
  <2>2. Unread(r)'
    BY <1>6, <1>9, <2>1
  <2> QED BY <1>5, <1>9, <2>2 DEF OwedInv
<1>10. CASE \E k \in Keys : ResetConflict(k, now) /\ UNCHANGED owed
  BY <1>7, <1>10 DEF ResetConflict
<1>11. CASE \E k \in Keys, id \in FreshIds :
              ResetLocalIndexState(id, k, now) /\ owed' = owed \cup {id}
  BY <1>8, <1>11 DEF ResetLocalIndexState, ResetAccepted
<1>12. ASSUME NEW k \in Keys \cup {NoKey}, NEW sel \in Selectors,
              AnswerFromKey(k, now) \/ EnqueueConflict(sel, k, now), UNCHANGED owed
       PROVE  OwedInv'
  BY <1>7, <1>12 DEF AnswerFromKey, EnqueueConflict
<1>13. ASSUME NEW k \in Keys \cup {NoKey}, NEW sel \in Selectors, NEW id \in FreshIds,
              EnqueueInserted(id, sel, k, now), owed' = owed \cup {id}
       PROVE  OwedInv'
  BY <1>8, <1>13 DEF EnqueueInserted
<1>14. ASSUME NEW k \in Keys \cup {NoKey}, NEW sel \in Selectors, NEW id \in FreshIds,
              NEW r \in Oldest(QueuedFor(sel)),
              EnqueueCoalesced(id, sel, k, now), owed' = owed \cup {r}
       PROVE  OwedInv'
  <2>1. r \in RunIds /\ run[r].state = "queued"
    BY DEF Oldest, QueuedFor, InState
  <2> QED BY <1>9, <1>14, <2>1 DEF EnqueueCoalesced
<1> QED BY <1>10, <1>11, <1>12, <1>13, <1>14 DEF Requested

LEMMA OwedNext ==
  ASSUME WholeInv, OwedInv, [IndexNext]_indexVars
  PROVE  OwedInv'
<1> USE DEF WholeInv
<1>1. exec \in ExecRecord /\ run \in [RunIds -> RunRow] /\ owed \subseteq RunIds
  BY DEF IndexInv, ExecInv, ExecTypeOK, QueueInv, TypeOK, HistoryInv, SightTypeOK
<1>2. ASSUME UNCHANGED <<run, owed>>, ~LookedAt' PROVE OwedInv'
  BY <1>2 DEF OwedInv, Unread
<1>3. ASSUME UNCHANGED <<run, held, owed>>, LookedAt' => LookedAt PROVE OwedInv'
  BY <1>3 DEF OwedInv, Unread, Claimed
<1>4. Rests => ~LookedAt'
  BY DEF Rests, Resting, LookedAt
<1>5. ASSUME NEW now \in Readings, Claim(now) PROVE OwedInv'
  <2>1. ~LookedAt' /\ UNCHANGED owed
    BY <1>1, <1>5 DEF Claim, ExecRecord, LookedAt, world
  <2>2. PICK q \in RunIds :
          run' = [run EXCEPT ![q].state = "leased", ![q].status = "running",
                             ![q].owner = OwnerOf[worker],
                             ![q].epoch = run[q].epoch + 1,
                             ![q].expiresAt = now + LeaseDuration]
    BY <1>5 DEF Claim, ClaimNext, Oldest, InState
  <2>3. \A r \in RunIds : run'[r].status \in {run[r].status, "running"}
    BY <1>1, <2>2 DEF RunRow
  <2> QED BY <1>1, <2>1, <2>3 DEF OwedInv, Unread
<1>6. ASSUME NEW now \in Readings, Start(now) PROVE OwedInv'
  <2>1. ~LookedAt' /\ UNCHANGED owed
    BY <1>4, <1>6 DEF Rests, Start, world
  <2>2. \A r \in RunIds : run'[r].status \in {run[r].status, "queued"}
    BY <1>1, <1>6 DEF Start, RecoverAfterExclusiveStart, RecoverLeases, Requeued, RunRow
  <2> QED BY <1>1, <2>1, <2>2 DEF OwedInv, Unread
<1>7. CASE Abort \/ Stop \/ \E A \in SUBSET Entities : CallMisanswered(A)
  BY <1>2, <1>4, <1>7 DEF Rests, Abort, Abandon, Stop, CallMisanswered, Apply, world
<1>8. ASSUME NEW status, FinishRun(worker, status)
      PROVE  \A r \in RunIds : run'[r].status = IF r = Claimed THEN status ELSE run[r].status
  <2>1. run' = [run EXCEPT ![Claimed].state = "finished", ![Claimed].status = status,
                           ![Claimed].owner = NoOwner, ![Claimed].expiresAt = NoTime]
    BY <1>8 DEF FinishRun, Claimed
  <2> QED BY <1>1, <2>1 DEF RunRow
<1>9. CASE DimensionMismatch
  <2>1. ~LookedAt' /\ UNCHANGED owed /\ FinishRun(worker, "failed")
    BY <1>4, <1>9 DEF Rests, DimensionMismatch, world
  <2> QED BY <1>1, <1>8, <2>1 DEF OwedInv, Unread
<1>10. CASE Finish
  <2>1. ~LookedAt' /\ UNCHANGED owed /\ FinishRun(worker, Outcome) /\ LookedAt
    BY <1>4, <1>10 DEF Rests, Finish, Executing, LookedAt, world
  <2> QED BY <1>1, <1>8, <2>1 DEF OwedInv, Unread
<1>11. ASSUME NEW proof \in {"partial", "complete"}, NEW seen \in [Entities -> Content],
              ReadGraph(proof, seen)
       PROVE  OwedInv'
  BY <1>11 DEF ReadGraph, OwedInv, Unread, Claimed, stateVars, queueVars
<1>12. CASE DimensionVerified
  BY <1>1, <1>2, <1>12 DEF DimensionVerified, ExecRecord, LookedAt, world, stateVars, queueVars
<1>13. CASE ListIndexedEntities
  BY <1>3, <1>13, ListFields DEF ListIndexedEntities, LookedAt, world, stateVars, queueVars
<1>14. CASE RecordAndPlan
  BY <1>3, <1>14, PlanFields DEF RecordAndPlan, RecordSnapshot, GuardedWrite, LookedAt, world
<1>15. CASE Executes
  BY <1>3, <1>15, ExecutesPlan, ExecutesFrame DEF Stays, LookedAt
<1>16. CASE Step
  BY <1>7, <1>9, <1>10, <1>11, <1>12, <1>13, <1>14, <1>15, <1>16 DEF Step, Executes
<1>17. CASE \/ \E x \in Entities, h \in Content : GraphChanges(x, h)
            \/ \E m \in wire : ArrivesLate(m)
            \/ UNCHANGED indexVars
  BY <1>3, <1>17 DEF GraphChanges, ArrivesLate, indexVars, stateVars, queueVars, world,
     LookedAt
<1> QED BY <1>5, <1>6, <1>7, <1>16, <1>17, RequestedOwed DEF IndexNext

(* A request is answered by a scan that begins after it: a run has no result *)
(* before it read the graph after the last request it stands for, whether    *)
(* that joined it, or it was stopped, recovered and claimed again.           *)
THEOREM RequestsPrecedeResults == IndexSpec => []RequestsAreRead
<1>1. IndexInit => OwedInv
  BY DEF IndexInit, OwedInv
<1>2. WholeInv /\ OwedInv /\ [IndexNext]_indexVars => OwedInv'
  BY OwedNext
<1>3. OwedInv => RequestsAreRead
  BY DEF OwedInv, Unread, RequestsAreRead
<1> QED BY <1>1, <1>2, <1>3, WholeAlways, PTL DEF IndexSpec

-----------------------------------------------------------------------------
(* What a run listed stays as it was until the run itself has settled it,    *)
(* and what it has settled with success stays so until it ends.             *)
Succeeded(i) == i \in Handled /\ StatusOf(i) = "succeeded"
HandledStays(i) == Succeeded(i)' => Succeeded(i)

LEMMA MovesHandled ==
  ASSUME Moves, NEW i PROVE HandledStays(i)
<1>1. Planned' = Planned /\ Claimed' = Claimed
  BY DEF Moves, Stays, Mind, Planned, Claimed
<1>2. i \in Handled' => i \in Handled
  BY <1>1 DEF Moves, Handled, Planned
<1>3. i \in Handled => StatusOf(i)' = StatusOf(i)
  BY <1>1 DEF Moves, StatusOf
<1> QED BY <1>2, <1>3 DEF HandledStays, Succeeded

LEMMA SettlesHandled ==
  ASSUME IndexInv, NEW x, NEW status, Settles(x, status), NEW i, i # x \/ status = "failed"
  PROVE  HandledStays(i)
<1>1. Planned' = Planned /\ Claimed' = Claimed /\ Planned \subseteq Work
  BY PlannedFinite DEF Settles, Stays, Mind, Planned, Claimed
<1>2. i \in Handled' => i \in Handled \cup {x} /\ i \in Work
  BY <1>1 DEF Settles, Handled, Planned
<1>3. i \in Work /\ i # x => StatusOf(i)' = StatusOf(i)
  BY <1>1 DEF Settles, StatusOf
<1>4. i = x => StatusOf(i)' = status
  BY <1>1 DEF Settles, StatusOf
<1> QED BY <1>2, <1>3, <1>4 DEF HandledStays, Succeeded

LEMMA ExecutesHandled ==
  ASSUME WholeInv, IndexInv', Executes, NEW e \in Entities, NEW b \in Actions
  PROVE  HandledStays(<<e, b>>) \/ Complete(e, b)
<1> DEFINE i == <<e, b>>
<1> USE DEF WholeInv
<1>1. ASSUME NEW x \in exec.toStage, StageNextUpsert(x) PROVE HandledStays(i)
  BY <1>1, StageNextUpsertAccount, MovesHandled
<1>2. ASSUME NEW x \in exec.toDelete, StageNextDelete(x) PROVE HandledStays(i)
  BY <1>2, StageNextDeleteAccount, MovesHandled
<1>3. ASSUME NEW B \in SUBSET exec.toEmbed, EmbedChunk(B) PROVE HandledStays(i)
  BY <1>3, EmbedChunkAccount, MovesHandled
<1>4. ASSUME NEW B \in SUBSET exec.toEmbed, EmbedChunkFailed(B) PROVE HandledStays(i)
  BY <1>4, EmbedChunkFailedAccount, MovesHandled
<1>5. ASSUME NEW F \in SUBSET Entities, CallAnswered(F) PROVE HandledStays(i)
  BY <1>5, CallAnsweredAccount, MovesHandled
<1>6. ASSUME NEW A \in SUBSET Entities, NEW L \in SUBSET Entities, CallRetried(A, L)
      PROVE  HandledStays(i)
  BY <1>6, CallRetriedAccount, MovesHandled
<1>7. ASSUME NEW A \in SUBSET Entities, NEW L \in SUBSET Entities, CallFailed(A, L)
      PROVE  HandledStays(i)
  BY <1>7, CallFailedAccount, MovesHandled
<1>8. ASSUME NEW x \in Entities, NEW a \in Actions, Complete(x, a), <<x, a>> # i
      PROVE  HandledStays(i)
  <2>1. Settles(<<x, a>>, "succeeded")
    BY <1>8, CompleteAccount
  <2> QED BY <1>8, <2>1, SettlesHandled
<1>9. ASSUME NEW x \in Entities, NEW a \in Actions, Fail(x, a)
      PROVE  HandledStays(i)
  <2>1. Settles(<<x, a>>, "failed")
    BY <1>9, FailAccount
  <2> QED BY <2>1, SettlesHandled
<1>10. ASSUME NEW x \in Entities, NEW a \in Actions, Complete(x, a)
       PROVE  HandledStays(i) \/ Complete(e, b)
  BY <1>8, <1>10
<1> QED
  BY <1>1, <1>2, <1>3, <1>4, <1>5, <1>6, <1>7, <1>9, <1>10 DEF Executes

LEMMA RowsKept ==
  ASSUME IndexInv, [IndexNext]_indexVars, exec.pc \notin {"idle", "down"}
  PROVE  UNCHANGED rows \/ \E e \in Entities, a \in Actions : Complete(e, a)
<1>1. CASE Step
  BY <1>1 DEF Step, DimensionVerified, DimensionMismatch, ReadGraph, ListIndexedEntities,
     RecordAndPlan, RecordSnapshot, StageNextUpsert, StageUpsert, StageNextDelete,
     StageDelete, EmbedChunk, EmbedChunkFailed, CallAnswered, CallRetried, CallFailed,
     NoAnswer, CallMisanswered, Fail, FailWork, Finish, stateVars, tables
<1>2. CASE \E now \in Readings : Claim(now) \/ Start(now)
  BY <1>2 DEF Claim, Start, tables
<1>3. CASE \E now \in Readings : Requested(now)
  <2>1. \A now \in Readings, k \in Keys, id \in FreshIds : ~ResetLocalIndexState(id, k, now)
    BY LeasedRun DEF ResetLocalIndexState, ResetAccepted, InState
  <2> QED BY <1>3, <2>1, RequestedSteps DEF tables
<1>4. CASE Abort \/ Stop
  BY <1>4 DEF Abort, Stop, tables
<1>5. CASE \/ \E e \in Entities, h \in Content : GraphChanges(e, h)
           \/ \E m \in wire : ArrivesLate(m)
  BY <1>5 DEF GraphChanges, ArrivesLate, stateVars, tables
<1>6. CASE UNCHANGED indexVars
  BY <1>6 DEF indexVars, stateVars, tables
<1> QED BY <1>1, <1>2, <1>3, <1>4, <1>5, <1>6 DEF IndexNext

LEMMA OtherSteps ==
  ASSUME IndexInv, [IndexNext]_indexVars
  PROVE  \/ exec'.pc \in {"idle", "down", "dimension", "read", "list"}
         \/ UNCHANGED <<exec, held, work>>
         \/ ListIndexedEntities \/ RecordAndPlan \/ Executes
<1>1. exec \in ExecRecord
  BY DEF IndexInv, ExecInv, ExecTypeOK
<1>2. CASE \E now \in Readings : Claim(now)
  BY <1>1, <1>2 DEF Claim, ExecRecord
<1>3. CASE DimensionVerified
  BY <1>1, <1>3 DEF DimensionVerified, ExecRecord
<1>4. CASE \E proof \in {"partial", "complete"}, seen \in [Entities -> Content] :
             ReadGraph(proof, seen)
  <2>1. PICK proof \in {"partial", "complete"}, seen \in [Entities -> Content] :
          ReadGraph(proof, seen)
    BY <1>4
  <2>2. exec' = [exec EXCEPT !.pc = "list", !.proof = proof, !.seen = seen]
    BY <2>1 DEF ReadGraph
  <2> QED BY <1>1, <2>2 DEF ExecRecord
<1>5. CASE \/ DimensionMismatch \/ Finish \/ Abort \/ Stop
           \/ \E now \in Readings : Start(now)
           \/ \E A \in SUBSET Entities : CallMisanswered(A)
  BY <1>5 DEF Resting, DimensionMismatch, Finish, Abort, Stop, Start, CallMisanswered
<1>6. CASE Step
  BY <1>3, <1>4, <1>5, <1>6 DEF Step, Executes
<1>7. CASE \E now \in Readings : Requested(now)
  <2>1. UNCHANGED <<held, exec>>
    BY <1>7, RequestedFrame DEF IndexInv
  <2>2. UNCHANGED work
    BY <1>7, RequestedSteps DEF ResetLocalIndexState, tables
  <2> QED BY <2>1, <2>2
<1>8. CASE \/ \E e \in Entities, h \in Content : GraphChanges(e, h)
           \/ \E m \in wire : ArrivesLate(m)
           \/ UNCHANGED indexVars
  BY <1>8 DEF GraphChanges, ArrivesLate, indexVars, stateVars, queueVars, tables
<1> QED BY <1>2, <1>5, <1>6, <1>7, <1>8 DEF IndexNext

Listed(e) == exec.pc \in {"record", "execute"} /\ e \in DOMAIN exec.listed
PlannedFor(e) == \E a \in Actions : <<e, a>> \in Planned
Gone(e) == e \in blurred \/ remote[e] = NoRow

Kept(e) ==
  /\ Listed(e) => rows[e] # NoRow
  /\ Listed(e) /\ ~(Executing /\ PlannedFor(e))
       => Indexed(e) /\ rows[e].hash = exec.listed[e]
  /\ Executing /\ Succeeded(<<e, "upsert">>) => Indexed(e) /\ rows[e].hash = exec.seen[e]
  /\ Executing /\ Succeeded(<<e, "delete">>)
       => rows[e] # NoRow /\ rows[e].status = "deleted" /\ Gone(e)

LEMMA GoneStays ==
  ASSUME WholeInv, [IndexNext]_indexVars, NEW e \in Entities, Executing,
         <<e, "delete">> \in Planned, Gone(e)
  PROVE  Gone(e)'
<1>1. e \notin Present
  BY PlannedItem DEF WholeInv
<1>2. Settled(e) \/ Written(e) \/ Removed(e) \/ Overtaken(e)
  BY VectorSteps DEF WholeInv
<1> QED BY <1>1, <1>2 DEF Settled, Written, Removed, Overtaken, ArrivesLate, Gone

RowWritten(e) == /\ rows'[e] = [status |-> "indexed", hash |-> exec.seen[e]]
                 /\ e \in Present
RowDeleted(e) == /\ e \notin Present /\ e \in DOMAIN exec.listed /\ Gone(e)'
                 /\ rows[e] # NoRow => rows'[e] # NoRow /\ rows'[e].status = "deleted"

LEMMA CompletedRow ==
  ASSUME WholeInv, NEW e \in Entities, NEW a \in Actions, Complete(e, a)
  PROVE  /\ <<e, a>> \in Planned
         /\ a = "upsert" => RowWritten(e)
         /\ a = "delete" => RowDeleted(e)
<1>1. rows \in [Entities -> Row \cup {NoRow}]
  BY DEF WholeInv, IndexInv, TableInv, StateTypeOK
<1>2. <<e, a>> \in exec.done /\ Executing
  BY DEF Complete
<1>3. <<e, a>> \in Planned
  BY <1>2 DEF WholeInv, AccountInv, Places, Pending
<1>4. CASE a = "upsert"
  <2>1. rows' = [rows EXCEPT ![e] = [status |-> "indexed", hash |-> exec.seen[e]]]
    BY <1>4 DEF Complete, CompleteUpsert
  <2>2. e \in Present
    BY <1>2, <1>3, <1>4, PlannedItem DEF WholeInv
  <2> QED BY <1>1, <1>3, <1>4, <2>1, <2>2 DEF RowWritten
<1>5. CASE a = "delete"
  <2>1. rows'[e] = IF rows[e] # NoRow THEN [rows[e] EXCEPT !.status = "deleted"] ELSE rows[e]
    BY <1>5 DEF Complete, CompleteDelete
  <2>2. rows[e] # NoRow => rows'[e] # NoRow /\ rows'[e].status = "deleted"
    <3> SUFFICES ASSUME rows[e] # NoRow
                 PROVE  rows'[e] # NoRow /\ rows'[e].status = "deleted"
      OBVIOUS
    <3>1. rows[e] \in Row /\ rows'[e] = [rows[e] EXCEPT !.status = "deleted"]
      BY <1>1, <2>1
    <3>2. rows'[e] \in Row /\ rows'[e].status = "deleted"
      BY <3>1 DEF Row
    <3> QED BY <3>2, StateAssumption
  <2>3. e \notin Present /\ e \in DOMAIN exec.listed
    BY <1>2, <1>3, <1>5, PlannedItem DEF WholeInv
  <2>4. Gone(e)'
    <3>1. Gone(e)
      BY <1>2, <1>5 DEF Gone, WholeInv, IndexInv, ExecInv, DoneIsWritten
    <3>2. UNCHANGED <<remote, blurred>>
      BY DEF Complete, world, outside
    <3> QED BY <3>1, <3>2 DEF Gone
  <2> QED BY <1>3, <1>5, <2>2, <2>3, <2>4 DEF RowDeleted
<1> QED BY <1>4, <1>5 DEF Actions

LEMMA ExecutesKept ==
  ASSUME WholeInv, IndexInv', [IndexNext]_indexVars, Executes, NEW e \in Entities, Kept(e)
  PROVE  Kept(e)'
<1>1. Stays /\ Executing /\ Executing'
  BY ExecutesPlan DEF Stays, Executing, WholeInv
<1>2. /\ exec'.listed = exec.listed /\ exec'.seen = exec.seen
      /\ Planned' = Planned /\ (Listed(e)' <=> Listed(e)) /\ (PlannedFor(e)' <=> PlannedFor(e))
  BY <1>1 DEF Stays, Mind, Planned, Listed, PlannedFor
<1>3. CASE \E a \in Actions : Complete(e, a)
  <2>1. PICK a \in Actions : Complete(e, a)
    BY <1>3
  <2>2. /\ <<e, a>> \in Planned
        /\ a = "upsert" => RowWritten(e)
        /\ a = "delete" => RowDeleted(e)
    BY <2>1, CompletedRow
  <2>3. \A b \in Actions : Succeeded(<<e, b>>)' => <<e, b>> \in Planned
    BY <1>2 DEF Succeeded, Handled, Planned
  <2>4. PlannedFor(e)'
    BY <1>2, <2>2 DEF PlannedFor
  <2>5. CASE a = "upsert"
    <3>1. rows'[e] # NoRow /\ Indexed(e)' /\ rows'[e].hash = exec.seen[e]
      <4>1. exec.seen[e] \in Hashes
        BY <2>2, <2>5 DEF WholeInv, IndexInv, ExecInv, ExecTypeOK, ExecRecord, Content,
           Present, RowWritten
      <4>2. rows'[e] \in Row
        BY <2>2, <2>5, <4>1 DEF Row, RowWritten
      <4> QED BY <2>2, <2>5, <4>2, StateAssumption DEF Indexed, RowWritten
    <3>2. ~Succeeded(<<e, "delete">>)'
      BY <1>1, <2>2, <2>3, <2>5, PlannedItem DEF Actions, WholeInv, RowWritten
    <3> QED BY <1>1, <1>2, <2>4, <3>1, <3>2 DEF Kept
  <2>6. CASE a = "delete"
    <3>1. ~Succeeded(<<e, "upsert">>)'
      BY <1>1, <2>2, <2>3, <2>6, PlannedItem DEF Actions, WholeInv, RowDeleted
    <3>2. Listed(e)
      BY <1>1, <2>2, <2>6 DEF Listed, Executing, RowDeleted
    <3>3. rows'[e] # NoRow /\ rows'[e].status = "deleted" /\ Gone(e)'
      BY <2>2, <2>6, <3>2 DEF Kept, RowDeleted
    <3> QED BY <1>1, <2>4, <3>1, <3>3 DEF Kept
  <2> QED BY <2>5, <2>6 DEF Actions
<1>4. CASE ~\E a \in Actions : Complete(e, a)
  <2>1. rows'[e] = rows[e]
    <3>1. CASE UNCHANGED rows
      BY <3>1
    <3>2. ASSUME NEW x \in Entities, NEW a \in Actions, Complete(x, a)
          PROVE  rows'[e] = rows[e]
      <4>1. x # e /\ rows \in [Entities -> Row \cup {NoRow}]
        BY <1>4, <3>2 DEF WholeInv, IndexInv, TableInv, StateTypeOK
      <4>2. CASE a = "upsert"
        BY <3>2, <4>1, <4>2 DEF Complete, CompleteUpsert
      <4>3. CASE a = "delete"
        BY <3>2, <4>1, <4>3 DEF Complete, CompleteDelete
      <4> QED BY <4>2, <4>3 DEF Actions
    <3> QED BY <1>1, <3>1, <3>2, RowsKept DEF Executing, WholeInv
  <2>2. \A b \in Actions : Succeeded(<<e, b>>)' => Succeeded(<<e, b>>)
    BY <1>4, ExecutesHandled DEF HandledStays
  <2>3. Succeeded(<<e, "delete">>) => <<e, "delete">> \in Planned
    BY DEF Succeeded, Handled, Planned
  <2>4. Succeeded(<<e, "delete">>)' => Gone(e)'
    BY <1>1, <2>2, <2>3, GoneStays DEF Actions, Kept
  <2>5. Indexed(e)' <=> Indexed(e)
    BY <2>1 DEF Indexed
  <2>6. Succeeded(<<e, "upsert">>)' => Succeeded(<<e, "upsert">>)
    BY <2>2 DEF Actions
  <2>7. Succeeded(<<e, "delete">>)' => Succeeded(<<e, "delete">>)
    BY <2>2 DEF Actions
  <2> QED BY <1>1, <1>2, <2>1, <2>4, <2>5, <2>6, <2>7 DEF Kept
<1> QED BY <1>3, <1>4

LEMMA KeptNext ==
  ASSUME WholeInv, IndexInv', [IndexNext]_indexVars, NEW e \in Entities, Kept(e)
  PROVE  Kept(e)'
<1> USE DEF WholeInv
<1>1. CASE exec'.pc \in {"idle", "down", "dimension", "read", "list"}
  BY <1>1 DEF Kept, Listed, Executing
<1>2. CASE UNCHANGED <<exec, held, work>> /\ exec.pc \in {"record", "execute"}
  <2>1. ASSUME NEW x \in Entities, NEW a \in Actions, Complete(x, a) PROVE FALSE
    BY <1>2, <2>1, CompleteFields
  <2>2. UNCHANGED rows
    BY <1>2, <2>1, RowsKept
  <2>3. /\ Planned' = Planned /\ (Listed(e)' <=> Listed(e))
        /\ (PlannedFor(e)' <=> PlannedFor(e)) /\ (Indexed(e)' <=> Indexed(e))
    BY <1>2, <2>2 DEF Planned, Listed, PlannedFor, Indexed
  <2>4. \A b \in Actions : Succeeded(<<e, b>>)' <=> Succeeded(<<e, b>>)
    BY <1>2 DEF Succeeded, Handled, Pending, InCalls, StatusOf, Claimed
  <2>5. Succeeded(<<e, "delete">>) => <<e, "delete">> \in Planned
    BY DEF Succeeded, Handled, Planned
  <2>6. Executing /\ Succeeded(<<e, "delete">>) => Gone(e)'
    BY <2>5, GoneStays DEF Kept
  <2>7. Succeeded(<<e, "upsert">>)' <=> Succeeded(<<e, "upsert">>)
    BY <2>4 DEF Actions
  <2>8. Succeeded(<<e, "delete">>)' <=> Succeeded(<<e, "delete">>)
    BY <2>4 DEF Actions
  <2>9. Executing' <=> Executing
    BY <1>2 DEF Executing
  <2> QED BY <1>2, <2>2, <2>3, <2>6, <2>7, <2>8, <2>9 DEF Kept
<1>3. CASE UNCHANGED <<exec, held, work>> /\ exec.pc \notin {"record", "execute"}
  BY <1>3 DEF Kept, Listed, Executing
<1>4. CASE ListIndexedEntities
  <2>1. exec'.pc = "record" /\ exec'.listed = ListIndexed /\ UNCHANGED rows
    BY <1>4, ListFields DEF ListIndexedEntities, stateVars, tables
  <2>2. Listed(e)' => Indexed(e)' /\ rows'[e].hash = exec'.listed[e]
    BY <2>1 DEF ListIndexed, Listed, Indexed
  <2> QED BY <2>1, <2>2 DEF Kept, Executing, Indexed
<1>5. CASE RecordAndPlan
  <2>1. /\ exec.pc = "record" /\ exec'.pc = "execute" /\ exec'.listed = exec.listed
        /\ Handled' = {}
    BY <1>5, PlanFields, PlanAccount
  <2>2. UNCHANGED rows
    BY <1>5 DEF RecordAndPlan, RecordSnapshot
  <2>3. Listed(e)' => Listed(e) /\ ~Executing
    BY <2>1 DEF Listed, Executing
  <2>4. Listed(e)' => rows'[e] # NoRow /\ Indexed(e)' /\ rows'[e].hash = exec'.listed[e]
    BY <2>1, <2>2, <2>3 DEF Kept, Indexed
  <2>5. \A b \in Actions : ~Succeeded(<<e, b>>)'
    BY <2>1 DEF Succeeded
  <2> QED BY <2>4, <2>5 DEF Kept, Actions
<1>6. CASE Executes
  BY <1>6, ExecutesKept
<1> QED BY <1>1, <1>2, <1>3, <1>4, <1>5, <1>6, OtherSteps

KeptInv == \A e \in Entities : Kept(e)

LEMMA KeptAlways == IndexSpec => [](WholeInv /\ KeptInv)
<1>1. IndexInit => KeptInv
  BY DEF IndexInit, Resting, KeptInv, Kept, Listed, Executing
<1>2. WholeInv /\ WholeInv' /\ KeptInv /\ [IndexNext]_indexVars => KeptInv'
  BY KeptNext DEF KeptInv, WholeInv
<1> QED BY <1>1, <1>2, WholeAlways, PTL DEF IndexSpec

-----------------------------------------------------------------------------
(* Only the last step of an execution makes its run succeed, and only when   *)
(* nothing failed and nothing is left to do.                                *)
LEMMA SucceedsByFinish ==
  ASSUME IndexInv, [IndexNext]_indexVars, SucceedsNow
  PROVE  Finish /\ exec.failed = 0
<1>1. Claimed \in RunIds /\ run[Claimed].state = "leased" /\ exec.pc = "execute"
  BY LeasedRun DEF SucceedsNow, Executing
<1>2. run[Claimed].status = "running"
  BY <1>1 DEF IndexInv, QueueInv, RowConsistent
<1>3. exec' # exec /\ exec'.pc = "idle" /\ run' # run
  BY <1>1, <1>2 DEF SucceedsNow
<1>4. ASSUME Step PROVE Finish
  <2>1. ~Executes
    BY <1>3, ExecutesFrame
  <2>2. \A A \in SUBSET Entities : ~CallMisanswered(A)
    BY <1>3 DEF CallMisanswered, Abandon
  <2>3. /\ ~DimensionVerified /\ ~DimensionMismatch /\ ~ListIndexedEntities /\ ~RecordAndPlan
        /\ \A proof \in {"partial", "complete"}, seen \in [Entities -> Content] :
             ~ReadGraph(proof, seen)
    BY <1>1 DEF DimensionVerified, DimensionMismatch, ReadGraph, ListIndexedEntities,
       RecordAndPlan
  <2> QED BY <1>4, <2>1, <2>2, <2>3 DEF Step, Executes
<1>5. CASE \E now \in Readings : Claim(now) \/ Start(now) \/ Requested(now)
  BY <1>1, <1>3, <1>5, RequestedSteps DEF Claim, Start
<1>6. CASE Abort \/ Stop
  BY <1>3, <1>6 DEF Abort, Stop, Abandon
<1>7. CASE \/ \E e \in Entities, h \in Content : GraphChanges(e, h)
           \/ \E m \in wire : ArrivesLate(m)
           \/ UNCHANGED indexVars
  BY <1>3, <1>7 DEF GraphChanges, ArrivesLate, indexVars, stateVars, queueVars
<1>8. Finish
  BY <1>4, <1>5, <1>6, <1>7 DEF IndexNext
<1>9. run[Claimed] \in RunRow
  BY <1>1 DEF IndexInv, QueueInv, TypeOK
<1>10. run'[Claimed].status = Outcome
  BY <1>1, <1>8, <1>9 DEF Finish, FinishRun, Claimed, RunRow, IndexInv, QueueInv, TypeOK
<1>11. exec.failed = 0
  BY <1>10 DEF SucceedsNow, Outcome
<1> QED BY <1>8, <1>11

(* Then every planned item has been recorded as succeeded.                   *)
LEMMA AllSucceeded ==
  ASSUME WholeInv, Finish, exec.failed = 0, NEW i \in Planned
  PROVE  Succeeded(i)
<1>1. Places /\ Books
  BY DEF WholeInv, AccountInv, Finish
<1>2. Pending = {}
  BY DEF Finish, Unsettled, Pending, InCalls
<1>3. i \in Handled
  BY <1>2 DEF Handled, Planned
<1>4. Recorded("failed") = {}
  <2>1. IsFiniteSet(Recorded("failed"))
    BY PlannedFinite, FS_Subset DEF WholeInv, Recorded, Handled, Planned
  <2> QED BY <1>1, <2>1, FS_EmptySet DEF Books
<1> QED BY <1>1, <1>3, <1>4 DEF Books, Recorded, Succeeded

LEMMA FinishConverges ==
  ASSUME WholeInv, KeptInv, [IndexNext]_indexVars, SucceedsNow,
         NEW e \in Entities \ blurred
  PROVE  /\ (e \in Scope \cap Present /\ exec.seen[e] \notin past[e]) =>
              /\ remote[e] = exec.seen[e]
              /\ rows[e] = [status |-> "indexed", hash |-> exec.seen[e]]
         /\ (e \in (DOMAIN exec.listed) \ Present /\ PermitsDeletion) =>
              /\ remote[e] = NoRow
              /\ rows[e].status = "deleted"
<1>1. Finish /\ exec.failed = 0 /\ Executing
  BY SucceedsByFinish DEF WholeInv, SucceedsNow
<1>2. \A i \in Planned : Succeeded(i)
  BY <1>1, AllSucceeded
<1>3. Planned = (Plan.upsert \X {"upsert"}) \cup (Plan.delete \X {"delete"})
  BY <1>1 DEF WholeInv, PlanIsCurrent, Planned
<1>4. Kept(e) /\ History(e)
  BY DEF KeptInv, WholeInv, HistoryInv
<1>5. rows \in [Entities -> Row \cup {NoRow}]
  BY DEF WholeInv, IndexInv, TableInv, StateTypeOK
<1>6. ASSUME e \in Scope \cap Present, exec.seen[e] \notin past[e]
      PROVE  /\ remote[e] = exec.seen[e]
             /\ rows[e] = [status |-> "indexed", hash |-> exec.seen[e]]
  <2>1. Indexed(e) /\ rows[e].hash = exec.seen[e]
    <3>1. CASE e \in Unchanged
      <4>1. e \in DOMAIN exec.listed /\ exec.listed[e] = exec.seen[e] /\ Listed(e)
        BY <1>1, <3>1 DEF Unchanged, Listed, Executing
      <4>2. ~PlannedFor(e)
        BY <1>3, <1>6, <3>1 DEF PlannedFor, Plan
      <4> QED BY <1>4, <4>1, <4>2 DEF Kept
    <3>2. CASE e \notin Unchanged
      <4>1. <<e, "upsert">> \in Planned
        BY <1>3, <1>6, <3>2 DEF Plan
      <4> QED BY <1>1, <1>2, <1>4, <4>1 DEF Kept
    <3> QED BY <3>1, <3>2
  <2>2. remote[e] = exec.seen[e]
    BY <1>4, <1>6, <2>1 DEF History
  <2>3. rows[e] \in Row
    BY <1>5, <2>1 DEF Indexed
  <2> QED BY <2>1, <2>2, <2>3 DEF Indexed, Row
<1>7. ASSUME e \in (DOMAIN exec.listed) \ Present, PermitsDeletion
      PROVE  remote[e] = NoRow /\ rows[e].status = "deleted"
  <2>1. <<e, "delete">> \in Planned
    BY <1>3, <1>7 DEF Plan
  <2> QED BY <1>1, <1>2, <1>4, <2>1 DEF Kept, Gone
<1> QED BY <1>6, <1>7

(* Whatever stopped half-way before, in this run or in an earlier claim of   *)
(* it: when a run succeeds, every entity it covers has the vector of the     *)
(* content the run saw, and what it listed but did not see is gone.         *)
THEOREM SuccessMeansConverged == IndexSpec => SuccessConverges
<1>1. WholeInv /\ KeptInv /\ [IndexNext]_indexVars =>
        [SucceedsNow => \A e \in Entities \ blurred :
           /\ (e \in Scope \cap Present /\ exec.seen[e] \notin past[e]) =>
                /\ remote[e] = exec.seen[e]
                /\ rows[e] = [status |-> "indexed", hash |-> exec.seen[e]]
           /\ (e \in (DOMAIN exec.listed) \ Present /\ PermitsDeletion) =>
                /\ remote[e] = NoRow
                /\ rows[e].status = "deleted"]_indexVars
  BY FinishConverges
<1> QED BY <1>1, KeptAlways, PTL DEF SuccessConverges, IndexSpec

-----------------------------------------------------------------------------
(* Deletions leave a trace.  An audit row, once written, stays, and so does   *)
(* the selector of its run; a deletion is staged before it is called, and a  *)
(* request that is still under way was called by a run that may delete.     *)
Audited(e) == \E r \in RunIds : run[r].selector = Full /\ audit[<<r, e>>] # "none"

CallsAudited ==
  \A e \in Entities :
    <<e, "delete">> \in CallItems(exec.calls) => audit[<<Claimed, e>>] # "none"

WireAudited ==
  \A m \in wire : /\ m.op = "upsert" => m.hash # NoRow
                  /\ m.op = "delete" => Audited(m.entity)

LEMMA AuditStays ==
  ASSUME IndexInv, [IndexNext]_indexVars, NEW r \in RunIds, NEW e \in Entities,
         audit[<<r, e>>] # "none"
  PROVE  audit'[<<r, e>>] # "none" /\ run'[r].selector = run[r].selector
<1>1. /\ audit \in [RunIds \X Entities -> {"none", "pending", "deleted", "failed"}]
      /\ <<r, e>> \in RunIds \X Entities
  BY DEF IndexInv, TableInv, StateTypeOK
<1>2. [StateNext]_stateVars /\ [Next]_queueVars
  BY IndexStepIsStateStep, StateStepIsQueueStep
<1>3. run'[r].selector = run[r].selector
  <2>1. run[r].state # "absent"
    BY DEF IndexInv, TableInv, AuditMatchesWork, WorkHasRun
  <2> QED BY <1>2, <2>1, SelectorIsFixed DEF IndexInv
<1>4. CASE UNCHANGED audit
  BY <1>3, <1>4
<1>5. ASSUME NEW w \in Workers, NEW x \in Entities,
             StageDelete(w, x) \/ CompleteDelete(w, x) \/ FailWork(w, x, "delete")
      PROVE  audit'[<<r, e>>] # "none"
  <2> DEFINE i == <<held[w].run, x>>
  <2>1. \E v \in {"pending", "deleted", "failed"} :
          audit' = [audit EXCEPT ![i] = IF audit[i] = "none" THEN v ELSE audit[i]]
            \/ audit' = [audit EXCEPT ![i] = v]
    BY <1>5 DEF StageDelete, CompleteDelete, FailWork
  <2> HIDE DEF i
  <2> QED BY <1>1, <2>1
<1>6. CASE \E w \in Workers : GuardedStep(w)
  <2>1. PICK w \in Workers : GuardedStep(w)
    BY <1>6
  <2>2. \/ UNCHANGED audit
        \/ \E x \in Entities : StageDelete(w, x) \/ CompleteDelete(w, x)
                               \/ FailWork(w, x, "delete")
    BY <2>1 DEF GuardedStep, RecordSnapshot, StageUpsert, CompleteUpsert, FailWork, Actions
  <2> QED BY <1>3, <1>4, <1>5, <2>2
<1>7. CASE QueueStep /\ UNCHANGED tables
  BY <1>4, <1>7 DEF tables
<1>8. CASE \E now \in Readings, k \in Keys, id \in FreshIds : ResetLocalIndexState(id, k, now)
  BY <1>4, <1>8 DEF ResetLocalIndexState
<1>9. CASE UNCHANGED stateVars
  BY <1>4, <1>9 DEF stateVars, tables
<1> QED BY <1>2, <1>6, <1>7, <1>8, <1>9 DEF StateNext

LEMMA AuditedStays ==
  ASSUME IndexInv, [IndexNext]_indexVars, NEW e \in Entities, Audited(e)
  PROVE  Audited(e)'
BY AuditStays DEF Audited

(* A delete that is called in the next state was called before or has just   *)
(* been staged.                                                             *)
LEMMA DeleteCalls ==
  ASSUME IndexInv, Executes, NEW e \in Entities,
         <<e, "delete">> \in CallItems(exec'.calls)
  PROVE  <<e, "delete">> \in CallItems(exec.calls) \/ StageNextDelete(e)
<1>1. ASSUME NEW x \in exec.toStage, StageNextUpsert(x)
      PROVE  <<e, "delete">> \in CallItems(exec.calls)
  BY <1>1, StageNextUpsertFields DEF Under
<1>2. ASSUME NEW x \in exec.toDelete, StageNextDelete(x)
      PROVE  StageNextDelete(e)
  <2> DEFINE c == [op |-> "delete", batch |-> {x}]
  <2>1. exec'.calls = <<c>> /\ c \in Call /\ ItemsOf(c) = {<<x, "delete">>}
    BY <1>2, StageNextDeleteFields, ExecTypes DEF Call, Actions, ItemsOf
  <2> HIDE DEF c
  <2>2. CallItems(exec'.calls) = {<<x, "delete">>}
    BY <2>1, OneItem
  <2>3. x = e
    BY <2>2
  <2> QED BY <1>2, <2>3
<1>3. ASSUME NEW B \in SUBSET exec.toEmbed, EmbedChunk(B)
      PROVE  FALSE
  <2> DEFINE c == [op |-> "upsert", batch |-> B]
  <2>1. exec'.calls = <<c>> /\ c \in Call /\ ItemsOf(c) = B \X {"upsert"}
    BY <1>3, EmbedChunkFields, ExecTypes DEF Call, Actions, ItemsOf
  <2> HIDE DEF c
  <2>2. CallItems(exec'.calls) = B \X {"upsert"}
    BY <2>1, OneItem
  <2> QED BY <2>2
<1>4. ASSUME NEW B \in SUBSET exec.toEmbed, EmbedChunkFailed(B)
      PROVE  <<e, "delete">> \in CallItems(exec.calls)
  BY <1>4, EmbedChunkFailedFields
<1>5. ASSUME NEW F \in SUBSET Entities, CallAnswered(F)
      PROVE  <<e, "delete">> \in CallItems(exec.calls)
  <2>1. PICK again \in IF Cardinality(F) < 2 THEN {<<>>} ELSE Halves(F) :
           exec'.calls = again \o Tail(exec.calls)
    BY <1>5, CallAnsweredFields
  <2>2. Calling
    BY <1>5 DEF CallAnswered
  <2>3. /\ CallItems(exec.calls) = (batch \X {op}) \cup CallItems(Tail(exec.calls))
        /\ Tail(exec.calls) \in Seq(Call)
    BY <2>2, HeadItems
  <2>4. IsFiniteSet(F)
    BY IndexAssumption, FS_Subset
  <2>5. again \in Seq(Call)
        /\ CallItems(again) = IF Cardinality(F) < 2 THEN {} ELSE F \X {"upsert"}
    BY <2>1, <2>4, ItemsAgain
  <2>6. CallItems(again \o Tail(exec.calls)) = CallItems(again) \cup CallItems(Tail(exec.calls))
    BY <2>3, <2>5, ItemsConcat
  <2>7. <<e, "delete">> \notin CallItems(again)
    BY <2>5
  <2> QED BY <2>1, <2>3, <2>6, <2>7
<1>6. ASSUME NEW A \in SUBSET Entities, NEW L \in SUBSET Entities, CallRetried(A, L)
      PROVE  <<e, "delete">> \in CallItems(exec.calls)
  BY <1>6, CallRetriedFields
<1>7. ASSUME NEW A \in SUBSET Entities, NEW L \in SUBSET Entities, CallFailed(A, L)
      PROVE  <<e, "delete">> \in CallItems(exec.calls)
  BY <1>7, CallFailedFields, HeadItems
<1>8. ASSUME NEW x \in Entities, NEW a \in Actions, Complete(x, a) \/ Fail(x, a)
      PROVE  <<e, "delete">> \in CallItems(exec.calls)
  BY <1>8, CompleteFields, FailFields
<1> QED BY <1>1, <1>2, <1>3, <1>4, <1>5, <1>6, <1>7, <1>8 DEF Executes

LEMMA CallsAuditedNext ==
  ASSUME WholeInv, CallsAudited, [IndexNext]_indexVars
  PROVE  CallsAudited'
<1> USE DEF WholeInv
<1> SUFFICES ASSUME NEW e \in Entities, <<e, "delete">> \in CallItems(exec'.calls)
             PROVE  audit'[<<Claimed', e>>] # "none"
  BY DEF CallsAudited
<1>1. exec'.calls # <<>>
  BY NoItems
<1>2. ASSUME exec'.calls = exec.calls, UNCHANGED held
      PROVE  audit'[<<Claimed', e>>] # "none"
  <2>1. exec.pc = "execute"
    BY <1>1, <1>2 DEF QuietInv
  <2>2. Claimed \in RunIds /\ Claimed' = Claimed
    BY <1>2, <2>1, LeasedRun DEF Claimed
  <2>3. audit[<<Claimed, e>>] # "none"
    BY <1>2 DEF CallsAudited
  <2> QED BY <2>2, <2>3, AuditStays
<1>3. CASE Rests
  BY <1>1, <1>3 DEF Rests, Resting
<1>4. CASE UNCHANGED <<exec, held, work>>
  BY <1>2, <1>4
<1>5. CASE Prepares \/ RecordAndPlan
  BY <1>1, <1>5, PlanFields DEF Prepares, Under, QuietInv
<1>6. CASE Executes
  <2>1. Executing /\ UNCHANGED <<run, held>> /\ Claimed \in RunIds /\ Claimed' = Claimed
    BY <1>6, ExecutesPlan, ExecutesFrame, LeasedRun DEF Stays, Executing, Claimed
  <2>2. CASE <<e, "delete">> \in CallItems(exec.calls)
    BY <2>1, <2>2, AuditStays DEF CallsAudited
  <2>3. CASE StageNextDelete(e)
    <3>1. audit' = [audit EXCEPT ![<<Claimed, e>>] = IF audit[<<Claimed, e>>] = "none"
                                                    THEN "pending" ELSE audit[<<Claimed, e>>]]
      BY <2>3 DEF StageNextDelete, StageDelete, Claimed
    <3>2. /\ audit \in [RunIds \X Entities -> {"none", "pending", "deleted", "failed"}]
          /\ <<Claimed, e>> \in RunIds \X Entities
      BY <2>1 DEF IndexInv, TableInv, StateTypeOK
    <3> QED BY <2>1, <3>1, <3>2
  <2> QED BY <1>6, <2>2, <2>3, DeleteCalls
<1> QED BY <1>3, <1>4, <1>5, <1>6, ExecSteps

(* A deletion under way belongs to a full run and is audited.                *)
LEMMA CalledIsAudited ==
  ASSUME WholeInv, CallsAudited, Calling, op = "delete", NEW e \in batch
  PROVE  Audited(e)
<1>1. e \in Entities /\ PermitsDeletion
  BY CalledItem DEF WholeInv
<1>2. Claimed \in RunIds
  BY LeasedRun DEF WholeInv, Calling, Executing
<1>3. <<e, "delete">> \in CallItems(exec.calls)
  BY HeadItems DEF WholeInv
<1> QED BY <1>1, <1>2, <1>3 DEF CallsAudited, PermitsDeletion, Audited

LEMMA WireAuditedNext ==
  ASSUME WholeInv, CallsAudited, WireAudited, [IndexNext]_indexVars
  PROVE  WireAudited'
<1>1. wire \subseteq Request
  BY DEF WholeInv, IndexInv, ExecInv, ExecTypeOK
<1>2. ASSUME NEW m \in wire
      PROVE  /\ m.op = "upsert" => m.hash # NoRow
             /\ m.op = "delete" => Audited(m.entity)'
  BY <1>1, <1>2, AuditedStays DEF WireAudited, WholeInv, Request
<1>3. CASE wire' \subseteq wire
  BY <1>2, <1>3 DEF WireAudited
<1>4. ASSUME NEW A \in SUBSET Entities, NEW L \in SUBSET Entities, NoAnswer(A, L)
      PROVE  WireAudited'
  <2>1. /\ Calling /\ L \subseteq batch
        /\ wire' = wire \cup {[op |-> op, entity |-> e, hash |-> exec.seen[e]] : e \in L}
    BY <1>4 DEF NoAnswer
  <2>2. ASSUME NEW e \in L
        PROVE  /\ op = "upsert" => exec.seen[e] # NoRow
               /\ op = "delete" => Audited(e)'
    <3>1. e \in batch /\ e \in Entities
      BY <2>1, <2>2
    <3>2. op = "upsert" => exec.seen[e] # NoRow
      BY <2>1, <3>1, CalledItem DEF WholeInv, Present
    <3>3. op = "delete" => Audited(e)'
      BY <2>1, <3>1, CalledIsAudited, AuditedStays DEF WholeInv
    <3> QED BY <3>2, <3>3
  <2>3. ASSUME NEW m \in wire', m \notin wire
        PROVE  /\ m.op = "upsert" => m.hash # NoRow
               /\ m.op = "delete" => Audited(m.entity)'
    <3>1. PICK e \in L : m = [op |-> op, entity |-> e, hash |-> exec.seen[e]]
      BY <2>1, <2>3
    <3>2. m.op = op /\ m.entity = e /\ m.hash = exec.seen[e]
      BY <3>1
    <3> QED BY <2>2, <3>2
  <2> QED BY <1>2, <2>3 DEF WireAudited
<1>5. CASE Step
  BY <1>3, <1>4, <1>5 DEF Step, DimensionVerified, DimensionMismatch, ReadGraph,
     ListIndexedEntities, RecordAndPlan, StageNextUpsert, StageNextDelete, EmbedChunk,
     EmbedChunkFailed, CallAnswered, CallRetried, CallFailed, CallMisanswered,
     Complete, Fail, Finish, world, outside
<1>6. CASE \E now \in Readings : Claim(now) \/ Start(now) \/ Requested(now)
  BY <1>3, <1>6, RequestedSteps DEF Claim, Start, world, outside
<1>7. CASE Abort \/ Stop
  BY <1>3, <1>7 DEF Abort, Stop, world, outside
<1>8. CASE \/ \E e \in Entities, h \in Content : GraphChanges(e, h)
           \/ \E m \in wire : ArrivesLate(m)
           \/ UNCHANGED indexVars
  BY <1>3, <1>8 DEF GraphChanges, ArrivesLate, indexVars, world, outside
<1> QED BY <1>5, <1>6, <1>7, <1>8 DEF IndexNext

LEMMA TraceAlways == IndexSpec => [](WholeInv /\ CallsAudited /\ WireAudited)
<1>1. IndexInit => CallsAudited /\ WireAudited
  BY NoItems DEF IndexInit, Resting, CallsAudited, WireAudited
<1>2. WholeInv /\ CallsAudited /\ WireAudited /\ [IndexNext]_indexVars
        => CallsAudited' /\ WireAudited'
  BY CallsAuditedNext, WireAuditedNext
<1> QED BY <1>1, <1>2, WholeAlways, PTL DEF IndexSpec

(* An audited deletion was staged under a recorded snapshot.                *)
LEMMA AuditedHasSnapshot ==
  ASSUME IndexInv, NEW e \in Entities, Audited(e)
  PROVE  \E r \in RunIds : /\ run[r].selector = Full /\ snapshot[r] # "none"
                           /\ audit[<<r, e>>] # "none"
<1>1. PICK r \in RunIds : run[r].selector = Full /\ audit[<<r, e>>] # "none"
  BY DEF Audited
<1>2. work[<<r, e, "delete">>] # NoRow
  BY <1>1 DEF IndexInv, TableInv, AuditMatchesWork
<1>3. snapshot[r] # "none"
  BY <1>2 DEF IndexInv, TableInv, DeletionIsFull
<1> QED BY <1>1, <1>3

LEMMA RemovalHasTrace ==
  ASSUME WholeInv, CallsAudited, WireAudited, [IndexNext]_indexVars, NEW e \in Entities,
         remote[e] # NoRow, remote'[e] = NoRow
  PROVE  Audited(e) /\ (e \notin blurred' => exec.seen[e] = NoRow /\ exec.proof = "complete")
<1>1. Settled(e) \/ Written(e) \/ Removed(e) \/ Overtaken(e)
  BY VectorSteps DEF WholeInv
<1>2. CASE Settled(e) \/ Written(e)
  BY <1>2 DEF Settled, Written, Present
<1>3. CASE Removed(e)
  <2>1. e \notin Present /\ PermitsDeletion
    BY <1>3, CalledItem DEF Removed, WholeInv
  <2> QED BY <1>3, <2>1, CalledIsAudited DEF Removed, Present, PermitsDeletion
<1>4. CASE Overtaken(e)
  <2>1. PICK m \in wire : ArrivesLate(m) /\ m.entity = e
    BY <1>4 DEF Overtaken
  <2>2. m.op \in Actions /\ remote \in [Entities -> Content]
    BY DEF WholeInv, IndexInv, ExecInv, ExecTypeOK, Request
  <2>3. remote'[e] = (IF m.op = "upsert" THEN m.hash ELSE NoRow) /\ e \in blurred'
    BY <2>1, <2>2 DEF ArrivesLate
  <2> QED BY <2>1, <2>2, <2>3 DEF WireAudited, Actions
<1> QED BY <1>1, <1>2, <1>3, <1>4

(* No vector disappears without a trace: some full run that recorded a       *)
(* snapshot staged its deletion, and unless a request arrived late the       *)
(* executing run has proof that the graph no longer has the entity.          *)
THEOREM RemovalsLeaveTrace == IndexSpec => RemovalIsAudited
<1>1. WholeInv /\ CallsAudited /\ WireAudited /\ [IndexNext]_indexVars =>
        [\A e \in Entities : (remote[e] # NoRow /\ remote'[e] = NoRow) =>
           /\ \E r \in RunIds : /\ run[r].selector = Full /\ snapshot[r] # "none"
                                /\ audit[<<r, e>>] # "none"
           /\ e \notin blurred' => exec.seen[e] = NoRow /\ exec.proof = "complete"]_indexVars
  BY RemovalHasTrace, AuditedHasSnapshot DEF WholeInv
<1> QED BY <1>1, TraceAlways, PTL DEF RemovalIsAudited, IndexSpec

-----------------------------------------------------------------------------
(* Every call takes something with it.                                      *)
NoneEmpty(s) == \A i \in 1..Len(s) : s[i].batch # {}
CallsNotEmpty == NoneEmpty(exec.calls)

Fewer(T, S) == Cardinality(T) < Cardinality(S)

LEMMA StrictlyFewer ==
  ASSUME NEW S, IsFiniteSet(S), NEW T \in SUBSET S, T # S
  PROVE  Fewer(T, S)
<1>1. Cardinality(T) \in Nat /\ Cardinality(S) \in Nat
  BY FS_Subset, FS_CardinalityType
<1>2. Cardinality(T) <= Cardinality(S) /\ Cardinality(T) # Cardinality(S)
  BY FS_Subset
<1> QED
  BY <1>1, <1>2 DEF Fewer

(* Both halves of a batch hold something, and the first less than the batch. *)
LEMMA HalvesAreLess ==
  ASSUME NEW F \in SUBSET Entities, ~(Cardinality(F) < 2), NEW again \in Halves(F)
  PROVE  /\ again \in Seq(Call) /\ again # <<>> /\ NoneEmpty(again)
         /\ Cardinality(Head(again).batch) < Cardinality(F)
<1>1. PICK L \in SUBSET F :
        /\ Cardinality(L) = Cardinality(F) \div 2
        /\ again = <<[op |-> "upsert", batch |-> L], [op |-> "upsert", batch |-> F \ L]>>
  BY DEF Halves
<1>2. IsFiniteSet(F) /\ Cardinality(F) \in Nat
  BY IndexAssumption, FS_Subset, FS_CardinalityType
<1>3. Cardinality(L) # 0 /\ Cardinality(L) < Cardinality(F)
  BY <1>1, <1>2
<1>4. L # {} /\ F \ L # {}
  <2>1. L # {}
    BY <1>3, FS_EmptySet
  <2>2. L # F
    BY <1>2, <1>3
  <2> QED
    BY <2>1, <2>2
<1> DEFINE c == [op |-> "upsert", batch |-> L]
           d == [op |-> "upsert", batch |-> F \ L]
<1>5. c \in Call /\ d \in Call /\ c.batch = L /\ d.batch = F \ L
  BY DEF Call, Actions
<1>6. again = <<c, d>>
  BY <1>1
<1> HIDE DEF c, d
<1>7. again \in Seq(Call) /\ again # <<>> /\ Len(again) = 2 /\ again[1] = c /\ again[2] = d
  BY <1>5, <1>6
<1>8. Head(again) = c /\ 1..Len(again) = {1, 2}
  BY <1>7
<1>9. NoneEmpty(again)
  BY <1>4, <1>5, <1>7, <1>8 DEF NoneEmpty
<1> QED
  BY <1>3, <1>5, <1>7, <1>8, <1>9

LEMMA NoneEmptyTail ==
  ASSUME NEW s \in Seq(Call), s # <<>>, NoneEmpty(s)
  PROVE  NoneEmpty(Tail(s)) /\ Head(s).batch # {}
<1>1. Head(s) = s[1] /\ 1 \in 1..Len(s)
  OBVIOUS
<1>2. \A i \in 1..Len(Tail(s)) : i + 1 \in 1..Len(s) /\ Tail(s)[i] = s[i + 1]
  OBVIOUS
<1> QED
  BY <1>1, <1>2 DEF NoneEmpty

LEMMA NoneEmptyConcat ==
  ASSUME NEW s \in Seq(Call), NEW t \in Seq(Call), NoneEmpty(s), NoneEmpty(t)
  PROVE  NoneEmpty(s \o t)
<1> SUFFICES ASSUME NEW i \in 1..Len(s \o t)
             PROVE  (s \o t)[i].batch # {}
  BY DEF NoneEmpty
<1>1. Len(s) \in Nat /\ Len(t) \in Nat /\ Len(s \o t) = Len(s) + Len(t)
  OBVIOUS
<1>2. CASE i \in 1..Len(s)
  <2>1. (s \o t)[i] = s[i]
    BY <1>2
  <2> QED
    BY <1>2, <2>1 DEF NoneEmpty
<1>3. CASE i \notin 1..Len(s)
  <2>1. i - Len(s) \in 1..Len(t) /\ (s \o t)[i] = t[i - Len(s)]
    BY <1>1, <1>3
  <2> QED
    BY <2>1 DEF NoneEmpty
<1> QED
  BY <1>2, <1>3

LEMMA OneNotEmpty ==
  ASSUME NEW c, c.batch # {}
  PROVE  NoneEmpty(<<c>>)
<1>1. Len(<<c>>) = 1 /\ <<c>>[1] = c /\ 1..1 = {1}
  OBVIOUS
<1> QED
  BY <1>1 DEF NoneEmpty

LEMMA CallsNotEmptyNext ==
  ASSUME IndexInv, QuietInv, CallsNotEmpty, [IndexNext]_indexVars
  PROVE  CallsNotEmpty'
<1> SUFFICES NoneEmpty(exec'.calls)
  BY DEF CallsNotEmpty, NoneEmpty
<1>0. NoneEmpty(<<>>) /\ NoneEmpty(exec.calls)
  BY DEF CallsNotEmpty, NoneEmpty
<1>1. CASE Rests
  BY <1>0, <1>1 DEF Rests, Resting
<1>2. CASE UNCHANGED <<exec, held, work>>
  BY <1>0, <1>2
<1>3. CASE Prepares
  BY <1>0, <1>3 DEF Prepares, Under
<1>4. CASE RecordAndPlan
  BY <1>0, <1>4, PlanFields DEF Under
<1>5. CASE Executes
  <2>1. ASSUME NEW e \in exec.toStage, StageNextUpsert(e)
        PROVE  NoneEmpty(exec'.calls)
    BY <1>0, <2>1, StageNextUpsertFields DEF Under
  <2>2. ASSUME NEW e \in exec.toDelete, StageNextDelete(e)
        PROVE  NoneEmpty(exec'.calls)
    BY <2>2, StageNextDeleteFields, OneNotEmpty
  <2>3. ASSUME NEW B \in SUBSET exec.toEmbed, EmbedChunk(B)
        PROVE  NoneEmpty(exec'.calls)
    <3> DEFINE c == [op |-> "upsert", batch |-> B]
    <3>1. c.batch # {}
      BY <2>3 DEF EmbedChunk, Chunk
    <3>2. exec'.calls = <<c>>
      BY <2>3, EmbedChunkFields
    <3> HIDE DEF c
    <3> QED
      BY <3>1, <3>2, OneNotEmpty
  <2>4. ASSUME NEW B \in SUBSET exec.toEmbed, EmbedChunkFailed(B)
        PROVE  NoneEmpty(exec'.calls)
    BY <1>0, <2>4, EmbedChunkFailedFields
  <2>5. ASSUME NEW F \in SUBSET Entities, CallAnswered(F)
        PROVE  NoneEmpty(exec'.calls)
    <3>1. PICK again \in IF Cardinality(F) < 2 THEN {<<>>} ELSE Halves(F) :
             exec'.calls = again \o Tail(exec.calls)
      BY <2>5, CallAnsweredFields
    <3>2. exec.calls \in Seq(Call) /\ exec.calls # <<>>
      BY <2>5, CallAnsweredFields, ExecTypes
    <3>3. Tail(exec.calls) \in Seq(Call) /\ NoneEmpty(Tail(exec.calls))
      BY <1>0, <3>2, NoneEmptyTail
    <3>4. again \in Seq(Call) /\ NoneEmpty(again)
      <4>1. CASE Cardinality(F) < 2
        BY <1>0, <3>1, <4>1
      <4>2. CASE ~(Cardinality(F) < 2)
        BY <3>1, <4>2, HalvesAreLess
      <4> QED
        BY <4>1, <4>2
    <3> QED
      BY <3>1, <3>3, <3>4, NoneEmptyConcat
  <2>6. ASSUME NEW A \in SUBSET Entities, NEW L \in SUBSET Entities, CallRetried(A, L)
        PROVE  NoneEmpty(exec'.calls)
    BY <1>0, <2>6, CallRetriedFields
  <2>7. ASSUME NEW A \in SUBSET Entities, NEW L \in SUBSET Entities, CallFailed(A, L)
        PROVE  NoneEmpty(exec'.calls)
    <3>1. exec.calls \in Seq(Call) /\ exec.calls # <<>> /\ exec'.calls = Tail(exec.calls)
      BY <2>7, CallFailedFields, ExecTypes
    <3> QED
      BY <1>0, <3>1, NoneEmptyTail
  <2>8. ASSUME NEW e \in Entities, NEW a \in Actions, Complete(e, a) \/ Fail(e, a)
        PROVE  NoneEmpty(exec'.calls)
    BY <1>0, <2>8, CompleteFields, FailFields
  <2> QED
    BY <1>5, <2>1, <2>2, <2>3, <2>4, <2>5, <2>6, <2>7, <2>8 DEF Executes
<1> QED
  BY <1>1, <1>2, <1>3, <1>4, <1>5, ExecSteps

CountedInv == IndexInv /\ PlanInv /\ QuietInv /\ AccountInv /\ CallsNotEmpty

LEMMA CountedAlways == IndexSpec => []CountedInv
<1>1. IndexInit => CallsNotEmpty
  BY DEF IndexInit, Resting, CallsNotEmpty, NoneEmpty
<1>2. IndexInv /\ QuietInv /\ CallsNotEmpty /\ [IndexNext]_indexVars => CallsNotEmpty'
  BY CallsNotEmptyNext
<1> QED
  BY <1>1, <1>2, AccountAlways, PTL DEF IndexSpec, CountedInv

-----------------------------------------------------------------------------
(* The measure, one component at a time.                                    *)
Phase == PhasesLeft[exec.pc]
HeadSize == IF exec.calls = <<>> THEN 0 ELSE Cardinality(batch)

LEMMA LessByComponent ==
  ASSUME NEW a1, NEW a2, NEW a3, NEW a4, NEW a5, NEW a6, NEW a7, NEW a8, NEW a9,
         NEW b1, NEW b2, NEW b3, NEW b4, NEW b5, NEW b6, NEW b7, NEW b8, NEW b9
  PROVE  LET less == LessRemains(<<b1, b2, b3, b4, b5, b6, b7, b8, b9>>,
                                 <<a1, a2, a3, a4, a5, a6, a7, a8, a9>>)
         IN  /\ b1 < a1 => less
             /\ b1 = a1 /\ b2 < a2 => less
             /\ b1 = a1 /\ b2 = a2 /\ b3 < a3 => less
             /\ b1 = a1 /\ b2 = a2 /\ b3 = a3 /\ b4 < a4 => less
             /\ b1 = a1 /\ b2 = a2 /\ b3 = a3 /\ b4 = a4 /\ b5 < a5 => less
             /\ b1 = a1 /\ b2 = a2 /\ b3 = a3 /\ b4 = a4 /\ b5 = a5 /\ b6 < a6 => less
             /\ b1 = a1 /\ b2 = a2 /\ b3 = a3 /\ b4 = a4 /\ b5 = a5 /\ b6 = a6
                  /\ b7 < a7 => less
             /\ b1 = a1 /\ b2 = a2 /\ b3 = a3 /\ b4 = a4 /\ b5 = a5 /\ b6 = a6
                  /\ b7 = a7 /\ b8 < a8 => less
             /\ b1 = a1 /\ b2 = a2 /\ b3 = a3 /\ b4 = a4 /\ b5 = a5 /\ b6 = a6
                  /\ b7 = a7 /\ b8 = a8 /\ b9 < a9 => less
<1> DEFINE old == <<a1, a2, a3, a4, a5, a6, a7, a8, a9>>
           new == <<b1, b2, b3, b4, b5, b6, b7, b8, b9>>
<1>1. DOMAIN old = 1..9
  OBVIOUS
<1>2. /\ 1..0 = {} /\ 1..1 = {1} /\ 1..2 = {1, 2} /\ 1..3 = {1, 2, 3} /\ 1..4 = {1, 2, 3, 4}
      /\ 1..5 = {1, 2, 3, 4, 5} /\ 1..6 = {1, 2, 3, 4, 5, 6}
      /\ 1..7 = {1, 2, 3, 4, 5, 6, 7} /\ 1..8 = {1, 2, 3, 4, 5, 6, 7, 8}
  OBVIOUS
<1>3. /\ 1 - 1 = 0 /\ 2 - 1 = 1 /\ 3 - 1 = 2 /\ 4 - 1 = 3 /\ 5 - 1 = 4
      /\ 6 - 1 = 5 /\ 7 - 1 = 6 /\ 8 - 1 = 7 /\ 9 - 1 = 8
  OBVIOUS
<1>4. \A i \in {1, 2, 3, 4, 5, 6, 7, 8, 9} : i \in 1..9
  OBVIOUS
<1>5. /\ old[1] = a1 /\ old[2] = a2 /\ old[3] = a3 /\ old[4] = a4 /\ old[5] = a5
      /\ old[6] = a6 /\ old[7] = a7 /\ old[8] = a8 /\ old[9] = a9
      /\ new[1] = b1 /\ new[2] = b2 /\ new[3] = b3 /\ new[4] = b4 /\ new[5] = b5
      /\ new[6] = b6 /\ new[7] = b7 /\ new[8] = b8 /\ new[9] = b9
  OBVIOUS
<1> HIDE DEF old, new
<1>6. \A i \in 1..9 : (new[i] < old[i] /\ \A j \in 1..(i - 1) : new[j] = old[j])
                         => LessRemains(new, old)
  BY <1>1 DEF LessRemains
<1> QED
  BY <1>2, <1>3, <1>4, <1>5, <1>6 DEF old, new

LEMMA RemainsLess ==
  ASSUME \/ Phase' < Phase
         \/ /\ Phase' = Phase
            /\ \/ Fewer(exec'.toStage, exec.toStage)
               \/ exec'.toStage = exec.toStage /\ Fewer(exec'.toDelete, exec.toDelete)
               \/ /\ exec'.toStage = exec.toStage /\ exec'.toDelete = exec.toDelete
                  /\ Fewer(exec'.toEmbed, exec.toEmbed)
         \/ /\ Phase' = Phase /\ Todo' = Todo
            /\ \/ Fewer(InCalls', InCalls)
               \/ InCalls' = InCalls /\ HeadSize' < HeadSize
         \/ /\ Phase' = Phase /\ Todo' = Todo /\ exec'.calls = exec.calls
            /\ \/ MaxAttempts - exec'.attempt < MaxAttempts - exec.attempt
               \/ exec'.attempt = exec.attempt /\ Fewer(exec'.done, exec.done)
               \/ /\ exec'.attempt = exec.attempt /\ exec'.done = exec.done
                  /\ Fewer(exec'.lost, exec.lost)
  PROVE  LessRemains(Remaining', Remaining)
<1>1. exec'.calls = exec.calls => InCalls' = InCalls /\ HeadSize' = HeadSize
  BY DEF InCalls, HeadSize, batch
<1> DEFINE n2 == Cardinality(exec.toStage)
           n3 == Cardinality(exec.toDelete)
           n4 == Cardinality(exec.toEmbed)
           n5 == Cardinality(InCalls)
           n7 == MaxAttempts - exec.attempt
           n8 == Cardinality(exec.done)
           n9 == Cardinality(exec.lost)
<1>2. Remaining = <<Phase, n2, n3, n4, n5, HeadSize, n7, n8, n9>>
  BY DEF Remaining, Phase, HeadSize
<1>3. Remaining' = <<Phase', n2', n3', n4', n5', HeadSize', n7', n8', n9'>>
  BY DEF Remaining, Phase, HeadSize, batch, InCalls
<1>4. /\ (exec'.toStage = exec.toStage => n2' = n2)
      /\ (exec'.toDelete = exec.toDelete => n3' = n3)
      /\ (exec'.toEmbed = exec.toEmbed => n4' = n4)
      /\ (InCalls' = InCalls => n5' = n5)
      /\ (exec'.attempt = exec.attempt => n7' = n7)
      /\ (exec'.done = exec.done => n8' = n8)
  OBVIOUS
<1>5. /\ Fewer(exec'.toStage, exec.toStage) => n2' < n2
      /\ Fewer(exec'.toDelete, exec.toDelete) => n3' < n3
      /\ Fewer(exec'.toEmbed, exec.toEmbed) => n4' < n4
      /\ Fewer(InCalls', InCalls) => n5' < n5
      /\ Fewer(exec'.done, exec.done) => n8' < n8
      /\ Fewer(exec'.lost, exec.lost) => n9' < n9
  BY DEF Fewer
<1>6. Todo' = Todo => /\ exec'.toStage = exec.toStage /\ exec'.toDelete = exec.toDelete
                      /\ exec'.toEmbed = exec.toEmbed
  BY DEF Todo
<1> HIDE DEF n2, n3, n4, n5, n7, n8, n9
<1> QED
  BY <1>1, <1>2, <1>3, <1>4, <1>5, <1>6, LessByComponent DEF n7

LEMMA InCallsAre ==
  ASSUME IndexInv
  PROVE  InCalls = CallItems(exec.calls) /\ IsFiniteSet(InCalls)
<1>1. exec.calls \in Seq(Call)
  BY ExecTypes
<1>2. DOMAIN exec.calls = 1..Len(exec.calls)
  BY <1>1
<1>3. InCalls = CallItems(exec.calls)
  BY <1>2 DEF InCalls, CallItems, ItemsOf
<1>4. \A i \in 1..Len(exec.calls) : exec.calls[i] \in Call
  BY <1>1
<1>5. InCalls \subseteq Entities \X Actions
  BY <1>3, <1>4 DEF CallItems, ItemsOf, Call
<1>6. IsFiniteSet(Entities \X Actions)
  <2>1. IsFiniteSet(Actions)
    <3>1. IsFiniteSet({} \cup {"upsert"}) /\ {} \cup {"upsert"} = {"upsert"}
      BY FS_EmptySet, FS_AddElement
    <3>2. IsFiniteSet({"upsert"} \cup {"delete"})
      BY <3>1, FS_AddElement
    <3> QED
      BY <3>2 DEF Actions
  <2> QED
    BY <2>1, IndexAssumption, FS_Product
<1> QED
  BY <1>3, <1>5, <1>6, FS_Subset

LEMMA InCallsNextAre ==
  ASSUME IndexInv'
  PROVE  InCalls' = CallItems(exec'.calls)
<1>1. exec'.calls \in Seq(Call)
  BY DEF IndexInv, ExecInv, ExecTypeOK, ExecRecord
<1>2. DOMAIN exec'.calls = 1..Len(exec'.calls)
  BY <1>1
<1> QED
  BY <1>2 DEF InCalls, CallItems, ItemsOf

LEMMA AllFinite ==
  ASSUME IndexInv
  PROVE  /\ IsFiniteSet(exec.toStage) /\ IsFiniteSet(exec.toDelete)
         /\ IsFiniteSet(exec.toEmbed) /\ IsFiniteSet(exec.done) /\ IsFiniteSet(exec.lost)
         /\ \A S \in SUBSET Entities : IsFiniteSet(S)
<1>1. /\ exec.toStage \subseteq Entities /\ exec.toDelete \subseteq Entities
      /\ exec.toEmbed \subseteq Entities /\ exec.done \subseteq Work /\ exec.lost \subseteq Work
  BY DEF IndexInv, ExecInv, ExecTypeOK, ExecRecord
<1>2. IsFiniteSet({} \cup {"upsert"}) /\ {} \cup {"upsert"} = {"upsert"}
  BY FS_EmptySet, FS_AddElement
<1>3. IsFiniteSet({"upsert"} \cup {"delete"})
  BY <1>2, FS_AddElement
<1>4. IsFiniteSet(Work)
  BY <1>3, IndexAssumption, FS_Product DEF Work, Actions
<1> QED
  BY <1>1, <1>4, IndexAssumption, FS_Subset

(* What a call settles leaves the calls; what it does not settle goes on in  *)
(* a smaller one.                                                           *)
LEMMA CallRunsDown ==
  ASSUME CountedInv, IndexInv',
         \/ \E F \in SUBSET Entities : CallAnswered(F)
         \/ \E A, L \in SUBSET Entities : CallFailed(A, L)
  PROVE  \/ Fewer(InCalls', InCalls)
         \/ InCalls' = InCalls /\ HeadSize' < HeadSize
<1> USE DEF CountedInv
<1> DEFINE b == batch \X {op}
           t == CallItems(Tail(exec.calls))
<1>1. Calling /\ Executing /\ exec.calls # <<>> /\ exec.calls \in Seq(Call)
  BY ExecTypes DEF CallAnswered, CallFailed, NoAnswer, Calling
<1>2. /\ InCalls = b \cup t /\ b \cap t = {} /\ IsFiniteSet(InCalls)
      /\ Tail(exec.calls) \in Seq(Call) /\ batch \subseteq Entities /\ op \in Actions
  BY <1>1, InCallsAre, HeadItems DEF AccountInv, Places
<1>3. b # {} /\ \A F \in SUBSET batch : F # batch => F \X {op} # b
  <2>1. batch # {}
    BY <1>1, NoneEmptyTail DEF CallsNotEmpty, batch
  <2>2. PICK e : e \in batch
    BY <2>1
  <2>3. <<e, op>> \in b
    BY <2>2
  <2>4. ASSUME NEW F \in SUBSET batch, F # batch PROVE F \X {op} # b
    <3>1. PICK f \in batch : f \notin F
      BY <2>4
    <3>2. <<f, op>> \in b /\ <<f, op>> \notin F \X {op}
      BY <3>1
    <3> QED
      BY <3>2
  <2> QED
    BY <2>3, <2>4
<1>4. InCalls' = CallItems(exec'.calls)
  BY InCallsNextAre
<1>5. ASSUME NEW S, InCalls' = S \cup t, S \subseteq b, S # b
      PROVE  Fewer(InCalls', InCalls)
  <2>1. InCalls' \in SUBSET InCalls /\ InCalls' # InCalls
    BY <1>2, <1>5
  <2> QED
    BY <1>2, <2>1, StrictlyFewer
<1>6. ASSUME NEW A \in SUBSET Entities, NEW L \in SUBSET Entities, CallFailed(A, L)
      PROVE  Fewer(InCalls', InCalls)
  <2> DEFINE none == {}
  <2>1. InCalls' = none \cup t
    BY <1>4, <1>6, CallFailedFields
  <2>2. none \subseteq b /\ none # b
    BY <1>3
  <2> HIDE DEF none
  <2> QED
    BY <1>5, <2>1, <2>2
<1>7. ASSUME NEW F \in SUBSET Entities, CallAnswered(F)
      PROVE  \/ Fewer(InCalls', InCalls)
             \/ InCalls' = InCalls /\ HeadSize' < HeadSize
  <2>1. PICK again \in IF Cardinality(F) < 2 THEN {<<>>} ELSE Halves(F) :
           exec'.calls = again \o Tail(exec.calls)
    BY <1>7, CallAnsweredFields
  <2>2. F \subseteq batch /\ (op = "delete" => F = {})
    BY <1>7 DEF CallAnswered
  <2>3. IsFiniteSet(F) /\ Cardinality(F) \in Nat /\ (Cardinality(F) = 0 <=> F = {})
    BY IndexAssumption, FS_Subset, FS_CardinalityType, FS_EmptySet
  <2>4. F # {} => op = "upsert"
    BY <1>2, <2>2 DEF Actions
  <2>5. /\ again \in Seq(Call)
        /\ CallItems(again) = IF Cardinality(F) < 2 THEN {} ELSE F \X {"upsert"}
    BY <2>1, ItemsAgain
  <2>6. InCalls' = CallItems(again) \cup t
    BY <1>2, <1>4, <2>1, <2>5, ItemsConcat
  <2>7. CASE Cardinality(F) < 2 \/ F # batch
    <3>1. CallItems(again) \subseteq b /\ CallItems(again) # b
      <4>1. CASE Cardinality(F) < 2
        BY <1>3, <2>5, <4>1
      <4>2. CASE ~(Cardinality(F) < 2)
        <5>1. op = "upsert" /\ F # batch
          BY <2>3, <2>4, <2>7, <4>2
        <5>2. CallItems(again) = F \X {op}
          BY <2>5, <4>2, <5>1
        <5> QED
          BY <1>3, <2>2, <5>1, <5>2
      <4> QED
        BY <4>1, <4>2
    <3> QED
      BY <1>5, <2>6, <3>1
  <2>8. CASE ~(Cardinality(F) < 2) /\ F = batch
    <3>1. again \in Halves(F)
      BY <2>1, <2>8
    <3>2. again # <<>> /\ Cardinality(Head(again).batch) < Cardinality(F)
      BY <2>8, <3>1, HalvesAreLess
    <3>3. Head(exec'.calls) = Head(again) /\ exec'.calls # <<>>
      BY <1>2, <2>1, <2>5, <3>2
    <3>4. HeadSize' = Cardinality(Head(again).batch)
      BY <3>3 DEF HeadSize, batch
    <3>5. HeadSize = Cardinality(F)
      BY <1>1, <2>8 DEF HeadSize
    <3>6. op = "upsert"
      BY <2>3, <2>4, <2>8
    <3>7. InCalls' = InCalls
      BY <1>2, <2>5, <2>6, <2>8, <3>6
    <3> QED
      BY <3>2, <3>4, <3>5, <3>7
  <2> QED
    BY <2>7, <2>8
<1> QED
  BY <1>6, <1>7

LEMMA ExecutesRunsDown ==
  ASSUME CountedInv, IndexInv', Executes
  PROVE  LessRemains(Remaining', Remaining)
<1> USE DEF CountedInv
<1>1. ASSUME Stays PROVE Phase' = Phase
  BY <1>1 DEF Stays, Phase
<1>2. ASSUME NEW e \in exec.toStage, StageNextUpsert(e)
      PROVE  LessRemains(Remaining', Remaining)
  <2>1. Stays /\ exec'.toStage = exec.toStage \ {e}
    BY <1>2, StageNextUpsertFields
  <2>2. Fewer(exec'.toStage, exec.toStage)
    BY <2>1, AllFinite, StrictlyFewer
  <2> QED
    BY <1>1, <2>1, <2>2, RemainsLess
<1>3. ASSUME NEW e \in exec.toDelete, StageNextDelete(e)
      PROVE  LessRemains(Remaining', Remaining)
  <2>1. Stays /\ exec'.toStage = exec.toStage /\ exec'.toDelete = exec.toDelete \ {e}
    BY <1>3, StageNextDeleteFields
  <2>2. Fewer(exec'.toDelete, exec.toDelete)
    BY <2>1, AllFinite, StrictlyFewer
  <2> QED
    BY <1>1, <2>1, <2>2, RemainsLess
<1>4. ASSUME NEW B \in SUBSET exec.toEmbed, EmbedChunk(B) \/ EmbedChunkFailed(B)
      PROVE  LessRemains(Remaining', Remaining)
  <2>1. /\ Stays /\ exec'.toStage = exec.toStage /\ exec'.toDelete = exec.toDelete
        /\ exec'.toEmbed = exec.toEmbed \ B
    BY <1>4, EmbedChunkFields, EmbedChunkFailedFields
  <2>2. B # {}
    BY <1>4 DEF EmbedChunk, EmbedChunkFailed, Chunk
  <2>3. Fewer(exec'.toEmbed, exec.toEmbed)
    BY <2>1, <2>2, AllFinite, StrictlyFewer
  <2> QED
    BY <1>1, <2>1, <2>3, RemainsLess
<1>5. ASSUME \/ \E F \in SUBSET Entities : CallAnswered(F)
             \/ \E A, L \in SUBSET Entities : CallFailed(A, L)
      PROVE  LessRemains(Remaining', Remaining)
  <2>1. Stays /\ Todo' = Todo
    BY <1>5, CallAnsweredFields, CallFailedFields
  <2> QED
    BY <1>1, <1>5, <2>1, CallRunsDown, RemainsLess DEF Todo
<1>6. ASSUME NEW A \in SUBSET Entities, NEW L \in SUBSET Entities, CallRetried(A, L)
      PROVE  LessRemains(Remaining', Remaining)
  <2>1. /\ Stays /\ Todo' = Todo /\ exec'.calls = exec.calls
        /\ exec.attempt < MaxAttempts /\ exec'.attempt = exec.attempt + 1
    BY <1>6, CallRetriedFields
  <2>2. exec.attempt \in Nat /\ MaxAttempts \in Nat
    BY IndexAssumption DEF PlanInv
  <2>3. MaxAttempts - exec'.attempt < MaxAttempts - exec.attempt
    BY <2>1, <2>2
  <2> QED
    BY <1>1, <2>1, <2>3, RemainsLess DEF Todo
<1>7. ASSUME NEW e, NEW a, Complete(e, a)
      PROVE  LessRemains(Remaining', Remaining)
  <2>1. /\ Stays /\ Todo' = Todo /\ exec'.calls = exec.calls /\ exec'.attempt = exec.attempt
        /\ <<e, a>> \in exec.done /\ exec'.done = exec.done \ {<<e, a>>}
    BY <1>7, CompleteFields
  <2>2. Fewer(exec'.done, exec.done)
    BY <2>1, AllFinite, StrictlyFewer
  <2> QED
    BY <1>1, <2>1, <2>2, RemainsLess DEF Todo
<1>8. ASSUME NEW e, NEW a, Fail(e, a)
      PROVE  LessRemains(Remaining', Remaining)
  <2>1. /\ Stays /\ Todo' = Todo /\ exec'.calls = exec.calls /\ exec'.attempt = exec.attempt
        /\ exec'.done = exec.done
        /\ <<e, a>> \in exec.lost /\ exec'.lost = exec.lost \ {<<e, a>>}
    BY <1>8, FailFields
  <2>2. Fewer(exec'.lost, exec.lost)
    BY <2>1, AllFinite, StrictlyFewer
  <2> QED
    BY <1>1, <2>1, <2>2, RemainsLess DEF Todo
<1> QED
  BY <1>2, <1>3, <1>4, <1>5, <1>6, <1>7, <1>8 DEF Executes

LEMMA StepRunsDown ==
  ASSUME CountedInv, IndexInv', Busy, Step
  PROVE  LessRemains(Remaining', Remaining)
<1> USE DEF CountedInv
<1>1. exec \in ExecRecord /\ exec.pc \in Pcs \ {"idle", "down"}
  BY DEF IndexInv, ExecInv, ExecTypeOK, ExecRecord, Busy
<1>2. ASSUME Rests PROVE LessRemains(Remaining', Remaining)
  <2>1. exec'.pc \in {"idle", "down"}
    BY <1>2 DEF Rests, Resting
  <2>2. Phase' < Phase
    BY <1>1, <2>1 DEF Phase, PhasesLeft, Pcs
  <2> QED
    BY <2>2, RemainsLess
<1>3. CASE DimensionMismatch \/ Finish \/ \E A \in SUBSET Entities : CallMisanswered(A)
  BY <1>2, <1>3 DEF Rests, DimensionMismatch, Finish, CallMisanswered
<1>4. CASE \/ DimensionVerified \/ ListIndexedEntities \/ RecordAndPlan
           \/ \E proof \in {"partial", "complete"}, seen \in [Entities -> Content] :
                ReadGraph(proof, seen)
  <2>1. \/ exec.pc = "dimension" /\ exec'.pc = "read"
        \/ exec.pc = "read" /\ exec'.pc = "list"
        \/ exec.pc = "list" /\ exec'.pc = "record"
        \/ exec.pc = "record" /\ exec'.pc = "execute"
    <3>1. CASE DimensionVerified
      BY <1>1, <3>1 DEF DimensionVerified, ExecRecord
    <3>2. CASE ListIndexedEntities
      <4> DEFINE l == ListIndexed
      <4>1. exec.pc = "list" /\ exec' = [exec EXCEPT !.pc = "record", !.listed = l]
        BY <3>2 DEF ListIndexedEntities
      <4> HIDE DEF l
      <4> QED
        BY <1>1, <4>1 DEF ExecRecord
    <3>3. CASE RecordAndPlan
      BY <3>3, PlanFields
    <3>4. ASSUME NEW proof \in {"partial", "complete"}, NEW seen \in [Entities -> Content],
                 ReadGraph(proof, seen)
          PROVE  exec.pc = "read" /\ exec'.pc = "list"
      <4>1. exec.pc = "read"
            /\ exec' = [exec EXCEPT !.pc = "list", !.proof = proof, !.seen = seen]
        BY <3>4 DEF ReadGraph
      <4> QED
        BY <1>1, <4>1 DEF ExecRecord
    <3> QED
      BY <1>4, <3>1, <3>2, <3>3, <3>4
  <2>2. Phase' < Phase
    BY <2>1 DEF Phase, PhasesLeft
  <2> QED
    BY <2>2, RemainsLess
<1>5. CASE Executes
  BY <1>5, ExecutesRunsDown
<1> QED
  BY <1>3, <1>4, <1>5 DEF Step, Executes

(* Every step of an execution, for any number of entities, batch size and    *)
(* number of attempts, leaves less to be done, and no step of anyone else    *)
(* leaves more.                                                             *)
THEOREM ExecutionsRunDown == IndexSpec => ExecutionRunsDown
<1>1. ASSUME CountedInv, CountedInv', [IndexNext]_indexVars, Busy
      PROVE  LessRemains(Remaining', Remaining) \/ (exec' = exec /\ ~Step)
  <2>1. CASE Step
    BY <1>1, <2>1, StepRunsDown DEF CountedInv
  <2>2. CASE Abort \/ Stop
    <3>1. exec \in ExecRecord /\ exec.pc \in Pcs \ {"idle", "down"}
      BY <1>1 DEF CountedInv, IndexInv, ExecInv, ExecTypeOK, ExecRecord, Busy
    <3>2. exec'.pc \in {"idle", "down"}
      BY <2>2 DEF Abort, Stop, Resting
    <3>3. Phase' < Phase
      BY <3>1, <3>2 DEF Phase, PhasesLeft, Pcs
    <3> QED
      BY <3>3, RemainsLess
  <2>3. CASE ~Step /\ ~Abort /\ ~Stop
    <3>1. CASE \E now \in Readings : Claim(now) \/ Start(now)
      BY <1>1, <3>1 DEF Claim, Start, Busy
    <3>2. CASE \E now \in Readings : Requested(now)
      BY <2>3, <3>2, RequestedSteps
    <3>3. CASE \/ \E e \in Entities, h \in Content : GraphChanges(e, h)
               \/ \E m \in wire : ArrivesLate(m)
               \/ UNCHANGED indexVars
      BY <2>3, <3>3 DEF GraphChanges, ArrivesLate, indexVars
    <3> QED
      BY <1>1, <2>3, <3>1, <3>2, <3>3 DEF IndexNext
  <2> QED
    BY <2>1, <2>2, <2>3
<1>2. CountedInv /\ CountedInv' /\ [IndexNext]_indexVars
        => [Busy => LessRemains(Remaining', Remaining) \/ (exec' = exec /\ ~Step)]_indexVars
  BY <1>1
<1> QED
  BY <1>2, CountedAlways, PTL DEF IndexSpec, ExecutionRunsDown

LEMMA RemainingType ==
  ASSUME CountedInv
  PROVE  Remaining \in [1..9 -> Nat]
<1> USE DEF CountedInv
<1>1. Phase \in Nat
  BY DEF Phase, PhasesLeft, Pcs, IndexInv, ExecInv, ExecTypeOK, ExecRecord
<1>2. /\ Cardinality(exec.toStage) \in Nat /\ Cardinality(exec.toDelete) \in Nat
      /\ Cardinality(exec.toEmbed) \in Nat /\ Cardinality(exec.done) \in Nat
      /\ Cardinality(exec.lost) \in Nat /\ Cardinality(InCalls) \in Nat
  BY AllFinite, InCallsAre, FS_CardinalityType
<1>3. HeadSize \in Nat
  <2>1. CASE exec.calls = <<>>
    BY <2>1 DEF HeadSize
  <2>2. CASE exec.calls # <<>>
    <3>1. batch \in SUBSET Entities
      BY <2>2, ExecTypes, ItemsTail DEF batch, Call
    <3> QED
      BY <2>2, <3>1, AllFinite, FS_CardinalityType DEF HeadSize
  <2> QED
    BY <2>1, <2>2
<1>4. MaxAttempts - exec.attempt \in Nat
  BY IndexAssumption DEF PlanInv
<1>5. ASSUME NEW a1 \in Nat, NEW a2 \in Nat, NEW a3 \in Nat, NEW a4 \in Nat, NEW a5 \in Nat,
             NEW a6 \in Nat, NEW a7 \in Nat, NEW a8 \in Nat, NEW a9 \in Nat
      PROVE  <<a1, a2, a3, a4, a5, a6, a7, a8, a9>> \in [1..9 -> Nat]
  OBVIOUS
<1> QED
  BY <1>1, <1>2, <1>3, <1>4, <1>5 DEF Remaining, Phase, HeadSize

(* And there is always an end to that: what remains are natural numbers, and *)
(* no sequence of them has ever less remaining.                             *)
THEOREM RemainingRunsOut ==
  /\ IndexSpec => [](Remaining \in [1..9 -> Nat])
  /\ \A f \in [Nat -> [1..9 -> Nat]] : \E n \in Nat : ~LessRemains(f[n + 1], f[n])
<1>1. IndexSpec => [](Remaining \in [1..9 -> Nat])
  BY RemainingType, CountedAlways, PTL
<1>2. IsWellFoundedOn(LexProductOrdering(OpToRel(<, Nat), Nat, 9), [1..9 -> Nat])
  BY NatLessThanWellFounded, WFLexProductOrdering
<1>3. ASSUME NEW old \in [1..9 -> Nat], NEW new \in [1..9 -> Nat], LessRemains(new, old)
      PROVE  <<new, old>> \in LexProductOrdering(OpToRel(<, Nat), Nat, 9)
  <2>1. PICK i \in 1..9 : new[i] < old[i] /\ \A j \in 1..(i - 1) : new[j] = old[j]
    BY <1>3 DEF LessRemains
  <2>2. <<new[i], old[i]>> \in OpToRel(<, Nat)
    BY <2>1 DEF OpToRel
  <2> QED
    BY <2>1, <2>2 DEF LexProductOrdering
<1>4. ASSUME NEW f \in [Nat -> [1..9 -> Nat]],
             \A n \in Nat : LessRemains(f[n + 1], f[n])
      PROVE  FALSE
  <2>1. \A n \in Nat : <<f[n + 1], f[n]>> \in LexProductOrdering(OpToRel(<, Nat), Nat, 9)
    <3> TAKE n \in Nat
    <3> DEFINE Left == [1..9 -> Nat]
    <3>1. f \in [Nat -> Left] /\ n + 1 \in Nat
      OBVIOUS
    <3> HIDE DEF Left
    <3>2. f[n] \in Left /\ f[n + 1] \in Left
      BY <3>1
    <3> QED
      BY <1>3, <1>4, <3>2 DEF Left
  <2> QED
    BY <1>2, <2>1 DEF IsWellFoundedOn
<1> QED
  BY <1>1, <1>4
=============================================================================
