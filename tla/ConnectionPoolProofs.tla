------------------------ MODULE ConnectionPoolProofs ------------------------
(***************************************************************************)
(* The connection pool implements the atomic store, and the safety          *)
(* properties of ConnectionPool, for any callers and connections.          *)
(***************************************************************************)
EXTENDS ConnectionPool, TLAPS

(* What a transaction begun on database d may see after k - 1 statements.   *)
EnqueuePart(k, p, v) ==
  /\ ~p.key
  /\ \/ k = 3 /\ v = Atomic!WithQueuedRun(p)
     \/ k = 4 /\ \E b \in BOOLEAN : v = [Atomic!WithQueuedRun(p) EXCEPT !.key = b]

ResetPart(k, p, v) ==
  /\ ~p.key /\ p.queued + p.leased = 0
  /\ \/ k = 3 /\ v = [p EXCEPT !.index = FALSE]
     \/ k = 4 /\ v = [p EXCEPT !.index = FALSE, !.queued = 1]
     \/ k = 5 /\ v = [p EXCEPT !.index = FALSE, !.queued = 1, !.key = TRUE]

CompletePart(k, d, v) ==
  \/ k = 2 /\ \E b \in BOOLEAN : v = [d EXCEPT !.index = b]
  \/ /\ k = 3 /\ d.work # "none"
     /\ \E b \in BOOLEAN : v = [d EXCEPT !.index = b, !.work = "settled"]

PartOf(o, k, d, v) ==
  \/ k = 1 /\ v = d
  \/ o \in Atomic!Keyed /\ k = 2 /\ v \in Atomic!Pruned(d)
  \/ o = "enqueue" /\ \E p \in Atomic!Pruned(d) : EnqueuePart(k, p, v)
  \/ o = "reset" /\ \E p \in Atomic!Pruned(d) : ResetPart(k, p, v)
  \/ o = "claim" /\ k = 2 /\ d.queued > 0 /\ v = Atomic!AfterClaim(d)
  \/ o = "recover" /\ k = 2 /\ v = d
  \/ o = "recover" /\ k = 3 /\ v = Atomic!AfterRecovery(d)
  \/ o = "stage" /\ k \in 2..3 /\ d.leased > 0 /\ v = [d EXCEPT !.work = "staged"]
  \/ o = "complete" /\ d.leased > 0 /\ CompletePart(k, d, v)
  \/ /\ o = "finish" /\ k = 2 /\ d.leased > 0
     /\ v = [d EXCEPT !.leased = d.leased - 1, !.work = "none"]

(* A transaction that runs is part of its operation on what is committed.   *)
TransactionsArePartial ==
  \A t \in Tasks : task[t].at = "body"
    => /\ task[t].op \in Atomic!Writes
       /\ PartOf(task[t].op, task[t].next, db, open[task[t].conn])

(* Who may be asking for what, and what an execution rests on.              *)
CallersAreRight ==
  /\ \A t \in Tasks : task[t].at \in {"waiting", "granted"} => task[t].next = 1
  /\ \A t \in Handlers : task[t].op \in Atomic!Keyed \cup {"status", "none"}
  /\ task[Worker].op = "recover" => phase = "starting"
  /\ task[Worker].op = "claim" => phase # "starting"
  /\ task[Worker].op \in Atomic!Guarded \cup {"list"} => executing
  /\ phase = "starting" => ~executing
  /\ executing => db.leased > 0

(* Uncommitted index rows are those of the worker's own transaction, or no  *)
(* execution is under way.                                                  *)
IndexRowsAreOwn ==
  \A c \in Connections : ~Clean(c) /\ open[c].index # db.index
    => ~executing \/ (task[Worker].conn = c /\ task[Worker].at \in {"body", "undo"})

PoolInv == PoolTypeOK /\ TransactionsArePartial /\ CallersAreRight /\ IndexRowsAreOwn
-----------------------------------------------------------------------------
LEMMA OperationsKeepDatabases ==
  ASSUME NEW d \in Atomic!Databases
  PROVE  /\ \A p \in Atomic!Pruned(d) :
              /\ p \in Atomic!Databases /\ p.queued = d.queued /\ p.leased = d.leased
              /\ p.index = d.index /\ p.work = d.work
         /\ Atomic!WithQueuedRun(d) \in Atomic!Databases
         /\ Atomic!AfterClaim(d) \in Atomic!Databases
         /\ Atomic!AfterRecovery(d) \in Atomic!Databases
<1>1. \A p \in Atomic!Pruned(d) :
        /\ p \in Atomic!Databases /\ p.queued = d.queued /\ p.leased = d.leased
        /\ p.index = d.index /\ p.work = d.work
  BY DEF Atomic!Pruned, Atomic!Databases
<1>2. Atomic!WithQueuedRun(d) \in Atomic!Databases
  BY DEF Atomic!WithQueuedRun, Atomic!Databases
<1>3. Atomic!AfterClaim(d) \in Atomic!Databases
  <2>1. CASE d.queued = 0
    BY <2>1 DEF Atomic!AfterClaim
  <2>2. CASE d.queued # 0
    <3>1. d.queued - 1 \in Nat /\ d.leased + 1 \in Nat
      BY <2>2 DEF Atomic!Databases
    <3> QED
      BY <2>2, <3>1 DEF Atomic!AfterClaim, Atomic!Databases
  <2> QED
    BY <2>1, <2>2
<1>4. Atomic!AfterRecovery(d) \in Atomic!Databases
  <2>1. d.queued + d.leased \in Nat
    BY DEF Atomic!Databases
  <2> QED
    BY <2>1 DEF Atomic!AfterRecovery, Atomic!Databases
<1> QED
  BY <1>1, <1>2, <1>3, <1>4

LEMMA KeyedStatements ==
  ASSUME NEW d
  PROVE  /\ Statement("enqueue", 1, d) = Atomic!Pruned(d)
         /\ Statement("enqueue", 2, d) = {Atomic!WithQueuedRun(d)}
         /\ Statement("enqueue", 3, d) = {[d EXCEPT !.key = b] : b \in BOOLEAN}
         /\ Statement("reset", 1, d) = Atomic!Pruned(d)
         /\ Statement("reset", 2, d) = {[d EXCEPT !.index = FALSE]}
         /\ Statement("reset", 3, d) = {[d EXCEPT !.queued = 1]}
         /\ Statement("reset", 4, d) = {[d EXCEPT !.key = TRUE]}
<1>1. "enqueue" \in Atomic!Keyed /\ "reset" \in Atomic!Keyed
  BY DEF Atomic!Keyed
<1>2. Statement("enqueue", 1, d) = Atomic!Pruned(d)
  BY <1>1 DEF Statement, LastStatement
<1>3. Statement("enqueue", 2, d) = {Atomic!WithQueuedRun(d)}
  BY <1>1 DEF Statement, LastStatement
<1>4. Statement("enqueue", 3, d) = {[d EXCEPT !.key = b] : b \in BOOLEAN}
  BY <1>1 DEF Statement, LastStatement
<1>5. Statement("reset", 1, d) = Atomic!Pruned(d)
  BY <1>1 DEF Statement, LastStatement
<1>6. Statement("reset", 2, d) = {[d EXCEPT !.index = FALSE]}
  BY <1>1 DEF Statement, LastStatement
<1>7. Statement("reset", 3, d) = {[d EXCEPT !.queued = 1]}
  BY <1>1 DEF Statement, LastStatement
<1>8. Statement("reset", 4, d) = {[d EXCEPT !.key = TRUE]}
  BY <1>1 DEF Statement, LastStatement
<1> QED
  BY <1>2, <1>3, <1>4, <1>5, <1>6, <1>7, <1>8

LEMMA CompletionStatements ==
  ASSUME NEW d
  PROVE  /\ Statement("complete", 1, d) = {[d EXCEPT !.index = b] : b \in BOOLEAN}
         /\ Statement("complete", 2, d) = {[d EXCEPT !.work = "settled"]}
<1>1. "complete" \notin Atomic!Keyed
  BY DEF Atomic!Keyed
<1>2. Statement("complete", 1, d) = {[d EXCEPT !.index = b] : b \in BOOLEAN}
  BY <1>1 DEF Statement, LastStatement
<1>3. Statement("complete", 2, d) = {[d EXCEPT !.work = "settled"]}
  BY <1>1 DEF Statement, LastStatement
<1> QED
  BY <1>2, <1>3

(* Executing the next statement of an operation leads to its next part.     *)
LEMMA StatementExtendsPart ==
  ASSUME NEW o \in Atomic!Writes, NEW k \in 1..5,
         NEW d \in Atomic!Databases, NEW v \in Atomic!Databases,
         PartOf(o, k, d, v), ~Finished(o, k, v), ~Refused(o, k, v),
         NEW e \in Statement(o, k, v)
  PROVE  e \in Atomic!Databases /\ k + 1 \in 1..5 /\ PartOf(o, k + 1, d, e)
<1>1. CASE o = "enqueue"
  <2>1. k \in 1..3
    BY <1>1 DEF Finished, LastStatement
  <2>2. CASE k = 1
    <3>1. v = d
      BY <1>1, <2>2 DEF PartOf, EnqueuePart, ResetPart, CompletePart
    <3>2. e \in Atomic!Pruned(d)
      BY <1>1, <2>2, <3>1, KeyedStatements
    <3>3. e \in Atomic!Databases
      BY <3>2, OperationsKeepDatabases
    <3>4. PartOf(o, 2, d, e)
      BY <1>1, <3>2 DEF PartOf, EnqueuePart, ResetPart, CompletePart, Atomic!Keyed
    <3> QED
      BY <2>2, <3>3, <3>4
  <2>3. CASE k = 2
    <3>1. v \in Atomic!Pruned(d)
      BY <1>1, <2>3 DEF PartOf, EnqueuePart, ResetPart, CompletePart, Atomic!Pruned
    <3>2. ~v.key
      BY <1>1, <2>3 DEF Finished, Settled, Atomic!Keyed
    <3>3. e = Atomic!WithQueuedRun(v)
      BY <1>1, <2>3, KeyedStatements
    <3> QED
      BY <1>1, <2>3, <3>1, <3>2, <3>3, OperationsKeepDatabases
      DEF PartOf, EnqueuePart, ResetPart, CompletePart
  <2>4. CASE k = 3
    <3>1. PICK p \in Atomic!Pruned(d) : ~p.key /\ v = Atomic!WithQueuedRun(p)
      BY <1>1, <2>4 DEF PartOf, EnqueuePart, ResetPart, CompletePart, Atomic!Keyed
    <3>2. PICK b \in BOOLEAN : e = [v EXCEPT !.key = b]
      BY <1>1, <2>4, KeyedStatements
    <3>3. e \in Atomic!Databases
      BY <3>2 DEF Atomic!Databases
    <3>4. PartOf(o, 4, d, e)
      BY <1>1, <3>1, <3>2 DEF PartOf, EnqueuePart, ResetPart, CompletePart
    <3> QED
      BY <2>4, <3>3, <3>4
  <2> QED
    BY <2>1, <2>2, <2>3, <2>4
<1>2. CASE o = "reset"
  <2>1. k \in 1..4
    BY <1>2 DEF Finished, LastStatement
  <2>2. CASE k = 1
    <3>1. v = d
      BY <1>2, <2>2 DEF PartOf, EnqueuePart, ResetPart, CompletePart
    <3>2. e \in Atomic!Pruned(d)
      BY <1>2, <2>2, <3>1, KeyedStatements
    <3>3. e \in Atomic!Databases
      BY <3>2, OperationsKeepDatabases
    <3>4. PartOf(o, 2, d, e)
      BY <1>2, <3>2 DEF PartOf, EnqueuePart, ResetPart, CompletePart, Atomic!Keyed
    <3> QED
      BY <2>2, <3>3, <3>4
  <2>3. CASE k = 2
    <3>1. v \in Atomic!Pruned(d)
      BY <1>2, <2>3 DEF PartOf, EnqueuePart, ResetPart, CompletePart, Atomic!Pruned
    <3>2. ~v.key /\ ~(v.queued + v.leased > 0)
      BY <1>2, <2>3 DEF Finished, Settled, Atomic!Keyed
    <3>3. v.queued + v.leased = 0
      BY <3>2 DEF Atomic!Databases
    <3>4. e = [v EXCEPT !.index = FALSE]
      BY <1>2, <2>3, KeyedStatements
    <3>5. e \in Atomic!Databases
      BY <3>4 DEF Atomic!Databases
    <3>6. PartOf(o, 3, d, e)
      BY <1>2, <3>1, <3>2, <3>3, <3>4 DEF PartOf, EnqueuePart, ResetPart, CompletePart
    <3> QED
      BY <2>3, <3>5, <3>6
  <2>4. CASE k = 3
    <3>1. PICK p \in Atomic!Pruned(d) :
            ~p.key /\ p.queued + p.leased = 0 /\ v = [p EXCEPT !.index = FALSE]
      BY <1>2, <2>4 DEF PartOf, EnqueuePart, ResetPart, CompletePart, Atomic!Keyed
    <3>2. e = [v EXCEPT !.queued = 1]
      BY <1>2, <2>4, KeyedStatements
    <3>3. e \in Atomic!Databases
      BY <3>2 DEF Atomic!Databases
    <3>4. e = [p EXCEPT !.index = FALSE, !.queued = 1]
      BY <3>1, <3>2
    <3>5. PartOf(o, 4, d, e)
      BY <1>2, <3>1, <3>4 DEF PartOf, EnqueuePart, ResetPart, CompletePart
    <3> QED
      BY <2>4, <3>3, <3>5
  <2>5. CASE k = 4
    <3>1. PICK p \in Atomic!Pruned(d) :
            /\ ~p.key /\ p.queued + p.leased = 0
            /\ v = [p EXCEPT !.index = FALSE, !.queued = 1]
      <4>1. \E p \in Atomic!Pruned(d) : ResetPart(4, p, v)
        BY <1>2, <2>5 DEF PartOf
      <4> QED
        BY <4>1 DEF ResetPart
    <3>2. e = [v EXCEPT !.key = TRUE]
      BY <1>2, <2>5, KeyedStatements
    <3>3. e \in Atomic!Databases
      BY <3>2 DEF Atomic!Databases
    <3>4. e = [p EXCEPT !.index = FALSE, !.queued = 1, !.key = TRUE]
      BY <3>1, <3>2
    <3>5. PartOf(o, 5, d, e)
      BY <1>2, <3>1, <3>4 DEF PartOf, EnqueuePart, ResetPart, CompletePart
    <3> QED
      BY <2>5, <3>3, <3>5
  <2> QED
    BY <2>1, <2>2, <2>3, <2>4, <2>5
<1>3. CASE o = "claim"
  <2>1. k = 1 /\ v = d /\ d.queued # 0
    BY <1>3
    DEF PartOf, EnqueuePart, ResetPart, CompletePart, Finished, Settled, LastStatement,
        Atomic!Keyed
  <2>2. d.queued > 0
    BY <2>1 DEF Atomic!Databases
  <2>3. e = Atomic!AfterClaim(d)
    BY <1>3, <2>1 DEF Statement, Atomic!Keyed
  <2> QED
    BY <1>3, <2>1, <2>2, <2>3, OperationsKeepDatabases
    DEF PartOf, EnqueuePart, ResetPart, CompletePart
<1>4. CASE o = "recover"
  BY <1>4, OperationsKeepDatabases
  DEF PartOf, EnqueuePart, ResetPart, CompletePart, Statement, Finished, Settled,
      LastStatement,
     Atomic!Keyed
<1>5. CASE o = "stage"
  BY <1>5
  DEF PartOf, EnqueuePart, ResetPart, CompletePart, Statement, Finished, Settled,
      LastStatement, Refused,
     Atomic!Keyed, Atomic!Guarded, Atomic!Databases, Atomic!Works
<1>6. CASE o = "complete"
  <2>1. k \in 1..2
    BY <1>6 DEF Finished, LastStatement
  <2>2. CASE k = 1
    <3>1. v = d
      BY <1>6, <2>2 DEF PartOf, EnqueuePart, ResetPart, CompletePart
    <3>2. d.leased > 0
      BY <1>6, <2>2, <3>1 DEF Refused, Atomic!Guarded, Atomic!Databases
    <3>3. PICK b \in BOOLEAN : e = [d EXCEPT !.index = b]
      BY <1>6, <2>2, <3>1, CompletionStatements
    <3>4. e \in Atomic!Databases
      BY <3>3 DEF Atomic!Databases
    <3> QED
      BY <1>6, <2>2, <3>2, <3>3, <3>4 DEF PartOf, EnqueuePart, ResetPart, CompletePart
  <2>3. CASE k = 2
    <3>1. PICK b \in BOOLEAN : v = [d EXCEPT !.index = b] /\ d.leased > 0
      BY <1>6, <2>3 DEF PartOf, EnqueuePart, ResetPart, CompletePart, Atomic!Keyed
    <3>2. d.work # "none"
      BY <1>6, <2>3, <3>1 DEF Refused, Atomic!Databases
    <3>3. e = [v EXCEPT !.work = "settled"]
      BY <1>6, <2>3, CompletionStatements
    <3>4. e = [d EXCEPT !.index = b, !.work = "settled"]
      BY <3>1, <3>3
    <3>5. e \in Atomic!Databases
      BY <3>3 DEF Atomic!Databases, Atomic!Works
    <3>6. PartOf(o, 3, d, e)
      BY <1>6, <3>1, <3>2, <3>4 DEF PartOf, EnqueuePart, ResetPart, CompletePart
    <3> QED
      BY <2>3, <3>5, <3>6
  <2> QED
    BY <2>1, <2>2, <2>3
<1>7. CASE o = "finish"
  <2>1. k = 1 /\ v = d
    BY <1>7
    DEF PartOf, EnqueuePart, ResetPart, CompletePart, Finished, LastStatement, Atomic!Keyed
  <2>2. d.leased > 0
    BY <1>7, <2>1 DEF Refused, Atomic!Guarded, Atomic!Databases
  <2>3. e = [d EXCEPT !.leased = d.leased - 1, !.work = "none"]
    BY <1>7, <2>1 DEF Statement, Atomic!Keyed
  <2>4. d.leased - 1 \in Nat
    BY <2>2 DEF Atomic!Databases
  <2>5. e \in Atomic!Databases
    BY <2>3, <2>4 DEF Atomic!Databases, Atomic!Works
  <2> QED
    BY <1>7, <2>1, <2>2, <2>3, <2>5 DEF PartOf, EnqueuePart, ResetPart, CompletePart
<1> QED
  BY <1>1, <1>2, <1>3, <1>4, <1>5, <1>6, <1>7
  DEF Atomic!Writes, Atomic!Keyed, Atomic!Guarded

(* What a finished operation commits is what it was to do as a whole.       *)
LEMMA FinishedIsWhole ==
  ASSUME NEW o \in Atomic!Writes, NEW k \in 1..5,
         NEW d \in Atomic!Databases, NEW v \in Atomic!Databases,
         PartOf(o, k, d, v), Finished(o, k, v)
  PROVE  Atomic!Permitted(o, d) /\ v \in Atomic!Outcomes(o, d)
<1>1. CASE o = "enqueue"
  <2>1. Atomic!Permitted(o, d)
    BY <1>1 DEF Atomic!Permitted, Atomic!Guarded
  <2>2. \E p \in Atomic!Pruned(d) : v \in Atomic!AfterEnqueue(p)
    <3>1. (k = 2 /\ v.key) \/ k = 4
      BY <1>1 DEF PartOf, EnqueuePart, Finished, Settled, LastStatement
    <3>2. CASE k = 2 /\ v.key
      <4>1. v \in Atomic!Pruned(d) /\ v \in Atomic!AfterEnqueue(v)
        BY <1>1, <3>2 DEF PartOf, EnqueuePart, Atomic!AfterEnqueue
      <4> QED
        BY <4>1
    <3>3. CASE k = 4
      <4>1. PICK p \in Atomic!Pruned(d) : EnqueuePart(4, p, v)
        BY <1>1, <3>3 DEF PartOf, Atomic!Keyed
      <4>2. v \in Atomic!AfterEnqueue(p)
        BY <4>1 DEF EnqueuePart, Atomic!AfterEnqueue
      <4> QED
        BY <4>1, <4>2
    <3> QED
      BY <3>1, <3>2, <3>3
  <2> QED
    BY <1>1, <2>1, <2>2 DEF Atomic!Outcomes
<1>2. CASE o = "reset"
  <2>1. Atomic!Permitted(o, d)
    BY <1>2 DEF Atomic!Permitted, Atomic!Guarded
  <2>2. PICK p \in Atomic!Pruned(d) : v = Atomic!AfterReset(p)
    BY <1>2, OperationsKeepDatabases
    DEF PartOf, EnqueuePart, ResetPart, CompletePart, Finished, Settled, LastStatement,
       Atomic!AfterReset, Atomic!Keyed, Atomic!Guarded, Atomic!Databases, Atomic!Pruned
  <2> QED
    BY <1>2, <2>1, <2>2 DEF Atomic!Outcomes
<1>3. CASE o = "claim"
  BY <1>3
  DEF PartOf, EnqueuePart, ResetPart, CompletePart, Finished, Settled, LastStatement,
      Atomic!Permitted, Atomic!Outcomes,
     Atomic!AfterClaim, Atomic!Keyed, Atomic!Guarded, Atomic!Databases
<1>4. CASE o = "recover"
  BY <1>4
  DEF PartOf, EnqueuePart, ResetPart, CompletePart, Finished, Settled, LastStatement,
      Atomic!Permitted, Atomic!Outcomes,
     Atomic!Keyed, Atomic!Guarded, Atomic!Databases
<1>5. CASE o = "stage"
  BY <1>5
  DEF PartOf, EnqueuePart, ResetPart, CompletePart, Finished, Settled, LastStatement,
      Atomic!Permitted, Atomic!Outcomes,
     Atomic!Keyed, Atomic!Guarded, Atomic!Databases
<1>6. CASE o = "complete"
  <2>1. k = 3
    <3>1. k > 2
      BY <1>6 DEF Finished, Settled, LastStatement, Atomic!Keyed
    <3>2. CompletePart(k, d, v)
      BY <1>6, <3>1 DEF PartOf, Atomic!Keyed
    <3>3. k = 2 \/ k = 3
      BY <3>2, Zenon DEF CompletePart
    <3> QED
      BY <3>1, <3>3
  <2>2. PICK b \in BOOLEAN :
          /\ d.leased > 0 /\ d.work # "none"
          /\ v = [d EXCEPT !.index = b, !.work = "settled"]
    <3>1. d.leased > 0 /\ CompletePart(3, d, v)
      BY <1>6, <2>1 DEF PartOf, Atomic!Keyed
    <3>2. 3 # 2
      OBVIOUS
    <3> QED
      BY <3>1, <3>2, Zenon DEF CompletePart
  <2>3. Atomic!Permitted(o, d)
    BY <2>2 DEF Atomic!Permitted
  <2>4. v \in Atomic!Outcomes(o, d)
    BY <1>6, <2>2 DEF Atomic!Outcomes
  <2> QED
    BY <2>3, <2>4
<1>7. CASE o = "finish"
  BY <1>7
  DEF PartOf, EnqueuePart, ResetPart, CompletePart, Finished, Settled, LastStatement,
      Atomic!Permitted, Atomic!Outcomes,
     Atomic!Keyed, Atomic!Guarded, Atomic!Databases
<1> QED
  BY <1>1, <1>2, <1>3, <1>4, <1>5, <1>6, <1>7
  DEF Atomic!Writes, Atomic!Keyed, Atomic!Guarded

(* Only a completion and a reset touch index rows, a reset only while no    *)
(* run is leased.                                                           *)
LEMMA IndexPart ==
  ASSUME NEW o, NEW k \in 1..5, NEW d \in Atomic!Databases, NEW v,
         PartOf(o, k, d, v), v.index # d.index
  PROVE  o = "complete" \/ d.leased = 0
<1>1. \A p \in Atomic!Pruned(d) : /\ Atomic!WithQueuedRun(p).index = d.index
                                   /\ p.queued = d.queued /\ p.leased = d.leased
                                   /\ p.index = d.index
                                   /\ p \in Atomic!Databases
  <2>1. ASSUME NEW p \in Atomic!Pruned(d)
        PROVE  /\ p \in Atomic!Databases /\ p.queued = d.queued /\ p.leased = d.leased
               /\ p.index = d.index
    BY OperationsKeepDatabases
  <2>2. ASSUME NEW p \in Atomic!Databases PROVE Atomic!WithQueuedRun(p).index = p.index
    BY <2>2 DEF Atomic!WithQueuedRun, Atomic!Databases
  <2> QED
    BY <2>1, <2>2
<1>2. \A p \in Atomic!Pruned(d) :
        p.queued + p.leased = 0 => d.leased = 0
  BY <1>1 DEF Atomic!Databases
<1>3. Atomic!AfterClaim(d).index = d.index /\ Atomic!AfterRecovery(d).index = d.index
  BY DEF Atomic!AfterClaim, Atomic!AfterRecovery, Atomic!Databases
<1>4. \A p \in Atomic!Pruned(d), b \in BOOLEAN :
        [Atomic!WithQueuedRun(p) EXCEPT !.key = b].index = d.index
  BY <1>1, OperationsKeepDatabases DEF Atomic!Databases
<1>5. /\ [d EXCEPT !.work = "staged"].index = d.index
      /\ [d EXCEPT !.leased = d.leased - 1, !.work = "none"].index = d.index
  BY DEF Atomic!Databases
<1> QED
  BY <1>1, <1>2, <1>3, <1>4, <1>5 DEF PartOf, EnqueuePart, ResetPart, CompletePart

(* A claim that found a run leaves one leased, and nothing but the end of a *)
(* run or a recovery takes leases away.                                     *)
LEMMA LeasedPart ==
  ASSUME NEW o, NEW k \in 1..5, NEW d \in Atomic!Databases, NEW v,
         PartOf(o, k, d, v), o \notin {"finish", "recover"},
         d.leased > 0 \/ (o = "claim" /\ k > 1)
  PROVE  v.leased > 0
<1>1. \A p \in Atomic!Pruned(d) : /\ Atomic!WithQueuedRun(p).leased = d.leased
                                   /\ p.leased = d.leased /\ p \in Atomic!Databases
  BY OperationsKeepDatabases DEF Atomic!WithQueuedRun, Atomic!Databases
<1>2. CASE o = "claim"
  <2>1. \/ k = 1 /\ v = d
        \/ k = 2 /\ d.queued > 0 /\ v = Atomic!AfterClaim(d)
    <3>1. /\ o \notin Atomic!Keyed
          /\ o # "enqueue" /\ o # "reset" /\ o # "recover"
          /\ o # "stage" /\ o # "complete" /\ o # "finish"
      BY <1>2 DEF Atomic!Keyed
    <3> QED
      BY <3>1, Zenon DEF PartOf
  <2>2. d.queued > 0 => Atomic!AfterClaim(d).leased = d.leased + 1
    BY DEF Atomic!AfterClaim, Atomic!Databases
  <2> QED
    BY <1>2, <2>1, <2>2 DEF Atomic!Databases
<1>3. CASE o # "claim"
  <2>1. \A p \in Atomic!Pruned(d) :
          /\ \A b \in BOOLEAN :
               [Atomic!WithQueuedRun(p) EXCEPT !.key = b].leased = d.leased
          /\ [p EXCEPT !.index = FALSE].leased = d.leased
          /\ [p EXCEPT !.index = FALSE, !.queued = 1].leased = d.leased
          /\ [p EXCEPT !.index = FALSE, !.queued = 1, !.key = TRUE].leased = d.leased
    BY <1>1, OperationsKeepDatabases DEF Atomic!Databases
  <2>2. /\ [d EXCEPT !.work = "staged"].leased = d.leased
        /\ \A b \in BOOLEAN : /\ [d EXCEPT !.index = b].leased = d.leased
                              /\ [d EXCEPT !.index = b, !.work = "settled"].leased = d.leased
    BY DEF Atomic!Databases
  <2>3. v.leased = d.leased
    BY <1>1, <1>3, <2>1, <2>2 DEF PartOf, EnqueuePart, ResetPart, CompletePart
  <2> QED
    BY <1>3, <2>3
<1> QED
  BY <1>2, <1>3

-----------------------------------------------------------------------------
TaskRecords == [op: Atomic!Operations \cup {"none"}, at: Places,
                conn: Connections \cup {NoConnection}, next: 1..5]

(* What every way to leave a call without an answer has in common.          *)
GivesUp(t) ==
  /\ Leave(t)
  /\ open' \in {open, [open EXCEPT ![task[t].conn] = NoTransaction]}
  /\ executing' = (executing /\ t # Worker)
  /\ phase' # phase => t = Worker /\ phase' = "draining"
  /\ UNCHANGED db

StartsUndoing(t) ==
  /\ task[t].at = "body"
  /\ Goto(t, "undo")
  /\ open' \in {open, [open EXCEPT ![task[t].conn] = NoTransaction]}
  /\ UNCHANGED <<db, executing, phase>>

LEMMA StepKinds ==
  ASSUME PoolInv, PoolNext
  PROVE  \/ \E t \in Tasks : \/ \E o \in Atomic!Operations : Ask(t, o)
                             \/ Acquire(t) \/ Begin(t) \/ Execute(t) \/ StartsUndoing(t)
                             \/ Commit(t) \/ Read(t) \/ GivesUp(t)
         \/ \E c \in Connections : Expire(c)
         \/ Restart
<1> USE DEF PoolInv
<1>1. ASSUME NEW t \in Tasks, Fail(t),
             open' \in {open, [open EXCEPT ![task[t].conn] = NoTransaction]}
      PROVE  GivesUp(t)
  <2>1. phase' # phase => t = Worker /\ phase' = "draining"
    BY <1>1 DEF Fail, CallersAreRight, Tasks, Atomic!Keyed
  <2> QED
    BY <1>1, <2>1 DEF Fail, GivesUp
<1>2. ASSUME NEW t \in Tasks, Cancel(t)
      PROVE  GivesUp(t)
  <2>1. t # Worker
    BY <1>2, PoolAssumption DEF Cancel
  <2>2. executing' = (executing /\ t # Worker)
    BY <1>2, <2>1 DEF Cancel, PoolTypeOK
  <2> QED
    BY <1>2, <2>2 DEF Cancel, GivesUp
<1>3. ASSUME Drain
      PROVE  GivesUp(Worker)
  BY <1>3 DEF Drain, GivesUp
<1>4. ASSUME NEW t \in Tasks, Fails(t)
      PROVE  StartsUndoing(t) \/ GivesUp(t)
  <2>1. CASE Fail(t)
    BY <1>1, <1>4, <2>1 DEF Fails
  <2>2. CASE ~Fail(t)
    BY <1>4, <2>2 DEF Fails, StartsUndoing
  <2> QED
    BY <2>1, <2>2
<1>5. ASSUME NEW t \in Tasks,
             AcquireTimeout(t) \/ BeginBlocked(t) \/ FirstStatementFails(t)
      PROVE  GivesUp(t)
  BY <1>1, <1>5 DEF AcquireTimeout, BeginBlocked, FirstStatementFails
<1>6. ASSUME NEW t \in Tasks, Refuse(t) \/ Rollback(t)
      PROVE  GivesUp(t)
  BY <1>1, <1>6 DEF Refuse, Rollback
<1> QED
  BY <1>2, <1>3, <1>4, <1>5, <1>6 DEF PoolNext, Advance, Tasks

(* A step of one task changes its own place and its own connection.         *)
LEMMA TypeStep ==
  ASSUME PoolTypeOK, NEW t \in Tasks, NEW r \in TaskRecords,
         task' = [task EXCEPT ![t] = r],
         r.at # "idle" <=> r.op # "none",
         r.conn # NoConnection <=> r.at \notin {"idle", "waiting"},
         r.conn \in {NoConnection, task[t].conn} \/ Free(r.conn),
         db' \in Atomic!Databases, executing' \in BOOLEAN,
         phase' \in {"starting", "serving", "draining"},
         open' \in [Connections -> Atomic!Databases \cup {NoTransaction}],
         \A c \in Connections \ {task[t].conn} : open'[c] = open[c],
         r.at = "body" => open'[r.conn] # NoTransaction,
         \A c, x \in Connections : open'[c] # NoTransaction /\ open'[x] # NoTransaction => c = x
  PROVE  PoolTypeOK'
<1>1. task' \in [Tasks -> TaskRecords]
  BY DEF PoolTypeOK, TaskRecords
<1>2. task'[t] = r /\ \A u \in Tasks : u # t => task'[u] = task[u]
  BY DEF PoolTypeOK
<1>3. \A u \in Tasks : task'[u].at # "idle" <=> task'[u].op # "none"
  BY <1>2 DEF PoolTypeOK, InCall
<1>4. \A u \in Tasks : task'[u].conn # NoConnection <=> task'[u].at \notin {"idle", "waiting"}
  BY <1>2 DEF PoolTypeOK
<1>5. \A u, w \in Tasks : task'[u].conn = task'[w].conn /\ u # w => task'[u].conn = NoConnection
  <2>1. \A u \in Tasks : u # t /\ task[u].conn = r.conn => r.conn = NoConnection
    BY DEF PoolTypeOK, Free
  <2>2. \A u, w \in Tasks : u # t /\ w # t /\ u # w /\ task[u].conn = task[w].conn
                              => task[u].conn = NoConnection
    BY DEF PoolTypeOK
  <2> QED
    BY <1>2, <2>1, <2>2
<1>6. \A u \in Tasks : task'[u].at = "body" => open'[task'[u].conn] # NoTransaction
  <2>1. \A u \in Tasks : u # t /\ task[u].at = "body"
           => task[u].conn \in Connections \ {task[t].conn} /\ open[task[u].conn] # NoTransaction
    <3>1. ASSUME NEW u \in Tasks, u # t, task[u].at = "body"
          PROVE  /\ task[u].conn \in Connections \ {task[t].conn}
                 /\ open[task[u].conn] # NoTransaction
      <4>1. task[u].conn # NoConnection /\ task[u].conn \in Connections \cup {NoConnection}
        BY <3>1 DEF PoolTypeOK
      <4>2. task[u].conn # task[t].conn
        BY <3>1, <4>1 DEF PoolTypeOK
      <4>3. open[task[u].conn] # NoTransaction
        BY <3>1 DEF PoolTypeOK, Clean
      <4> QED
        BY <4>1, <4>2, <4>3
    <3> QED
      BY <3>1
  <2> QED
    BY <1>2, <2>1
<1> QED
  BY <1>1, <1>3, <1>4, <1>5, <1>6 DEF PoolTypeOK, TaskRecords, InCall, Clean

LEMMA IdleIsRecord ==
  /\ Idle \in TaskRecords
  /\ Idle.at = "idle" /\ Idle.op = "none" /\ Idle.conn = NoConnection
  BY DEF Idle, TaskRecords, Places

(* The connection of a task that has one, and the task of the connection.   *)
LEMMA OwnConnection ==
  ASSUME PoolTypeOK, NEW t \in Tasks, task[t].at \notin {"idle", "waiting"}
  PROVE  /\ task[t].conn \in Connections
         /\ \A u \in Tasks : u # t => task[u].conn # task[t].conn
  BY DEF PoolTypeOK

LEMMA TypeKept ==
  ASSUME PoolInv, [PoolNext]_vars
  PROVE  PoolTypeOK'
<1> USE DEF PoolInv
<1>1. ASSUME NEW t \in Tasks, NEW o \in Atomic!Operations, Ask(t, o)
      PROVE  PoolTypeOK'
  <2> DEFINE r == [op |-> o, at |-> "waiting", conn |-> NoConnection, next |-> 1]
  <2>1. r \in TaskRecords /\ o # "none"
    BY DEF TaskRecords, Places, Atomic!Operations, Atomic!Writes, Atomic!Keyed,
           Atomic!Guarded
  <2>2. task' = [task EXCEPT ![t] = r] /\ UNCHANGED <<db, open, executing, phase>>
    BY <1>1 DEF Ask
  <2>3. /\ r.at # "idle" <=> r.op # "none"
        /\ r.conn # NoConnection <=> r.at \notin {"idle", "waiting"}
        /\ r.conn = NoConnection /\ r.at # "body"
    BY <2>1
  <2>4. /\ db' \in Atomic!Databases /\ executing' \in BOOLEAN
        /\ phase' \in {"starting", "serving", "draining"}
        /\ open' \in [Connections -> Atomic!Databases \cup {NoTransaction}]
        /\ \A c \in Connections \ {task[t].conn} : open'[c] = open[c]
        /\ \A c, x \in Connections :
             open'[c] # NoTransaction /\ open'[x] # NoTransaction => c = x
    BY <2>2 DEF PoolTypeOK, Clean
  <2> HIDE DEF r
  <2> QED
    BY <2>1, <2>2, <2>3, <2>4, TypeStep
<1>2. ASSUME NEW t \in Tasks, Acquire(t)
      PROVE  PoolTypeOK'
  <2>1. PICK c \in Connections :
          Free(c) /\ task' = [task EXCEPT ![t] = [task[t] EXCEPT !.at = "granted", !.conn = c]]
    BY <1>2 DEF Acquire, PoolTypeOK
  <2> DEFINE r == [task[t] EXCEPT !.at = "granted", !.conn = c]
  <2>2. task[t] \in TaskRecords /\ task[t].at = "waiting" /\ task[t].op # "none"
    BY <1>2 DEF Acquire, PoolTypeOK, TaskRecords, InCall
  <2>3. /\ r \in TaskRecords /\ r.at = "granted" /\ r.op # "none" /\ r.conn = c
        /\ c # NoConnection
    BY <2>2, PoolAssumption DEF TaskRecords, Places
  <2>4. /\ db' \in Atomic!Databases /\ executing' \in BOOLEAN
        /\ phase' \in {"starting", "serving", "draining"}
        /\ open' \in [Connections -> Atomic!Databases \cup {NoTransaction}]
        /\ \A x \in Connections \ {task[t].conn} : open'[x] = open[x]
        /\ \A x, y \in Connections :
             open'[x] # NoTransaction /\ open'[y] # NoTransaction => x = y
    BY <1>2 DEF Acquire, PoolTypeOK, Clean
  <2>5. task' = [task EXCEPT ![t] = r]
    BY <2>1
  <2> HIDE DEF r
  <2> QED
    BY <2>1, <2>3, <2>4, <2>5, TypeStep
<1>3. ASSUME NEW t \in Tasks, Begin(t)
      PROVE  PoolTypeOK'
  <2> DEFINE r == [task[t] EXCEPT !.at = "body"]
  <2>1. task[t] \in TaskRecords /\ task[t].at = "granted" /\ task[t].op # "none"
    BY <1>3 DEF Begin, PoolTypeOK, TaskRecords, InCall
  <2>2. task[t].conn \in Connections /\ task[t].conn # NoConnection
    BY <2>1, OwnConnection, PoolAssumption
  <2>3. /\ r \in TaskRecords /\ r.at = "body" /\ r.op # "none" /\ r.conn = task[t].conn
    BY <2>1 DEF TaskRecords, Places
  <2>4. /\ db' \in Atomic!Databases /\ executing' \in BOOLEAN
        /\ phase' \in {"starting", "serving", "draining"}
    BY <1>3 DEF Begin, PoolTypeOK
  <2>5. open' = [open EXCEPT ![task[t].conn] = db] /\ \A c \in Connections : open[c] = NoTransaction
    BY <1>3 DEF Begin, Clean
  <2>6. db \in Atomic!Databases /\ db # NoTransaction
    BY PoolAssumption DEF PoolTypeOK
  <2>7. /\ open' \in [Connections -> Atomic!Databases \cup {NoTransaction}]
        /\ \A x \in Connections \ {task[t].conn} : open'[x] = open[x]
        /\ open'[task[t].conn] # NoTransaction
        /\ \A x, y \in Connections :
             open'[x] # NoTransaction /\ open'[y] # NoTransaction => x = y
    BY <2>2, <2>5, <2>6 DEF PoolTypeOK
  <2>8. task' = [task EXCEPT ![t] = r]
    BY <1>3 DEF Begin, Goto
  <2> HIDE DEF r
  <2> QED
    BY <2>2, <2>3, <2>4, <2>7, <2>8, TypeStep
<1>4. ASSUME NEW t \in Tasks, Execute(t)
      PROVE  PoolTypeOK'
  <2> DEFINE r == [task[t] EXCEPT !.next = task[t].next + 1]
             c == task[t].conn
  <2>1. /\ task[t] \in TaskRecords /\ task[t].at = "body" /\ task[t].op # "none"
        /\ task[t].next \in 1..5
    BY <1>4 DEF Execute, PoolTypeOK, TaskRecords, InCall
  <2>2. c \in Connections /\ c # NoConnection /\ open[c] \in Atomic!Databases
    BY <2>1, OwnConnection, PoolAssumption DEF PoolTypeOK, Clean
  <2>3. PICK e \in Statement(task[t].op, task[t].next, open[c]) : open' = [open EXCEPT ![c] = e]
    BY <1>4 DEF Execute
  <2>4. e \in Atomic!Databases /\ task[t].next + 1 \in 1..5
    BY <1>4, <2>1, <2>2, <2>3, StatementExtendsPart
    DEF Execute, TransactionsArePartial, PoolTypeOK
  <2>5. /\ r \in TaskRecords /\ r.at = "body" /\ r.op # "none" /\ r.conn = c
    BY <2>1, <2>4 DEF TaskRecords
  <2>6. /\ db' \in Atomic!Databases /\ executing' \in BOOLEAN
        /\ phase' \in {"starting", "serving", "draining"}
    BY <1>4 DEF Execute, PoolTypeOK
  <2>7. e # NoTransaction
    BY <2>4, PoolAssumption
  <2>8. \A x \in Connections : open[x] # NoTransaction => x = c
    BY <2>1, <2>2, PoolAssumption DEF PoolTypeOK, Clean
  <2>9. /\ open' \in [Connections -> Atomic!Databases \cup {NoTransaction}]
        /\ \A x \in Connections \ {c} : open'[x] = open[x]
        /\ open'[c] # NoTransaction
        /\ \A x, y \in Connections :
             open'[x] # NoTransaction /\ open'[y] # NoTransaction => x = y
    BY <2>2, <2>3, <2>4, <2>7, <2>8 DEF PoolTypeOK
  <2>10. task' = [task EXCEPT ![t] = r]
    BY <1>4 DEF Execute
  <2> HIDE DEF r
  <2> QED
    BY <2>2, <2>5, <2>6, <2>9, <2>10, TypeStep
<1>5. ASSUME NEW t \in Tasks, StartsUndoing(t)
      PROVE  PoolTypeOK'
  <2> DEFINE r == [task[t] EXCEPT !.at = "undo"]
  <2>1. task[t] \in TaskRecords /\ task[t].at = "body" /\ task[t].op # "none"
    BY <1>5 DEF StartsUndoing, PoolTypeOK, TaskRecords, InCall
  <2>2. task[t].conn \in Connections /\ task[t].conn # NoConnection
    BY <2>1, OwnConnection, PoolAssumption
  <2>3. /\ r \in TaskRecords /\ r.at = "undo" /\ r.op # "none" /\ r.conn = task[t].conn
    BY <2>1 DEF TaskRecords, Places
  <2>4. /\ db' \in Atomic!Databases /\ executing' \in BOOLEAN
        /\ phase' \in {"starting", "serving", "draining"}
    BY <1>5 DEF StartsUndoing, PoolTypeOK
  <2>5. /\ open' \in [Connections -> Atomic!Databases \cup {NoTransaction}]
        /\ \A x \in Connections \ {task[t].conn} : open'[x] = open[x]
        /\ \A x, y \in Connections :
             open'[x] # NoTransaction /\ open'[y] # NoTransaction => x = y
    BY <1>5, <2>2 DEF StartsUndoing, PoolTypeOK, Clean
  <2>6. task' = [task EXCEPT ![t] = r]
    BY <1>5 DEF StartsUndoing, Goto
  <2> HIDE DEF r
  <2> QED
    BY <2>2, <2>3, <2>4, <2>5, <2>6, TypeStep
<1>6. ASSUME NEW t \in Tasks, Leave(t),
             db' \in Atomic!Databases, executing' \in BOOLEAN,
             phase' \in {"starting", "serving", "draining"},
             open' \in {open, [open EXCEPT ![task[t].conn] = NoTransaction]}
      PROVE  PoolTypeOK'
  <2>1. task' = [task EXCEPT ![t] = Idle]
    BY <1>6 DEF Leave
  <2>2. /\ open' \in [Connections -> Atomic!Databases \cup {NoTransaction}]
        /\ \A x \in Connections \ {task[t].conn} : open'[x] = open[x]
        /\ \A x, y \in Connections :
             open'[x] # NoTransaction /\ open'[y] # NoTransaction => x = y
    BY <1>6 DEF PoolTypeOK, Clean
  <2> QED
    BY <1>6, <2>1, <2>2, IdleIsRecord, TypeStep
<1>7. ASSUME NEW t \in Tasks, Commit(t)
      PROVE  PoolTypeOK'
  <2>1. db' \in Atomic!Databases
    BY <1>7, OwnConnection DEF Commit, PoolTypeOK, Clean
  <2>2. Leave(t) /\ executing' \in BOOLEAN /\ phase' \in {"starting", "serving", "draining"}
    BY <1>7 DEF Commit, Succeed, PoolTypeOK
  <2>3. open' \in {open, [open EXCEPT ![task[t].conn] = NoTransaction]}
    BY <1>7 DEF Commit
  <2> QED
    BY <1>6, <2>1, <2>2, <2>3
<1>8. ASSUME NEW t \in Tasks, Read(t)
      PROVE  PoolTypeOK'
  BY <1>6, <1>8 DEF Read, Succeed, PoolTypeOK
<1>9. ASSUME NEW t \in Tasks, GivesUp(t)
      PROVE  PoolTypeOK'
  <2>1. phase' \in {"starting", "serving", "draining"} /\ executing' \in BOOLEAN
    BY <1>9 DEF GivesUp, PoolTypeOK
  <2> QED
    BY <1>6, <1>9, <2>1 DEF GivesUp, PoolTypeOK
<1>10. ASSUME NEW c \in Connections, Expire(c)
       PROVE  PoolTypeOK'
  <2>1. \A t \in Tasks : task[t].conn # c
    BY <1>10 DEF Expire, Free
  <2> QED
    BY <1>10, <2>1 DEF Expire, PoolTypeOK, Clean, InCall
<1>11. ASSUME Restart
       PROVE  PoolTypeOK'
  <2>1. task' \in [Tasks -> TaskRecords] /\ \A t \in Tasks : task'[t] = Idle
    BY <1>11, IdleIsRecord DEF Restart
  <2> QED
    BY <1>11, <2>1, IdleIsRecord DEF Restart, PoolTypeOK, TaskRecords, Clean, InCall
<1>12. CASE UNCHANGED vars
  BY <1>12 DEF vars, PoolTypeOK, Clean, InCall
<1> QED
  BY <1>1, <1>2, <1>3, <1>4, <1>5, <1>7, <1>8, <1>9, <1>10, <1>11, <1>12, StepKinds

(* While a task runs statements, no other connection is in a transaction.   *)
LEMMA OneTransaction ==
  ASSUME PoolTypeOK, NEW t \in Tasks, task[t].at = "body"
  PROVE  /\ open[task[t].conn] \in Atomic!Databases
         /\ \A c \in Connections : open[c] # NoTransaction => c = task[t].conn
         /\ \A u \in Tasks : task[u].at = "body" => u = t
  BY OwnConnection, PoolAssumption DEF PoolTypeOK, Clean

LEMMA PartialStep ==
  ASSUME PoolTypeOK, TransactionsArePartial, NEW t \in Tasks, UNCHANGED db,
         \A u \in Tasks : u # t => task'[u] = task[u],
         \A c \in Connections \ {task[t].conn} : open'[c] = open[c],
         task'[t].at = "body"
           => /\ task'[t].op \in Atomic!Writes
              /\ PartOf(task'[t].op, task'[t].next, db, open'[task'[t].conn])
  PROVE  TransactionsArePartial'
<1> SUFFICES ASSUME NEW u \in Tasks, task'[u].at = "body"
             PROVE  /\ task'[u].op \in Atomic!Writes
                    /\ PartOf(task'[u].op, task'[u].next, db', open'[task'[u].conn])
  BY DEF TransactionsArePartial
<1>1. CASE u = t
  BY <1>1
<1>2. CASE u # t
  <2>1. task'[u] = task[u] /\ task[u].at = "body"
    BY <1>2
  <2>2. task[u].conn \in Connections /\ task[u].conn # task[t].conn
    BY <1>2, <2>1, OwnConnection
  <2>3. open'[task[u].conn] = open[task[u].conn]
    BY <2>2
  <2> QED
    BY <2>1, <2>3 DEF TransactionsArePartial
<1> QED
  BY <1>1, <1>2

LEMMA PartialKept ==
  ASSUME PoolInv, [PoolNext]_vars
  PROVE  TransactionsArePartial'
<1> USE DEF PoolInv
<1>1. ASSUME NEW t \in Tasks, NEW o \in Atomic!Operations, Ask(t, o)
      PROVE  TransactionsArePartial'
  <2>1. /\ task'[t].at = "waiting" /\ \A u \in Tasks : u # t => task'[u] = task[u]
        /\ UNCHANGED <<db, open>>
    BY <1>1 DEF Ask, PoolTypeOK
  <2> QED
    BY <2>1, PartialStep
<1>2. ASSUME NEW t \in Tasks, Acquire(t)
      PROVE  TransactionsArePartial'
  <2>1. /\ task'[t].at = "granted" /\ \A u \in Tasks : u # t => task'[u] = task[u]
        /\ UNCHANGED <<db, open>>
    BY <1>2 DEF Acquire, PoolTypeOK
  <2> QED
    BY <2>1, PartialStep
<1>3. ASSUME NEW t \in Tasks, Begin(t)
      PROVE  TransactionsArePartial'
  <2>1. task[t].at = "granted" /\ task[t].next = 1 /\ task[t].conn \in Connections
    BY <1>3, OwnConnection DEF Begin, CallersAreRight
  <2>2. /\ task'[t].op = task[t].op /\ task'[t].next = 1 /\ task'[t].conn = task[t].conn
        /\ \A u \in Tasks : u # t => task'[u] = task[u]
    BY <1>3, <2>1 DEF Begin, Goto, PoolTypeOK
  <2>3. /\ open'[task[t].conn] = db /\ UNCHANGED db
        /\ \A c \in Connections \ {task[t].conn} : open'[c] = open[c]
    BY <1>3, <2>1 DEF Begin, PoolTypeOK
  <2>4. task[t].op \in Atomic!Writes /\ PartOf(task[t].op, 1, db, db)
    BY <1>3 DEF Begin, PartOf
  <2> QED
    BY <2>2, <2>3, <2>4, PartialStep
<1>4. ASSUME NEW t \in Tasks, Execute(t)
      PROVE  TransactionsArePartial'
  <2>1. task[t].at = "body" /\ task[t].conn \in Connections /\ task[t].next \in 1..5
    BY <1>4, OwnConnection DEF Execute, PoolTypeOK
  <2>2. PICK e \in Statement(task[t].op, task[t].next, open[task[t].conn]) :
          open' = [open EXCEPT ![task[t].conn] = e]
    BY <1>4 DEF Execute
  <2>3. /\ open'[task[t].conn] = e /\ UNCHANGED db
        /\ \A c \in Connections \ {task[t].conn} : open'[c] = open[c]
    BY <1>4, <2>1, <2>2 DEF Execute, PoolTypeOK
  <2>4. /\ task'[t].op = task[t].op /\ task'[t].next = task[t].next + 1
        /\ task'[t].conn = task[t].conn
        /\ \A u \in Tasks : u # t => task'[u] = task[u]
    BY <1>4 DEF Execute, PoolTypeOK
  <2>5. /\ task[t].op \in Atomic!Writes
        /\ PartOf(task[t].op, task[t].next, db, open[task[t].conn])
    BY <2>1 DEF TransactionsArePartial
  <2>6. db \in Atomic!Databases /\ open[task[t].conn] \in Atomic!Databases
    BY <2>1, OneTransaction DEF PoolTypeOK
  <2>7. PartOf(task[t].op, task[t].next + 1, db, e)
    BY <1>4, <2>1, <2>2, <2>5, <2>6, StatementExtendsPart DEF Execute
  <2> QED
    BY <2>3, <2>4, <2>5, <2>7, PartialStep
<1>5. ASSUME NEW t \in Tasks, StartsUndoing(t)
      PROVE  TransactionsArePartial'
  <2>1. /\ task'[t].at = "undo" /\ \A u \in Tasks : u # t => task'[u] = task[u]
        /\ UNCHANGED db
    BY <1>5 DEF StartsUndoing, Goto, PoolTypeOK
  <2>2. \A c \in Connections \ {task[t].conn} : open'[c] = open[c]
    BY <1>5 DEF StartsUndoing, PoolTypeOK
  <2> QED
    BY <2>1, <2>2, PartialStep
<1>6. ASSUME NEW t \in Tasks, Commit(t)
      PROVE  TransactionsArePartial'
  <2>1. task[t].at = "body"
    BY <1>6 DEF Commit
  <2>2. task'[t].at = "idle" /\ \A u \in Tasks : u # t => task'[u] = task[u]
    BY <1>6, IdleIsRecord DEF Commit, Succeed, Leave, PoolTypeOK
  <2>3. \A u \in Tasks : task'[u].at # "body"
    BY <2>1, <2>2, OneTransaction
  <2> QED
    BY <2>3 DEF TransactionsArePartial
<1>7. ASSUME NEW t \in Tasks, Read(t)
      PROVE  TransactionsArePartial'
  <2>1. /\ task'[t].at = "idle" /\ \A u \in Tasks : u # t => task'[u] = task[u]
        /\ UNCHANGED <<db, open>>
    BY <1>7, IdleIsRecord DEF Read, Succeed, Leave, PoolTypeOK
  <2> QED
    BY <2>1, PartialStep
<1>8. ASSUME NEW t \in Tasks, GivesUp(t)
      PROVE  TransactionsArePartial'
  <2>1. /\ task'[t].at = "idle" /\ \A u \in Tasks : u # t => task'[u] = task[u]
        /\ UNCHANGED db
    BY <1>8, IdleIsRecord DEF GivesUp, Leave, PoolTypeOK
  <2>2. \A c \in Connections \ {task[t].conn} : open'[c] = open[c]
    BY <1>8 DEF GivesUp, PoolTypeOK
  <2> QED
    BY <2>1, <2>2, PartialStep
<1>9. ASSUME NEW c \in Connections, Expire(c)
      PROVE  TransactionsArePartial'
  <2>1. \A u \in Tasks : task[u].conn # c
    BY <1>9 DEF Expire, Free
  <2>2. \A u \in Tasks : task[u].at = "body" => open'[task[u].conn] = open[task[u].conn]
    BY <1>9, <2>1, OwnConnection DEF Expire, PoolTypeOK
  <2> QED
    BY <1>9, <2>2 DEF Expire, TransactionsArePartial
<1>10. ASSUME Restart
       PROVE  TransactionsArePartial'
  BY <1>10, IdleIsRecord DEF Restart, TransactionsArePartial
<1>11. CASE UNCHANGED vars
  BY <1>11 DEF vars, TransactionsArePartial
<1> QED
  BY <1>1, <1>2, <1>3, <1>4, <1>5, <1>6, <1>7, <1>8, <1>9, <1>10, <1>11, StepKinds

LEMMA CallersKept ==
  ASSUME PoolInv, [PoolNext]_vars
  PROVE  CallersAreRight'
<1> USE DEF PoolInv
<1>1. ASSUME NEW t \in Tasks, NEW o \in Atomic!Operations, Ask(t, o)
      PROVE  CallersAreRight'
  <2>1. /\ task'[t].op = o /\ task'[t].next = 1 /\ MayAsk(t, o)
        /\ \A u \in Tasks : u # t => task'[u] = task[u]
        /\ UNCHANGED <<db, executing, phase>>
    BY <1>1 DEF Ask, PoolTypeOK
  <2>2. CASE t = Worker
    <3>1. /\ o = "recover" => phase = "starting"
          /\ o = "claim" => phase # "starting"
          /\ o \in Atomic!Guarded \cup {"list"} => executing
      BY <2>1, <2>2, PoolAssumption
      DEF MayAsk, Handlers, Atomic!Guarded, Atomic!Keyed
    <3> QED
      BY <2>1, <2>2, <3>1, PoolAssumption DEF CallersAreRight, Tasks
  <2>3. CASE t # Worker
    <3>1. o \in Atomic!Keyed \cup {"status"}
      BY <2>1, <2>3 DEF MayAsk
    <3>2. Worker \in Tasks
      BY DEF Tasks
    <3> QED
      BY <2>1, <2>3, <3>1, <3>2 DEF CallersAreRight, Tasks
  <2> QED
    BY <2>2, <2>3
<1>2. ASSUME NEW t \in Tasks, Acquire(t) \/ Begin(t) \/ Execute(t) \/ StartsUndoing(t)
      PROVE  CallersAreRight'
  <2>1. /\ task'[t].op = task[t].op
        /\ \A u \in Tasks : u # t => task'[u] = task[u]
        /\ UNCHANGED <<db, executing, phase>>
    BY <1>2 DEF Acquire, Begin, Execute, StartsUndoing, Goto, PoolTypeOK
  <2>2. task'[t].at \in {"waiting", "granted"} => task'[t].next = 1
    BY <1>2 DEF Acquire, Begin, Execute, StartsUndoing, Goto, PoolTypeOK, CallersAreRight
  <2>3. Worker \in Tasks /\ Handlers \subseteq Tasks
    BY DEF Tasks
  <2>4. \A u \in Tasks : task'[u].op = task[u].op
    BY <2>1
  <2>5. \A u \in Tasks : task'[u].at \in {"waiting", "granted"} => task'[u].next = 1
    BY <2>1, <2>2 DEF CallersAreRight
  <2> QED
    BY <2>1, <2>3, <2>4, <2>5 DEF CallersAreRight
<1>3. ASSUME NEW t \in Tasks, Leave(t),
             phase' = "starting" => ~executing',
             task[Worker].op = "recover" /\ t # Worker => phase' = "starting",
             t # Worker => (phase' = phase /\ executing' = executing),
             executing' => db'.leased > 0
      PROVE  CallersAreRight'
  <2>1. /\ task'[t] = Idle
        /\ \A u \in Tasks : u # t => task'[u] = task[u]
    BY <1>3 DEF Leave, PoolTypeOK
  <2>2. Worker \in Tasks /\ Handlers \subseteq Tasks
    BY DEF Tasks
  <2>3. \A u \in Tasks : task'[u].at \in {"waiting", "granted"} => task'[u].next = 1
    BY <2>1, IdleIsRecord DEF CallersAreRight
  <2>4. \A u \in Handlers : task'[u].op \in Atomic!Keyed \cup {"status", "none"}
    BY <2>1, <2>2, IdleIsRecord DEF CallersAreRight
  <2>5. CASE t = Worker
    <3>1. task'[Worker].op = "none"
      BY <2>1, <2>5, IdleIsRecord
    <3> QED
      BY <1>3, <2>3, <2>4, <3>1 DEF CallersAreRight, Atomic!Guarded
  <2>6. CASE t # Worker
    <3>1. task'[Worker] = task[Worker]
      BY <2>1, <2>2, <2>6
    <3> QED
      BY <1>3, <2>3, <2>4, <2>6, <3>1 DEF CallersAreRight
  <2> QED
    BY <2>5, <2>6
<1>4. ASSUME NEW t \in Tasks, Commit(t)
      PROVE  CallersAreRight'
  <2> DEFINE o == task[t].op
             k == task[t].next
             v == open[task[t].conn]
  <2>1. task[t].at = "body" /\ k \in 1..5 /\ o \in Atomic!Writes /\ PartOf(o, k, db, v)
    BY <1>4 DEF Commit, TransactionsArePartial, PoolTypeOK
  <2>2. t # Worker => o \in Atomic!Keyed
    BY <2>1 DEF CallersAreRight, Tasks, Atomic!Writes, Atomic!Keyed, Atomic!Guarded
  <2>3. /\ Leave(t) /\ db' = v
        /\ executing' <=> (o = "claim" /\ k > 1) \/ (o \notin {"claim", "finish"} /\ executing)
        /\ phase' = IF o = "recover" THEN "serving" ELSE phase
    BY <1>4 DEF Commit, Succeed
  <2>4. t # Worker => (phase' = phase /\ executing' = executing)
    BY <1>4, <2>2 DEF Commit, Succeed, Atomic!Keyed, PoolTypeOK
  <2>5. phase' = "starting" => ~executing'
    BY <2>2, <2>3 DEF CallersAreRight, Atomic!Keyed
  <2>6. executing' => v.leased > 0
    <3>1. o = "recover" => ~executing
      BY <2>2 DEF CallersAreRight, Atomic!Keyed
    <3>2. executing => db.leased > 0
      BY DEF CallersAreRight
    <3>3. db \in Atomic!Databases
      BY DEF PoolTypeOK
    <3> QED
      BY <2>1, <2>3, <3>1, <3>2, <3>3, LeasedPart
  <2>7. task[Worker].op = "recover" /\ t # Worker => phase' = "starting"
    BY <2>4 DEF CallersAreRight
  <2> QED
    BY <1>3, <2>3, <2>4, <2>5, <2>6, <2>7
<1>5. ASSUME NEW t \in Tasks, Read(t)
      PROVE  CallersAreRight'
  <2>1. Leave(t) /\ executing' = executing /\ UNCHANGED <<db, phase>>
    BY <1>5 DEF Read, Succeed, PoolTypeOK
  <2> QED
    BY <1>3, <2>1 DEF CallersAreRight
<1>6. ASSUME NEW t \in Tasks, GivesUp(t)
      PROVE  CallersAreRight'
  <2>1. Leave(t) /\ executing' = (executing /\ t # Worker) /\ UNCHANGED db
    BY <1>6 DEF GivesUp
  <2>2. t # Worker => (phase' = phase /\ executing' = executing)
    BY <1>6 DEF GivesUp, PoolTypeOK
  <2>3. phase' = "starting" => ~executing'
    BY <1>6, <2>1 DEF GivesUp, CallersAreRight
  <2>4. task[Worker].op = "recover" /\ t # Worker => phase' = "starting"
    BY <2>2 DEF CallersAreRight
  <2>5. executing' => db'.leased > 0
    BY <2>1 DEF CallersAreRight
  <2> QED
    BY <1>3, <2>1, <2>2, <2>3, <2>4, <2>5
<1>7. ASSUME NEW c \in Connections, Expire(c)
      PROVE  CallersAreRight'
  BY <1>7 DEF Expire, CallersAreRight
<1>8. ASSUME Restart
      PROVE  CallersAreRight'
  <2>1. \A t \in Tasks : task'[t] = Idle
    BY <1>8 DEF Restart
  <2>2. Worker \in Tasks /\ Handlers \subseteq Tasks
    BY DEF Tasks
  <2> QED
    BY <1>8, <2>1, <2>2, IdleIsRecord DEF Restart, CallersAreRight, Atomic!Guarded
<1>9. CASE UNCHANGED vars
  BY <1>9 DEF vars, CallersAreRight
<1> QED
  BY <1>1, <1>2, <1>4, <1>5, <1>6, <1>7, <1>8, <1>9, StepKinds

LEMMA IndexKept ==
  ASSUME PoolInv, [PoolNext]_vars
  PROVE  IndexRowsAreOwn'
<1> USE DEF PoolInv
<1>0. Worker \in Tasks
  BY DEF Tasks
<1>1. ASSUME UNCHANGED <<db, open>>, executing' = executing,
             NEW t \in Tasks, task[t].at \notin {"body", "undo"},
             \A u \in Tasks : u # t => task'[u] = task[u]
      PROVE  IndexRowsAreOwn'
  BY <1>0, <1>1 DEF IndexRowsAreOwn, Clean
<1>2. ASSUME NEW t \in Tasks, NEW o \in Atomic!Operations, Ask(t, o)
      PROVE  IndexRowsAreOwn'
  <2>1. task[t].at \notin {"body", "undo"} /\ \A u \in Tasks : u # t => task'[u] = task[u]
    BY <1>2 DEF Ask, InCall, PoolTypeOK
  <2> QED
    BY <1>1, <1>2, <2>1 DEF Ask
<1>3. ASSUME NEW t \in Tasks, Acquire(t)
      PROVE  IndexRowsAreOwn'
  <2>1. task[t].at \notin {"body", "undo"} /\ \A u \in Tasks : u # t => task'[u] = task[u]
    BY <1>3 DEF Acquire, PoolTypeOK
  <2> QED
    BY <1>1, <1>3, <2>1 DEF Acquire
<1>4. ASSUME NEW t \in Tasks, Read(t)
      PROVE  IndexRowsAreOwn'
  <2>1. task[t].at \notin {"body", "undo"} /\ \A u \in Tasks : u # t => task'[u] = task[u]
    BY <1>4 DEF Read, Succeed, Leave, PoolTypeOK
  <2>2. executing' = executing
    BY <1>4 DEF Read, Succeed, PoolTypeOK
  <2> QED
    BY <1>1, <1>4, <2>1, <2>2 DEF Read
<1>5. ASSUME NEW t \in Tasks, Begin(t)
      PROVE  IndexRowsAreOwn'
  <2>1. /\ open' = [open EXCEPT ![task[t].conn] = db] /\ UNCHANGED db
        /\ \A c \in Connections : open[c] = NoTransaction
    BY <1>5 DEF Begin, Clean
  <2>2. \A c \in Connections : open'[c] # NoTransaction => open'[c] = db
    BY <2>1 DEF PoolTypeOK
  <2> QED
    BY <2>1, <2>2 DEF IndexRowsAreOwn, Clean
<1>6. ASSUME NEW t \in Tasks, Execute(t)
      PROVE  IndexRowsAreOwn'
  <2>1. task[t].at = "body" /\ task'[t].at = "body" /\ UNCHANGED <<db, executing>>
    BY <1>6 DEF Execute, PoolTypeOK
  <2>2. task'[t].conn = task[t].conn /\ task[t].conn \in Connections
    BY <1>6, <2>1, OwnConnection DEF Execute, PoolTypeOK
  <2>3. PoolTypeOK' /\ TransactionsArePartial' /\ CallersAreRight'
    BY TypeKept, PartialKept, CallersKept
  <2>4. \A c \in Connections : open'[c] # NoTransaction => c = task[t].conn
    BY <2>1, <2>2, OneTransaction, <1>6 DEF Execute, PoolTypeOK
  <2>5. SUFFICES ASSUME open'[task[t].conn].index # db.index, executing
                 PROVE  t = Worker
    BY <2>1, <2>2, <2>4 DEF IndexRowsAreOwn, Clean
  <2>6. PartOf(task'[t].op, task'[t].next, db, open'[task[t].conn])
    BY <2>1, <2>2, <2>3 DEF TransactionsArePartial
  <2>7. db \in Atomic!Databases /\ db.leased # 0 /\ task'[t].next \in 1..5
    <3>1. db.leased > 0 /\ db \in Atomic!Databases
      BY <2>5 DEF CallersAreRight, PoolTypeOK
    <3>2. db.leased # 0
      BY <3>1 DEF Atomic!Databases
    <3>3. task'[t].next \in 1..5
      BY <2>3 DEF PoolTypeOK
    <3> QED
      BY <3>1, <3>2, <3>3
  <2>8. task'[t].op = "complete"
    BY <2>5, <2>6, <2>7, IndexPart
  <2>9. t \notin Handlers
    BY <2>3, <2>8 DEF CallersAreRight, Atomic!Keyed
  <2> QED
    BY <2>9 DEF Tasks
<1>7. ASSUME NEW t \in Tasks, StartsUndoing(t)
      PROVE  IndexRowsAreOwn'
  <2>1. /\ task[t].at = "body" /\ task'[t].at = "undo" /\ task'[t].conn = task[t].conn
        /\ \A u \in Tasks : u # t => task'[u] = task[u]
        /\ UNCHANGED <<db, executing>>
    BY <1>7 DEF StartsUndoing, Goto, PoolTypeOK
  <2>2. \A c \in Connections : open'[c] # NoTransaction => open'[c] = open[c]
    BY <1>7 DEF StartsUndoing, PoolTypeOK
  <2> QED
    BY <1>0, <2>1, <2>2 DEF IndexRowsAreOwn, Clean
<1>8. ASSUME NEW t \in Tasks, Commit(t)
      PROVE  IndexRowsAreOwn'
  <2>1. task[t].at = "body" /\ open' = [open EXCEPT ![task[t].conn] = NoTransaction]
    BY <1>8 DEF Commit
  <2>2. \A c \in Connections : open'[c] = NoTransaction
    BY <2>1, OneTransaction DEF PoolTypeOK
  <2> QED
    BY <2>2 DEF IndexRowsAreOwn, Clean
<1>9. ASSUME NEW t \in Tasks, GivesUp(t)
      PROVE  IndexRowsAreOwn'
  <2>1. /\ \A u \in Tasks : u # t => task'[u] = task[u]
        /\ executing' = (executing /\ t # Worker) /\ UNCHANGED db
    BY <1>9 DEF GivesUp, Leave, PoolTypeOK
  <2>2. \A c \in Connections : open'[c] # NoTransaction => open'[c] = open[c]
    BY <1>9 DEF GivesUp, PoolTypeOK
  <2> QED
    BY <1>0, <2>1, <2>2 DEF IndexRowsAreOwn, Clean
<1>10. ASSUME NEW c \in Connections, Expire(c)
       PROVE  IndexRowsAreOwn'
  <2>1. \A x \in Connections : open'[x] # NoTransaction => open'[x] = open[x]
    BY <1>10 DEF Expire, PoolTypeOK
  <2> QED
    BY <1>10, <2>1 DEF Expire, IndexRowsAreOwn, Clean
<1>11. ASSUME Restart
       PROVE  IndexRowsAreOwn'
  BY <1>11 DEF Restart, IndexRowsAreOwn, Clean
<1>12. CASE UNCHANGED vars
  BY <1>12 DEF vars, IndexRowsAreOwn, Clean
<1> QED
  BY <1>2, <1>3, <1>4, <1>5, <1>6, <1>7, <1>8, <1>9, <1>10, <1>11, <1>12, StepKinds

LEMMA InvInit ==
  ASSUME PoolInit
  PROVE  PoolInv
<1>1. /\ \A t \in Tasks : task[t] = Idle
      /\ task \in [Tasks -> TaskRecords]
  BY IdleIsRecord DEF PoolInit
<1>2. PoolTypeOK
  BY <1>1, IdleIsRecord
  DEF PoolInit, PoolTypeOK, TaskRecords, InCall, Clean, Atomic!EmptyDatabase,
      Atomic!Databases, Atomic!Works
<1>3. TransactionsArePartial /\ IndexRowsAreOwn
  BY <1>1, IdleIsRecord DEF PoolInit, TransactionsArePartial, IndexRowsAreOwn, Clean
<1>4. CallersAreRight
  BY <1>1, IdleIsRecord DEF PoolInit, CallersAreRight, Tasks, Atomic!Guarded
<1> QED
  BY <1>2, <1>3, <1>4 DEF PoolInv

LEMMA InvAlways == PoolSpec => []PoolInv
<1>1. PoolInit => PoolInv
  BY InvInit
<1>2. PoolInv /\ [PoolNext]_vars => PoolInv'
  BY TypeKept, PartialKept, CallersKept, IndexKept DEF PoolInv
<1> QED
  BY <1>1, <1>2, PTL DEF PoolSpec

(* Type correctness: no two callers share a connection, and transactions    *)
(* are open on at most one connection of the pool.                          *)
THEOREM PoolTypeCorrect == PoolSpec => []PoolTypeOK
<1>1. PoolInv => PoolTypeOK
  BY DEF PoolInv
<1> QED
  BY <1>1, InvAlways, PTL

(* The index rows the planner reads are committed ones, whatever connection *)
(* of the pool list_indexed_entities is given.                              *)
THEOREM PlansFromCommittedRows == PoolSpec => []PlanFromCommittedRows
<1>1. ASSUME PoolInv PROVE PlanFromCommittedRows
  <2> SUFFICES ASSUME task[Worker].at = "granted", task[Worker].op = "list"
               PROVE  View(task[Worker].conn).index = db.index
    BY DEF PlanFromCommittedRows
  <2>1. Worker \in Tasks
    BY DEF Tasks
  <2>2. executing
    BY <1>1 DEF PoolInv, CallersAreRight
  <2>3. task[Worker].conn \in Connections
    BY <1>1, <2>1, OwnConnection DEF PoolInv
  <2> QED
    BY <1>1, <2>2, <2>3 DEF PoolInv, IndexRowsAreOwn, View
<1> QED
  BY <1>1, InvAlways, PTL

(* Nobody continues or commits a transaction another caller left behind on  *)
(* the connection it was given.                                             *)
THEOREM LeftoversRolledBack == PoolSpec => LeftoversAreRolledBack
<1>1. ASSUME PoolInv, [PoolNext]_vars, NEW c \in Connections, Leaked(c)
      PROVE  (Leaked(c)' /\ open'[c] = open[c]) \/ (Clean(c)' /\ db' = db)
  <2> USE <1>1 DEF PoolInv
  <2>0. /\ open[c] # NoTransaction
        /\ \A t \in Tasks : task[t].conn = c => task[t].at \notin {"body", "undo"}
    BY DEF Leaked, Clean
  <2>1. ASSUME NEW t \in Tasks, \A u \in Tasks : u # t => task'[u] = task[u],
               task'[t].conn = c => task'[t].at \notin {"body", "undo"},
               open'[c] = open[c]
        PROVE  Leaked(c)' /\ open'[c] = open[c]
    BY <2>0, <2>1 DEF Leaked, Clean
  <2>2. ASSUME NEW t \in Tasks, NEW o \in Atomic!Operations, Ask(t, o)
        PROVE  Leaked(c)' /\ open'[c] = open[c]
    BY <2>1, <2>2 DEF Ask, PoolTypeOK
  <2>3. ASSUME NEW t \in Tasks, Acquire(t)
        PROVE  Leaked(c)' /\ open'[c] = open[c]
    BY <2>1, <2>3 DEF Acquire, PoolTypeOK
  <2>4. ASSUME NEW t \in Tasks, Read(t)
        PROVE  Leaked(c)' /\ open'[c] = open[c]
    BY <2>1, <2>4, IdleIsRecord DEF Read, Succeed, Leave, PoolTypeOK
  <2>5. ASSUME NEW t \in Tasks, Begin(t)
        PROVE  FALSE
    BY <2>0, <2>5 DEF Begin, Clean
  <2>6. ASSUME NEW t \in Tasks, task[t].at = "body"
        PROVE  FALSE
    BY <2>0, <2>6, OneTransaction
  <2>7. ASSUME NEW t \in Tasks, GivesUp(t)
        PROVE  (Leaked(c)' /\ open'[c] = open[c]) \/ (Clean(c)' /\ db' = db)
    <3>1. task'[t] = Idle /\ \A u \in Tasks : u # t => task'[u] = task[u]
      BY <2>7 DEF GivesUp, Leave, PoolTypeOK
    <3>2. open'[c] \in {open[c], NoTransaction} /\ db' = db
      BY <2>7 DEF GivesUp, PoolTypeOK
    <3>3. CASE open'[c] = open[c]
      BY <2>1, <3>1, <3>3, IdleIsRecord
    <3>4. CASE open'[c] = NoTransaction
      BY <3>2, <3>4 DEF Clean
    <3> QED
      BY <3>2, <3>3, <3>4
  <2>8. ASSUME NEW x \in Connections, Expire(x)
        PROVE  (Leaked(c)' /\ open'[c] = open[c]) \/ (Clean(c)' /\ db' = db)
    <3>1. open'[c] \in {open[c], NoTransaction} /\ db' = db /\ task' = task
      BY <2>8 DEF Expire, PoolTypeOK
    <3>2. CASE open'[c] = open[c]
      BY <2>0, <3>1, <3>2 DEF Leaked, Clean
    <3>3. CASE open'[c] = NoTransaction
      BY <3>1, <3>3 DEF Clean
    <3> QED
      BY <3>1, <3>2, <3>3
  <2>9. ASSUME Restart
        PROVE  Clean(c)' /\ db' = db
    BY <2>9 DEF Restart, Clean
  <2>10. CASE UNCHANGED vars
    BY <2>0, <2>10 DEF vars, Leaked, Clean
  <2> QED
    BY <2>2, <2>3, <2>4, <2>5, <2>6, <2>7, <2>8, <2>9, <2>10, StepKinds
       DEF Execute, StartsUndoing, Commit
<1>2. ASSUME PoolInv, [PoolNext]_vars
      PROVE  \A c \in Connections : Leaked(c) =>
               \/ Leaked(c)' /\ open'[c] = open[c]
               \/ Clean(c)' /\ db' = db
  BY <1>1, <1>2
<1>3. PoolInv /\ [PoolNext]_vars =>
        [\A c \in Connections : Leaked(c) =>
           \/ Leaked(c)' /\ open'[c] = open[c]
           \/ Clean(c)' /\ db' = db]_vars
  BY <1>2
<1> QED
  BY <1>3, InvAlways, PTL DEF PoolSpec, LeftoversAreRolledBack

(* The pool implements the atomic store: at every commit the transaction    *)
(* holds the whole of its operation on what is committed then, and a call   *)
(* that ends otherwise changes nothing.                                     *)
THEOREM PoolIsAtomicStore == PoolSpec => ImplementsAtomicStore
<1>1. ASSUME PoolInit
      PROVE  Atomic!AtomicInit
  <2>1. \A t \in Tasks : task[t].op = "none"
    BY <1>1, IdleIsRecord DEF PoolInit
  <2> QED
    BY <1>1, <2>1 DEF PoolInit, Atomic!AtomicInit, asked
<1>2. ASSUME PoolInv, [PoolNext]_vars
      PROVE  [Atomic!AtomicNext]_(Atomic!atomicVars)
  <2> USE <1>2 DEF PoolInv
  <2>1. \A t \in Tasks : asked[t] = task[t].op /\ asked'[t] = task'[t].op
    BY DEF asked
  <2>2. ASSUME NEW t \in Tasks, NEW o \in Atomic!Operations, Ask(t, o)
        PROVE  Atomic!Ask(t, o)
    <3>1. asked' = [asked EXCEPT ![t] = o]
      BY <2>2 DEF Ask, PoolTypeOK, asked
    <3>2. asked[t] = "none"
      BY <2>1, <2>2 DEF Ask, PoolTypeOK
    <3> QED
      BY <2>2, <3>1, <3>2 DEF Ask, Atomic!Ask
  <2>3. ASSUME UNCHANGED db, \A t \in Tasks : task'[t].op = task[t].op
        PROVE  UNCHANGED Atomic!atomicVars
    <3>1. asked' = asked
      BY <2>3 DEF asked
    <3> QED
      BY <2>3, <3>1 DEF Atomic!atomicVars
  <2>4. ASSUME NEW t \in Tasks, Acquire(t) \/ Begin(t) \/ Execute(t) \/ StartsUndoing(t)
        PROVE  UNCHANGED Atomic!atomicVars
    <3>1. UNCHANGED db /\ \A u \in Tasks : task'[u].op = task[u].op
      BY <2>4 DEF Acquire, Begin, Execute, StartsUndoing, Goto, PoolTypeOK
    <3> QED
      BY <2>3, <3>1
  <2>5. ASSUME NEW t \in Tasks, Leave(t)
        PROVE  asked' = [asked EXCEPT ![t] = "none"]
    BY <2>5, IdleIsRecord DEF Leave, PoolTypeOK, asked
  <2>6. ASSUME NEW t \in Tasks, Commit(t)
        PROVE  Atomic!Apply(t)
    <3>1. /\ task[t].at = "body" /\ task[t].next \in 1..5
          /\ task[t].op \in Atomic!Writes
          /\ PartOf(task[t].op, task[t].next, db, open[task[t].conn])
      BY <2>6 DEF Commit, TransactionsArePartial, PoolTypeOK
    <3>2. db \in Atomic!Databases /\ open[task[t].conn] \in Atomic!Databases
      BY <3>1, OneTransaction DEF PoolTypeOK
    <3>3. Finished(task[t].op, task[t].next, open[task[t].conn]) /\ db' = open[task[t].conn]
      BY <2>6 DEF Commit
    <3>4. Atomic!Permitted(asked[t], db) /\ db' \in Atomic!Outcomes(asked[t], db)
      BY <2>1, <3>1, <3>2, <3>3, FinishedIsWhole
    <3>5. asked' = [asked EXCEPT ![t] = "none"]
      BY <2>5, <2>6 DEF Commit, Succeed
    <3> QED
      BY <2>1, <3>1, <3>4, <3>5 DEF Atomic!Apply, Atomic!Operations
  <2>7. ASSUME NEW t \in Tasks, Read(t)
        PROVE  Atomic!Apply(t)
    <3>1. /\ asked[t] \in {"list", "status"} /\ db' = db
          /\ asked' = [asked EXCEPT ![t] = "none"]
      BY <2>1, <2>5, <2>7 DEF Read, Succeed
    <3>2. Atomic!Permitted(asked[t], db) /\ db \in Atomic!Outcomes(asked[t], db)
      BY <3>1 DEF Atomic!Permitted, Atomic!Outcomes, Atomic!Guarded
    <3> QED
      BY <3>1, <3>2 DEF Atomic!Apply, Atomic!Operations
  <2>8. ASSUME NEW t \in Tasks, GivesUp(t)
        PROVE  Atomic!Abandon({t})
    <3>1. asked' = [asked EXCEPT ![t] = "none"] /\ UNCHANGED db
      BY <2>5, <2>8 DEF GivesUp
    <3>2. asked' = [u \in Tasks |-> IF u \in {t} THEN "none" ELSE asked[u]]
      BY <3>1 DEF asked
    <3> QED
      BY <3>1, <3>2 DEF Atomic!Abandon
  <2>9. ASSUME NEW c \in Connections, Expire(c)
        PROVE  UNCHANGED Atomic!atomicVars
    BY <2>3, <2>9 DEF Expire
  <2>10. ASSUME Restart
         PROVE  Atomic!Abandon(Tasks)
    <3>1. \A t \in Tasks : task'[t].op = "none"
      BY <2>10, IdleIsRecord DEF Restart
    <3>2. asked' = [t \in Tasks |-> IF t \in Tasks THEN "none" ELSE asked[t]]
      BY <3>1 DEF asked
    <3> QED
      BY <2>10, <3>2 DEF Restart, Atomic!Abandon
  <2>11. CASE UNCHANGED vars
    BY <2>3, <2>11 DEF vars
  <2>12. CASE \E t \in Tasks : \E o \in Atomic!Operations : Ask(t, o)
    BY <2>2, <2>12 DEF Atomic!AtomicNext
  <2>13. CASE \E t \in Tasks : Commit(t) \/ Read(t)
    BY <2>6, <2>7, <2>13 DEF Atomic!AtomicNext
  <2>14. CASE \E t \in Tasks : GivesUp(t)
    BY <2>8, <2>14 DEF Atomic!AtomicNext
  <2>15. CASE Restart
    BY <2>10, <2>15 DEF Atomic!AtomicNext
  <2> QED
    BY <2>4, <2>9, <2>11, <2>12, <2>13, <2>14, <2>15, StepKinds
<1> QED
  BY <1>1, <1>2, InvAlways, PTL DEF PoolSpec, ImplementsAtomicStore, Atomic!AtomicSpec

-----------------------------------------------------------------------------
(* Steps an operation has left at most.                                     *)
CallStepsLeft(x) ==
  CASE x.at = "waiting" -> 8
    [] x.at = "granted" -> 7
    [] x.at = "body" -> 7 - x.next
    [] x.at = "undo" -> 1
    [] OTHER -> 0

OperationRunsDown ==
  [][\A t \in Tasks : InCall(t) =>
       task'[t] = task[t] \/ CallStepsLeft(task'[t]) < CallStepsLeft(task[t])]_vars

(* A caller with a connection can take its next step without any other's.   *)
Ready(t) ==
  LET c == task[t].conn
      k == task[t].next
      o == task[t].op
  IN
  \/ task[t].at = "granted" /\ o \in Atomic!Writes \cup {"list", "status"}
  \/ /\ task[t].at = "body"
     /\ Finished(o, k, open[c]) \/ Refused(o, k, open[c]) \/ Statement(o, k, open[c]) # {}
  \/ task[t].at = "undo"

(* A caller without one waits for callers that are ready.                   *)
NobodyIsStuck ==
  \A t \in Tasks : InCall(t) =>
    \/ Ready(t)
    \/ /\ task[t].at = "waiting"
       /\ \A c \in Connections : Free(c) \/ \E u \in Tasks : task[u].conn = c /\ Ready(u)

LEMMA StatementsReturn ==
  ASSUME NEW o, NEW k, NEW d
  PROVE  Statement(o, k, d) # {}
<1>1. Atomic!Pruned(d) # {} /\ {[d EXCEPT !.key = b] : b \in BOOLEAN} # {}
      /\ {[d EXCEPT !.index = b] : b \in BOOLEAN} # {}
  <2>1. d \in Atomic!Pruned(d)
    BY DEF Atomic!Pruned
  <2>2. [d EXCEPT !.key = TRUE] \in {[d EXCEPT !.key = b] : b \in BOOLEAN}
    OBVIOUS
  <2>3. [d EXCEPT !.index = TRUE] \in {[d EXCEPT !.index = b] : b \in BOOLEAN}
    OBVIOUS
  <2> QED
    BY <2>1, <2>2, <2>3
<1> QED
  BY <1>1 DEF Statement

LEMMA StepRunsDown ==
  ASSUME PoolInv, [PoolNext]_vars
  PROVE  \A u \in Tasks : InCall(u) =>
           task'[u] = task[u] \/ CallStepsLeft(task'[u]) < CallStepsLeft(task[u])
<1> DEFINE Down == \A u \in Tasks : InCall(u) =>
                     task'[u] = task[u] \/ CallStepsLeft(task'[u]) < CallStepsLeft(task[u])
<1>1. ASSUME NEW t \in Tasks, InCall(t)
      PROVE  /\ task[t] \in TaskRecords /\ task[t].next \in 1..5
             /\ CallStepsLeft(task[t]) \in Nat \ {0} /\ CallStepsLeft(Idle) = 0
  <2>1. task[t] \in TaskRecords /\ task[t].next \in 1..5 /\ task[t].at # "idle"
    BY <1>1 DEF PoolInv, PoolTypeOK, TaskRecords, InCall
  <2>2. task[t].at \in {"waiting", "granted", "body", "undo"}
    BY <2>1 DEF TaskRecords, Places
  <2> QED
    BY <2>1, <2>2, IdleIsRecord DEF CallStepsLeft
<1>2. ASSUME NEW t \in Tasks, Leave(t)
      PROVE  Down
  <2>1. task'[t] = Idle /\ \A u \in Tasks : u # t => task'[u] = task[u]
    BY <1>2 DEF Leave, PoolInv, PoolTypeOK
  <2> QED
    BY <1>1, <2>1
<1>3. ASSUME NEW t \in Tasks, NEW o \in Atomic!Operations, Ask(t, o)
      PROVE  Down
  <2>1. ~InCall(t) /\ \A u \in Tasks : u # t => task'[u] = task[u]
    BY <1>3 DEF Ask, PoolInv, PoolTypeOK
  <2> QED
    BY <2>1
<1>4. ASSUME NEW t \in Tasks, Acquire(t) \/ Begin(t) \/ Execute(t) \/ StartsUndoing(t)
      PROVE  Down
  <2>1. \A u \in Tasks : u # t => task'[u] = task[u]
    BY <1>4 DEF Acquire, Begin, Execute, StartsUndoing, Goto, PoolInv, PoolTypeOK
  <2>2. InCall(t)
    BY <1>4 DEF Acquire, Begin, Execute, StartsUndoing, InCall
  <2>3. CallStepsLeft(task'[t]) < CallStepsLeft(task[t])
    <3>1. CASE Acquire(t)
      <4>1. task[t].at = "waiting" /\ task'[t].at = "granted"
        BY <3>1 DEF Acquire, PoolInv, PoolTypeOK
      <4> QED
        BY <4>1 DEF CallStepsLeft
    <3>2. CASE Begin(t)
      <4>1. task[t].at = "granted" /\ task'[t].at = "body" /\ task'[t].next = task[t].next
        BY <3>2 DEF Begin, Goto, PoolInv, PoolTypeOK
      <4> QED
        BY <1>1, <2>2, <4>1 DEF CallStepsLeft
    <3>3. CASE Execute(t)
      <4>1. /\ task[t].at = "body" /\ task'[t].at = "body"
            /\ task'[t].next = task[t].next + 1
        BY <3>3 DEF Execute, PoolInv, PoolTypeOK
      <4> QED
        BY <1>1, <2>2, <4>1 DEF CallStepsLeft
    <3>4. CASE StartsUndoing(t)
      <4>1. task[t].at = "body" /\ task'[t].at = "undo"
        BY <3>4 DEF StartsUndoing, Goto, PoolInv, PoolTypeOK
      <4> QED
        BY <1>1, <2>2, <4>1 DEF CallStepsLeft
    <3> QED
      BY <1>4, <3>1, <3>2, <3>3, <3>4
  <2> QED
    BY <2>1, <2>3
<1>5. ASSUME Restart PROVE Down
  <2>1. \A u \in Tasks : task'[u] = Idle
    BY <1>5 DEF Restart
  <2> QED
    BY <1>1, <2>1
<1>6. ASSUME task' = task PROVE Down
  BY <1>6
<1>7. ASSUME NEW t \in Tasks, Commit(t) \/ Read(t) \/ GivesUp(t) PROVE Down
  BY <1>2, <1>7 DEF Commit, Read, GivesUp, Succeed
<1> QED
  BY <1>3, <1>4, <1>5, <1>6, <1>7, StepKinds DEF Expire, vars

(* An operation takes at most eight steps from its call to its answer, and   *)
(* nobody else's step, nor a connection closed by the pool, sends it back.  *)
THEOREM OperationsRunDown == PoolSpec => OperationRunsDown
<1>1. PoolInv /\ [PoolNext]_vars =>
        [\A t \in Tasks : InCall(t) =>
           task'[t] = task[t] \/ CallStepsLeft(task'[t]) < CallStepsLeft(task[t])]_vars
  BY StepRunsDown
<1> QED
  BY <1>1, InvAlways, PTL DEF PoolSpec, OperationRunsDown

LEMMA HoldersAreReady ==
  ASSUME PoolInv, NEW t \in Tasks, task[t].conn # NoConnection
  PROVE  Ready(t)
<1>1. task[t].at \in {"granted", "body", "undo"}
  BY DEF PoolInv, PoolTypeOK, Places
<1>2. task[t].at = "granted" => task[t].op \in Atomic!Writes \cup {"list", "status"}
  BY DEF PoolInv, PoolTypeOK, Atomic!Operations, InCall
<1> QED
  BY <1>1, <1>2, StatementsReturn DEF Ready

(* No deadlock on the pool: whoever has a connection goes on or gives up by  *)
(* itself, also while another transaction keeps the write lock, and nobody   *)
(* waits but for a connection of such a caller.                             *)
THEOREM PoolIsNeverStuck == PoolSpec => []NobodyIsStuck
<1>1. ASSUME PoolInv, NEW t \in Tasks, InCall(t)
      PROVE  \/ Ready(t)
             \/ /\ task[t].at = "waiting"
                /\ \A c \in Connections : Free(c) \/ \E u \in Tasks : task[u].conn = c /\ Ready(u)
  <2>1. CASE task[t].conn # NoConnection
    BY <1>1, <2>1, HoldersAreReady
  <2>2. CASE task[t].conn = NoConnection
    <3>1. task[t].at = "waiting"
      BY <1>1, <2>2 DEF PoolInv, PoolTypeOK, InCall
    <3>2. ASSUME NEW c \in Connections, ~Free(c)
          PROVE  \E u \in Tasks : task[u].conn = c /\ Ready(u)
      <4>1. PICK u \in Tasks : task[u].conn = c
        BY <3>2 DEF Free
      <4> QED
        BY <1>1, <4>1, HoldersAreReady, PoolAssumption
    <3> QED
      BY <3>1, <3>2
  <2> QED
    BY <2>1, <2>2
<1>2. PoolInv => NobodyIsStuck
  BY <1>1 DEF NobodyIsStuck
<1> QED
  BY <1>2, InvAlways, PTL
=============================================================================
