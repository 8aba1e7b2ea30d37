--------------------------- MODULE ConnectionPool ---------------------------
(***************************************************************************)
(* The repository's transactions on sqlx's pool of SQLite connections       *)
(* (adapters/sqlite/mod.rs).  begin_immediate acquires a connection and     *)
(* sends BEGIN IMMEDIATE as an ordinary statement, so the pool does not     *)
(* know that a transaction is open: a caller that is dropped, or returns at *)
(* a `?`, gives the connection back with the transaction in it.  That        *)
(* transaction keeps SQLite's write lock and whatever it wrote stays        *)
(* visible to the next statement on the connection, until the pool closes   *)
(* the connection.                                                         *)
(*                                                                         *)
(* What keeps the store right nevertheless: nobody commits a transaction it *)
(* did not begin, and the planner reads outside transactions only when none *)
(* can hold uncommitted index rows.  A renewal, which no production code    *)
(* asks for, would be lost on such a connection and is left out.            *)
(***************************************************************************)
EXTENDS Naturals

CONSTANTS
  Worker,         \* the one worker loop
  Writers,        \* handlers of POST requests, and the scheduler
  Readers,        \* handlers of the status pages
  Connections,    \* max_connections of the pool
  MaxLeased,      \* bound: runs left leased by executions that failed
  NoConnection, NoTransaction

VARIABLES
  db,             \* what is committed
  open,           \* the database as the open transaction of a connection sees it
  task,           \* operation of each caller: place, connection, next statement
  executing,      \* the worker has a claim and executes it
  phase           \* of the process: starting, serving or draining (on its way out)

vars == <<db, open, task, executing, phase>>

Handlers == Writers \cup Readers
Tasks == Handlers \cup {Worker}

asked == [t \in Tasks |-> task[t].op]

Atomic == INSTANCE AtomicStore WITH call <- asked

ASSUME PoolAssumption ==
  /\ Worker \notin Handlers
  /\ NoConnection \notin Connections
  /\ NoTransaction \notin Atomic!Databases
  /\ MaxLeased \in Nat

Places == {"idle", "waiting", "granted", "body", "undo"}
InCall(t) == task[t].at # "idle"
Free(c) == \A t \in Tasks : task[t].conn # c
Clean(c) == open[c] = NoTransaction
View(c) == IF Clean(c) THEN db ELSE open[c]
Leaked(c) == ~Clean(c) /\ \A t \in Tasks : task[t].conn = c => task[t].at \notin {"body", "undo"}

-----------------------------------------------------------------------------
(* The statements of an operation, each with the databases it may leave.    *)
LastStatement(o) ==
  CASE o = "reset" -> 4
    [] o = "enqueue" -> 3
    [] o \in {"stage", "complete", "recover"} -> 2
    [] OTHER -> 1

Statement(o, k, d) ==
  CASE o \in Atomic!Keyed /\ k = 1 -> Atomic!Pruned(d)
    [] o = "enqueue" /\ k = 2 -> {Atomic!WithQueuedRun(d)}
    [] o = "reset" /\ k = 2   -> {[d EXCEPT !.index = FALSE]}
    [] o = "reset" /\ k = 3   -> {[d EXCEPT !.queued = 1]}
    [] o = "enqueue" /\ k = 3 -> {[d EXCEPT !.key = b] : b \in BOOLEAN}
    [] o = "reset" /\ k = 4   -> {[d EXCEPT !.key = TRUE]}
    [] o = "claim"            -> {Atomic!AfterClaim(d)}
    [] o = "recover" /\ k = 2 -> {Atomic!AfterRecovery(d)}
    [] o = "stage" /\ k = 1   -> {[d EXCEPT !.work = "staged"]}
    [] o = "complete" /\ k = 1 -> {[d EXCEPT !.index = b] : b \in BOOLEAN}
    [] o = "complete" /\ k = 2 -> {[d EXCEPT !.work = "settled"]}
    [] o = "finish"           -> {[d EXCEPT !.leased = d.leased - 1, !.work = "none"]}
    [] OTHER                  -> {d}

(* Mutant: a reset does not look for queued and leased runs.                *)
SettledUnchecked(o, k, d) ==
  \/ o \in Atomic!Keyed /\ k = 2 /\ d.key
  \/ o = "claim" /\ k = 1 /\ d.queued = 0

(* What the lookups find may settle the answer before anything is written:  *)
(* a live key, runs in the way of a reset, an empty queue.                  *)
Settled(o, k, d) ==
  \/ o \in Atomic!Keyed /\ k = 2 /\ d.key
  \/ o = "reset" /\ k = 2 /\ d.queued + d.leased > 0
  \/ o = "claim" /\ k = 1 /\ d.queued = 0

Finished(o, k, d) == k > LastStatement(o) \/ Settled(o, k, d)

(* The lease check comes first; completing needs staged work.               *)
Refused(o, k, d) ==
  \/ o \in Atomic!Guarded /\ k = 1 /\ d.leased = 0
  \/ o = "complete" /\ k = 2 /\ d.work = "none"

(* After a storage error most operations return at the `?`.  A reset rolls   *)
(* back, and so does staging, unless its lease check or audit row failed.   *)
AfterError(o, k) ==
  CASE o = "reset" -> {"undo"}
    [] o = "stage" /\ k = 1 -> {"undo", "failed"}
    [] OTHER -> {"failed"}

-----------------------------------------------------------------------------
(* A caller between two calls, and the steps of one within a call.          *)
Idle == [op |-> "none", at |-> "idle", conn |-> NoConnection, next |-> 1]
Goto(t, place) == task' = [task EXCEPT ![t].at = place]
Leave(t) == task' = [task EXCEPT ![t] = Idle]

PoolInit ==
  /\ db = Atomic!EmptyDatabase
  /\ open = [c \in Connections |-> NoTransaction]
  /\ task = [t \in Tasks |-> Idle]
  /\ executing = FALSE
  /\ phase = "starting"

(* What each caller asks for.                                              *)
MayAsk(t, o) ==
  \/ phase = "starting" /\ t = Worker /\ o = "recover"
  \/ phase = "serving" /\ t \in Writers /\ o \in Atomic!Keyed
  \/ phase = "serving" /\ t \in Readers /\ o = "status"
  \/ /\ phase = "serving" /\ t = Worker
     /\ o \in IF executing THEN {"list"} \cup Atomic!Guarded ELSE {"claim"}
     /\ o = "claim" => db.leased < MaxLeased

Ask(t, o) ==
  /\ ~InCall(t) /\ MayAsk(t, o)
  /\ task' = [task EXCEPT ![t] = [op |-> o, at |-> "waiting", conn |-> NoConnection, next |-> 1]]
  /\ UNCHANGED <<db, open, executing, phase>>

Acquire(t) ==
  /\ task[t].at = "waiting"
  /\ \E c \in Connections :
       Free(c) /\ task' = [task EXCEPT ![t].at = "granted", ![t].conn = c]
  /\ UNCHANGED <<db, open, executing, phase>>

(* An operation answers and drops its connection.  The worker executes what *)
(* it claimed until its run is finished.                                    *)
Succeed(t) ==
  /\ Leave(t)
  /\ executing' = \/ task[t].op = "claim" /\ task[t].next > 1
                  \/ task[t].op \notin {"claim", "finish"} /\ executing
  /\ phase' = IF task[t].op = "recover" THEN "serving" ELSE phase

(* It answers an error, which ends an execution or a start.                 *)
Fail(t) ==
  /\ Leave(t)
  /\ executing' = (executing /\ t # Worker)
  /\ phase' = IF task[t].op = "recover" THEN "draining" ELSE phase
  /\ UNCHANGED db

(* The acquire timeout of the pool, when every connection stays in use.     *)
AcquireTimeout(t) ==
  /\ task[t].at = "waiting" /\ \A c \in Connections : ~Free(c)
  /\ Fail(t)
  /\ UNCHANGED open

(* Mutant: the transaction is begun without taking the write lock.          *)
BeginDeferred(t) ==
  /\ task[t].at = "granted" /\ task[t].op \in Atomic!Writes
  /\ Clean(task[t].conn)
  /\ open' = [open EXCEPT ![task[t].conn] = db]
  /\ Goto(t, "body")
  /\ UNCHANGED <<db, executing, phase>>

(* Mutant: an error of a nested BEGIN is ignored.                           *)
BeginUnchecked(t) ==
  LET c == task[t].conn IN
  /\ task[t].at = "granted" /\ task[t].op \in Atomic!Writes
  /\ \A x \in Connections \ {c} : Clean(x)
  /\ open' = [open EXCEPT ![c] = View(c)]
  /\ Goto(t, "body")
  /\ UNCHANGED <<db, executing, phase>>

(* SQLite has one writer at a time, whatever connection it is on.           *)
Begin(t) ==
  /\ task[t].at = "granted" /\ task[t].op \in Atomic!Writes
  /\ \A c \in Connections : Clean(c)
  /\ open' = [open EXCEPT ![task[t].conn] = db]
  /\ Goto(t, "body")
  /\ UNCHANGED <<db, executing, phase>>

(* Mutant: BEGIN is tried again on the same connection.                     *)
BeginAgain(t) ==
  /\ task[t].at = "granted" /\ task[t].op \in Atomic!Writes
  /\ UNCHANGED vars

(* The connection is in a transaction already, or another one keeps the     *)
(* lock longer than the busy timeout.                                       *)
BeginBlocked(t) ==
  /\ task[t].at = "granted" /\ task[t].op \in Atomic!Writes
  /\ \E c \in Connections : ~Clean(c)
  /\ Fail(t)
  /\ UNCHANGED open

Execute(t) ==
  LET c == task[t].conn
      k == task[t].next
      o == task[t].op
  IN
  /\ task[t].at = "body" /\ ~Finished(o, k, open[c]) /\ ~Refused(o, k, open[c])
  /\ \E d \in Statement(o, k, open[c]) : open' = [open EXCEPT ![c] = d]
  /\ task' = [task EXCEPT ![t].next = k + 1]
  /\ UNCHANGED <<db, executing, phase>>

Refuse(t) ==
  LET c == task[t].conn IN
  /\ task[t].at = "body" /\ Refused(task[t].op, task[t].next, open[c])
  /\ open' = [open EXCEPT ![c] = NoTransaction]
  /\ Fail(t)

(* A storage error before anything is open: BEGIN fails, or a query.        *)
FirstStatementFails(t) == task[t].at = "granted" /\ Fail(t) /\ UNCHANGED open

(* A storage error; after some of them SQLite has rolled back by itself.    *)
Fails(t) ==
  /\ task[t].at = "body"
  /\ open' \in {open, [open EXCEPT ![task[t].conn] = NoTransaction]}
  /\ \/ "failed" \in AfterError(task[t].op, task[t].next) /\ Fail(t)
     \/ /\ "undo" \in AfterError(task[t].op, task[t].next)
        /\ Goto(t, "undo")
        /\ UNCHANGED <<db, executing, phase>>

Rollback(t) ==
  /\ task[t].at = "undo"
  /\ open' = [open EXCEPT ![task[t].conn] = NoTransaction]
  /\ Fail(t)

Commit(t) ==
  LET c == task[t].conn IN
  /\ task[t].at = "body" /\ Finished(task[t].op, task[t].next, open[c])
  /\ db' = open[c]
  /\ open' = [open EXCEPT ![c] = NoTransaction]
  /\ Succeed(t)

(* list_indexed_entities and the status queries run outside transactions.   *)
Read(t) ==
  /\ task[t].at = "granted" /\ task[t].op \in {"list", "status"}
  /\ Succeed(t)
  /\ UNCHANGED <<db, open>>

(* A client disconnects and its handler is dropped wherever it awaits.      *)
Cancel(t) ==
  /\ t \in Handlers /\ InCall(t)
  /\ Leave(t)
  /\ UNCHANGED <<db, open, executing, phase>>

(* The worker is dropped, the handlers are still served.                    *)
Drain ==
  /\ phase = "serving"
  /\ phase' = "draining"
  /\ Leave(Worker)
  /\ executing' = FALSE
  /\ UNCHANGED <<db, open>>

(* The pool closes a connection of its age or idle for long; SQLite rolls   *)
(* back what was open on it.                                                *)
Expire(c) ==
  /\ Free(c) /\ ~Clean(c)
  /\ open' = [open EXCEPT ![c] = NoTransaction]
  /\ UNCHANGED <<db, task, executing, phase>>

(* The process ends, at any point, and the next one starts.                 *)
Restart ==
  /\ open' = [c \in Connections |-> NoTransaction]
  /\ task' = [t \in Tasks |-> Idle]
  /\ executing' = FALSE
  /\ phase' = "starting"
  /\ UNCHANGED db

Advance(t) ==
  \/ Acquire(t) \/ Begin(t) \/ BeginBlocked(t) \/ Execute(t) \/ Refuse(t) \/ Rollback(t)
  \/ Commit(t) \/ Read(t)

PoolNext ==
  \/ \E t \in Tasks : \/ \E o \in Atomic!Operations : Ask(t, o)
                      \/ Advance(t)
                      \/ AcquireTimeout(t) \/ FirstStatementFails(t) \/ Fails(t) \/ Cancel(t)
  \/ Drain
  \/ \E c \in Connections : Expire(c)
  \/ Restart

PoolSpec == PoolInit /\ [][PoolNext]_vars

(* Statements return, waiting for the lock ends at the busy timeout and     *)
(* waiting for a connection is first come, first served.  A connection      *)
(* grows too old even if it is used again and again.                        *)
FairPoolSpec ==
  /\ PoolSpec
  /\ \A t \in Tasks : SF_vars(Advance(t))
  /\ SF_vars(\E c \in Connections : Expire(c))

-----------------------------------------------------------------------------
(* Every caller holds at most one connection, of its own; a transaction is  *)
(* open for a caller that runs statements, and on at most one connection.   *)
PoolTypeOK ==
  /\ db \in Atomic!Databases
  /\ open \in [Connections -> Atomic!Databases \cup {NoTransaction}]
  /\ task \in [Tasks -> [op: Atomic!Operations \cup {"none"}, at: Places,
                         conn: Connections \cup {NoConnection}, next: 1..5]]
  /\ executing \in BOOLEAN
  /\ phase \in {"starting", "serving", "draining"}
  /\ \A t \in Tasks : InCall(t) <=> task[t].op # "none"
  /\ \A t \in Tasks : task[t].conn # NoConnection <=> task[t].at \notin {"idle", "waiting"}
  /\ \A t, u \in Tasks : task[t].conn = task[u].conn /\ t # u => task[t].conn = NoConnection
  /\ \A t \in Tasks : task[t].at = "body" => ~Clean(task[t].conn)
  /\ \A c, x \in Connections : ~Clean(c) /\ ~Clean(x) => c = x

(* Whatever is cut off, refused or left open, the store changes by whole     *)
(* operations only, between call and answer; an operation that answered an   *)
(* error or was given up never takes effect later, not even through the      *)
(* next user of its connection.                                             *)
ImplementsAtomicStore == Atomic!AtomicSpec

(* list_indexed_entities reads on any connection of the pool, also on one    *)
(* with a transaction left open; the index rows it finds are nevertheless    *)
(* committed ones: a reset refuses to run while a run is leased, and an      *)
(* execution whose own write was cut off does not read again.               *)
PlanFromCommittedRows ==
  task[Worker].at = "granted" /\ task[Worker].op = "list"
    => View(task[Worker].conn).index = db.index

(* A transaction that its caller left behind stays as it is until it is     *)
(* rolled back: whoever is given its connection neither continues nor       *)
(* commits it.                                                              *)
LeftoversAreRolledBack ==
  [][\A c \in Connections : Leaked(c) =>
       \/ Leaked(c)' /\ open'[c] = open[c]
       \/ Clean(c)' /\ db' = db]_vars

(* No call waits for ever, although every transaction needs a connection     *)
(* and then the only write lock: nobody holds one while waiting for a second.*)
(* A transaction left behind blocks all others, but not for ever either:     *)
(* the pool closes its connection.                                          *)
CallsEnd ==
  /\ \A t \in Tasks : []<>~InCall(t)
  /\ []<>(\A c \in Connections : Clean(c))
=============================================================================
