# Second Brain Indexer: a formal model

The indexer keeps a remote vector store in step with a knowledge graph. It is one Rust
process with a durable SQLite queue: requests ask for an index run, a worker loop claims
one run at a time, reads the whole graph, plans which entities to embed and which
vectors to delete, and records every step so that a crash loses nothing. This directory
holds TLA+ modules of that program, TLC configurations that check them on small
instances, and TLAPS proofs for all values of the constants.

Paths below are relative to the repository. `PROJECT.json` maps every definition to the
lines it stands for.

## 1. Inventory

| Component | State | Operations | Module |
|---|---|---|---|
| Transactions on pooled connections, `src/adapters/sqlite/mod.rs` | a pool of connections, each with or without an open transaction | acquire, `BEGIN IMMEDIATE`, statements, commit, rollback, and all exits without either | `ConnectionPool`, its promise `AtomicStore` |
| Run queue and leases, `src/adapters/sqlite/mod.rs`, tables `run`, `idempotency_key` | a row per run: queue state, status, owner, epoch, expiry; a row per idempotency key | enqueue (replay, coalesce, refuse, insert), claim, renew, finish, recover | `RunQueue` |
| Index tables, same file, `entity_index_state`, `run_snapshot`, `run_work`, `deletion_audit` | committed hash per entity; per run its snapshot, work items and audit rows | record snapshot, stage, complete, fail, reset, list | `StateRepository` |
| Run executor, `src/application/execute_run.rs` | plan, batches, counters, in memory | one execution, from claim to finish or error | `IndexRun` |
| Planner and canonical document, `src/domain/{planner,canonical}.rs` | none | which names to upsert, skip, delete; what a document depends on | `Planner`, and over opaque hashes `Plan` in `IndexRun` |
| Knowledge-graph and vector-store client, `src/adapters/mcp.rs` | the protocol session under a mutex | handshake, call, refuse answers; read graph, upsert batch, delete | `McpClient`, its promise `ToolCalls`; what the calls do to the store in `IndexRun` |
| Retry policy, `src/application/retry.rs` | none | classify errors, delays; the loop of attempts | `RetryPolicy`, `McpClient`, `IndexRun` |
| Embedding providers, `src/adapters/{openai,ollama}.rs` | none | turn a reply into one embedding per input | `EmbeddingReply`, `RemoteCalls` |
| Process start and stop, `src/main.rs`, `src/runtime/{bootstrap,lock,shutdown}.rs` | lock file, accepting flag | acquire, recover, serve, drain | `Service` |
| Worker loop, `src/runtime/worker.rs` | claim in progress | claim, execute, be cancelled | `Service`, `IndexRun` |
| Poll scheduler, `src/runtime/scheduler.rs` | a task | queue a full run | `Service` |
| REST API and indexer MCP endpoint, `src/http/mod.rs`, `src/indexer_mcp.rs` | requests in progress | admit, look up the target, answer | `Service` |
| Text layout, configuration, metrics, logging | | | not modelled |

The process talks to three parties: SQLite (transactions under `BEGIN IMMEDIATE`, each
of them one action in all modules but the one that shows why it may be), the graph and
vector server (calls that may fail, time out after they took effect, or take effect
late), and clients.

What is hard about it:

* *Fencing.* All workers use the owner name `second-brain-indexer`. After a recovery an
  earlier claimant may still hold a lease on a run that was claimed again; only the
  epoch keeps it from writing.
* *Two stores without a common transaction.* A vector is written first, its row
  committed later. A stop, an error or a lost answer between the two leaves a vector
  that no row describes.
* *Deletion.* A vector may go only when a complete scan did not see its entity, and
  every removal must be audited, also across a restart in the middle.
* *Documents that overlap.* The text embedded for an entity names its neighbours and
  their types, so an edit of one entity makes rows of others stale, and a narrow run
  settles some of them only.
* *Requests that await between a check and their transaction*: the accepting flag, the
  target, the clock and the response to remember are all read before.
* *Transactions by hand.* `BEGIN IMMEDIATE` is sent as an ordinary statement on a pooled
  connection. A handler that is dropped, or a `?`, gives the connection back with the
  transaction open, the write lock held and uncommitted rows visible to its next user.
* *One session for all callers.* Its mutex is held across the two requests of the
  handshake and taken again for every call, while handlers are dropped at any await, the
  server forgets, and requests given up are served late.
* *Start and stop.* Recovery is right only if nobody else executes; shutdown drops an
  execution wherever it is.

What makes each part correct: the queue never has two current leases on one run, never
changes a finished run, and keeps the answer of a live key; the tables tell one story
about every deletion; every operation of the repository happens as a whole or not at
all, and none waits for ever; no tool is called on a half-made session, and what the
client takes for a result the server has done; an execution commits only what the store
did, and the next success repairs what an interrupted one left; the service runs one
executor at a time and comes out of every signal and crash able to go on.

## 2. Modules

```
AtomicStore  <== ConnectionPool <- ConnectionPoolProofs
RunQueue  <--- StateRepository <--- IndexRun
   ^                ^                  ^
   +-- Service      |                  |
RunQueueProofs <- StateRepositoryProofs <- IndexRunProofs <- ConvergenceProofs
   ^-- ServiceProofs
Planner <- PlannerProofs
ToolCalls  <== McpClient -> RetryPolicy
                   ^
EmbeddingReply <- RemoteCalls <- RemoteCallsProofs
```

(`<-` is EXTENDS, `<==` is INSTANCE ... WITH.) The `MC*` modules and `.cfg` files
instantiate them for TLC.

**AtomicStore** is the promise the other modules rely on: an operation asked for happens
once, as a whole, between the call and its answer, or it does not happen.

**ConnectionPool** is how the repository keeps it. `db` is what is committed and `open`
the database as the transaction open on a connection sees it; `task` is the call of each
caller: its operation, the connection it was given and the next statement. The tables
are abstracted to what makes operations interact: numbers of queued and leased runs, the
work of the leased run, whether index rows and a live key exist. The pool does not know
of a transaction that was begun by hand, so `Leave`, from an error, a refusal or a
dropped caller (`Cancel`), frees the connection as it is. `FirstStatementFails` is what
SQLite then says to the next user, `cannot start a transaction within a transaction`; on
other connections `BeginBlocked` is `SQLITE_BUSY` after the busy timeout; `Expire` is
the pool closing a connection that is idle or old, which rolls back. The constants of
the pool (timeouts of 5 s and 30 s, life of 10 and 30 min) appear as nondeterminism:
each may pass at any time. `AtomicStore` is instantiated with `call <- asked`, the
operations of the callers. `renew_claim` is left out: it is one autocommitted statement
nobody calls, and on a connection with an open transaction it would be lost.

**RunQueue**. `run` and `key` are the tables, `held` the `ClaimedRun` each worker has in
memory, `clock` the time, `writer` a history variable with the epoch of the last guarded
write for each run. One action for each transaction; a request carries a clock reading
up to `ReadLag` old, because handlers read the clock before the transaction starts.
`Enqueue` is the four outcomes of `enqueue` in the code's order. `RecoverLeases` is one
UPDATE, refused as a whole when it would break the unique index `one_queued_selector`.
`renew_claim` and `recover_expired_claims` are modelled because the repository offers
them; no production code calls them today. The model has no storage errors: a
transaction that fails changes nothing.

**StateRepository** adds the four index tables. Every guarded operation is a
`GuardedWrite` of the queue plus what it does to its table, with the trigger on delete
work and the upserts' `ON CONFLICT` clauses (a restaged item that succeeded stays
succeeded, an audit row is not overwritten). Callers may call the operations in any
order, which is more than the executor does.

**IndexRun** is one execution, step by step, of the process whose worker is `worker`,
together with its world: `graph` (changed at any time by other programs), `remote` (the
vectors, each known by the hash of the text it was computed from) and `wire` (requests
given up by their caller that may still take effect). `exec` is what `execute` and
`execute_plan` keep in memory. `CallAnswered` is a batch answer with any subset refused,
and its recursion on halves; `CallRetried` and `CallFailed` are errors after which any
part of the call may have been done or be still under way; `Abort` is `?` at any await;
`Stop` and `Start` are the process. A read that does not prove itself complete may miss
entities, and it may be short of relations of those it has (`SeenAs`): their document is
then another one, its hash one of `ShortOf`, and is planned and embedded like any. The
plan takes a hash for what was read, so the graph's own content matters only at the
read. History variables serve the properties only: `reading` is what the last run that
covers an entity read of it, `past` what earlier runs read of it and a later one did
not, `blurred` the entities whose vector was last set by a late request, and `owed` the
runs that answered a request since they read the graph.

**Service** is the lifecycle around the queue: processes that race for the lock file,
`stage` from `off` over `locked`, `recovered`, `serving` to `draining`, worker and
scheduler tasks, and request handlers that hold an admitted request between the
accepting check and the transaction. An execution is any sequence of guarded writes and
renewals; `IndexRun` is the detailed one. The death of a process is `Crash`, at every
stage; `Drained` is the orderly end, once the server has answered all it admitted. A
claim committed just before the worker is cancelled is `Claim` followed by
`WorkerCancelled`.

**Planner** applies `plan` again and again to a `graph` that other programs edit, over
the snapshots `read_graph` can return: complete, or missing any entities and relations,
or listing a name twice. A document is the type, the observations and the rendered
relations of an entity; `index` holds the document of each row instead of its hash.
`Reconcile` is a run whose plan was made and carried out; a plan that fails (a duplicate
name, a relation that leads out of the snapshot) changes nothing and is no step.
`touched` is a history variable: the names an edit may concern that no run has handled
since. `IndexRun` takes the same step apart, with one hash for an entity's document and
the scope of a selector as a constant.

**McpClient** is the client's half of the protocol and the retries around it: `session`
and `holder` are the mutex and what it guards, `call` the place of each caller (the
executor retries, searches and selector lookups do not), `wire` the requests the server
has not served yet, also those of callers that gave up or were dropped, `server` what
the server knows of each session, `ran` which attempts of a call it executed. `Reject`
is every answer that is not the result: HTTP statuses through `ClassifyStatus`, JSON-RPC
errors, foreign ids, `isError`. In each of them the tool may have run. A server without
sessions (`issues` false) is greeted before every call, as the code does it.

**ToolCalls** is what the callers of the client may rely on: a call is tried a bounded
number of times, each attempt is executed at most once and not before it was made, a
result is the answer to the execution of the attempt under way, and one session serves
everybody. `McpClient` instantiates it with `Status` and `Tries`, the place and the
attempt of each caller; handshakes, the mutex, requests on the wire and the server's
sessions are not in it.

**RetryPolicy** is `classify_*` and `retry_delay` with the widths of its integers,
**EmbeddingReply** the two ways a reply of a provider becomes embeddings, and
**RemoteCalls** puts them beside `McpClient`: what was read from the provider travels in
the executor's next call.

The abstractions form a chain of refinements: `PoolSpec => AtomicSpec` (checked and
proved), which licenses one action for each operation in `RunQueue` and
`StateRepository`; `IndexSpec => StateSpec` and `StateSpec => Spec` (proved);
`ServiceSpec => Spec` and `ClientSpec => CallsSpec` (both checked and proved).

## 3. Runs

| Run | Asks | Bounds |
|---|---|---|
| `queue_fencing` | tables well formed with epochs that count claims, exclusive leases, fencing, keys | 2 runs, 2 workers with one owner name, full and narrow selector, 1 key, clock 0..2 with readings one old, 2 claims a run |
| `state_tables` | the tables of a run under current and stale leases, finality, causes of row changes | 1 run, 2 workers, 2 claims, 1 entity, 2 hashes, a key for resets |
| `index_recovery` | what rows, vectors, audit and report say of each other over stops, partial reads, lost answers and late requests; that requests are answered by later scans | 2 full runs, 1 entity, 2 hashes, one of which the other is short of; edited to the whole one, then removed; 2 attempts, 1 request under way, 2 claims |
| `index_batches` | counters, splits, what remains of an execution and its end | 4 entities, chunks of 3, 2 attempts, full and narrow, a key, a reset |
| `planner` | what an edit makes stale, what a run settles, deletes and rewrites | 2 entities of 2 types, 1 observation, 1 relation type in every direction, 4 edits |
| `service_lifecycle` | lock, recovery before serving, drain, refinement of the queue, progress | 2 processes, 2 runs, full and narrow, 1 key, 1 connection, 1 claim a run |
| `connection_pool` | atomic operations, committed reads, left-over transactions, progress | the worker, 1 writer, 1 reader, 2 connections, 1 run left leased |
| `remote_calls` | the handshake, refinement of the abstract calls, progress; delays and replies over bounded inputs | the executor with 2 attempts, 1 search, 2 sessions; 6 delays around the limits, 6 failures, 31 bases; replies of up to 3 items |

Some properties are conjunctions with a story in common: `TablesOK` (types, status and
lease columns that agree, epochs that number the claims), `StateTablesOK` (types and
legal work and snapshots), `FinishedTablesFrozen` (a finished run and its tables stay as
they are), `ExecutorOK` (the executor's memory and its lease), `CallsEnd` (every call
ends and so does every left-over transaction). `ExecutionRunsDown` is the safety half of
`ExecutionEnds`: every step of an execution lessens what `Remaining` counts (calls and
retries of the batch under way, items of the phases to come), and no other step adds to
it. `ImplementsToolCalls` contains what `AnswersAccountForRuns` says in one state
(executions within the attempts; success means execution), which is proved.
`DelayWithinBounds` and `EmbeddingsMatchInputs` evaluate pure functions over all bounded
inputs, in the states in which the program uses the result.

Why these are enough. Every interference in the queue is between two claimants of one
run or two requests for one key, so two of each; two claims give an old lease and a new
one; two instants suffice for a lease or key to be live, then expired. Entities interact
only within a chunk: `index_batches` has a full chunk and a rest, and a chunk of three
splits into unequal halves. Across executions an entity is independent of the others, so
`index_recovery` has one, with two contents, and both ways in which a run meets earlier
leftovers (claimed again, or a second run). Its graph is edited one way (`Edits`), from
any content to the whole one and from that to none; that a content comes back after
another is what reads short of relations add, and `stale_vector` has every edit, without
such reads. `state_tables` has one run id, so its resets meet an empty table, never a
lease: two ids do not fit the time of a run, even with one hash and a clock that stands.
That a reset never falls under a lease is proved for any number (`RowsHaveCauses`). A
document depends on one entity and one neighbour at a time, so the planner has two, any
unrelated pair of them to start with, and four edits with runs between. Two processes
are what a lock tells apart. A left-over transaction concerns the caller that left it,
the one that is given its connection and one on another connection, whichever are
writers: three callers on two connections. A handshake concerns the caller that holds
the mutex and one that waits for it or was dropped; the second session is the one a
handshake that ran beside another, or after the server forgot, would put in place of the
first. Delays are checked with the integer limits scaled down (`MaxShift`, `MaxProduct`,
`MaxMillis`) in the proportions of the code: the exponent is cut and the cap is reached,
while product and conversion stay within their widths, as they do in the code for every
delay it can be configured with (a `u64` shifted by 63 fits a `u128`). The proofs then
remove the bounds for the safety properties they cover.

The runs of `RunQueue`, `StateRepository` and `IndexRun` stop when no run id, claim or
graph change is left or when start-up recovery is refused, so deadlock checking is off
there; `planner`, `service_lifecycle`, `connection_pool` and `remote_calls` check it.
Symmetry is used only in runs without liveness.

### What the code does not do

Four runs check one property each, and TLC refutes it:

* `recovery_blocked`: start-up recovery moves all leased runs back to `queued` in one
  UPDATE. If a narrow run was leased and the same selector queued again, the unique
  index refuses it, and every later start fails the same way (`sqlite/mod.rs:561`).
* `replay_other_run`: the response remembered for a coalesced request names the fresh
  run id, which was never inserted (`http/mod.rs:566`).
* `stale_vector`: content A committed, B written but its commit lost, graph back at A:
  the next run skips the entity and succeeds with B's vector in the store. The graph
  need not change for that: B may be A short of relations, embedded by a run whose read
  had no completeness proof. The specification calls such upserts safe
  (`docs/second-brain-indexer-spec-v0.1.md:186`) and a restart convergent (`:452`).
* `scheduler_stops`: a poll that meets a queued narrow run ends the scheduler for the
  rest of the process's life (`scheduler.rs:75`).

Met while modelling, without a run of their own: `idempotency_ttl_hours` is read as
seconds (`config.rs:344`); a first vector whose commit was lost and whose entity then
vanishes is in no row, and no scan removes it; `GET /status` is ready while the process
accepts requests, where the low-level design (`:136`) lists the lock, the database, the
server and the configuration; the retry delay is 75 to 100 % of the backoff, where the
specification (`docs/second-brain-indexer-spec-v0.1.md:294`) says full jitter; a server
that answers 404 to a forgotten session refuses every call until the process is started
again (`SessionIsKept`); after a dropped handler left a transaction open, every write
fails until the pool closes that connection (`CallsEnd` says that it does); an execution
that returns an error leaves its run leased until the process restarts, and resets are
refused until then, although `worker.rs:12` says that implementations must finish or
fail their claim (the queue goes on: `QueuedRunsAreClaimed`); an active full run does
not absorb a later full request as the spec says
(`docs/second-brain-indexer-spec-v0.1.md:302`), only a queued one does
(`sqlite/mod.rs:103`); shutdown cancels the batch in flight, where the low-level design
(`:137`) lets it finish up to a deadline and releases the claim; and a changed relation
re-embeds both its ends, a changed type all neighbours (`canonical.rs:90`), although the
specification (`docs/second-brain-indexer-spec-v0.1.md:444`) says that a change of an
observation or relation of one entity upserts that entity only.

## 4. Fairness

* `index_batches` assumes weak fairness of `Step`: once a run is claimed the runtime
  polls its future until it ends, and every call in it has a timeout. Nothing is assumed
  of errors, stops, clients or the graph.
* `service_lifecycle` assumes weak fairness of `Claim` (the worker loop polls the
  queue), of `ExecutionReturns` (what `index_batches` shows), of `Drained` (the server
  future completes) and of the handlers: a call to the graph times out, and a client is
  assumed to finish the body of a reset it started, which the code does not enforce. No
  fairness for signals, crashes, starts, requests or polls.
* `connection_pool` assumes strong fairness of `Advance` for each caller: SQLite's
  statements return, waiting for the write lock ends at the busy timeout, and sqlx
  serves those who wait for a connection in turn, so whoever can be served again and
  again is served. And strong fairness of `Expire`: the maximum lifetime closes a
  connection even if it is used again and again. Nothing is assumed of errors, dropped
  callers or restarts.
* `remote_calls` assumes strong fairness of `Advance` for each caller: tokio's mutex is
  fair, each request has a timeout, sleeps end. Nothing is assumed of the server: it may
  never answer.

## 5. Proofs

All theorems hold for every value of the constants that satisfies the named assumptions
(`RunQueueAssumption`, `StateAssumption`, `IndexAssumption`, `ServiceAssumption`,
`PlannerAssumption`, `PoolAssumption`, `ClientAssumption`, `RetryAssumption`): the null
values are outside the sets they complete, durations and numbers of attempts are
positive, a full selector covers every entity, entities are finite, the worker is no
request handler and the executor no search, and delays are within the limit the
configuration checks (`DelayAssumption`).

* `RunQueueProofs`: `QueueInv` is the conjunction of the run's invariants. That an old
  lease never becomes current needs `EpochsAreSpent` (no held or written epoch is ahead
  of the row's, and no two claims share one), which needs types; fencing, finality and
  key stability are then step properties.
* `StateRepositoryProofs`: `ImplementsQueue` carries the queue's theorems over;
  `TableInv` adds that no work exists under an id that is not in the run table, without
  which an insert could change the selector of a run with delete work.
* `IndexRunProofs`: `IndexInv` says that what is about to be staged, written or
  completed was seen in the graph, and that what is about to be committed was done by
  the store (unless a late request overtook it). From it follow the refinement of the
  repository, the lease, and `CommitsFollowWrites`.
* `ConvergenceProofs` proves the other invariants of `index_recovery`, each step of the
  way being the reason for the next:
  - *The plan.* `PlanInv` and `QuietInv`: what is staged, called, done or lost is part
    of the plan, and there is none outside an execution. `PlanIsCurrent`: the plan in
    memory is the plan of what was read, because the run stays leased and keeps its
    selector.
  - *The books.* `AccountInv`: each planned item is in exactly one place (`Places`), and
    the counters are the cardinalities of the settled items by status (`Books`). A step
    that settles adds one element to one of these sets, a split or a retry moves items
    between places: `ReportIsAccount`.
  - *The history of an entity* (`History`): what a run may act upon is the last reading
    of it; what a row says was read once; and a row whose vector does not agree with it
    names a content of the past, because a later run read another one before it wrote.
    So only a scan that reads a content again after another takes the entity for
    unchanged: `StaleRowsAreSeen`. That scan is excepted, and the run `stale_vector`
    shows why it has to be. Nothing here depends on the graph, whose changes and partial
    reads the service sees alike.
  - *What was listed stays until settled* (`Kept`): together with the history, when
    nothing is left to do each row of the scope is either of an item that succeeded or
    was unchanged: `SuccessMeansConverged`.
  - *What is owed* (`OwedInv`): a run that answered a request since its read has no
    result and is not past the read of its execution, since requests join queued runs
    only and every claim starts before the read: `RequestsPrecedeResults`.
  - *Deletions* (`CallsAudited`, `WireAudited`): a delete that is called, or still under
    way from a caller that gave up, was audited by a full run, and what is audited has a
    recorded snapshot (`DeletionIsFull`): `RemovalsLeaveTrace`.
* `ConnectionPoolProofs`: the invariant relates every open transaction to the operation
  of its caller: after k statements it shows what those statements make of some database
  (`PartOf`), and because it holds the only write lock that database is still the
  committed one. So a commit is one atomic operation (`PoolIsAtomicStore`). A
  transaction that was left behind has no caller past `BEGIN`, so nobody commits it; and
  uncommitted index rows are the worker's own or are left where no execution is under
  way (`IndexRowsAreOwn`), which gives `PlansFromCommittedRows`. `OperationsRunDown` and
  `PoolIsNeverStuck` are what can be proved of `CallsEnd`: an operation takes at most
  eight steps, nobody sends it back, whoever has a connection goes on or gives up by
  itself, and nobody waits for anything but such a connection.
* `RemoteCallsProofs`, in three parts:
  - *The client.* `ClientInv` says who holds the mutex, that a stored session was seen
    through its handshake by the server, that a notification names a session the server
    offered, and that neither a caller nor a request of its goes past the last attempt.
    `ClientImplementsToolCalls` needs more: `FreshInv`, that a request still on the wire
    was not executed and, if it is of the call under way, was made in an attempt the
    caller has reached. It is inductive because all calls use one session, so two
    requests of one attempt would be one request. `CallsRunDown` and
    `CallsAreNeverStuck` are the safety half of `EveryCallEnds`: six steps an attempt at
    most, and who waits for the mutex waits for a caller that waits for an answer or a
    timeout.
  - *Delays.* That a power of two grows with its exponent would take an induction.
    `PowerIsCount` reads `2^n` as the number of subsets of `1..n` instead, from which
    `PowersGrow` and the bounds of the capped product follow: `DelaysFit`,
    `DelaysAreBounded`. `JitterBounds` is the arithmetic of the jitter for every basis.
  - *Replies.* `SortByIndex` puts each item at the place given by the number of items
    before it, which is what a stable sort does. `PositionsAreOrdered` and a counting
    argument make that a permutation (`SortIsPermutation`), and then a reply is accepted
    just when it has one fitting embedding for each input (`RepliesAreReadRight`).
* `ServiceProofs`: `ServiceInv` adds that only the holder of the lock is past the first
  step of its start. That gives the refinement: when a process recovers leases, no other
  holds one, which is what `RecoverAfterExclusiveStart` of the queue assumes.
  `QueueIsRightInService` states what that carries over, as `TablesAreRightInRuns` does
  for `IndexRun`. `DrainsRunDown` is the safety half of `SignalledProcessExits`: what a
  signalled process waits for only shrinks.
* `PlannerProofs`: `StaleIsTouched` is inductive with the types. An edit leaves every
  document alone that has neither its relations nor the types of their ends changed
  (`DocumentIsLocal`); a selected entity without dangling relations, all of whose
  relations were read, gets the document of the whole graph (`ReadDocument`).
  `CompleteRunConverges` and `RepeatIsIdle` say that one full run on a complete snapshot
  brings everything up to date and that a second has nothing to do.

Only model-checked: the liveness properties (`ExecutionEnds`, `QueuedRunsAreClaimed`,
`SignalledProcessExits`, `CallsEnd`, `EveryCallEnds`), because what fairness adds, that
a step is taken when it is enabled, is out of TLAPS' reach. The safety half of four of
them is proved. For `ExecutionEnds` that includes the well-founded argument: `Remaining`
is nine natural numbers compared from the left (`LessRemains`), and by the library's
theorem on lexicographic products no sequence of them falls for ever, so an execution
has no infinitely many steps (`RemainingRunsOut`). Every other property of a passing run
is proved. Proved and no longer run: that claims are numbered, that finished runs stay
finished (both now parts of larger properties) and the refinements of `IndexRun` and
`StateRepository`.

## 6. Not modelled

* Text: canonical layout, normalisation, truncation, hashing. A content is its hash;
  different contents are taken to have different texts, which truncation can break.
* The trigger of a request (`/index` or `/fullscan`), which is part of the request hash
  under a key: two entry points for one full run count as one request here.
* Authentication, request parsing, views, metrics, logs, configuration beyond the key
  retention.
* The embedding model's identity (a changed model needs the documented reset).
* The text form of timestamps. RFC 3339 text with fractional seconds of varying length
  is compared as text, so within one second the order of two instants may be inverted: a
  claim waits for the next poll, or a key lives a second longer. The models count whole
  seconds.
* `renew_claim` on the pool, and the payload of calls (dimension, vectors, metadata).
* The status and metrics views: they read what the modules have as state and keep none;
  in `ConnectionPool` they take connections (`status`).
* Time in `IndexRun` and `Service`: no step of an execution or of the lifecycle waits
  for an instant, and only `RunQueue` and `StateRepository` let leases and keys expire.
* Storage errors in `Service`, and the instant between the release of the lock, when
  `run` returns, and the end of the tasks the runtime still has to drop.

## 7. Plan

Done, in order of importance: the queue, its tables, the executor, the service, the
planner, the pool under the repository, the client and its retries; and the proofs of
all their safety properties, with the measures behind the liveness ones. What is left:

1. `Timestamps`: the order of RFC 3339 texts against the order of instants, and what an
   inversion does to `claim_next` and to keys.
2. Proofs about `Service` and the client together: that an idle queue is reached only
   through answers.
3. The composition of `ConnectionPool` with `Service`: handlers that are drained while
   the pool waits for a left-over transaction.
