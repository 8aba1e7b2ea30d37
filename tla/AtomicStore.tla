---------------------------- MODULE AtomicStore ----------------------------
(***************************************************************************)
(* What the other modules take for granted of the state repository: each   *)
(* operation happens at one instant, as a whole, between the call and its   *)
(* answer, and one that was refused or given up never happens afterwards.   *)
(* ConnectionPool implements it.                                           *)
(***************************************************************************)
EXTENDS Naturals

CONSTANTS
  Tasks       \* the callers: the worker and the request handlers

VARIABLES
  db,         \* what is committed
  call        \* the operation each task waits for, or "none"

atomicVars == <<db, call>>

(* Keyed requests, lease-guarded writes, the other writes, and reads.       *)
(* "stage" stands for stage_work and record_snapshot, "complete" also for   *)
(* fail_work, "status" for the three queries of the status pages.           *)
Keyed == {"enqueue", "reset"}
Guarded == {"stage", "complete", "finish"}
Writes == Keyed \cup Guarded \cup {"claim", "recover"}
Operations == Writes \cup {"list", "status"}

(* The tables as far as operations interact: runs queued and leased, the    *)
(* work of the leased run, whether index rows and a live key exist.         *)
Works == {"none", "staged", "settled"}
Databases == [queued: Nat, leased: Nat, work: Works, index: BOOLEAN, key: BOOLEAN]
EmptyDatabase == [queued |-> 0, leased |-> 0, work |-> "none", index |-> FALSE, key |-> FALSE]

-----------------------------------------------------------------------------
(* The key may have expired.                                               *)
Pruned(d) == {d, [d EXCEPT !.key = FALSE]}

WithQueuedRun(d) == IF d.queued = 0 THEN [d EXCEPT !.queued = 1] ELSE d

(* A request that conflicts, or has no key, leaves no key.                  *)
AfterEnqueue(d) ==
  IF d.key THEN {d} ELSE {[WithQueuedRun(d) EXCEPT !.key = b] : b \in BOOLEAN}

AfterReset(d) ==
  IF d.key \/ d.queued + d.leased > 0
  THEN d
  ELSE [d EXCEPT !.index = FALSE, !.queued = 1, !.key = TRUE]

AfterClaim(d) ==
  IF d.queued = 0 THEN d ELSE [d EXCEPT !.queued = d.queued - 1, !.leased = d.leased + 1]

AfterRecovery(d) == [d EXCEPT !.queued = d.queued + d.leased, !.leased = 0]

(* Lease-guarded writes need the lease, completions also staged work.       *)
Permitted(o, d) ==
  /\ o \in Guarded => d.leased > 0
  /\ o = "complete" => d.work # "none"

(* The databases a permitted operation may leave.  A completed upsert adds  *)
(* an index row, a completed deletion may take the last one away.           *)
Outcomes(o, d) ==
  CASE o = "enqueue"  -> UNION {AfterEnqueue(p) : p \in Pruned(d)}
    [] o = "reset"    -> {AfterReset(p) : p \in Pruned(d)}
    [] o = "claim"    -> {AfterClaim(d)}
    [] o = "recover"  -> {AfterRecovery(d)}
    [] o = "stage"    -> {[d EXCEPT !.work = "staged"]}
    [] o = "complete" -> {[d EXCEPT !.index = b, !.work = "settled"] : b \in BOOLEAN}
    [] o = "finish"   -> {[d EXCEPT !.leased = d.leased - 1, !.work = "none"]}
    [] OTHER          -> {d}

-----------------------------------------------------------------------------
AtomicInit ==
  /\ db = EmptyDatabase
  /\ call = [t \in Tasks |-> "none"]

Ask(t, o) ==
  /\ call[t] = "none"
  /\ call' = [call EXCEPT ![t] = o]
  /\ UNCHANGED db

(* The operation happens and answers.                                      *)
Apply(t) ==
  /\ call[t] \in Operations /\ Permitted(call[t], db)
  /\ db' \in Outcomes(call[t], db)
  /\ call' = [call EXCEPT ![t] = "none"]

(* Operations that are refused, fail, or lose their callers do not happen.  *)
Abandon(S) ==
  /\ call' = [t \in Tasks |-> IF t \in S THEN "none" ELSE call[t]]
  /\ UNCHANGED db

AtomicNext ==
  \/ \E t \in Tasks : (\E o \in Operations : Ask(t, o)) \/ Apply(t)
  \/ \E S \in SUBSET Tasks : Abandon(S)

AtomicSpec == AtomicInit /\ [][AtomicNext]_atomicVars
=============================================================================
