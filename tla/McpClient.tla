----------------------------- MODULE McpClient -----------------------------
(***************************************************************************)
(* The client of the knowledge-graph server (adapters/mcp.rs) and the       *)
(* retries around it (retry_mcp in application/execute_run.rs).  A call     *)
(* first makes sure that a session exists: the session's mutex is held      *)
(* across the two requests of the handshake, and taken a second time to     *)
(* read the session for the call itself.  The run executor retries its      *)
(* calls; request handlers search once and may be dropped at any await.     *)
(* Every request may be answered, refused, lost, or served after its        *)
(* client has given up, and the server may forget a session.                *)
(***************************************************************************)
EXTENDS RetryPolicy

CONSTANTS
  Executor,      \* the run executor, which retries
  Searchers,     \* handlers of searches and of selector lookups
  MaxAttempts,   \* retry.max_attempts
  Sessions,      \* ids a server can issue
  NoSession, Nobody

VARIABLES
  session,       \* the client's session id
  holder,        \* who holds the mutex across the handshake
  call,          \* each caller's place, attempt and the session it sends
  wire,          \* requests the server has not served
  server,        \* what the server knows of each session
  issues,        \* whether this server issues session ids
  ran            \* attempts of each caller's last call the server executed

vars == <<session, holder, call, wire, server, issues, ran>>

Callers == Searchers \cup {Executor}

ASSUME ClientAssumption ==
  /\ Executor \notin Searchers
  /\ MaxAttempts \in Nat \ {0}
  /\ NoSession \notin Sessions
  /\ Nobody \notin Callers

Attempts(t) == IF t = Executor THEN MaxAttempts ELSE 1

(* Places in a call, and what is awaited at three of them.                  *)
Awaited == [greeting |-> "initialize", confirming |-> "initialized", calling |-> "tools/call"]
Waiting(t) == call[t].at \in DOMAIN Awaited
InCall(t) == call[t].at \notin {"idle", "succeeded"}
Places == {"idle", "succeeded", "entering", "cloning", "sleeping"} \cup DOMAIN Awaited

(* A request; attempt 0 is one of an earlier call.                          *)
Request(t, kind, s) == [task |-> t, kind |-> kind, with |-> s, attempt |-> call[t].attempt]
Requests == [task: Callers, kind: {"initialize", "initialized", "tools/call"},
             with: Sessions \cup {NoSession}, attempt: 0..MaxAttempts]

Reaches(m) ==
  /\ Waiting(m.task) /\ Awaited[call[m.task].at] = m.kind
  /\ call[m.task].attempt = m.attempt

-----------------------------------------------------------------------------
ClientInit ==
  /\ session = NoSession
  /\ holder = Nobody
  /\ call = [t \in Callers |-> [at |-> "idle", attempt |-> 1]]
  /\ wire = {}
  /\ server = [s \in Sessions |-> "unknown"]
  /\ issues \in BOOLEAN
  /\ ran = [t \in Callers |-> {}]

Goto(t, place) == call' = [call EXCEPT ![t].at = place]

Ask(t) ==
  /\ ~InCall(t)
  /\ call' = [call EXCEPT ![t] = [at |-> "entering", attempt |-> 1]]
  /\ wire' = {IF m.task = t THEN [m EXCEPT !.attempt = 0] ELSE m : m \in wire}
  /\ ran' = [ran EXCEPT ![t] = {}]
  /\ UNCHANGED <<session, holder, server, issues>>

(* Mutant: the session is not looked at under the lock.                     *)
EnterUnchecked(t) ==
  /\ call[t].at = "entering" /\ holder = Nobody
  /\ holder' = t
  /\ Goto(t, "greeting")
  /\ wire' = wire \cup {Request(t, "initialize", NoSession)}
  /\ UNCHANGED <<session, server, issues, ran>>

(* Mutant: the mutex is not held during the handshake.                      *)
EnterUnlocked(t) ==
  /\ call[t].at = "entering"
  /\ IF session # NoSession
     THEN Goto(t, "cloning") /\ UNCHANGED <<wire, holder>>
     ELSE /\ holder' = t
          /\ Goto(t, "greeting")
          /\ wire' = wire \cup {Request(t, "initialize", NoSession)}
  /\ UNCHANGED <<session, server, issues, ran>>

(* Mutant: initialize is sent like other requests, which lock the session.  *)
EnterTwice(t) ==
  /\ call[t].at = "entering" /\ holder = Nobody
  /\ Goto(t, "cloning")
  /\ holder' = IF session = NoSession THEN t ELSE Nobody
  /\ UNCHANGED <<session, wire, server, issues, ran>>

(* initialize: takes the mutex and leaves at once if there is a session.    *)
Enter(t) ==
  /\ call[t].at = "entering" /\ holder = Nobody
  /\ IF session # NoSession
     THEN Goto(t, "cloning") /\ UNCHANGED <<wire, holder>>
     ELSE /\ holder' = t
          /\ Goto(t, "greeting")
          /\ wire' = wire \cup {Request(t, "initialize", NoSession)}
  /\ UNCHANGED <<session, server, issues, ran>>

(* request: takes the mutex to read the session.                            *)
Clone(t) ==
  /\ call[t].at = "cloning" /\ holder = Nobody
  /\ Goto(t, "calling")
  /\ wire' = wire \cup {Request(t, "tools/call", session)}
  /\ UNCHANGED <<session, holder, server, issues, ran>>

-----------------------------------------------------------------------------
(* The end of an attempt.  The guard of the mutex is dropped on the way out. *)
Release(t) == holder' = IF holder = t THEN Nobody ELSE holder
End(t, place) == call' = [call EXCEPT ![t] = [at |-> place, attempt |-> 1]]

Failed(t, error) ==
  /\ IF error \in Retryable /\ call[t].attempt < Attempts(t)
     THEN Goto(t, "sleeping")
     ELSE End(t, "idle")
  /\ Release(t)

(* Mutant: the attempt is not counted.                                      *)
WakeUncounted(t) ==
  /\ call[t].at = "sleeping"
  /\ Goto(t, "entering")
  /\ UNCHANGED <<session, holder, wire, server, issues, ran>>

Wake(t) ==
  /\ call[t].at = "sleeping"
  /\ call' = [call EXCEPT ![t].at = "entering", ![t].attempt = call[t].attempt + 1]
  /\ UNCHANGED <<session, holder, wire, server, issues, ran>>

(* The request times out, or its connection fails; it may be served yet.    *)
Timeout(t) ==
  /\ Waiting(t)
  /\ Failed(t, "transport")
  /\ UNCHANGED <<session, wire, server, issues, ran>>

(* A handler is dropped with its request, or by the server's own timeout.   *)
Cancel(t) ==
  /\ t \in Searchers /\ InCall(t)
  /\ End(t, "idle")
  /\ Release(t)
  /\ UNCHANGED <<session, wire, server, issues, ran>>

-----------------------------------------------------------------------------
(* The server serves a request.  Its answer may not reach the client.       *)
Unheard == UNCHANGED <<call, holder, session>>

(* A session the server works with; a server may do without sessions.       *)
Offered(s) == IF issues THEN s \in Sessions /\ server[s] = "unknown" ELSE s = NoSession
Usable(s) == IF issues THEN s \in Sessions /\ server[s] = "ready" ELSE s = NoSession

(* Mutant: the session is kept before the server knows it is complete.      *)
GreetAndKeep(m, s) ==
  /\ m.kind = "initialize" /\ Offered(s)
  /\ server' = IF issues THEN [server EXCEPT ![s] = "offered"] ELSE server
  /\ \/ wire' = wire \ {m} /\ Unheard
     \/ /\ Reaches(m)
        /\ Goto(m.task, "confirming")
        /\ session' = s
        /\ wire' = (wire \ {m}) \cup {Request(m.task, "initialized", s)}
        /\ UNCHANGED holder
  /\ UNCHANGED <<issues, ran>>

Greet(m, s) ==
  /\ m.kind = "initialize" /\ Offered(s)
  /\ server' = IF issues THEN [server EXCEPT ![s] = "offered"] ELSE server
  /\ \/ wire' = wire \ {m} /\ Unheard
     \/ /\ Reaches(m)
        /\ Goto(m.task, "confirming")
        /\ wire' = (wire \ {m}) \cup {Request(m.task, "initialized", s)}
        /\ UNCHANGED <<session, holder>>
  /\ UNCHANGED <<issues, ran>>

(* The accepted notification completes the handshake and stores the session.*)
Confirm(m) ==
  /\ m.kind = "initialized" /\ (issues => server[m.with] \in {"offered", "ready"})
  /\ server' = IF issues THEN [server EXCEPT ![m.with] = "ready"] ELSE server
  /\ wire' = wire \ {m}
  /\ \/ Unheard
     \/ /\ Reaches(m)
        /\ session' = m.with
        /\ Release(m.task)
        /\ Goto(m.task, "cloning")
  /\ UNCHANGED <<issues, ran>>

Executed(m) ==
  IF m.attempt = 0 THEN ran ELSE [ran EXCEPT ![m.task] = ran[m.task] \cup {m.attempt}]

Run(m) ==
  /\ m.kind = "tools/call" /\ Usable(m.with)
  /\ ran' = Executed(m)
  /\ wire' = wire \ {m}
  /\ \/ Unheard
     \/ Reaches(m) /\ End(m.task, "succeeded") /\ UNCHANGED <<session, holder>>
  /\ UNCHANGED <<server, issues>>

(* Mutant: error and isError of a 200 answer are not looked at.             *)
RejectUnlessStatus(m, error) ==
  /\ wire' = wire \ {m}
  /\ ran' \in IF m.kind = "tools/call" /\ Usable(m.with) THEN {ran, Executed(m)} ELSE {ran}
  /\ \/ Unheard
     \/ /\ Reaches(m)
        /\ IF error = "invalid" /\ m.kind = "tools/call"
           THEN End(m.task, "succeeded") /\ UNCHANGED holder
           ELSE Failed(m.task, error)
        /\ UNCHANGED session
  /\ UNCHANGED <<server, issues>>

(* An answer other than the one asked for: an HTTP status, a JSON-RPC       *)
(* error, another id, a tool's error.  The tool may have run before it.     *)
Reject(m, error) ==
  /\ wire' = wire \ {m}
  /\ ran' \in IF m.kind = "tools/call" /\ Usable(m.with) THEN {ran, Executed(m)} ELSE {ran}
  /\ \/ Unheard
     \/ Reaches(m) /\ Failed(m.task, error) /\ UNCHANGED session
  /\ UNCHANGED <<server, issues>>

Refusals == {ClassifyStatus(status) : status \in Statuses} \ {"ok"}

Forget(s) ==
  /\ server[s] \in {"offered", "ready"}
  /\ server' = [server EXCEPT ![s] = "forgotten"]
  /\ UNCHANGED <<session, holder, call, wire, issues, ran>>

Advance(t) == Enter(t) \/ Clone(t) \/ Wake(t) \/ Timeout(t)

ClientNext ==
  \/ \E t \in Callers : Ask(t) \/ Advance(t) \/ Cancel(t)
  \/ \E m \in wire : \/ \E s \in Sessions \cup {NoSession} : Greet(m, s)
                     \/ Confirm(m) \/ Run(m)
                     \/ \E e \in Refusals : Reject(m, e)
  \/ \E s \in Sessions : Forget(s)

ClientSpec == ClientInit /\ [][ClientNext]_vars

(* tokio's mutex serves its waiters in turn, requests time out and sleeps    *)
(* end.  Nothing is assumed of the server.                                  *)
FairClientSpec == ClientSpec /\ \A t \in Callers : SF_vars(Advance(t))

-----------------------------------------------------------------------------
(* The mutex is held exactly across a handshake, so by one caller at a time.*)
ClientTypeOK ==
  /\ session \in Sessions \cup {NoSession}
  /\ holder \in Callers \cup {Nobody}
  /\ call \in [Callers -> [at: Places, attempt: 1..MaxAttempts]]
  /\ wire \subseteq Requests
  /\ server \in [Sessions -> {"unknown", "offered", "ready", "forgotten"}]
  /\ issues \in BOOLEAN
  /\ ran \in [Callers -> SUBSET (1..MaxAttempts)]
  /\ \A t \in Callers : call[t].at \in {"greeting", "confirming"} <=> holder = t

(* No tool is called on a session whose handshake the server has not seen   *)
(* through, whoever performed it and wherever it was cut off; and all calls *)
(* under way, late ones included, use the one session of the client.        *)
CallsUseReadySession ==
  \A m \in wire : m.kind = "tools/call" =>
    /\ m.with = session
    /\ issues => session # NoSession /\ server[session] \in {"ready", "forgotten"}

(* However answers are lost, the server executes the tool of a call at most  *)
(* once for each allowed attempt, and of a search only once.                *)
RunsWithinAttempts == \A t \in Callers : \A n \in ran[t] : n <= Attempts(t)

(* A call that is answered was executed: neither an error answer nor the    *)
(* answer to something else passes for a result.                            *)
SuccessMeansRan == \A t \in Callers : call[t].at = "succeeded" => ran[t] # {}

(* What the server executed and what its clients conclude from it agree.    *)
AnswersAccountForRuns == RunsWithinAttempts /\ SuccessMeansRan

(* Whoever sleeps between two attempts sleeps within the bounds of the       *)
(* policy, and would after every further failure a configuration allows.    *)
DelayWithinBounds ==
  \A t \in Callers : call[t].at = "sleeping" =>
    \A n \in Failures : n >= call[t].attempt => n \in FailuresThatFit

(* The session is never replaced, neither by a handshake that ran beside     *)
(* another nor when the server has forgotten it: from then on every call     *)
(* fails until the process is started again.                                *)
SessionIsKept == [][session # NoSession => session' = session]_vars

(* A call as its caller sees it.                                            *)
Status == [t \in Callers |-> IF call[t].at = "idle" THEN "none"
                             ELSE IF call[t].at = "succeeded" THEN "answered" ELSE "asked"]
Tries == [t \in Callers |-> call[t].attempt]
Calls == INSTANCE ToolCalls
           WITH Allowed <- [t \in Callers |-> Attempts(t)], status <- Status, tries <- Tries

(* Through handshakes, timeouts, late answers and dropped callers no attempt *)
(* is executed twice, none that was not made is executed, and a result is    *)
(* the answer to the attempt under way, not to an earlier one.              *)
ImplementsToolCalls == Calls!CallsSpec

(* Every call is answered, given up or dropped, although all of them wait    *)
(* for one mutex that is held across requests, and whatever the server does.*)
EveryCallEnds == \A t \in Callers : []<>~InCall(t)
=============================================================================
