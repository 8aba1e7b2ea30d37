----------------------------- MODULE ToolCalls -----------------------------
(***************************************************************************)
(* What the executor and the request handlers may take for granted of a     *)
(* call to the graph server: it is tried a bounded number of times, the     *)
(* server executes it at most once each time, and it is answered in the     *)
(* instant the attempt under way is executed.  A call that was given up may *)
(* still be executed, by an attempt that had been made.  One session is     *)
(* made and serves all calls.  McpClient implements it.                     *)
(***************************************************************************)
EXTENDS Naturals

CONSTANTS
  Callers,
  Allowed,       \* attempts each caller may make at a call
  Sessions,
  NoSession

VARIABLES
  session,       \* the session of all calls
  status,        \* of each caller's last call
  tries,         \* attempts made at a call under way
  ran            \* attempts of it that were executed

callVars == <<session, status, tries, ran>>

Begin(t) ==
  /\ status[t] # "asked"
  /\ status' = [status EXCEPT ![t] = "asked"]
  /\ tries' = [tries EXCEPT ![t] = 1]
  /\ ran' = [ran EXCEPT ![t] = {}]
  /\ UNCHANGED session

TryAgain(t) ==
  /\ status[t] = "asked" /\ tries[t] < Allowed[t]
  /\ tries' = [tries EXCEPT ![t] = tries[t] + 1]
  /\ UNCHANGED <<session, status, ran>>

(* Attempts that were made.  Of a call that is over it is no longer known.   *)
Made(t) == 1..(IF status[t] = "asked" THEN tries[t] ELSE Allowed[t])

Executes(t, n) ==
  /\ n \in Made(t) \ ran[t]
  /\ ran' = [ran EXCEPT ![t] = ran[t] \cup {n}]

Execute(t, n) == Executes(t, n) /\ UNCHANGED <<session, status, tries>>

Over(t, outcome) ==
  /\ status[t] = "asked"
  /\ status' = [status EXCEPT ![t] = outcome]
  /\ tries' = [tries EXCEPT ![t] = 1]
  /\ UNCHANGED session

Answer(t) == Over(t, "answered") /\ Executes(t, tries[t])

(* An error may be the answer to an execution.                              *)
GiveUp(t) == Over(t, "none") /\ (UNCHANGED ran \/ Executes(t, tries[t]))

Connect(s) ==
  /\ session = NoSession
  /\ session' = s
  /\ UNCHANGED <<status, tries, ran>>

CallsInit ==
  /\ session = NoSession
  /\ status = [t \in Callers |-> "none"]
  /\ tries = [t \in Callers |-> 1]
  /\ ran = [t \in Callers |-> {}]

CallsNext ==
  \/ \E t \in Callers : \/ Begin(t) \/ TryAgain(t) \/ Answer(t) \/ GiveUp(t)
                        \/ \E n \in 1..Allowed[t] : Execute(t, n)
  \/ \E s \in Sessions : Connect(s)

CallsSpec == CallsInit /\ [][CallsNext]_callVars
=============================================================================
