---------------------------- MODULE RetryPolicy ----------------------------
(***************************************************************************)
(* Which errors of a remote call are tried again and after what delay       *)
(* (application/retry.rs), and how an HTTP status becomes an error          *)
(* (classify_status in adapters/mcp.rs, openai.rs and ollama.rs).           *)
(***************************************************************************)
EXTENDS Integers

CONSTANTS
  MaxShift,      \* the exponent stops growing at 63
  MaxProduct,    \* u128::MAX
  MaxMillis      \* u64::MAX

ASSUME RetryAssumption ==
  /\ MaxShift \in Nat /\ MaxProduct \in Nat /\ MaxMillis \in Nat
  /\ MaxMillis * 100 <= MaxProduct

-----------------------------------------------------------------------------
Errors == {"transport", "rate_limited", "server", "unauthorized", "invalid"}
Retryable == {"transport", "rate_limited", "server"}

(* 404 is what a server answers that does not know the session.             *)
Statuses == {200, 204, 302, 400, 401, 403, 404, 429, 500, 503}

ClassifyStatus(status) ==
  CASE status \in 200..299  -> "ok"
    [] status \in {401, 403} -> "unauthorized"
    [] status = 429         -> "rate_limited"
    [] status \in 500..599  -> "server"
    [] OTHER                -> "invalid"

-----------------------------------------------------------------------------
Smaller(a, b) == IF a <= b THEN a ELSE b
SaturatingMul(a, b) == Smaller(a * b, MaxProduct)

(* What the attempts so far make of the base delay.                         *)
Backoff(base, max, attempt) ==
  LET before == IF attempt = 0 THEN 0 ELSE attempt - 1
      exponent == Smaller(before, MaxShift)
  IN  Smaller(SaturatingMul(base, 2^exponent), max)

(* Mutant: the percentage is added to the delay.                           *)
JitteredAbove(capped, basis) ==
  Smaller(SaturatingMul(capped, 100 + (basis % 26)) \div 100, MaxMillis)

Jittered(capped, basis) ==
  Smaller(SaturatingMul(capped, 75 + (basis % 26)) \div 100, MaxMillis)

retry_delay(base, max, attempt, basis) == Jittered(Backoff(base, max, attempt), basis)

-----------------------------------------------------------------------------
(* The delays that are checked.                                            *)
CONSTANTS
  Delays,        \* base and maximal delay in milliseconds, u64 and not 0
  Failures,      \* attempts that failed
  Bases          \* what the jitter is taken from

ASSUME DelayAssumption ==
  /\ Delays \subseteq 1..MaxMillis /\ Failures \subseteq Nat \ {0} /\ Bases \subseteq Nat

(* After this many failures the delay lies between three quarters of the     *)
(* exponential backoff, which is the base doubled with every failure and     *)
(* never above the configured maximum, and the whole of it: at no width does *)
(* a shift, a product or a conversion make it short, and it does not shrink  *)
(* from one failure to the next.                                            *)
DelayFits(attempt) ==
  \A base, max \in Delays, basis \in Bases :
    LET exact == Smaller(base * 2^(attempt - 1), max)
        delay == retry_delay(base, max, attempt, basis)
    IN  /\ delay <= exact
        /\ attempt - 1 <= MaxShift => 75 * exact < 100 * (delay + 1)
        /\ delay <= retry_delay(base, max, attempt + 1, basis)

FailuresThatFit == {attempt \in Failures : DelayFits(attempt)}
=============================================================================
