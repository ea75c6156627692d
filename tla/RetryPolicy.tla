---------------------------- MODULE RetryPolicy ----------------------------
(***************************************************************************)
(* When an attempt to publish is repeated, and after which delay          *)
(* (lmn-core/src/publish/error.rs, and the constants and helpers of       *)
(* lmn-core/src/publish/http_sink.rs).                                    *)
(***************************************************************************)
EXTENDS Naturals

CONSTANTS
    MaxAttempts,   \* MAX_ATTEMPTS
    BaseBackoff,   \* BASE_BACKOFF
    MaxBackoff     \* MAX_BACKOFF, same unit

ASSUME PublishAssumption ==
    /\ MaxAttempts \in Nat \ {0}
    /\ BaseBackoff \in Nat /\ MaxBackoff \in Nat

\* Classes of HTTP status: 2xx, 3xx, 401/403, 413, other 4xx, 5xx.
Statuses == {"success", "redirect", "auth", "too_large", "bad", "server"}

\* post_once, for each class of answer and for a transport error.
ErrorOf(status) ==
    CASE status = "auth"      -> "AuthFailed"
      [] status = "too_large" -> "PayloadTooLarge"
      [] status = "bad"       -> "BadRequest"
      [] status = "server"    -> "ServerError"
      [] status = "network"   -> "Network"
      [] status \in {"success", "redirect"} -> "UnexpectedStatus"

\* Mutant of IsRetryable: any error is worth another attempt.
RetryEverything(error) == TRUE

\* PublishError::is_retryable
IsRetryable(error) == error \in {"Network", "ServerError"}

\* backoff_for_attempt: doubled from one attempt to the next, up to a cap.
Backoff(n) ==
    LET raw == BaseBackoff * 2^(n - 1)
    IN  IF raw > MaxBackoff THEN MaxBackoff ELSE raw
=============================================================================
