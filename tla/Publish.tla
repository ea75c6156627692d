------------------------------ MODULE Publish ------------------------------
(***************************************************************************)
(* Publishing a finished run: HttpSink::publish                           *)
(* (lmn-core/src/publish/http_sink.rs), called once per run by            *)
(* try_publish (lmn-cli/src/main.rs), against a platform and a network    *)
(* that may lose or delay a request or its answer.                        *)
(*                                                                         *)
(* All attempts carry the same bytes, hence the same run id, so an        *)
(* attempt is told from another by its number only.  `stored` holds the   *)
(* attempts the platform has stored.                                      *)
(***************************************************************************)
EXTENDS RetryPolicy, Sequences, FiniteSets

VARIABLES
    client,    \* "idle", "posting", "waiting", "sleeping" or "returned"
    attempt,   \* number of the current attempt; 0 before the first
    oversized, \* the serialized envelope exceeds MAX_PAYLOAD_BYTES
    network,   \* attempts on their way to the platform
    answers,   \* answers on their way back: <<attempt, status>>
    stored,    \* attempts the platform has stored
    slept,     \* delays slept so far, in order
    seen,      \* history: errors post_once has returned
    outcome    \* what publish() returned

pubVars == <<client, attempt, oversized, network, answers, stored, slept, seen, outcome>>

Published(n) == [kind |-> "ok", attempts |-> n]
Failed(error) == [kind |-> error, attempts |-> 0]

Init ==
    /\ client = "idle" /\ attempt = 0
    /\ oversized \in BOOLEAN
    /\ network = {} /\ answers = {} /\ stored = {}
    /\ slept = <<>> /\ seen = <<>>
    /\ outcome = Failed("none")

-----------------------------------------------------------------------------
(* The client *)

Serialize ==
    /\ client = "idle"
    /\ IF oversized
         THEN /\ client' = "returned"
              /\ outcome' = Failed("PayloadTooLarge")
              /\ attempt' = attempt
         ELSE client' = "posting" /\ attempt' = 1 /\ outcome' = outcome
    /\ UNCHANGED <<oversized, network, answers, stored, slept, seen>>

Post ==
    /\ client = "posting"
    /\ client' = "waiting"
    /\ network' = network \cup {attempt}
    /\ UNCHANGED <<attempt, oversized, answers, stored, slept, seen, outcome>>

\* Mutant of Answered: an answer to any attempt is taken for the current one's.
AnsweredEver(status) == \E n \in 1..attempt : <<n, status>> \in answers

Answered(status) == <<attempt, status>> \in answers

Succeed ==
    /\ client = "waiting"
    /\ Answered("success")
    /\ client' = "returned"
    /\ outcome' = Published(attempt)
    /\ UNCHANGED <<attempt, oversized, network, answers, stored, slept, seen>>

LastAttempt == attempt = MaxAttempts

\* Err(e): sleep before another attempt, or give up and return the error.
HandleError(error) ==
    /\ IF IsRetryable(error) /\ ~LastAttempt
         THEN /\ client' = "sleeping"
              /\ slept' = Append(slept, Backoff(attempt))
              /\ outcome' = outcome
         ELSE /\ client' = "returned"
              /\ slept' = slept
              /\ outcome' = Failed(error)
    /\ seen' = Append(seen, error)
    /\ UNCHANGED <<attempt, oversized, network, answers, stored>>

Rejected(status) ==
    /\ client = "waiting"
    /\ status # "success"
    /\ Answered(status)
    /\ HandleError(ErrorOf(status))

\* Mutant of TransportError: after a timeout the client waits on.
WaitOn == client = "waiting" /\ UNCHANGED pubVars

\* Connection failure or timeout, whatever became of the request.
TransportError ==
    /\ client = "waiting"
    /\ HandleError(ErrorOf("network"))

Retry ==
    /\ client = "sleeping"
    /\ client' = "posting"
    /\ attempt' = attempt + 1
    /\ UNCHANGED <<oversized, network, answers, stored, slept, seen, outcome>>

-----------------------------------------------------------------------------
(* The network and the platform *)

\* The platform handles a request, perhaps long after the client gave up on
\* it.  A 5xx may come after the run was stored.
Handle(n, status) ==
    /\ n \in network
    /\ network' = network \ {n}
    /\ answers' = answers \cup {<<n, status>>}
    /\ \/ status \in {"success", "server"} /\ stored' = stored \cup {n}
       \/ status # "success" /\ stored' = stored
    /\ UNCHANGED <<client, attempt, oversized, slept, seen, outcome>>

Lose(n) ==
    /\ n \in network
    /\ network' = network \ {n}
    /\ UNCHANGED <<client, attempt, oversized, answers, stored, slept, seen, outcome>>

-----------------------------------------------------------------------------
ClientStep ==
    \/ Serialize \/ Post \/ Succeed \/ TransportError \/ Retry
    \/ \E status \in Statuses : Rejected(status)

PlatformStep ==
    \E n \in network : Lose(n) \/ \E status \in Statuses : Handle(n, status)

Next == ClientStep \/ PlatformStep

Spec == Init /\ [][Next]_pubVars

-----------------------------------------------------------------------------
(* Properties *)

TypeOK ==
    /\ client \in {"idle", "posting", "waiting", "sleeping", "returned"}
    /\ attempt \in 0..MaxAttempts
    /\ oversized \in BOOLEAN
    /\ network \in SUBSET (1..MaxAttempts)
    /\ answers \in SUBSET ((1..MaxAttempts) \X Statuses)
    /\ stored \in SUBSET (1..MaxAttempts)
    /\ slept \in Seq(0..MaxBackoff)
    /\ Len(seen) \in Len(slept)..(Len(slept) + 1)

\* A success that is reported is one: the platform has stored the run, in the
\* attempt whose number is reported, and no attempt followed it.
\* About: the Ok branch of publish(), against answers that come late.
SuccessIsStored ==
    outcome.kind = "ok" =>
        /\ outcome.attempts \in stored
        /\ stored \cup network \subseteq 1..outcome.attempts

\* The client neither gives up early nor persists: every error before the last
\* was transient, and a transient error is only returned when the attempts
\* are used up.  About: the break condition of the retry loop.
GivesUpInTime ==
    LET transient == {"Network", "ServerError"} IN
    /\ \A i \in 1..(Len(seen) - 1) : seen[i] \in transient
    /\ (client = "returned" /\ outcome.kind \in transient) => Len(seen) = MaxAttempts
    /\ client = "posting" => \A i \in DOMAIN seen : seen[i] \in transient
=============================================================================
