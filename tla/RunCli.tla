------------------------------- MODULE RunCli -------------------------------
(***************************************************************************)
(* `lmn run` from its arguments to its exit code (lmn-cli/src/main.rs):   *)
(* resolve, execute, evaluate the thresholds, write the report to a file  *)
(* and to stdout, publish it, exit.  Publishing is module Publish, which  *)
(* takes its steps between StartPublish and EndPublish; the network and   *)
(* the platform take theirs at any time, also after the process is gone.  *)
(*                                                                         *)
(* The execution is one step here, whose possible results are those of    *)
(* FixedRun, ScenarioRun and CurveRun: a report, perhaps of a run cut     *)
(* short by ctrl-c, or an error.  stdout may be a pipe whose reader left. *)
(***************************************************************************)
EXTENDS Metrics, Endpoint, RetryPolicy

CONSTANTS
    Rules,        \* the threshold rules that can be configured
    Urls,         \* the publish URLs that can be configured
    MaxRequests,  \* bound: requests of a run
    MaxElapsed    \* bound: seconds a run takes

ASSUME RunCliAssumption ==
    /\ Urls \subseteq Url
    /\ MaxRequests \in Nat /\ MaxElapsed \in Nat
    /\ \A r \in Rules : /\ r.metric \in {"error_rate", "throughput_rps"}
                        /\ r.operator \in {"lt", "lte", "gt", "gte", "eq"}
                        /\ r.value \in Nat \X (Nat \ {0})

VARIABLES
    pc,        \* the next thing main() does; "exited" once it is gone
    args,      \* what the user asked for
    run,       \* the result of the execution
    failed,    \* threshold_failed
    file,      \* the output file: "absent", "partial" or "complete"
    printed,   \* the report is on stdout
    warned,    \* "warning: ..." was printed
    endpoint,  \* base_url of the sink
    code,      \* the exit code
    client, attempt, oversized, network, answers, stored, slept, seen, outcome

cliVars == <<pc, args, run, failed, file, printed, warned, endpoint, code>>
pubVars == <<client, attempt, oversized, network, answers, stored, slept, seen, outcome>>
vars == <<cliVars, pubVars>>

Publication == INSTANCE Publish

-----------------------------------------------------------------------------
(* What the user brings, and what a run can come to *)

\* What clap makes of the command line; the rest matters when it is "ok".
Args == [cli      : {"ok", "unknown_flag"},
         resolves : BOOLEAN,         \* the configuration is valid
         rules    : SUBSET Rules,
         file     : BOOLEAN,         \* --output-file
         publish  : {None} \cup [enabled : {None, TRUE, FALSE}, url : {None} \cup Urls],
         pipe     : {"open", "closed"}]

NoRun == [requests |-> 0, failures |-> 0, elapsed |-> 0, interrupted |-> FALSE]

\* A finished run.  Without ctrl-c it sent what it was asked to; against an
\* unreachable host every request is a failed record and nothing else.
Runs ==
    {r \in [requests : 0..MaxRequests, failures : 0..MaxRequests,
            elapsed : 0..MaxElapsed, interrupted : BOOLEAN] :
        /\ r.failures <= r.requests
        /\ ~r.interrupted => r.requests = MaxRequests}

-----------------------------------------------------------------------------
(* Thresholds *)

\* Metric::resolve, as a fraction; both are zero when there is no divisor.
Actual(metric, r) ==
    CASE metric = "error_rate" -> ErrorRate([total |-> r.requests, failed |-> r.failures])
      [] metric = "throughput_rps" -> IF r.elapsed = 0 THEN <<0, 1>> ELSE <<r.requests, r.elapsed>>

\* Operator::evaluate; equality is exact.
Satisfies(actual, operator, value) ==
    LET left == actual[1] * value[2]
        right == value[1] * actual[2]
    IN  CASE operator = "lt"  -> left < right
          [] operator = "lte" -> left <= right
          [] operator = "gt"  -> left > right
          [] operator = "gte" -> left >= right
          [] operator = "eq"  -> left = right

\* Mutant of AllPassed: the run passes when any rule does.
AnyPassed(rules, r) == \E rule \in rules : Satisfies(Actual(rule.metric, r), rule.operator, rule.value)

\* ThresholdReport::all_passed of evaluate(); without rules nothing fails.
AllPassed(rules, r) == \A rule \in rules : Satisfies(Actual(rule.metric, r), rule.operator, rule.value)

-----------------------------------------------------------------------------
(* main() *)

Init ==
    /\ pc = "parse"
    /\ args \in Args
    /\ run = NoRun
    /\ failed = FALSE
    /\ file = "absent"
    /\ printed = FALSE /\ warned = FALSE /\ endpoint = None
    /\ code = 0
    /\ Publication!Init

Exit(c) == pc' = "exited" /\ code' = c

\* LoadTestRunCli::parse() ends the process itself, with clap's usage code.
Parse ==
    /\ pc = "parse"
    /\ IF args.cli = "ok"
         THEN pc' = "resolve" /\ code' = code
         ELSE Exit(2)
    /\ UNCHANGED <<args, run, failed, file, printed, warned, endpoint, pubVars>>

Resolve ==
    /\ pc = "resolve"
    /\ IF args.resolves
         THEN pc' = "execute" /\ code' = code
         ELSE Exit(1)
    /\ UNCHANGED <<args, run, failed, file, printed, warned, endpoint, pubVars>>

\* commands.execute() returns statistics; the thresholds are evaluated.
Execute ==
    /\ pc = "execute"
    /\ run' \in Runs
    /\ failed' = ~AllPassed(args.rules, run')
    /\ pc' = "write_file"
    /\ UNCHANGED <<args, file, printed, warned, endpoint, code, pubVars>>

\* It returns an error: a template that does not parse, an invalid value, a
\* drain task that panicked.
ExecuteFails ==
    /\ pc = "execute"
    /\ Exit(1)
    /\ UNCHANGED <<args, run, failed, file, printed, warned, endpoint, pubVars>>

\* Mutant of AfterFileError: the error is only a warning.
FileErrorIgnored == pc' = "print" /\ code' = code

AfterFileError == Exit(1)

\* File::create, then write_all: an error of the second leaves a part.
WriteFile ==
    /\ pc = "write_file"
    /\ IF ~args.file
         THEN pc' = "print" /\ file' = file /\ code' = code
         ELSE \/ pc' = "print" /\ file' = "complete" /\ code' = code
              \/ file' \in {"absent", "partial"} /\ AfterFileError
    /\ UNCHANGED <<args, run, failed, printed, warned, endpoint, pubVars>>

\* The table or the JSON goes out with println!, which panics when nobody
\* reads; the main thread's panic is exit code 101.
PrintReport ==
    /\ pc = "print"
    /\ IF args.pipe = "open"
         THEN printed' = TRUE /\ pc' = "publish" /\ code' = code
         ELSE printed' = printed /\ Exit(101)
    /\ UNCHANGED <<args, run, failed, file, warned, endpoint, pubVars>>

FinalCode == IF failed THEN 2 ELSE 0

\* Publishing is off, or try_publish fails on the URL.
SkipPublish ==
    /\ pc = "publish"
    /\ ~(Enabled(args.publish) /\ ValidUrl(Target(args.publish)))
    /\ warned' = Enabled(args.publish)
    /\ Exit(FinalCode)
    /\ UNCHANGED <<args, run, failed, file, printed, endpoint, pubVars>>

StartPublish ==
    /\ pc = "publish"
    /\ Enabled(args.publish) /\ ValidUrl(Target(args.publish))
    /\ endpoint' = Normalized(Target(args.publish))
    /\ pc' = "publishing"
    /\ UNCHANGED <<args, run, failed, file, printed, warned, code, pubVars>>

PublishStep ==
    /\ pc = "publishing"
    /\ Publication!ClientStep
    /\ UNCHANGED cliVars

EndPublish ==
    /\ pc = "publishing"
    /\ client = "returned"
    /\ warned' = (outcome.kind # "ok")
    /\ Exit(FinalCode)
    /\ UNCHANGED <<args, run, failed, file, printed, endpoint, pubVars>>

Platform == Publication!PlatformStep /\ UNCHANGED cliVars

Gone == pc = "exited" /\ UNCHANGED vars

MainStep ==
    \/ Parse \/ Resolve \/ Execute \/ ExecuteFails \/ WriteFile \/ PrintReport
    \/ SkipPublish \/ StartPublish \/ PublishStep \/ EndPublish

Next == MainStep \/ Platform \/ Gone

Spec == Init /\ [][Next]_vars

\* main() runs whenever it can; it waits for nobody but its own timeouts.
FairSpec == Spec /\ WF_vars(MainStep)

-----------------------------------------------------------------------------
(* Properties *)

TypeOK ==
    /\ pc \in {"parse", "resolve", "execute", "write_file", "print", "publish",
               "publishing", "exited"}
    /\ args \in Args
    /\ failed \in BOOLEAN /\ printed \in BOOLEAN /\ warned \in BOOLEAN
    /\ run \in [requests : 0..MaxRequests, failures : 0..MaxRequests,
                elapsed : 0..MaxElapsed, interrupted : BOOLEAN]
    /\ file \in {"absent", "partial", "complete"}
    /\ endpoint \in {None} \cup {Normalized(u) : u \in Urls \cup {DefaultUrl}}
    /\ code \in {0, 1, 2, 101}
    /\ Publication!TypeOK

\* What a pipeline concludes from exit code 0 is true: every rule held for
\* the numbers reported, and the report is where it was asked for.
\* About: the order of the early returns of main().
ZeroMeansReported ==
    (pc = "exited" /\ code = 0) =>
        /\ \A r \in args.rules : Satisfies(Actual(r.metric, run), r.operator, r.value)
        /\ printed
        /\ args.file => file = "complete"

\* Publishing comes last and happens only on request: whatever is on its way
\* or stored was shown to the user first, its file is complete, and it went to
\* an address that is https or on this machine, with nothing but a path.  A
\* user who asked and got no publication was warned.
\* About: the early return on a failed write, the place of try_publish, and
\* the sections and URLs on which it gives up before the first attempt.
PublishedLast ==
    /\ (network \cup stored # {}) =>
        /\ printed /\ (args.file => file = "complete")
        /\ args.publish # None /\ args.publish.enabled = TRUE
        /\ endpoint.extra = {}
        /\ endpoint.scheme # "https" => (endpoint.scheme = "http" /\ endpoint.host = "loopback")
    /\ (pc = "exited" /\ printed /\ Enabled(args.publish) /\ outcome.kind # "ok") => warned

\* See Publish: here the client starts when main() gets there, and the network
\* and the platform outlive the process.
SuccessIsStored == Publication!SuccessIsStored
GivesUpInTime == Publication!GivesUpInTime

\* The process ends once the run has: neither the platform nor the network
\* can hold it.  About: the bounded retries under the client's timeout.
AlwaysExits == (pc = "write_file") ~> (pc = "exited")
=============================================================================
