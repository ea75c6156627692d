------------------------------ MODULE Metrics ------------------------------
(***************************************************************************)
(* Accounting shared by both executors: what one request record adds to   *)
(* the counters of lmn-core/src/execution/mod.rs, and what the report     *)
(* derives from them (lmn-core/src/output/compute.rs).                    *)
(*                                                                         *)
(* A record is reduced to its outcome: "ok" and "failed" are requests     *)
(* that were sent, "skipped" is a scenario step that was not.  Latency    *)
(* and status-code histograms are reduced to the number of samples they   *)
(* hold (`sampled`): the code always feeds both or neither.               *)
(***************************************************************************)
EXTENDS Naturals

Outcomes == {"ok", "failed", "skipped"}

Stats == [total : Nat, failed : Nat, skipped : Nat, sampled : Nat]

EmptyStats == [total |-> 0, failed |-> 0, skipped |-> 0, sampled |-> 0]

\* One record added to a counter set: every record counts in the total, a
\* skipped one only there and in `skipped`.
RecordRequest(s, outcome) ==
    [total   |-> s.total + 1,
     failed  |-> IF outcome = "failed" THEN s.failed + 1 ELSE s.failed,
     skipped |-> IF outcome = "skipped" THEN s.skipped + 1 ELSE s.skipped,
     sampled |-> IF outcome = "skipped" THEN s.sampled ELSE s.sampled + 1]

\* usize::saturating_sub
Monus(a, b) == IF a >= b THEN a - b ELSE 0

\* The `ok` count of a request summary.
SummaryOk(s) == Monus(Monus(s.total, s.failed), s.skipped)

\* error_rate as a fraction <<failed, total>>; zero when nothing was counted.
ErrorRate(s) == IF s.total = 0 THEN <<0, 1>> ELSE <<s.failed, s.total>>

\* Two counter sets agree with each other and with the report made of them:
\* the four reported numbers add up and every sent request left a sample.
Balanced(s) ==
    /\ s.total = SummaryOk(s) + s.failed + s.skipped
    /\ s.sampled = s.total - s.skipped
    /\ s.failed <= s.sampled
=============================================================================
