---------------------------- MODULE ScenarioRun ----------------------------
(***************************************************************************)
(* A fixed-count run of scenario VUs.                                     *)
(*                                                                         *)
(*   ScenarioVu::spawn       (lmn-core/src/vu/scenario.rs)                *)
(*   CaptureState, inject_*  (lmn-core/src/capture/mod.rs)                *)
(*   FixedExecutor::execute  (lmn-core/src/execution/fixed/mod.rs)        *)
(*   the drain accumulators  (lmn-core/src/execution/mod.rs)              *)
(*                                                                         *)
(* One unit of the budget pays for one iteration of a VU's scenario.      *)
(* A captured value is represented by the number of the VU's iteration    *)
(* that captured it (0: no value), so that a value which outlives its     *)
(* iteration can be told from a fresh one.                                *)
(***************************************************************************)
EXTENDS Naturals, Sequences, FiniteSets, Metrics, Assign

CONSTANTS
    Concurrency,     \* number of VU tasks
    Total,           \* budget: iterations over all VUs
    Keys,            \* capture aliases
    Scenarios,       \* sequence of [weight, abort, steps]; a step is
                     \* [refs, gives, template]: the aliases its body and
                     \* headers refer to, those it captures, and whether it
                     \* has a request template
    Limited,         \* whether a rate limiter is configured
    TemplateMayFail  \* whether rendering a template can fail

StepDefs == [refs : SUBSET Keys, gives : SUBSET Keys, template : BOOLEAN]

\* At least one step each: the configuration is rejected otherwise.
ScenarioDefs == [weight : Nat, abort : BOOLEAN, steps : Seq(StepDefs) \ {<<>>}]

ASSUME ScenarioAssumption ==
    /\ Concurrency \in Nat /\ Total \in Nat
    /\ Limited \in BOOLEAN /\ TemplateMayFail \in BOOLEAN
    /\ Scenarios \in Seq(ScenarioDefs) \ {<<>>}

VUs == 1..Concurrency

Weights == [s \in DOMAIN Scenarios |-> Scenarios[s].weight]

ScenarioOf(v) == AssignScenario(v - 1, Weights)
Policy(v) == Scenarios[ScenarioOf(v)].abort
Steps(s) == Scenarios[s].steps

VARIABLES
    budget, cancelled, \* as in FixedRun
    vu,      \* VU -> where its task stands
    at,      \* VU -> index of the step it is at
    iter,    \* VU -> iterations it has begun
    caps,    \* VU -> alias -> iteration that captured the value, or 0
    abort,   \* VU -> abort_remaining
    chan,    \* the result channel: records [s, step, outcome]
    txHeld,  \* the coordinator still holds its sender
    drain, acc, \* the drain task and its counters, per scenario and step
    co, cursor, result, \* the coordinator, as in FixedRun
    trail,   \* history: VU -> outcomes it has emitted in this iteration
    late     \* history: VU -> requests it has started after Ctrl-C

vars == <<budget, cancelled, vu, at, iter, caps, abort, chan, txHeld, drain, acc,
          co, cursor, result, trail, late>>

taskVars == <<at, iter, caps, abort, trail, late>>
runVars == <<txHeld, drain, acc, co, cursor, result>>

VUStates == {"unborn", "check", "claim", "step", "build", "permit", "inflight", "exited"}

Step(v) == Steps(ScenarioOf(v))[at[v]]
LastStep(v) == Len(Steps(ScenarioOf(v)))

Goto(v, state) == vu' = [vu EXCEPT ![v] = state]

\* After a step the loop goes on, or the iteration is over.
Advance(v, n) ==
    /\ at' = [at EXCEPT ![v] = n]
    /\ Goto(v, IF n > LastStep(v) THEN "check" ELSE "step")

\* Records of VU v for its steps from the current one to step n.
Emit(v, n, outcome) ==
    /\ chan' = chan \o [i \in 1..(n - at[v] + 1) |->
                          [s |-> ScenarioOf(v), step |-> at[v] + i - 1,
                           outcome |-> outcome]]
    /\ trail' = [trail EXCEPT ![v] = @ \o [i \in 1..(n - at[v] + 1) |-> outcome]]

NoCaptures == [k \in Keys |-> 0]

EmptyAcc ==
    [all |-> EmptyStats,
     scenario |-> [s \in DOMAIN Scenarios |-> EmptyStats],
     step |-> [s \in DOMAIN Scenarios |-> [i \in DOMAIN Steps(s) |-> EmptyStats]]]

Init ==
    /\ budget = Total /\ cancelled = FALSE
    /\ vu = [v \in VUs |-> "unborn"]
    /\ at = [v \in VUs |-> 1]
    /\ iter = [v \in VUs |-> 0]
    /\ caps = [v \in VUs |-> NoCaptures]
    /\ abort = [v \in VUs |-> FALSE]
    /\ chan = <<>> /\ txHeld = TRUE
    /\ drain = "recv" /\ acc = EmptyAcc
    /\ co = "spawning" /\ cursor = 1
    /\ result = [kind |-> "pending", acc |-> EmptyAcc]
    /\ trail = [v \in VUs |-> <<>>]
    /\ late = [v \in VUs |-> 0]

-----------------------------------------------------------------------------
(* The scenario VU *)

\* The token is looked at first, so as not to claim a unit in vain ...
CheckToken(v) ==
    /\ vu[v] = "check"
    /\ Goto(v, IF cancelled THEN "exited" ELSE "claim")
    /\ UNCHANGED <<budget, cancelled, chan, taskVars, runVars>>

\* Mutant of Cleared: captures survive into the next iteration.
KeepCaptures(v) == caps[v]

\* CaptureState::clear
Cleared(v) == NoCaptures

\* The condition under which fetch_update commits.
UnitsLeft == budget > 0

\* ... then a unit is claimed and the iteration starts with a clean slate.
ClaimIteration(v) ==
    /\ vu[v] = "claim"
    /\ UnitsLeft
    /\ budget' = budget - 1
    /\ iter' = [iter EXCEPT ![v] = @ + 1]
    /\ caps' = [caps EXCEPT ![v] = Cleared(v)]
    /\ abort' = [abort EXCEPT ![v] = FALSE]
    /\ trail' = [trail EXCEPT ![v] = <<>>]
    /\ at' = [at EXCEPT ![v] = 1]
    /\ Goto(v, "step")
    /\ UNCHANGED <<cancelled, chan, late, runVars>>

BudgetExhausted(v) ==
    /\ vu[v] = "claim"
    /\ ~UnitsLeft
    /\ Goto(v, "exited")
    /\ UNCHANGED <<budget, cancelled, chan, taskVars, runVars>>

\* Mutant of TokenSeen: the token is only polled between iterations.
TokenIgnored(v) == FALSE

TokenSeen(v) == cancelled

\* The token is polled before every step: the rest of the iteration leaves no
\* record at all.
StepCancelled(v) ==
    /\ vu[v] = "step"
    /\ TokenSeen(v)
    /\ Goto(v, "exited")
    /\ UNCHANGED <<budget, cancelled, chan, taskVars, runVars>>

StepSkipped(v) ==
    /\ vu[v] = "step"
    /\ ~TokenSeen(v)
    /\ abort[v]
    /\ Emit(v, at[v], "skipped")
    /\ Advance(v, at[v] + 1)
    /\ UNCHANGED <<budget, cancelled, iter, caps, abort, late, runVars>>

StepBegins(v) ==
    /\ vu[v] = "step"
    /\ ~TokenSeen(v)
    /\ ~abort[v]
    /\ Goto(v, "build")
    /\ UNCHANGED <<budget, cancelled, chan, taskVars, runVars>>

\* inject_captures: every alias referred to must have a value.
Injectable(v) == \A k \in Step(v).refs : caps[v][k] # 0

\* Body and headers are ready; a request is about to be sent.
Prepare(v) ==
    /\ vu[v] = "build"
    /\ Injectable(v)
    /\ Goto(v, IF Limited THEN "permit" ELSE "inflight")
    /\ late' = IF ~Limited /\ cancelled THEN [late EXCEPT ![v] = @ + 1] ELSE late
    /\ UNCHANGED <<budget, cancelled, at, iter, caps, abort, trail, chan, runVars>>

\* Mutant of SkipUpTo: only the step that failed to build is marked skipped.
SkipThisOnly(v) == at[v]

\* for remaining in &self.steps[step_idx..]
SkipUpTo(v) == LastStep(v)

\* The template did not render or a capture is missing: this step and all
\* that follow are skipped and the iteration is over.
PrepareFails(v) ==
    /\ vu[v] = "build"
    /\ ~Injectable(v) \/ (TemplateMayFail /\ Step(v).template)
    /\ Emit(v, SkipUpTo(v), "skipped")
    /\ Advance(v, LastStep(v) + 1)
    /\ UNCHANGED <<budget, cancelled, iter, caps, abort, late, runVars>>

AcquirePermit(v) ==
    /\ vu[v] = "permit"
    /\ Goto(v, "inflight")
    /\ late' = IF cancelled THEN [late EXCEPT ![v] = @ + 1] ELSE late
    /\ UNCHANGED <<budget, cancelled, at, iter, caps, abort, trail, chan, runVars>>

\* Mutants of AbortsOn: the policy is ignored, one way or the other.
AbortsNever(v, outcome) == FALSE
AbortsAnyway(v, outcome) == outcome = "failed"

\* on_step_failure: abort_iteration
AbortsOn(v, outcome) == outcome = "failed" /\ Policy(v)

\* The response arrived (or the connection failed, with no body): captures
\* whose path matches are stored, whatever the status; the record is sent.
Complete(v, outcome, found) ==
    /\ vu[v] = "inflight"
    /\ caps' = [caps EXCEPT ![v] = [k \in Keys |-> IF k \in found THEN iter[v] ELSE @[k]]]
    /\ Emit(v, at[v], outcome)
    /\ abort' = [abort EXCEPT ![v] = @ \/ AbortsOn(v, outcome)]
    /\ Advance(v, at[v] + 1)
    /\ UNCHANGED <<budget, cancelled, iter, late, runVars>>

\* Mutant of CancelWait: the request itself is awaited outside of select!.
CancelPermitOnly(v) ==
    /\ vu[v] = "permit"
    /\ cancelled
    /\ Goto(v, "exited")
    /\ UNCHANGED <<budget, cancelled, chan, taskVars, runVars>>

\* The cancellation branch of either select!.
CancelWait(v) ==
    /\ vu[v] \in {"permit", "inflight"}
    /\ cancelled
    /\ Goto(v, "exited")
    /\ UNCHANGED <<budget, cancelled, chan, taskVars, runVars>>

-----------------------------------------------------------------------------
(* The drain task *)

\* record_request: the run's counters, then the scenario's, then the step's.
RecordAll(a, r) ==
    [all |-> RecordRequest(a.all, r.outcome),
     scenario |-> [a.scenario EXCEPT ![r.s] = RecordRequest(@, r.outcome)],
     step |-> [a.step EXCEPT ![r.s][r.step] = RecordRequest(@, r.outcome)]]

Receive ==
    /\ drain = "recv"
    /\ chan # <<>>
    /\ acc' = RecordAll(acc, Head(chan))
    /\ chan' = Tail(chan)
    /\ UNCHANGED <<budget, cancelled, vu, taskVars, txHeld, drain, co, cursor, result>>

DrainEnds ==
    /\ drain = "recv"
    /\ chan = <<>> /\ ~txHeld /\ \A v \in VUs : vu[v] = "exited"
    /\ drain' = "done"
    /\ UNCHANGED <<budget, cancelled, vu, taskVars, chan, txHeld, acc, co, cursor, result>>

-----------------------------------------------------------------------------
(* The coordinator and the environment *)

SpawnVU ==
    /\ co = "spawning" /\ cursor <= Concurrency
    /\ Goto(cursor, "check")
    /\ cursor' = cursor + 1
    /\ UNCHANGED <<budget, cancelled, taskVars, chan, txHeld, drain, acc, co, result>>

DropSender ==
    /\ co = "spawning" /\ cursor > Concurrency
    /\ co' = "joining" /\ cursor' = 1 /\ txHeld' = FALSE
    /\ UNCHANGED <<budget, cancelled, vu, taskVars, chan, drain, acc, result>>

JoinVU ==
    /\ co = "joining" /\ cursor <= Concurrency
    /\ vu[cursor] = "exited"
    /\ cursor' = cursor + 1
    /\ UNCHANGED <<budget, cancelled, vu, taskVars, chan, txHeld, drain, acc, co, result>>

JoinDrain ==
    /\ co = "joining" /\ cursor > Concurrency
    /\ drain = "done"
    /\ result' = [kind |-> "stats", acc |-> acc]
    /\ co' = "returned"
    /\ UNCHANGED <<budget, cancelled, vu, taskVars, chan, txHeld, drain, acc, cursor>>

CtrlC ==
    /\ ~cancelled /\ co # "returned"
    /\ cancelled' = TRUE
    /\ UNCHANGED <<budget, vu, taskVars, chan, runVars>>

-----------------------------------------------------------------------------
Answer(v) ==
    \E outcome \in {"ok", "failed"} : \E found \in SUBSET Step(v).gives :
        Complete(v, outcome, found)

VUStep(v) ==
    \/ CheckToken(v) \/ ClaimIteration(v) \/ BudgetExhausted(v)
    \/ StepCancelled(v) \/ StepSkipped(v) \/ StepBegins(v)
    \/ Prepare(v) \/ PrepareFails(v) \/ AcquirePermit(v) \/ CancelWait(v)

DrainStep == Receive \/ DrainEnds
CoordinatorStep == SpawnVU \/ DropSender \/ JoinVU \/ JoinDrain

Finished == co = "returned" /\ UNCHANGED vars

Next ==
    \/ \E v \in VUs : VUStep(v) \/ (vu[v] = "inflight" /\ Answer(v))
    \/ DrainStep
    \/ CoordinatorStep
    \/ CtrlC
    \/ Finished

Spec == Init /\ [][Next]_vars

RuntimeFairness ==
    /\ \A v \in VUs : WF_vars(VUStep(v))
    /\ WF_vars(DrainStep)
    /\ WF_vars(CoordinatorStep)

\* Nothing is assumed of the server: it may never answer.
FairSpec == Spec /\ RuntimeFairness

-----------------------------------------------------------------------------
(* Properties *)

Records == [s : DOMAIN Scenarios, step : Nat, outcome : Outcomes]

TypeOK ==
    /\ budget \in 0..Total /\ cancelled \in BOOLEAN
    /\ vu \in [VUs -> VUStates]
    /\ \A v \in VUs : at[v] \in 1..(LastStep(v) + 1)
    /\ iter \in [VUs -> 0..Total]
    /\ caps \in [VUs -> [Keys -> 0..Total]]
    /\ abort \in [VUs -> BOOLEAN]
    /\ chan \in Seq(Records)
    /\ txHeld \in BOOLEAN
    /\ drain \in {"recv", "done"}
    /\ co \in {"spawning", "joining", "returned"}
    /\ cursor \in 1..(Concurrency + 1)
    /\ trail \in [VUs -> Seq(Outcomes)]
    /\ late \in [VUs -> Nat]

\* A request that refers to captures carries only values its own VU captured
\* in the very iteration it belongs to.  About: captures.clear(), the order
\* of injection and dispatch, and the capture step after a response.
FreshCaptures ==
    \A v \in VUs : vu[v] \in {"permit", "inflight"} =>
        \A k \in Step(v).refs : caps[v][k] = iter[v]

\* What an iteration leaves behind: one record per step, in order, complete
\* when the iteration ends unless the VU was cancelled; skips only as a
\* suffix; and under abort_iteration nothing is sent after a failure.
\* About: abort_remaining and the three "skip the rest" exits of the loop.
IterationShape ==
    \A v \in VUs :
        LET t == trail[v] IN
        /\ vu[v] \in {"step", "build", "permit", "inflight"} => Len(t) = at[v] - 1
        /\ (vu[v] \in {"check", "claim"} /\ iter[v] > 0) => Len(t) = LastStep(v)
        /\ \A i, j \in DOMAIN t : i < j =>
            /\ t[i] = "skipped" => t[j] = "skipped"
            /\ (Policy(v) /\ t[i] = "failed") => t[j] = "skipped"

\* A step is skipped for a reason: the first skip of an iteration is one whose
\* references had no value, whose template did not render, or that follows a
\* failure under abort_iteration; under the default policy a failure alone
\* skips nothing.  About: OnStepFailure and the injection errors.
SkipsHaveCause ==
    \A v \in VUs :
        LET skips == {i \in DOMAIN trail[v] : trail[v][i] = "skipped"}
            first == Min(skips)
            step  == Steps(ScenarioOf(v))[first]
        IN  skips # {} =>
            \/ \E k \in step.refs : caps[v][k] = 0
            \/ TemplateMayFail /\ step.template
            \/ Policy(v) /\ \E i \in 1..(first - 1) : trail[v][i] = "failed"

\* Every step of every scenario is counted once per iteration.
CountedOncePerIteration ==
    \A s \in DOMAIN Scenarios : \A i \in DOMAIN Steps(s) :
        result.acc.step[s][i].total = result.acc.step[s][1].total

\* The report of a run nobody interrupts is made of whole iterations, as many
\* as the budget has units, and its numbers add up: succeeded, failed and
\* skipped to the total, those sent to the samples.
\* About: budget, step loop, abort, drain and the report's arithmetic.
WholeIterations ==
    (result.kind = "stats" /\ ~cancelled /\ Concurrency > 0) =>
        /\ CountedOncePerIteration
        /\ Balanced(result.acc.all)
        /\ SumFunction([s \in DOMAIN Scenarios |-> result.acc.step[s][1].total]) = Total

\* After Ctrl-C a VU starts at most one more request: the one it was already
\* preparing.  About: the token polled before each step.
OneLateRequest == \A v \in VUs : late[v] <= 1

\* No request stays unanswered for ever.
ServerAnswers == \A v \in VUs : []<>(vu[v] # "inflight")

\* Every run ends if the server answers, and after Ctrl-C in any case.
\* About: the points at which ScenarioVu::spawn looks at the token, and the
\* executor around it.
Ends ==
    /\ ServerAnswers => <>(co = "returned")
    /\ cancelled ~> (co = "returned")
=============================================================================
