------------------------------ MODULE CurveRun ------------------------------
(***************************************************************************)
(* A load-curve run.                                                      *)
(*                                                                         *)
(*   CurveExecutor::execute  (lmn-core/src/execution/curve/mod.rs)        *)
(*   Vu / ScenarioVu         (lmn-core/src/vu/), without a budget         *)
(*   the Ctrl-C task         (lmn-core/src/command/run.rs)                *)
(*                                                                         *)
(* The unit of time is the period of the ticker (100 ms).  A VU is        *)
(* reduced to what the executor can see of it: it emits records, looks at *)
(* its own token, and ends.  VUs are numbered in the order of their       *)
(* creation and never reused.  `handles` is vu_handles; `excess` is the   *)
(* list a scale-down, or the end of the run, is still waiting for.  There *)
(* is no rate limit here: FixedRun and ScenarioRun have it.               *)
(*                                                                         *)
(* The executor runs on the main thread, everything else on the worker    *)
(* threads of the runtime, its timer included.  A task that awaits gives  *)
(* its worker back; a scenario VU whose first step can never be injected  *)
(* has nothing to await and keeps one until it sees its token.            *)
(***************************************************************************)
EXTENDS LoadCurve, FiniteSets, Metrics

CONSTANTS
    Stages,       \* the curve of this run
    ScenarioMode, \* scenario VUs: records of skipped steps occur
    DrainMayPanic, \* whether the drain task can die of a panic
    Workers,      \* worker threads of the runtime
    Doomed,       \* scenario VUs whose first step can never be injected
    Slack,        \* bound: how long after the end of the curve time goes on
    MaxRecords    \* bound: records emitted in a run; the server is silent then

ASSUME CurveAssumption ==
    /\ Stages \in Seq(Stage) /\ Valid(Stages)
    /\ ScenarioMode \in BOOLEAN /\ DrainMayPanic \in BOOLEAN
    /\ Workers \in Nat \ {0} /\ Doomed \subseteq Nat /\ (Doomed # {} => ScenarioMode)
    /\ Slack \in Nat /\ MaxRecords \in Nat

VARIABLES
    now,       \* time since run_start
    clock,     \* the instant up to which the runtime's timer has fired
    due,       \* the ticker's next deadline; missed ones are made up for
    pressed,   \* Ctrl-C was pressed
    cancelled, \* the parent token
    vu,        \* sequence: state of each VU spawned so far
    token,     \* sequence: whether that VU's own token is cancelled
    handles, excess, \* sequences of VU numbers
    chan,      \* records [outcome, done]: done is completed_at
    txHeld,    \* the coordinator still holds its sender
    drain, acc, \* the drain task; its counters, overall and per stage
    co,        \* where the coordinator stands
    result,    \* what execute() returned
    answered   \* history: stage -> records completed while it was current

env == <<now, clock, pressed, cancelled>>
pool == <<vu, token, handles, excess>>
queue == <<chan, answered>>
sink == <<drain, acc>>
main == <<due, txHeld, co, result>>
vars == <<env, pool, queue, sink, main>>

StageNumbers == DOMAIN Stages
EndOfTime == TotalDuration(Stages) + Slack

\* Of skipped records a stage has no count of its own.
StageStats == [total : Nat, failed : Nat, sampled : Nat]

EmptyStageStats == [total |-> 0, failed |-> 0, sampled |-> 0]

EmptyAcc == [all |-> EmptyStats, stage |-> [i \in StageNumbers |-> EmptyStageStats]]

Init ==
    /\ now = 0 /\ clock = 0 /\ due = 0
    /\ pressed = FALSE /\ cancelled = FALSE
    /\ vu = <<>> /\ token = <<>>
    /\ handles = <<>> /\ excess = <<>>
    /\ chan = <<>> /\ txHeld = TRUE
    /\ drain = "recv" /\ acc = EmptyAcc
    /\ co = "loop"
    /\ result = [kind |-> "pending", acc |-> EmptyAcc]
    /\ answered = [i \in StageNumbers |-> 0]

\* A worker can be had: no task holds it.
Free == Cardinality({v \in DOMAIN vu : vu[v] = "spinning"}) < Workers

-----------------------------------------------------------------------------
(* The coordinator's loop *)

\* All tokens of a list are cancelled before the first of its VUs is awaited.
CancelTokens(list) ==
    token' = [v \in DOMAIN token |-> token[v] \/ \E i \in DOMAIN list : list[i] = v]

\* Mutant of SpawnVUs: the new VUs get no token of their own.
SpawnWithoutToken(n) ==
    /\ vu' = vu \o [i \in 1..n |-> "ready"]
    /\ handles' = handles \o [i \in 1..n |-> Len(vu) + i]
    /\ UNCHANGED <<token, excess, co>>

SpawnVUs(n) ==
    /\ vu' = vu \o [i \in 1..n |-> "ready"]
    /\ token' = token \o [i \in 1..n |-> FALSE]
    /\ handles' = handles \o [i \in 1..n |-> Len(vu) + i]
    /\ UNCHANGED <<excess, co>>

\* Mutant of RetireState: the excess is cancelled but not waited for.
RetireAndGoOn == "loop"

RetireState == "retiring"

\* Mutant of CancelledOf: cancels from the front of the list, drains the tail.
CancelledFront(n) == SubSeq(handles, 1, n)

CancelledOf(n) == SubSeq(handles, Len(handles) - n + 1, Len(handles))

\* The n most recent VUs leave the list, are cancelled and awaited.
RetireVUs(n) ==
    /\ excess' = excess \o SubSeq(handles, Len(handles) - n + 1, Len(handles))
    /\ handles' = SubSeq(handles, 1, Len(handles) - n)
    /\ CancelTokens(CancelledOf(n))
    /\ co' = RetireState
    /\ UNCHANGED vu

\* Leaving the loop: every remaining VU is cancelled, then awaited.
Close ==
    /\ co' = "closing"
    /\ CancelTokens(handles)
    /\ excess' = handles
    /\ handles' = <<>>
    /\ UNCHANGED vu

CurveOver == now >= TotalDuration(Stages)

Tick ==
    /\ co = "loop"
    /\ due <= IF Free THEN now ELSE clock
    /\ clock' = IF Free THEN now ELSE clock
    /\ due' = due + 1
    /\ LET target  == TargetVusAt(Stages, now)
           current == Len(handles)
       IN  IF CurveOver THEN Close
           ELSE \/ target > current /\ SpawnVUs(target - current)
                \/ target < current /\ RetireVUs(current - target)
                \/ target = current /\ UNCHANGED <<vu, token, handles, excess, co>>
    /\ UNCHANGED <<now, pressed, cancelled, queue, sink, txHeld, result>>

\* The other branch of the loop's select!.
ParentCancelled ==
    /\ co = "loop"
    /\ cancelled
    /\ Close
    /\ UNCHANGED <<env, queue, sink, due, txHeld, result>>

\* One more handle of the list has been joined.
JoinVU ==
    /\ co \in {"retiring", "closing"}
    /\ excess # <<>>
    /\ vu[Head(excess)] = "exited"
    /\ excess' = Tail(excess)
    /\ UNCHANGED <<env, vu, token, handles, queue, sink, main>>

\* Scale-down is over: back to the select!.
ResumeLoop ==
    /\ co = "retiring"
    /\ excess = <<>>
    /\ co' = "loop"
    /\ UNCHANGED <<env, pool, queue, sink, due, txHeld, result>>

DropSender ==
    /\ co = "closing"
    /\ excess = <<>>
    /\ txHeld' = FALSE
    /\ co' = "draining"
    /\ UNCHANGED <<env, pool, queue, sink, due, result>>

JoinDrain ==
    /\ co = "draining"
    /\ drain \in {"done", "panicked"}
    /\ result' = IF drain = "done" THEN [kind |-> "stats", acc |-> acc]
                                   ELSE [kind |-> "error", acc |-> EmptyAcc]
    /\ co' = "returned"
    /\ UNCHANGED <<env, pool, queue, sink, due, txHeld>>

-----------------------------------------------------------------------------
(* The virtual users *)

Emitted == acc.all.total + Len(chan)

\* The stage whose half-open interval contains the present instant, the last
\* one after the end: stated without the executor's loop.
StageNow ==
    IF CurveOver THEN Len(Stages)
    ELSE CHOOSE i \in StageNumbers :
            EndOf(Stages, i) - Stages[i].duration <= now /\ now < EndOf(Stages, i)

\* A send to a receiver that is gone leaves nothing behind.
SendFails == drain = "panicked" /\ UNCHANGED <<chan, answered>>

Send(outcome) ==
    /\ drain # "panicked"
    /\ Emitted < MaxRecords
    /\ chan' = Append(chan, [outcome |-> outcome, done |-> now])
    /\ answered' = [answered EXCEPT ![StageNow] = @ + 1]

\* A plain VU starts its next request without a look at its token.
Dispatch(v) ==
    /\ vu[v] = "ready" /\ v \notin Doomed
    /\ ~(ScenarioMode /\ token[v])
    /\ Free
    /\ vu' = [vu EXCEPT ![v] = "inflight"]
    /\ UNCHANGED <<env, token, handles, excess, queue, sink, main>>

\* A doomed VU gets a worker and will not give it back.
Spin(v) ==
    /\ vu[v] = "ready" /\ v \in Doomed
    /\ ~token[v]
    /\ Free
    /\ vu' = [vu EXCEPT ![v] = "spinning"]
    /\ UNCHANGED <<env, token, handles, excess, queue, sink, main>>

\* A scenario VU emits a record for a step it does not send; a doomed one
\* does nothing else.
Skip(v) ==
    /\ ScenarioMode
    /\ \/ vu[v] = "ready" /\ v \notin Doomed /\ Free
       \/ vu[v] = "spinning"
    /\ ~token[v]
    /\ Send("skipped") \/ SendFails   \* emit_skipped ignores the error
    /\ UNCHANGED <<env, pool, sink, main>>

Complete(v, outcome) ==
    /\ vu[v] = "inflight"
    /\ Free
    /\ \/ Send(outcome) /\ vu' = [vu EXCEPT ![v] = "ready"]
       \/ SendFails /\ vu' = [vu EXCEPT ![v] = "exited"]
    /\ UNCHANGED <<env, token, handles, excess, sink, main>>

\* Mutant of CancelPoints: the request is awaited outside of select!.
CancelBetweenRequests == IF ScenarioMode THEN {"ready", "spinning"} ELSE {}

\* Where a VU sees its token: in the select! around the request, and, for a
\* scenario VU, before each step.
CancelPoints == {"inflight"} \cup (IF ScenarioMode THEN {"ready", "spinning"} ELSE {})

ExitVU(v) ==
    /\ token[v]
    /\ vu[v] \in CancelPoints
    /\ Free \/ vu[v] = "spinning"
    /\ vu' = [vu EXCEPT ![v] = "exited"]
    /\ UNCHANGED <<env, token, handles, excess, queue, sink, main>>

-----------------------------------------------------------------------------
(* The drain task *)

\* Mutant of StageOf: attributes a record to the stage it is drained in.
StageOfDrain(record) == StageIndexAt(Stages, now)

StageOf(record) == StageIndexAt(Stages, record.done)

\* Every record counts in the total of its stage, a skipped one nowhere else.
RecordInStage(s, outcome) ==
    [total   |-> s.total + 1,
     failed  |-> IF outcome = "failed" THEN s.failed + 1 ELSE s.failed,
     sampled |-> IF outcome = "skipped" THEN s.sampled ELSE s.sampled + 1]

Receive ==
    /\ drain = "recv"
    /\ Free
    /\ chan # <<>>
    /\ LET r == Head(chan) IN
        acc' = [all   |-> RecordRequest(acc.all, r.outcome),
                stage |-> [acc.stage EXCEPT ![StageOf(r)] = RecordInStage(@, r.outcome)]]
    /\ chan' = Tail(chan)
    /\ UNCHANGED <<env, pool, answered, drain, main>>

\* Mutant of Closed: the drain stops with the coordinator's sender or when it
\* finds the queue empty after the curve.
ClosedAtEnd == CurveOver

Closed == ~txHeld /\ \A v \in DOMAIN vu : vu[v] = "exited"

DrainEnds ==
    /\ drain = "recv"
    /\ chan = <<>>
    /\ Closed /\ Free
    /\ drain' = "done"
    /\ UNCHANGED <<env, pool, queue, acc, main>>

DrainPanics ==
    /\ DrainMayPanic
    /\ drain = "recv" /\ Free
    /\ chan # <<>>
    /\ drain' = "panicked"
    /\ chan' = <<>>
    /\ UNCHANGED <<env, pool, answered, acc, main>>

-----------------------------------------------------------------------------
(* Time and signals *)

\* A worker without work waits for the next timer, or the next signal; while
\* there is none the timer does not fire (see Tick).
TimePasses ==
    /\ now < EndOfTime
    /\ co # "returned"
    /\ now' = now + 1
    /\ clock' = IF Free THEN now' ELSE clock
    /\ UNCHANGED <<pressed, cancelled, pool, queue, sink, main>>

CtrlC ==
    /\ ~pressed
    /\ co # "returned"
    /\ pressed' = TRUE
    /\ UNCHANGED <<now, clock, cancelled, pool, queue, sink, main>>

\* The task that awaits the signal.
CancelParent ==
    /\ pressed /\ ~cancelled
    /\ Free
    /\ cancelled' = TRUE
    /\ UNCHANGED <<now, clock, pressed, pool, queue, sink, main>>

-----------------------------------------------------------------------------
CoordinatorStep ==
    \/ Tick \/ ParentCancelled \/ JoinVU \/ ResumeLoop \/ DropSender \/ JoinDrain

DrainStep == Receive \/ DrainEnds \/ DrainPanics

Answer(v) == \E outcome \in {"ok", "failed"} : Complete(v, outcome)

Finished == co = "returned" /\ UNCHANGED vars

Next ==
    \/ CoordinatorStep
    \/ DrainStep
    \/ \E v \in DOMAIN vu : Dispatch(v) \/ Spin(v) \/ ExitVU(v) \/ Skip(v) \/ Answer(v)
    \/ TimePasses
    \/ CtrlC \/ CancelParent
    \/ Finished

Spec == Init /\ [][Next]_vars

\* A VU ends once, and MaxRecords bounds the requests started, so fairness
\* towards all VUs together is fairness towards each.  A select! chooses among
\* its ready branches at random, so a branch that is ready again and again is
\* taken: strong fairness for the exit of a VU.
VUFairness ==
    /\ WF_vars(\E v \in DOMAIN vu : Dispatch(v) \/ Spin(v))
    /\ SF_vars(\E v \in DOMAIN vu : ExitVU(v))

RuntimeFairness ==
    /\ WF_vars(CoordinatorStep)
    /\ WF_vars(DrainStep)
    /\ WF_vars(CancelParent)
    /\ VUFairness

\* Nothing is assumed of the server, nor that time passes.
FairSpec == Spec /\ RuntimeFairness

-----------------------------------------------------------------------------
(* Properties *)

VUNumbers == DOMAIN vu

TypeOK ==
    /\ now \in 0..EndOfTime /\ clock \in 0..now
    /\ due \in 0..(clock + 1)
    /\ pressed \in BOOLEAN /\ cancelled \in BOOLEAN
    /\ vu \in Seq({"ready", "inflight", "spinning", "exited"})
    /\ token \in Seq(BOOLEAN) /\ Len(token) = Len(vu)
    /\ handles \in Seq(VUNumbers) /\ excess \in Seq(VUNumbers)
    /\ chan \in Seq([outcome : Outcomes, done : 0..EndOfTime])
    /\ txHeld \in BOOLEAN
    /\ drain \in {"recv", "done", "panicked"}
    /\ co \in {"loop", "retiring", "closing", "draining", "returned"}

Live == {v \in VUNumbers : vu[v] # "exited"}
Listed(list) == {list[i] : i \in DOMAIN list}

\* However often the curve goes down and up again, there are never more VUs
\* alive than its highest target: replacements are only spawned after the
\* retired ones have ended.  About: the awaited scale-down.
LiveWithinPeak == Cardinality(Live) <= Peak(Stages)

\* The executor takes vu_handles.len() for the number of running VUs.  That is
\* so: a listed VU is alive and not cancelled, a VU that is alive and not
\* listed is one being awaited, and nobody is listed twice.  (If the drain has
\* died the list may hold VUs that ended on their failed send.)
\* About: the handle list, drained at its tail.
ListedAreLive ==
    /\ \A v \in Listed(handles) :
        ~token[v] /\ (vu[v] = "exited" => drain = "panicked")
    /\ Live \subseteq Listed(handles) \cup Listed(excess)
    /\ Cardinality(Listed(handles)) = Len(handles)
    /\ co \in {"draining", "returned"} => Live = {}

\* Every record is attributed to the stage in which its request completed,
\* however late the drain gets to it, and the stages add up to the run.
\* About: completed_at and stage_index_at in the drain task.
StagesAccount ==
    /\ drain # "panicked" => \A i \in StageNumbers :
        acc.stage[i].total
            + Cardinality({n \in DOMAIN chan : StageOf(chan[n]) = i}) = answered[i]
    /\ \A f \in {"total", "failed", "sampled"} :
        acc.all[f] = SumFunction([i \in StageNumbers |-> acc.stage[i][f]])

\* The report holds every record that any VU ever sent; a run whose drain died
\* reports nothing rather than a part.
\* About: the order cancel, join, drop sender, join drain.
ReportComplete ==
    result.kind = "stats" =>
        /\ drain # "panicked" /\ chan = <<>>
        /\ result.acc.all.total = SumFunction(answered)

\* A curve run ends by itself once its time is up, even if the server never
\* answers, and after Ctrl-C without waiting for the curve (time may stand
\* still), also in the midst of a scale-down: no wait of a VU ignores its
\* token, and a VU that only spins keeps its worker no longer than that.
\* About: the loop's exits, the select! of the VUs and the awaited lists.
Ends == (now = EndOfTime \/ pressed) ~> (co = "returned")

\* "Cancellation is polled before every step so a Ctrl-C or curve-driven VU
\* retirement lands within one request" (docs/guides/scenarios-internals.md).
\* Not so when the VUs that spin hold all the workers there are.
CtrlCLands == pressed ~> (\A v \in VUNumbers : vu[v] = "exited")
=============================================================================
